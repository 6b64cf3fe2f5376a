------------------------------ MODULE MCHandoff ------------------------------
EXTENDS Handoff

Symmetry == Permutations(Screen)
=============================================================================
