--------------------------- MODULE MCTimeMachine ---------------------------
(* Instances of TimeMachine for TLC: one folder, requests from two windows. *)
(* Files and requests are interchangeable: no definition names one of them. *)
EXTENDS TimeMachine

Symmetry == Permutations(Path) \cup Permutations(Handler)
=============================================================================
