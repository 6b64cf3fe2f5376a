------------------------- MODULE MCStepTransaction -------------------------
(* Small instances of StepTransaction for TLC.                             *)
EXTENDS StepTransaction, TLC
CONSTANTS c1, c2, t1, t2, t3

MCFile == {1, 2}
MCOneFile == {1}
MCContent == {c1, c2}
MCTurn == {t1, t2}
MCThreeTurns == {t1, t2, t3}

NoRaces == {}
OverlapOnly == {"overlap"}
EditOnly == {"edit"}
WaitOnly == {"wait"}
IoOnly == {"io"}
IoAndWait == {"io", "wait"}

TurnSymmetry == Permutations(MCTurn)
=============================================================================
