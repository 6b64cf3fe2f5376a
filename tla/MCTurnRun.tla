----------------------------- MODULE MCTurnRun -----------------------------
(* Instances of TurnRun for TLC: one or two turns of a chat.               *)
EXTENDS TurnRun
=============================================================================
