---------------------------- MODULE AtomicTree ----------------------------
(***************************************************************************)
(* What a step transaction promises (runtime/transaction.rs, the module's  *)
(* own account): a step's edits reach the project all at once or not at    *)
(* all, and only over files that still hold what the step started from.    *)
(* No journal, no pre-image, no crash: a step that is lost has simply      *)
(* never happened.                                                         *)
(***************************************************************************)
CONSTANTS File, Value, Untouched, Turn

VARIABLES
  tree,   \* the project
  base,   \* per turn: what the step found in each file it names
  edits   \* per turn: what the step will put there

vars == <<tree, base, edits>>

Nothing == [f \in File |-> Untouched]
Overlay(old, new) == [f \in File |-> IF new[f] = Untouched THEN old[f] ELSE new[f]]

Init ==
  /\ tree \in [File -> Value]
  /\ base = [t \in Turn |-> Nothing]
  /\ edits = [t \in Turn |-> Nothing]

Forget(t) ==
  /\ base' = [base EXCEPT ![t] = Nothing]
  /\ edits' = [edits EXCEPT ![t] = Nothing]

Stage(t, f, v) ==
  /\ base' = [base EXCEPT ![t][f] = IF @ = Untouched THEN tree[f] ELSE @]
  /\ edits' = [edits EXCEPT ![t][f] = v]
  /\ UNCHANGED tree

(* Every edit of the step in one instant, over the base it was made from.  *)
Commit(t) ==
  /\ \A f \in File : edits[t][f] # Untouched => tree[f] = base[t][f]
  /\ tree' = Overlay(tree, edits[t])
  /\ Forget(t)

Abandon(t) ==
  /\ Forget(t)
  /\ UNCHANGED tree

AbandonAll ==
  /\ base' = [t \in Turn |-> Nothing]
  /\ edits' = [t \in Turn |-> Nothing]
  /\ UNCHANGED tree

PersonEdit(f, v) ==
  /\ tree' = [tree EXCEPT ![f] = v]
  /\ UNCHANGED <<base, edits>>

Next ==
  \/ \E t \in Turn : Commit(t) \/ Abandon(t)
  \/ \E t \in Turn, f \in File, v \in Value : Stage(t, f, v)
  \/ AbandonAll
  \/ \E f \in File, v \in Value : PersonEdit(f, v)

Spec == Init /\ [][Next]_vars
=============================================================================
