---------------------------- MODULE MCJobJournal ----------------------------
(* Instances of JobJournal for TLC: one task, resumed until it is given up. *)
EXTENDS JobJournal
=============================================================================
