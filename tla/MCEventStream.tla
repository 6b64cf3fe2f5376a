--------------------------- MODULE MCEventStream ---------------------------
(* Instances of EventStream for TLC: one turn streaming into one page.     *)
EXTENDS EventStream
=============================================================================
