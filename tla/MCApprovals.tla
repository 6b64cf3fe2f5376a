---- MODULE MCApprovals ----
EXTENDS Approvals, TLC
CONSTANTS s1, s2, d1, q1, q2

MCDeviceOf == [s \in Screen |-> d1]
====
