CONSTANTS
  s1 = s1
  s2 = s2
  d1 = d1
  q1 = q1
  q2 = q2
  Screen = {s1}
  Device = {d1}
  DeviceOf <- MCDeviceOf
  Question = {q1, q2}
  Dangerous = {q2}
  Timeout = 1
  Window = 2
  Idle = 1
  Grace = 1
  OnTimeout = "deny"
  GrantMax = 1
  MaxBacklog = 2
  MaxDrop = 1
SPECIFICATION Spec
INVARIANTS AnsweredIsClosed
PROPERTIES AllowHasItsProof
CHECK_DEADLOCK FALSE
