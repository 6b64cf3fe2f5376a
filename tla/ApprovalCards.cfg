CONSTANTS
  s1 = s1
  s2 = s2
  d1 = d1
  q1 = q1
  q2 = q2
  Screen = {s1, s2}
  Device = {d1}
  DeviceOf <- MCDeviceOf
  Question = {q1}
  Dangerous = {}
  Timeout = 2
  Window = 2
  Idle = 1
  Grace = 1
  OnTimeout = "deny"
  GrantMax = 1
  MaxBacklog = 6
  MaxDrop = 2
SPECIFICATION FairSpec
INVARIANT OpenCardsAreShown
PROPERTY EveryRequestEnds
CHECK_DEADLOCK FALSE
