CONSTANTS
  a = a
  h1 = h1
  Path = {a}
  Handler = {h1}
  MaxWrite = 2
  MaxOp = 0
  MaxFail = 0
  MaxCrash = 0
SPECIFICATION Spec
INVARIANT EveryChangeKeepsItsRow
CHECK_DEADLOCK FALSE
