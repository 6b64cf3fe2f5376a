SPECIFICATION Spec
CONSTANTS
  Screen = {s1, s2}
  MaxConn = 3
  MaxPress = 2
  MaxLoss = 1
INVARIANTS TypeOK StampIsCurrent Agreement OneDriverShown
SYMMETRY Symmetry
CHECK_DEADLOCK FALSE
