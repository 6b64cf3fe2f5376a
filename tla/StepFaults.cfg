CONSTANTS
  c1 = c1
  c2 = c2
  t1 = t1
  t2 = t2
  t3 = t3
  Absent = Absent
  Untouched = Untouched
  File <- MCOneFile
  Content <- MCContent
  Turn <- MCTurn
  MaxSteps = 2
  Races <- IoAndWait
SPECIFICATION Spec
INVARIANT NothingLeftBehind
PROPERTY CommitKeepsUnseenWork
SYMMETRY TurnSymmetry
CHECK_DEADLOCK FALSE
