SPECIFICATION Spec
CONSTANTS
  Turn = {t1}
  NoTurn = NoTurn
  Kinds = {"http"}
  MaxEmit = 2
  MaxSteer = 0
  MaxStop = 1
INVARIANT
  StoppedStaysClosed
CHECK_DEADLOCK FALSE
