SPECIFICATION FairSpec
CONSTANTS
  Turn = {t1}
  NoTurn = NoTurn
  Kinds = {"cli", "stdin", "http", "agent"}
  MaxEmit = 2
  MaxSteer = 2
  MaxStop = 1
INVARIANTS
  TypeOK
  WritingIsRegistered
  SteeredInOrder
  EndsOnce
  WaitIsReleasable
  QuietChat
PROPERTY
  StopEnds
CHECK_DEADLOCK FALSE
