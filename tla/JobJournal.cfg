SPECIFICATION FairSpec
CONSTANTS
  Kinds = {"edit", "command"}
  MaxCalls = 2
  MaxReply = 1
  MaxTurn = 4
  MaxCrash = 3
  MaxFail = 1
  Moves = {"failover", "takeover"}
  MaxMove = 1
  MaxTrouble = 3
INVARIANTS
  TypeOK
  NotRepeated
  WrittenAhead
  EveryCallAnswered
  AnswersAreHonest
PROPERTIES
  EveryJobEnds
CHECK_DEADLOCK FALSE
