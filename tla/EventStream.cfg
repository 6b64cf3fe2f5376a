SPECIFICATION FairSpec
CONSTANTS
  OldEvents = 1
  MaxEvents = 4
  MaxRefuse = 1
  MaxDrop = 1
  MaxCrash = 1
  MaxReload = 1
INVARIANTS
  TypeOK
  DiskIsLog
  ShownInOrder
  
  NextIsNewSaved
PROPERTY
  Settles
CHECK_DEADLOCK FALSE
