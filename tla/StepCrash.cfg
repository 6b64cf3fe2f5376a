CONSTANTS
  c1 = c1
  c2 = c2
  t1 = t1
  t2 = t2
  t3 = t3
  Absent = Absent
  Untouched = Untouched
  File <- MCFile
  Content <- MCContent
  Turn <- MCThreeTurns
  MaxSteps = 1
  Races <- NoRaces
SPECIFICATION Spec
INVARIANT TypeOK
INVARIANT AllOrNothing
PROPERTY KeepsUnseenWork
PROPERTY UndoKeepsCommitted
PROPERTY JournalBeforeTree
PROPERTY ImplementsAtomicTree
CHECK_DEADLOCK FALSE
