SPECIFICATION Spec
CONSTANTS
  Path = {a, b}
  Handler = {h1, h2}
  MaxWrite = 2
  MaxOp = 2
  MaxFail = 1
  MaxCrash = 1
SYMMETRY Symmetry
INVARIANTS
  TypeOK
  FolderIsWhole
  NoStaleEntry
  RewoundTurnsAreKept
  DrainIsEnough
CHECK_DEADLOCK FALSE
