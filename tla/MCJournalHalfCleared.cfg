SPECIFICATION Spec
CONSTANTS
  a = a
  b = b
  Blank = Blank
  Loc <- MCLoc
  Val <- MCVal
  Extents <- MCExtents
  MaxEntries = 6
  Reserve = 1
  Windows = {"halfCleared"}
  MaxTx = 5
  MaxCrash = 2
INVARIANTS CommitIsDurable
CHECK_DEADLOCK FALSE
