SPECIFICATION Spec
CONSTANTS
  a = a
  b = b
  Blank = Blank
  Loc <- MCLoc
  Val <- MCVal
  Extents <- MCExtents
  MaxEntries = 6
  Reserve = 1
  Windows = {"halfOpenTx"}
  MaxTx = 5
  MaxCrash = 2
PROPERTIES UncommittedNeverReplayed
CHECK_DEADLOCK FALSE
