SPECIFICATION Spec
CONSTANTS
  a = a
  b = b
  Blank = Blank
  Loc <- MCLoc
  Val <- MCVal
  Extents <- MCExtents
  MaxEntries = 6
  Reserve = 1
  Windows = {}
  MaxTx = 5
  MaxCrash = 3
INVARIANTS TypeOK TxIdsFresh NoStaleTail CheckpointKeepsRoom CommitIsDurable
PROPERTIES AtomicCommit WriteAhead OperationsFinish
\* An idle file system that nobody asks for anything is a legitimate end;
\* OperationsFinish shows that it is the only one.
CHECK_DEADLOCK FALSE
