SPECIFICATION Spec
CONSTANTS
  v1 = v1
  v2 = v2
  Ino <- Inos
  Slot <- Slots
  Val <- Values
  Zero = Zero
  Junk = Junk
  NoIno = NoIno
  MaxBlocks = 2
  CacheBlocks = 8
  MaxGhosts = 0
  MaxPending = 2
  Cold <- ColdInos
  MaxExtents = 4
  DataStart = 1
  DiskEnd = 5
  Excuse = {"deleted", "stale", "miss", "full"}
  MaxCalls = 8
SYMMETRY AnyValue
INVARIANTS FlushedSurvives
CHECK_DEADLOCK FALSE
