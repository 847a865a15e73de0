SPECIFICATION LayersSpec
CONSTANTS
  MaxNameCalls = 6
  NameIno = {2, 3, 4, 6, 7, 8, 9}
  Slot = {0, 1, 2}
  Virtual = {3}
  NameKept <- ReadBack
  Blank = {6}
  Sidecar = {7, 8}
  TagBase = 6
  Lost = {"replaced", "shadowed", "renamed", "demoted", "deleted", "mangled", "tagged"}
  NameCalls <- RequestsOf
  Ino = {2, 3, 4}
  BlockSlots = 2
  MaxInoBlocks = 2
  BlockSize = 1
  MaxSize = 2
  SnapSlot = {0, 1, 2}
  MaxPerFile = 2
  GCThreshold = 3
  GCKeep = 1
  MaxExtents = 3
  DataStart = 1
  DiskEnd = 5
  Excuse = {"freed", "version", "logged", "store", "growth", "tail"}
  MaxCalls = 5
INVARIANTS LookupsAgree NamesAgree NamesSurvive ReadersAgree CrashSafe VersionsHeld
PROPERTIES ImplementsMap
CHECK_DEADLOCK FALSE
