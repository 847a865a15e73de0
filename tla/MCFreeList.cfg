SPECIFICATION Spec
CONSTANTS
  f1 = f1
  f2 = f2
  f3 = f3
  Holder <- Files
  Sizes = {1, 2, 3, 5}
  DataStart = 2
  Sector = 2
  MaxExtents = 3
  DiskEnd = 12
SYMMETRY AnyFile
INVARIANTS TypeOK NoDoubleAllocation Coalesced SweepIsMerge RebuildIsComplement
PROPERTIES ImplementsStore LossIsBounded
