SPECIFICATION Spec
CONSTANTS
  k1 = k1
  k2 = k2
  k3 = k3
  Key <- Keys
  NoKey = NoKey
  MaxBytes = 2
  MaxGhosts = 1
  Sizes = {0, 1, 3}
  MaxQueue = 3
  MaxReport = 2
SYMMETRY AnyKey
INVARIANTS TypeOK EveryEntryEvictable UsedIsSum PeekIsNextVictim
PROPERTIES NoSilentEviction AdmissionRespectsCeiling
