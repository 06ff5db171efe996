SPECIFICATION FairSpec
CONSTANTS
  Callbacks = {b1}
  Dials = {d1}
  Ceiling = 1
  MaxLosses = 1
  MaxExits = 1
  MaxStops = 1
  MaxTroubles = 2
  None = None
  MaxCalls = 4
  MaxNewer = 1
  Fields = {k1, k2}
  Unfiltered = Unfiltered
  MaxLimit = 2
CHECK_DEADLOCK FALSE
INVARIANTS AdmittedWithinCeiling RecordsMatchDisk
PROPERTIES OnlyExpiredRemoved NeverResurrected RecordingsExpire
