SPECIFICATION Spec
CONSTANTS
  Calls = {c1, c2}
  Ceiling = 1
  Evidence = {e1}
  None = None
  Conversational = FALSE
  MaxChanges = 1
  MaxDrops = 1
  MaxCrashes = 1
  MaxStoreFailures = 0
CHECK_DEADLOCK FALSE
SYMMETRY CallSymmetry
VIEW View
INVARIANT TrunkCeiling
PROPERTY DialIsRecorded
