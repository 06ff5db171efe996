SPECIFICATION Spec
CONSTANTS
  Calls = {c1}
  Ceiling = 1
  Evidence = {e1}
  None = None
  Conversational = FALSE
  MaxChanges = 0
  MaxDrops = 0
  MaxCrashes = 0
  MaxStoreFailures = 0
CHECK_DEADLOCK FALSE
INVARIANT NoOrphanChannel
