SPECIFICATION FairSpec
CONSTANTS
  Calls = {c1}
  Ceiling = 1
  Evidence = {e1}
  None = None
  Conversational = TRUE
  MaxChanges = 0
  MaxDrops = 1
  MaxCrashes = 1
  MaxStoreFailures = 1
CHECK_DEADLOCK FALSE
INVARIANT OrphanWasOverlooked
PROPERTIES TerminalIsFinal EveryCallEnds DialingReopens
