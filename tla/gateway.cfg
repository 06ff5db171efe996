SPECIFICATION FairSpec
CONSTANTS
  Commands = {o1, k1}
  Originates = {o1}
  ForeignJobs = {f1}
  MaxSockets = 3
  SeenLimit = 1
  EarlyLimit = 1
  MaxCores = 2
  MaxCopies = 1
  None = None
  Bodies <- SampleBodies
  MaxStream = 2
CHECK_DEADLOCK FALSE
INVARIANTS CommandsRunAsReported EventsCountOnce ResultIsTold
PROPERTY EveryCommandSettles
