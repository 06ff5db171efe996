SPECIFICATION FairSpec
CONSTANTS
  Phones = {p1, p2}
  Singapore = {p1, p2}
  Subjects = {p1}
  Validity = 1
  MaxTime = 1
  MaxRecords = 3
  MaxRestarts = 1
  MaxStoreFailures = 1
  BatchSize = 1
  MaxAsks = 2
  Lists = {{p1}, {p1, p2}}
  None = None
CHECK_DEADLOCK FALSE
INVARIANTS OptOutStands RestartDecidesAlike
PROPERTIES NoCreditTwice RunsEnd
