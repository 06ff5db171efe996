SPECIFICATION OutcomeFairSpec
CONSTANTS
  Calls = {c1, c2}
  Limit = 2
  Batch = 1
  MaxEnables = 1
  MaxRestarts = 1
  MaxStoreFailures = 1
CHECK_DEADLOCK FALSE
PROPERTIES ImplementsOutbox OutcomesSettle
