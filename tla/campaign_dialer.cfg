SPECIFICATION FairSpec
CONSTANTS
  e1 = e1  e2 = e2  k1 = k1  k2 = k2
  Contacts = {e1, e2}
  Campaigns = {k1}
  Of <- OneCampaign
  MaxAttempts = 2
  Ceiling = 1
  MaxOutside = 1
  MaxControls = 2
  MaxRestarts = 1
  MaxStoreFailures = 1
  MaxEvents = 3
  Cells <- SampleCells
  Phones = {p1, p2}
  Refused = Refused
  MaxTable = 2
CHECK_DEADLOCK FALSE
INVARIANT StopsComeThrough
PROPERTIES RedialsFollowNoAnswer DialsAreWanted CampaignsFinish
