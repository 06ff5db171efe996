SPECIFICATION FairSpec
CONSTANTS
    c0 = c0
    c1 = c1
    c2 = c2
    f0 = f0
    f1 = f1
    None = None
    Clips <- MCClips
    DemoClips <- MCDemoClips
    DemoClip = c0
    Flows <- MCFlows
    DemoFlow = f0
    DemoVersion = 3
    MaxVersions = 4
    MaxQueue = 2
    MaxRequests = 4
    MaxLosses = 1
    MaxExits = 1
    MaxTroubles = 1
    MaxConversions = 1
CHECK_DEADLOCK FALSE
INVARIANTS RecordedBytesExist VersionsStand AcknowledgedIsDurable
PROPERTY UploadsSettle
