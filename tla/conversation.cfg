SPECIFICATION Spec
CONSTANTS
  MaxWindows = 2
  MaxUtterances = 1
  Attempts = 2
  MaxNotices = 1
  MaxSockets = 1
  MaxRefusals = 1
  Tunings = {300, 900}
  Warmup = 300
  Endpointing <- MC_Endpointing
  None = None
VIEW View
CHECK_DEADLOCK FALSE
INVARIANTS HeardWhereSpoken AcknowledgedIsHeard WindowIsHeardAsAsked ReservedWhileInUse NoTurnWithoutEnd
