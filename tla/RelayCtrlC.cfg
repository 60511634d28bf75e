CONSTANTS
  Depth = 2
  FrameSize = 2
  MaxBytes = 5
  InCap = 2
  OutCap = 1
  MaxSessions = 2
  MaxConsumers = 1
  MaxSignals = 1
  MayFail = FALSE
SPECIFICATION FairSpec
PROPERTY SignalEndsCpw
CHECK_DEADLOCK FALSE
