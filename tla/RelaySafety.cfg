CONSTANTS
  Depth = 2
  FrameSize = 2
  MaxBytes = 6
  InCap = 3
  OutCap = 2
  MaxSessions = 2
  MaxConsumers = 2
  MaxSignals = 1
  MayFail = TRUE
SPECIFICATION Spec
INVARIANTS
  ReadyStaysValid
  NeverSleepsOnNothing
  FreedOnce
  NoOutputNoFlow
  FirstSessionKept
PROPERTY
  PoolSpec
CHECK_DEADLOCK FALSE
