CONSTANT MaxSent = 4
SPECIFICATION Spec
INVARIANTS
  CountIsInBounds
  IgnoredDoNotStop
PROPERTIES
  KilledOnlyEarly
  Finishes
CHECK_DEADLOCK FALSE
