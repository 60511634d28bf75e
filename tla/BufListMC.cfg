CONSTANTS
  Depth = 3
  FrameSize = 3
  MaxBytes = 21
SPECIFICATION PoolSpec
INVARIANTS
  TypeOK
  Partition
  AlwaysRoom
  InOrder
PROPERTY
  RelaySpec
