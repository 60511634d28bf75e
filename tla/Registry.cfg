CONSTANTS
  Pipe = {p1, p2, p3, p4, p5}
  NULL = NULL
  HashValue <- MCHashValue
  HASH_INITIAL_NUM_BUCKETS = 1
  HASH_BKT_CAPACITY_THRESH = 1
  MaxReopens = 1
SPECIFICATION Spec
SYMMETRY Symmetry
INVARIANTS
  Fsck
  ChainsAreBounded
  PipesFreedOnce
CHECK_DEADLOCK FALSE
