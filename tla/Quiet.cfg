CONSTANTS
  CommandLines <- MCCommandLines
  INT_MAX = 2047
  MaxOptions = 3
  Depths <- MCDepths
  MaxDepth = 4
SPECIFICATION Spec
INVARIANT
  QuietIsQuiet
CHECK_DEADLOCK FALSE
