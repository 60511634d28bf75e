CONSTANTS
  n1 = n1
  Node = {n1, n2, n3}
  List = {empty, inuse, args}
  Doubly = {empty, inuse}
  NULL = NULL
  Garbage <- MCGarbage
SPECIFICATION FairSpec
INVARIANTS
  PointersAreLists
  SearchFinds
PROPERTY LoopsEnd
