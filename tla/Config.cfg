CONSTANTS
  NoToken = NoToken
  Tag <- MCTag
  Key <- MCKey
  Name <- MCName
  Files <- MCFiles
  MaxLines = 4
  MaxBlocks = 3
SPECIFICATION Spec
INVARIANTS
  SyntaxDecides
  BlocksEndAtTheirTag
  ListsAreTheFiles
  FirstErrorIsTheFirst
  LogicErrorsAreTheFiles
CHECK_DEADLOCK FALSE
