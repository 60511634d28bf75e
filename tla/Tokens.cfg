CONSTANTS
  NoToken = NoToken
  CPW_CONFIG_MAX_LINE_TOKEN = 5
  CPW_CONFIG_MAX_TAG_LENGTH = 7
  CPW_CONFIG_MAX_LINE_LENGTH = 16
  Files <- MCFiles
  MaxText = 5
SPECIFICATION Spec
INVARIANTS
  WrittenIsRead
  TokensAreWords
  LinesAreCounted
  StaysInArrays
CHECK_DEADLOCK FALSE
