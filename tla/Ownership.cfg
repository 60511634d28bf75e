CONSTANTS
  CPW_CONFIG_MAX_LINE_TOKEN = 1
  MaxMade = 2
  Rooms <- MCRooms
SPECIFICATION Spec
INVARIANTS
  HeldIsLive
PROPERTIES
  LossesAreKnown
CHECK_DEADLOCK FALSE
