SPECIFICATION Spec
CONSTANTS
  BOARD = "9K"
  MAX_OWED = 4
INVARIANTS
  NoGhost
