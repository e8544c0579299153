SPECIFICATION Spec
CONSTANTS
  BOARD = "20K"
  MAX_OWED = 4
INVARIANTS
  TypeOK
  NoGhost
  NoneLost
PROPERTIES
  PressTaken
