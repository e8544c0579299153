SPECIFICATION Spec
CONSTANTS
  BOARDS = {"BOARD_9K", "BOARD_20K", "BOARD_BOTH"}
  tables <- MCTables
  SCANNED <- MCScanned
  MIN0 = 2147483647
  Clocks = {0, 4500000, 9000000, 9000001}
  Widths = {0, 2, 3}
  Sizes = {3, 17}
  Targets = {1, 6000000, 11000000, 30000000, 573000000}
  None = None
  Cut = Cut
  MAX_MAKES = 2
INVARIANTS
  Nearest
  BuildCoherent
