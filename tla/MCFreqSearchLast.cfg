SPECIFICATION Spec
CONSTANTS
  BOARDS = {"BOARD_9K", "BOARD_20K", "BOARD_BOTH"}
  tables <- MCTables
  SCANNED <- MCScanned
  MIN0 = 2147483647
  Clocks = {9000000}
  Widths = {2}
  Sizes = {3}
  Targets = {594000000, 621000000}
  None = None
  Cut = Cut
  MAX_MAKES = 0
INVARIANT
  Nearest
