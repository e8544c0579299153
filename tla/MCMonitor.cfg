SPECIFICATION Spec
CONSTANTS
  HALF = 11
  BYTE = 3
  STEP_MAX = 2
  Chars <- MCChars
  Texts <- MCTexts
  BUFLEN = 8
  VAL_DIGITS = 2
  LEN_MOD = 100
  PAGES = 2
  LEDS = 8
  UART_DATA = {12, 13, 14, 15}
  MAX_PRESSES = 1
  MAX_RESETS = 1
  Cycles = {0, 7, 9, 10, 118, 120}
  Counters = {0, 1, 3, 5, 27, 29, 80}
  None = None
INVARIANTS InBuffer CommandMeant NothingTypedLost ReportTrue
PROPERTY LineAnswered
CHECK_DEADLOCK FALSE
