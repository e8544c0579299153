SPECIFICATION Spec
CONSTANTS
  BOARD = "20K"
  SRAM_WORDS = 8192
  Addrs <- MemoryAddrs
  Lane = {0, 1}
  BYTE = 2
  LED_MOD = 2
  RESET_MAX = 2
  FRAME_BITS = 1
  DUMMY_BITS = 1
  WS_CLKS = 3
  SD_CLKS = 4
  CLKS <- MCClks
  CYCLE_MOD = 4
  Peripheral = Peripheral
  Other <- Peripheral
INVARIANTS
  TypeOK
  SramAnswer
PROPERTIES
  AtomicBusSpec
