SPECIFICATION Spec
CONSTANTS
  BOARD = "9K"
  SRAM_WORDS = 8192
  Addrs <- FlashAddrs
  Lane = {0, 1}
  BYTE = 1
  LED_MOD = 1
  RESET_MAX = 2
  FRAME_BITS = 2
  DUMMY_BITS = 3
  WS_CLKS = 3
  SD_CLKS = 4
  CLKS <- MCClks
  CYCLE_MOD = 4
  Peripheral = Peripheral
  Other <- Peripheral
INVARIANTS
  EffectOnce
  Settled
PROPERTIES
  EveryRequestAnswered
