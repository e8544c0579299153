SPECIFICATION Spec
CONSTANTS
  BITS = 2
  Block = {0, 1}
  BLOCK = 2
  Contents = {"FF", "FE", "00", "01", "02"}
  FirstStore <- MCFirstStore
  Kinds = {"hc", "sc", "old"}
  WAKE = 3
  NCR = 1
  NAC = 2
  INIT_BYTES = 2
  R1_LIMIT = 2
  TOKEN_LIMIT = 2
  Addresses = {0, 1, 2}
  NumberByte <- MCNumberByte
  Buffers <- MCBuffers
INVARIANTS
  BlockWhole
  InStep
  InitTruthful
PROPERTIES
  CallReturns
