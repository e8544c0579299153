SPECIFICATION Spec
CONSTANTS
  PC_MOD = 4
  PROGADDR_IRQ = 2
  Kinds <- ProgramKinds
  Irqs = {1, 2, 3}
  Sources = {3}
  TIMER_MAX = 0
  SHIFTS = 1
INVARIANTS
  TypeOK
  Asserts
  InOrder
  DecodedWhole
  InterruptsBetween
  FaultFirst
PROPERTIES
  BusProtocol
  NoInterruptLost
