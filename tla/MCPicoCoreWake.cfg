SPECIFICATION Spec
CONSTANTS
  PC_MOD = 4
  PROGADDR_IRQ = 2
  Kinds <- WakeKinds
  Irqs = {0, 3}
  Sources = {3}
  TIMER_MAX = 1
  SHIFTS = 0
PROPERTIES
  NoInterruptLost
  GoesOn
  InterruptTaken
