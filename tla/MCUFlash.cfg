SPECIFICATION Spec
CONSTANTS
  Lane <- MCLane
  CLKS <- MCClks
  CYCLE_MOD = 8
INVARIANTS
  TypeOK
  CountFresh
  LinesCompatible
PROPERTIES
  LineTiming
  RequestUnderLines
