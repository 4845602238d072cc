SPECIFICATION Spec
CONSTANTS
  Keys = {k1}
  Cycles <- MCCycles
  MaxStarts = 2
  MaxStops = 0
  RunCap = 3
  NoTimer = NoTimer
CHECK_DEADLOCK FALSE
INVARIANTS
  StartedForeverStays
