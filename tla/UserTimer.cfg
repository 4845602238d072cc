SPECIFICATION FairSpec
CONSTANTS
  Keys = {k1, k2}
  Cycles <- MCCycles
  MaxStarts = 2
  MaxStops = 2
  RunCap = 3
  NoTimer = NoTimer
INVARIANTS
  RegisteredIsArmed
  UnregisteredHasExited
  
PROPERTIES
  LeavesAfterItsCycles
  StoppedComesToRest
CHECK_DEADLOCK FALSE
