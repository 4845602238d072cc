SPECIFICATION LiveSpec
CONSTANTS
  NSessions = 2
  NThreads = 2
  MaxStarts = 2
  MaxCalls = 1
  EarlyStop = FALSE
INVARIANTS TypeOK AssertionsHold StopReachesEverySession
   TornDownSessionIsDead 
PROPERTIES ConnectedIsNotTimedOut StopReturns
CHECK_DEADLOCK FALSE
