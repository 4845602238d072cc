SPECIFICATION FairSpec
CONSTANTS
  a = a
  b = b
  w1 = w1
  w2 = w2
  NoTask = NoTask
  Nobody = Nobody
  Worker = {w1, w2}
  Logging = {a, b}
  Task <- MCTask
  MaxLogs <- MCMaxLogs
  MaxTicks = 2
INVARIANTS NoLostWakeUp WrittenAsLogged FlushFindsThePool ShutdownLeavesNoThread
PROPERTIES ShutdownReturns UsesThePool
CHECK_DEADLOCK FALSE
