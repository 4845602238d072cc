SPECIFICATION FairSpec
CONSTANTS
  ReconnectEnabled = FALSE
  NEndpoints = 1
  MaxStarts = 2
  MaxStops = 1
  MaxSends = 1
  SyncStart = {TRUE}
  OverlappingCalls = FALSE
INVARIANTS StopLeavesStopped StopLeavesNoWork
PROPERTIES StopReturnsIfPeerReads
CHECK_DEADLOCK FALSE
