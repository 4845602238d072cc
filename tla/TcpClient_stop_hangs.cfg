SPECIFICATION FairSpec
CONSTANTS
  ReconnectEnabled = FALSE
  NEndpoints = 1
  MaxStarts = 1
  MaxStops = 1
  MaxSends = 0
  SyncStart = {FALSE}
  OverlappingCalls = FALSE
PROPERTIES StopReturns
CHECK_DEADLOCK FALSE
