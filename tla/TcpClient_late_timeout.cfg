SPECIFICATION FairSpec
CONSTANTS
  ReconnectEnabled = TRUE
  NEndpoints = 1
  MaxStarts = 1
  MaxStops = 0
  MaxSends = 0
  SyncStart = {FALSE}
  OverlappingCalls = FALSE
PROPERTIES ClosedIsNoticed
CHECK_DEADLOCK FALSE
