SPECIFICATION FairSpec
CONSTANTS
  ReconnectEnabled = TRUE
  NEndpoints = 2
  MaxStarts = 2
  MaxStops = 0
  MaxSends = 0
  SyncStart = {TRUE, FALSE}
  OverlappingCalls = TRUE
INVARIANTS TypeOK StoppingHasOneDisconnect
PROPERTIES  Reconnects StartReturns AttemptEnds
CHECK_DEADLOCK FALSE
