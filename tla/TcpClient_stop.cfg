SPECIFICATION Spec
CONSTANTS
  ReconnectEnabled = TRUE
  NEndpoints = 1
  MaxStarts = 2
  MaxStops = 2
  MaxSends = 0
  SyncStart = {TRUE, FALSE}
  OverlappingCalls = FALSE
INVARIANTS AssertionsHold OneOpPerKind OneEventAtATime
PROPERTIES ConnectNotifiedOnce
CHECK_DEADLOCK FALSE
