CONSTANTS
  Trees <- MCTrees
  Api <- MCApi
  OpenTelemetry <- MCOpenTelemetry
  Allowed <- MCAllowed
  None = None
  MaxClients = 2
  MaxSpans = 2
  MaxErrors = 2
SPECIFICATION FairSpec
CHECK_DEADLOCK FALSE
INVARIANT DiscardedAfterWarning
