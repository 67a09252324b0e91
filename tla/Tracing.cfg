CONSTANTS
  Trees <- MCTrees
  Api <- MCApi
  OpenTelemetry <- MCOpenTelemetry
  Allowed <- MCAllowed
  None = None
  MaxClients = 2
  MaxSpans = 2
  MaxErrors = 2
SPECIFICATION FairSpec
INVARIANT CheckedTreesReport
INVARIANT DuplicatesAccounted
INVARIANT ErrorsWhereTheyBelong
PROPERTY SentErrorsReported
CHECK_DEADLOCK FALSE
