CONSTANTS
  None = None
  Numbers <- TheNumbers
  Directory <- TheDirectory
  URLs <- TheURLs
  Requestable <- TheRequestable
  Paths <- TwoPaths
  Processes <- TheProcesses
SPECIFICATION FairSpec
CHECK_DEADLOCK FALSE
INVARIANTS
  SentWithConsent
  AgentAgrees
  StartedOnlyLate
  FailuresSurvived
PROPERTIES
  DiagnoseEnds
