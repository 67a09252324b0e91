CONSTANTS
  Levels <- MCLevels
  PinoLevels <- MCPinoLevels
  None = None
  noopLogger = noopLogger
  MaxEntries = 3
  MaxClients = 2
SPECIFICATION FairSpec
INVARIANT OnceInOrder
INVARIANT ErrorsStayErrors
PROPERTY WinstonFlows
CHECK_DEADLOCK FALSE
