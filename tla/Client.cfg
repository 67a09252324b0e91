CONSTANTS
  c1 = c1
  c2 = c2
  Identifiers = {"backup"}
  Crons = {c1}
  CronIdentifier <- OneRunsBackup
  Heartbeats = {"backup"}
  InitialDebounce = 1
  BetweenDebounce = 1
  MaxSkew = 0
  Settlements = {"2xx"}
  MaxAwaited = 2
  MaxEvents = 2
  Horizon = 0
  MaxClients = 2
  MaxStops = 2
SPECIFICATION FairClientSpec
CHECK_DEADLOCK FALSE
INVARIANTS
  CronReportsTruthful
PROPERTIES
  ImplementsScheduler
  AgentStopsLast
  StopSettles
