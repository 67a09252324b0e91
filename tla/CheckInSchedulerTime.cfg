CONSTANTS
  c1 = c1
  c2 = c2
  Identifiers = {"backup"}
  Crons = {}
  CronIdentifier <- NoRuns
  Heartbeats = {"backup"}
  InitialDebounce = 1
  BetweenDebounce = 3
  MaxSkew = 1
  Settlements = {"request error", "type error"}
  MaxAwaited = 2
  MaxEvents = 3
  Horizon = 3
SPECIFICATION FairSpec
INVARIANTS
  ShutdownDelivers
  OutcomeLogged
PROPERTIES
  TransmissionsSpaced
  DeadlineKept
  QueueDrains
