CONSTANTS
  c1 = c1
  c2 = c2
  Identifiers = {"backup"}
  Crons = {c1, c2}
  CronIdentifier <- BothRunBackup
  Heartbeats = {"backup"}
  InitialDebounce = 1
  BetweenDebounce = 1
  MaxSkew = 0
  Settlements = {"2xx"}
  MaxAwaited = 1
  MaxEvents = 4
  Horizon = 0
SYMMETRY Instances
SPECIFICATION Spec
INVARIANTS
  WakerArmed
  QueueHoldsLatest
  NoEventLost
  SentOnce
  BatchesThinned
PROPERTIES
  ImplementsOutbox
