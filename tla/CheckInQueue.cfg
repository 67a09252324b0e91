CONSTANTS
  c1 = c1
  c2 = c2
  c3 = c3
  Identifiers = {"backup", "report"}
  Crons = {c1, c2, c3}
  CronIdentifier <- TwoBackupsOneReport
  Heartbeats = {"report"}
  MaxEvents = 5
SPECIFICATION FairSpec
INVARIANTS
  ArrayIsQueue
  LoopsDeduplicate
PROPERTY
  LoopsEnd
