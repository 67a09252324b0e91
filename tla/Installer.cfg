CONSTANTS
  cloudfront = cloudfront
  fastly = fastly
  None = None
  MIRRORS <- TwoMirrors
  Hosts <- WithFreeBSD
  Envs <- AllEnvs
  MaxRuns = 2
SPECIFICATION FairSpec
CHECK_DEADLOCK FALSE
INVARIANTS
  ReportTellsTruth
  RemoteInstallLoads
  NothingUnverified
  GivesUpLast
PROPERTIES
  InstallEnds
