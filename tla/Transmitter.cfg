CONSTANTS
  MAX_REDIRECTS = 20
  Statuses <- SomeStatuses
  Locations = {"none", "location", "absolute", "relative"}
  Urls = {"valid", "invalid"}
SPECIFICATION FairSpec
INVARIANTS
  RedirectLimit
PROPERTY
  SettlesUnlessCut
