\* Both builds: notifications and acknowledgements, with clients that repeat,
\* delay and reorder their requests, and a class that may not exist.
SPECIFICATION FairSpec
CONSTANTS
  Builds = {TRUE, FALSE}
  One = 2
  InitHigh = 4
  InitLow = 1
  PresentValues = {2, 5}
  Limits = {}
  Deadbands = {}
  Delays = {}
  EnableSets = {{}}
  LimitSets = {}
  NotifyTypes = {}
  ClassIds = {14, 15}
  Classes = {14}
  MaxTime = 2
INVARIANTS
  UnackedUntilCovered
  NoPhantomUnacked
  ReportedStampSuffices
  PollingMissesNothing
PROPERTIES
  AlarmReturnsToNormal
  AckAnnounced
