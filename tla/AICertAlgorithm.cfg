\* The certification build: algorithm and delay, every configuration write.
SPECIFICATION Spec
CONSTANTS
  Builds = {TRUE}
  One = 2
  InitHigh = 5
  InitLow = 1
  PresentValues = {0, 3, 4, 6}
  Limits = {1, 5}
  Deadbands = {0, 1}
  Delays = {0, 2}
  EnableSets <- NoWrites
  LimitSets <- LimitChoices
  NotifyTypes = {"ALARM"}
  ClassIds = {14}
  Classes = {14}
  MaxTime = 1
INVARIANTS
  SettlesWithinDelay
