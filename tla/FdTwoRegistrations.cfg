\* An application that registers twice.
SPECIFICATION Spec
CONSTANTS
  Addresses = {d1}
  NoAddress = NoAddress
  MaxFdEntries = 1
  Grace = 2
  Bbmds = {b1}
  NoBbmd = NoBbmd
  SafeTime = 2
  Ttls = {4}
  Wire = 16
  Outcomes = {"sent"}
  MaxLag = 1
  Timely = TRUE
  MaxLosses = 0
  Duplicates = FALSE
  Faults = {}
  MaxInFlight = 3
PROPERTIES
  SuccessStartsTimer
