\* The BBMD loses its table, the device goes away and comes back.
SPECIFICATION FairSpec
CONSTANTS
  Addresses = {d1}
  NoAddress = NoAddress
  MaxFdEntries = 1
  Grace = 1
  Bbmds = {b1}
  NoBbmd = NoBbmd
  SafeTime = 2
  Ttls = {4}
  Wire = 16
  Outcomes = {"sent", "failed"}
  MaxLag = 1
  Timely = TRUE
  MaxLosses = 1
  Duplicates = TRUE
  Faults = {"device", "bbmd", "delete"}
  MaxInFlight = 3
PROPERTIES
  Relisted
  SilentDevicesAreDropped
