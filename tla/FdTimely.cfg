\* One registration in a row and any result may be lost, all may be
\* duplicated.  Renewals every 2 s, leases of 7 s; two devices, one entry.
SPECIFICATION Spec
CONSTANTS
  Addresses = {d1, d2}
  NoAddress = NoAddress
  MaxFdEntries = 1
  Grace = 3
  Bbmds = {b1}
  NoBbmd = NoBbmd
  SafeTime = 2
  Ttls = {4}
  Wire = 16
  Outcomes = {"sent"}
  MaxLag = 1
  Timely = TRUE
  MaxLosses = 1
  Duplicates = TRUE
  Faults = {}
  MaxInFlight = 3
SYMMETRY Interchangeable
INVARIANTS
  KeepsItsEntry
  NeverReliesOnGrace
  DistributesSomewhere
