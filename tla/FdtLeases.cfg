\* Three devices compete for two entries; the timer may be told of more
\* seconds than a lease lasts.
SPECIFICATION TableSpec
CONSTANTS
  a1 = a1
  a2 = a2
  a3 = a3
  Addresses <- Devices
  NoAddress = NoAddress
  MaxFdEntries = 2
  Grace = 2
  Ttls = {0, 2}
  Elapses = {1, 2, 9}
  AckRoom = 1
  Wire = 100
INVARIANTS
  OneEntryPerDevice
  EntriesExpire
PROPERTIES
  ImplementsRegistry
