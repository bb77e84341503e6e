\* Two devices, lists with an address, the scan every 2 s, bindings of 2 to 3 s.
SPECIFICATION FairSpec
CONSTANTS
  d1 = d1  d2 = d2  a1 = a1  a2 = a2
  Devices = {d1, d2}
  Addresses = {a1, a2}
  NoAddress = NoAddress
  NoDevice = NoDevice
  Start <- StartAddress
  RecipientLists <- WrittenLists
  Rescan = 2
  BindingTime = 2
  TimeToLive = 2
  MaxLag = 2
  Moving = {d1}
INVARIANTS
  AskedInTime
  BindingsAge
PROPERTIES
  RecipientsGetBound
