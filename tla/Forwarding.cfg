\* Two subnets, one with a BBMD and a device, one with a BBMD, and a foreign device.
SPECIFICATION FairSpec
CONSTANTS
  b1 = b1  b2 = b2  d1 = d1  f1 = f1
  Bbmds = {b1, b2}
  Devices = {d1}
  Foreign = {f1}
  NoHost = NoHost
  NoEntry = NoEntry
  SubnetOf <- OnSubnets
  MaxBbmdEntries = 3
  Messages <- BdtMessages
  Additions <- AddedEntries
  Restarting = {b1}
  MaxChanges = 1
  Buffer = 2
INVARIANTS TypeOK OnceOnSubnets ReachesEverybody BackupCurrent
PROPERTY ComesToRest
