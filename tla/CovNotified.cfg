\* Every object has one subscriber, every client a place for its address.
SPECIFICATION FairSpec
CONSTANTS
  c1 = c1
  c2 = c2
  o1 = o1
  o2 = o2
  NoAddress = NoAddress
  Contexts <- OwnObjects
  Lifetimes = {1}
  Confirmations = {TRUE, FALSE}
  Elapses = {1}
  MaxSubscriptions = 2
  MaxAddresses = 2
  InvokeIds = {1, 2, 3}
  MaxTransactions = 2
  SendMayFail = FALSE
INVARIANTS
  AddressesTight
  TransactionsOwned
  OneEntryPerContext
  NoChangeForgotten
PROPERTIES
  DefiniteStaysDefinite
  ChangesNotified
