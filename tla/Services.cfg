\* Requests of every kind between the changes of the application.
SPECIFICATION Spec
CONSTANTS
  AddedTypes = {"analog-input", "bitstring-value"}
  MaxObjects = 2
  Names = {n1, n2}
  DeviceIds = {1, 2}
  Values = {v1, v2}
  Wildcard = 9
  ArraySize = 2
  MaxApdu = 193
  TextSize = 6
  ValueSize = 2
  Intrinsic = TRUE
  Requests <- MCRequests
  Accepted = {50, 193}
  Props = {"OBJECT_NAME", "OBJECT_IDENTIFIER", "PRESENT_VALUE", "OBJECT_LIST"}
  Indices <- MCIndices
  Header <- MCHeader
SYMMETRY NamesAndValues
INVARIANTS
  TypeOK
  IdentifiersUnique
  LookupsAgree
  AnswersFit
  AnswersComplete
  AcknowledgedIsRead
