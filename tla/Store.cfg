\* Crashes, failing exports, and writes between the additions.
SPECIFICATION Spec
CONSTANTS
  Classes = {n1, n2, n3}
  Lists = {l1, l2}
  NoList = NoList
  Failures = {"fill","encrypt"}
INVARIANTS
  ListsSurvive
  NoSupersededList
PROPERTIES
  AddingKeepsTheOthers
