\* Four objects, answers that hold two events.
SPECIFICATION FairSpec
CONSTANTS
  PageSize = 2
  GapOutcomes <- Undefined
  Nothing = Nothing
  Garbage = Garbage
  MaxObjects = 4
INVARIANT SessionComplete
PROPERTY ShortListsEnd
