SPECIFICATION FairListSpec
CONSTANTS
  Null = Null
  Malformed = Malformed
  fall = fall
  smoke = smoke
  door = door
  glass = glass
  Ids <- MCIds
  AlertLists <- MCAlertLists
  ListPage = "alerts"
  Now = 4
INVARIANTS
  IndexInRange
  WholeListOnly
  EscapesExplained
PROPERTIES
  DetailFollowsReader
  LoadEnds
\* Both pages may be gone.
CHECK_DEADLOCK FALSE
