SPECIFICATION ListSpec
CONSTANTS
  Null = Null
  Malformed = Malformed
  fall = fall
  smoke = smoke
  door = door
  glass = glass
  Ids <- MCIds
  AlertLists <- MCAlertLists
  ListPage = "push"
  Now = 4
INVARIANTS
  EscapesExplained
CHECK_DEADLOCK FALSE
