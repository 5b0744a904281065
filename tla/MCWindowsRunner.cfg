SPECIFICATION FairSpec
CONSTANT
  MaxCloses = 3
INVARIANTS
  DestroyedOnce
  EngineHasWindow
  NothingLeft
PROPERTIES
  ShownInTheEnd
  ClosingEnds
\* The process ends.
CHECK_DEADLOCK FALSE
