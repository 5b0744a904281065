SPECIFICATION PageSpec
CONSTANTS
  Null = Null
  Malformed = Malformed
  indoor = indoor
  pharmacy = pharmacy
  tims = tims
  Codes <- MCCodes
  InitialCode = indoor
  ProductLists <- MCProductLists
  FlagLists <- MCFlagLists
  MaxFetches = 3
INVARIANTS
  TypeOK
  NewestFetchIsForSelection
  DisplayIsLastAnswer
  InOrderIsFresh
  SpinnerHasWork
  FailuresAreSilent
  PageFlagIsWorst
PROPERTIES
  NothingAfterDispose
  ImplementsBoard
CHECK_DEADLOCK FALSE
