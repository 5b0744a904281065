SPECIFICATION FairPageSpec
CONSTANTS
  Null = Null
  Malformed = Malformed
  indoor = indoor
  pharmacy = pharmacy
  tims = tims
  Codes <- TwoCodes
  InitialCode = indoor
  ProductLists <- TwoProductLists
  FlagLists <- TwoFlagLists
  MaxFetches = 3
PROPERTIES
  RefreshEnds
  ImplementsFairBoard
CHECK_DEADLOCK FALSE
