SPECIFICATION FairMenuSpec
CONSTANTS
  Null = Null
  Malformed = Malformed
  indoor = indoor
  outdoor = outdoor
  newer = newer
  Codes <- MCCodes
  KnownCodes <- MCKnownCodes
  ProductLists <- MCProductLists
  MaxLoads = 4
INVARIANTS
  OneLoadAtATime
  NewestListShown
  FailuresLookEmpty
PROPERTIES
  NothingAfterDispose
  SpinnerEnds
\* A disposed page really stops.
CHECK_DEADLOCK FALSE
