SPECIFICATION FairSignUpSpec
CONSTANTS
  Null = Null
  Malformed = Malformed
  blank = blank
  ann = ann
  anna = anna
  Forms <- MCForms
  NoMobile <- MCNoMobile
  MaxPresses = 2
INVARIANTS
  FailureHasReason
PROPERTIES
  KeepsPromise
  EveryPressAnswered
\* A disposed page without calls really stops.
CHECK_DEADLOCK FALSE
