SPECIFICATION Spec
CONSTANTS
  ana = ana
  ben = ben
  NoUser = NoUser
  NoCall = NoCall
  Users <- OneUser
  Opened <- AllPages
  MaxSlots = 4
  MaxSubmits = 2
INVARIANTS
  StackShape
  SpinnerIsRequest
PROPERTIES
  BlankOnlyByLateSignUp
  EscapesOnlyAfterLeaving
\* The stack can become empty, and then nothing can be done.
CHECK_DEADLOCK FALSE
