SPECIFICATION Spec
CONSTANTS
  ana = ana
  ben = ben
  NoUser = NoUser
  NoCall = NoCall
  Users <- TwoUsers
  Opened <- CorePages
  MaxSlots = 4
  MaxSubmits = 1
SYMMETRY UserSymmetry
INVARIANTS
  SessionsMeetAtSignIn
PROPERTIES
  SessionOnlyBySignIn
CHECK_DEADLOCK FALSE
