SPECIFICATION FairSpec
CONSTANTS
  ana = ana
  ben = ben
  NoUser = NoUser
  NoCall = NoCall
  Users <- OneUser
  Opened <- AllPages
  MaxSlots = 3
  MaxSubmits = 1
PROPERTIES
  SignInEnds
CHECK_DEADLOCK FALSE
