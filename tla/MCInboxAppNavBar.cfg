SPECIFICATION Spec
CONSTANTS
  ana = ana
  ben = ben
  NoUser = NoUser
  NoCall = NoCall
  Users <- OneUser
  Opened <- CorePages
  MaxSlots = 3
  MaxSubmits = 1
INVARIANTS
  NavBarHiddenFromLogin
CHECK_DEADLOCK FALSE
