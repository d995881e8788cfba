SPECIFICATION MCSpec
CONSTANTS
  Bytes = {97, 98, 58}
  MaxName = 1
  MaxPassword = 2
  MaxText = 5
  NoCookie = NoCookie
  Members <- MCMembers
  MaxMembers = 4
  Absent = Absent
INVARIANTS
  LetInByPasswordOnly
  ForwardedAsSent
  ReadersAgree
PROPERTIES
  VerdictOrPanic
CHECK_DEADLOCK FALSE
