CONSTANTS
  None = None
  Browser = {b1}
  User = {u1}
  Login = {l1}
  Callback = {c1}
  Me = {}
  Logout = {}
  LoginStartTTL = 1
  LocalSessionTTL = 1
  LoginStartCapacity = 1
  LocalSessionCapacity = 1
  MaxTime = 2
SPECIFICATION Spec
PROPERTIES ExpiredLoginStartNotUsed
CHECK_DEADLOCK FALSE
