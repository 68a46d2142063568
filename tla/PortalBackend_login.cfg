CONSTANTS
  None = None
  Browser = {b1,b2}
  User = {u1,u2}
  Login = {l1,l2}
  Callback = {c1,c2}
  Me = {m1}
  Logout = {}
  LoginStartTTL = 1
  LocalSessionTTL = 1
  LoginStartCapacity = 2
  LocalSessionCapacity = 2
  MaxTime = 1
SPECIFICATION Spec
INVARIANTS TypeOK OneExchangePerLogin BrowserGetsItsOwnLogin
CHECK_DEADLOCK FALSE
