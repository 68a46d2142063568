CONSTANTS
  None = None
  Browser = {b1}
  User = {u1}
  Login = {l1,l2}
  Callback = {c1,c2}
  Me = {m1}
  Logout = {o1}
  LoginStartTTL = 1
  LocalSessionTTL = 1
  LoginStartCapacity = 1
  LocalSessionCapacity = 1
  MaxTime = 1
SPECIFICATION FairSpec
INVARIANTS CapacityRespected MeWithinLifetime
PROPERTIES ValidStateIsKept LoggedOutStaysOut ExpiredStateIsRemoved
CHECK_DEADLOCK FALSE
