CONSTANTS
  None = None
  Service = {s1}
  Unregistered = {n1}
  Challenge = {c1}
  ServiceState = {st1}
  User = {u1}
  Administered = {}
  Forged = {}
  Login = {l1,l2}
  Callback = {b1}
  Exchange = {x1}
  LogoutGet = {}
  LogoutPost = {}
  ExternalTTL = 2
  SessionTTL = 3
  HandoffTTL = 2
  LogoutTTL = 1
  Skew = 1
  MaxTime = 4
SPECIFICATION FairSpec
INVARIANTS UsedWithinLifetime
PROPERTIES ShortLivedStateEnds
CHECK_DEADLOCK FALSE
