CONSTANTS
  None = None
  Service = {s1}
  Unregistered = {}
  Challenge = {c1}
  ServiceState = {st1}
  User = {u1}
  Administered = {u1,s1}
  Forged = {}
  Login = {l1,l2}
  Callback = {b1,b2}
  Exchange = {x1,x2}
  LogoutGet = {g1,g2}
  LogoutPost = {p1,p2}
  ExternalTTL = 1
  SessionTTL = 2
  HandoffTTL = 1
  LogoutTTL = 1
  Skew = 0
  MaxTime = 2
  Mixes = {{l1,b1,b2,x1,x2,g1,p1}, {l1,b1,x1,g1,g2,p1,p2}, {l1,l2,b1,x1,g1,p1}, {l1,l2,b1,x1,u1,s1}}
  Varied = {}
SPECIFICATION MixSpec
INVARIANTS TypeOK ExchangeAtMostOnce ClaimAtMostOnce LogoutFormUsedOnce UsedWithinLifetime DisabledGetNothing
PROPERTIES LogoutIsFinal KeepsContract
CHECK_DEADLOCK FALSE
SYMMETRY Interchangeable
