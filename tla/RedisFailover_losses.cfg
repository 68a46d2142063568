CONSTANTS
  None = None
  Service = {s1,s2}
  Unregistered = {}
  Challenge = {c1,c2}
  ServiceState = {st1,st2}
  User = {u1,u2}
  Administered = {}
  Forged = {f1}
  Login = {l1,l2}
  Callback = {b1,b2,b3}
  Exchange = {x1,x2,x3}
  LogoutGet = {g1}
  LogoutPost = {p1,p2,p3}
  ExternalTTL = 1
  SessionTTL = 2
  HandoffTTL = 1
  LogoutTTL = 1
  Skew = 0
  MaxTime = 0
  MaxFailovers = 1
  Mixes = {{l1,b1,x1,x2,x3,f1}, {l1,b1,b2,b3}, {g1,p1,p2,p3,f1}, {l1,l2,b1,x1,s2}, {l1,l2,b1,x1,c2}, {l1,l2,b1,x1,st2}, {l1,l2,b1,b2,x1,u2}}
  Varied = {s2,c2,st2,u2,f1}
SPECIFICATION MCSpec
INVARIANTS ExchangeAnswersItsLogin OneMoreUsePerFailover
CHECK_DEADLOCK FALSE
SYMMETRY InterchangeableLogins
