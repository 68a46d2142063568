CONSTANTS
  None = None
  Service = {s1}
  Unregistered = {}
  Challenge = {c1}
  ServiceState = {st1}
  User = {u1}
  Administered = {u1}
  Forged = {}
  Login = {l1}
  Callback = {b1}
  Exchange = {x1}
  LogoutGet = {}
  LogoutPost = {}
  ExternalTTL = 1
  SessionTTL = 2
  HandoffTTL = 1
  LogoutTTL = 1
  Skew = 0
  MaxTime = 0
SPECIFICATION Spec
PROPERTIES DisabledUserNotAuthenticated
CHECK_DEADLOCK FALSE
