CONSTANTS
    None <- MCNone
    Service = {}
    Challenge = {}
    ServiceState = {}
    User = {}
    ExternalTTL = 600
    SessionTTL = 28800
    HandoffTTL = 120
    LogoutTTL = 600
    LoginStartTTL = 600
    LocalSessionTTL = 28800
    I32Max = 100000
    LuaMax = 1000000
    U64Max = 2000000
    Worlds <- MCWorlds

SPECIFICATION Spec

INVARIANT OnlyCodeAndState

CHECK_DEADLOCK FALSE
