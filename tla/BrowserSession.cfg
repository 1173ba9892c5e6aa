SPECIFICATION Spec
CONSTANTS
    Tabs = {1, 2}
    MaxSessions = 3
    Worlds <- MCWorlds
INVARIANTS
    EffectOnce
    LogoutSticks
    NoReplay
PROPERTIES
    SignInSticks
    WaitersGoOn
CHECK_DEADLOCK FALSE
