SPECIFICATION Spec
CONSTANTS
    Tabs = {1, 2}
    MaxSessions = 2
    Worlds <- BounceWorlds
PROPERTIES
    SignInIsHonoured
CHECK_DEADLOCK FALSE
