SPECIFICATION Spec
CONSTANTS
    Tabs = {1, 2}
    MaxSessions = 2
    Worlds <- BlipWorlds
PROPERTIES
    OnlyRefusalSignsOut
CHECK_DEADLOCK FALSE
