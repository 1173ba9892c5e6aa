SPECIFICATION Spec
CONSTANTS
    Runs = {1, 2, 3}
    Size = 3
    Limit = 2
    Servers = {2}
    Shared = {1}
    MaxVersion = 3
    Worlds <- MCWorlds
INVARIANTS
    WithinLimit
    OnlyApprovedUpgrades
    SummaryIsTrue
PROPERTIES
    RunsAreBatches
    RunEnds
CHECK_DEADLOCK FALSE
