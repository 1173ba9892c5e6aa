SPECIFICATION Spec
CONSTANTS
    q1 = q1
    Requests = {q1}
    Rules <- MCRules
    MgmtRule <- MCMgmt
    MaxPos = 4
    Policies = {"allow", "deny"}
    Worlds <- MCWorlds
INVARIANTS
    OffIsNotEnforced
PROPERTIES
    SafeChangesStay
    MoveAndEditKeepCount
    LossIsTold
