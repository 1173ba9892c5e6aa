SPECIFICATION Spec
CONSTANTS
    f1 = f1
    f2 = f2
    Flows = {f1, f2}
    MaxVersion = 2
    Envs <- MCEnvs
INVARIANTS
    FrontNotAheadOfSchema
    FrontKeepsRunning
    VersionKeepsUp
    SuccessIsWhole
    DumpedFirst
PROPERTIES
    UpdateEnds
