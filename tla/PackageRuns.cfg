SPECIFICATION Spec
CONSTANTS
    r1 = r1
    r2 = r2
    r3 = r3
    w1 = w1
    w2 = w2
    Runs = {r1, r2, r3}
    Workers = {w1, w2}
    Envs <- MCEnvs
INVARIANTS
    AptsMeetWhenGivenUp
PROPERTIES
    RunEnds
CHECK_DEADLOCK FALSE
