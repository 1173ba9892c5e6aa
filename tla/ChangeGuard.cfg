SPECIFICATION Spec
CONSTANTS
    g1 = g1
    g2 = g2
    o1 = o1
    o2 = o2
    w1 = w1
    w2 = w2
    Guards = {g1, g2}
    Operators = {o1, o2}
    Steps = 2
    Admitting <- MCAdmitting
    Workers = {w1, w2}
    WorkerOf <- MCWorkerOf
    Envs <- MCEnvs
INVARIANTS
    ConfirmedStaysInForce
    WholeBatchesRollBack
    NeverStranded
    ConfirmedMeansDisarmed
PROPERTIES
    LockoutEnds
    GuardIsSwitch
    ResolvedIsFinal
CHECK_DEADLOCK FALSE
