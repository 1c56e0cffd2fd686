SPECIFICATION Spec
CONSTANTS
    m1 = m1
    m2 = m2
    c1 = c1
    c2 = c2
    k1 = k1
    NoPool = NoPool
    NoChan = NoChan
    MUids = {m1, m2}
    CUids = {c1, c2}
    PmodCUids = {k1}
    InitPools = {m1}
    InfPool = m1
    MaxReq = 6
PROPERTIES
    CreateAnswered
CHECK_DEADLOCK FALSE
