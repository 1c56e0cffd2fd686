CONSTANTS
    Puids = {u1}
    NoPuid = NoPuid
    MaxPid = 2
    MaxOut = 1
    ReadMax = 1
    MaxReq = 3
    StdioReqs <- MC_StdioReqs
SPECIFICATION Spec
INVARIANT TypeOK
INVARIANT TableConsistent
INVARIANT ExitAccounting
PROPERTY ExitOnlyAfterDeath
