CONSTANTS
    Puids = {u1}
    NoPuid = NoPuid
    MaxPid = 2
    MaxOut = 2
    ReadMax = 1
    MaxReq = 1
    StdioReqs <- MC_StdioReqs
SPECIFICATION Spec
INVARIANT OutputComplete
