CONSTANTS
    Puids = {u1}
    NoPuid = NoPuid
    MaxPid = 2
    MaxOut = 1
    ReadMax = 1
    MaxReq = 2
    StdioReqs <- MC_LiveStdioReqs
SPECIFICATION Spec
PROPERTY ExitReported
PROPERTY ConnectorsClosed
