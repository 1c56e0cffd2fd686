CONSTANTS
    p1 = p1
    p2 = p2
    NoProc = NoProc
    Procs <- MC_Procs
    Readers <- MC_Readers
    MaxData = 1
    PipeCap = 1
    MaxReq = 1
SPECIFICATION Spec
CHECK_DEADLOCK FALSE
PROPERTIES FwdInputAnswered
