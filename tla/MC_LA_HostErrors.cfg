SPECIFICATION Spec
CONSTANTS
    NoArg = NoArg
    ListChars = {"a", "-", ".", ","}
    FileChars = {"a", "-", ".", "NL"}
    MaxText = 4
    NameMax = 3
    LabelMax = 2
    PortIn = {1023, 1024, 65535, 65536}
    NodeIn <- MCNodeIn
INVARIANTS
    HostErrorsDocumented
CHECK_DEADLOCK FALSE
