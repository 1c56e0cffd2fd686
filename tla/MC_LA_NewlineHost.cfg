SPECIFICATION Spec
CONSTANTS
    NoArg = NoArg
    ListChars = {"a", "-", ".", ",", "NL"}
    FileChars = {"a", "-", ".", "NL"}
    MaxText = 4
    NameMax = 3
    LabelMax = 2
    PortIn = {1023, 1024, 65535, 65536}
    NodeIn <- MCNodeIn
INVARIANTS
    AcceptedHostsValid
CHECK_DEADLOCK FALSE
