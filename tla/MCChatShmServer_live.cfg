SPECIFICATION LiveSpec
CONSTANTS
    Pid = {p1, p2}
    Conn = {c1, c2}
    Author = {c1}
    USER_LIMIT = 2
    MaxMsg = 1
    MaxTerm = 1
    MaxFault = 1
    SigCap = 2
    ChanCap = 1
PROPERTIES
    
    BroadcastReaches
    QuietSigtermEndsServer
\* The server may exit, and it idles once the bounds of the environment are used.
CHECK_DEADLOCK FALSE
