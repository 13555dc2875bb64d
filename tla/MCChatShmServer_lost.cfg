SPECIFICATION FairSpec
CONSTANTS
    Pid = {p1, p2}
    Conn = {c1, c2}
    Author = {c1}
    USER_LIMIT = 2
    MaxMsg = 2
    MaxTerm = 0
    MaxFault = 0
    SigCap = 4
    ChanCap = 4
PROPERTIES
    BroadcastReaches
\* The server may exit, and it idles once the bounds of the environment are used.
CHECK_DEADLOCK FALSE
