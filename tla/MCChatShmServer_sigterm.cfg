SPECIFICATION FairSpec
CONSTANTS
    Pid = {p1}
    Conn = {c1}
    Author = {c1}
    USER_LIMIT = 1
    MaxMsg = 0
    MaxTerm = 1
    MaxFault = 0
    SigCap = 2
    ChanCap = 1
PROPERTIES
    SigtermEndsServer
\* The server may exit, and it idles once the bounds of the environment are used.
CHECK_DEADLOCK FALSE
