SPECIFICATION FairSpec
CONSTANTS
    N = 2
    Conn = {k1, k2}
    MaxTerm = 1
    MaxFault = 1
    SigCap = 2
    PipeCap = 1
PROPERTIES
    ShutdownCompletes
    OneAtATimeAccepted
    InputProcessed
\* The pool may stop, and it idles once the bounds of the environment are used.
CHECK_DEADLOCK FALSE
