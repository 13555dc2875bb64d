SPECIFICATION Spec
CONSTANTS
    N = 3
    Conn = {k1, k2}
    MaxTerm = 1
    MaxFault = 1
    SigCap = 2
    PipeCap = 1
INVARIANTS
    TypeOK
    NotificationBacked
    RoundRobinBalance
    FullChannelHasEdge
    ParentLeavesNoChild
    NoForgottenZombie
SYMMETRY ConnSymmetry
\* The pool may stop, and it idles once the bounds of the environment are used.
CHECK_DEADLOCK FALSE
