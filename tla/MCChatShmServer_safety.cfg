SPECIFICATION Spec
CONSTANTS
    Pid = {p1, p2}
    Conn = {c1, c2, c3}
    Author = {c1}
    USER_LIMIT = 2
    MaxMsg = 1
    MaxTerm = 1
    MaxFault = 1
    SigCap = 1
    ChanCap = 1
INVARIANTS
    TypeOK
    TableOK
    StopLeavesOnlyLate
    SlotsMatchTable
    NoEcho
SYMMETRY Symmetry
CONSTRAINT MessagesOrTerm
\* The server may exit, and it idles once the bounds of the environment are used.
CHECK_DEADLOCK FALSE
