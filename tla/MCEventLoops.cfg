SPECIFICATION MCFairSpec
CONSTANTS
    Program = {"select.c", "selecttest.c", "polltest.c"}
    Conn = {c1, c2, c3}
    NoConn = NoConn
    Limit = 6
    Garbage <- MCGarbage
    MaxFault = 1
    EpollConn = {k1, k2}
    MaxPiece <- MCMaxPiece
    k1 = k1
    k2 = k2
INVARIANTS
    TableMatchesNumbers
    NeverBlocks
    WalkReaches
    EchoIsOwn
PROPERTIES
    Served
    ClientsAreServed
\* A program may end, and it idles once every client is silent.
CHECK_DEADLOCK FALSE
