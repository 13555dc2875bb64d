SPECIFICATION MCFairSpec
CONSTANTS
    Worker = {w1, w2}
    Producer = {t1, t2}
    Req = {r1, r2, r3}
    NullReq = {r3}
    max_requests = 1
    MaxIntr = 1
    NoReq = NoReq
    Unlocked = Unlocked
    BUFFER_SIZE = 12
    Streams <- MCStreams
    MaxPiece = 3
    MaxFault = 1
    Char = {"x", "n"}
    Newline = "n"
    Size = 3
    MAXLINE = 2
    Wide = 16
    MaxBad = 2
    MAX_NO_PACKETS = 3
    MAX_WAIT_TIME = 2
    Word = 8
    ICMP_ECHO = 6
    Stamps = {2, 5, 7}
    Second = 4
    MaxPingFault = 1
    Caller = {k1, k2}
    MaxForkFault = 2
    MaxCount = 4
    MaxLine = 3
    MaxNetFault = 2
    Chatter = {k1, k2}
    MaxWrite <- MCMaxWrite
    k1 = k1
    k2 = k2
    NoClient = NoClient
INVARIANTS
    TypeOK
    NoLostWakeup
    AnswerIsVerdict
    CopyIsSound
    HelpersAreSound
    PingIsSound
    PairsAreSound
    NumbersAgree
    HeardByThoseBefore
PROPERTIES
    ImplementsWorkQueue
    AcceptedIsProcessed
    ProgramsFinish
\* Programs end, a pool may be destroyed, and all idle once their users are silent.
CHECK_DEADLOCK FALSE
