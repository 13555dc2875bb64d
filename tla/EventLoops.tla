----------------------------- MODULE EventLoops -----------------------------
(***************************************************************************)
(* The level-triggered servers select.c, selecttest.c and polltest.c: one  *)
(* loop that waits until descriptors are readable, accepts at most one     *)
(* connection, and reads from the clients of its table that are ready,     *)
(* until as many as the call reported have been seen.                      *)
(*                                                                         *)
(* The three differ in what bounds their walk over the table and in what   *)
(* they do about errors.  The tables (FD_SETSIZE, OPEN_MAX) have at least  *)
(* as many places as a process has descriptors, so they are never full.    *)
(* No signal is handled, so select and poll are not interrupted; that they *)
(* are never given a closed descriptor is part of TableMatchesNumbers.     *)
(***************************************************************************)
EXTENDS Integers, FiniteSets, Sequences

CONSTANTS
    Program,    \* which of the three are looked at
    Conn,       \* the connections clients make
    NoConn,     \* no connection
    Limit,      \* open descriptors a process may have (RLIMIT_NOFILE)
    Garbage,    \* what selecttest.c's maxi may hold before it is set
    MaxFault    \* failures of accept and of connections

ASSUME ProgramAssumption == Program \subseteq {"select.c", "selecttest.c", "polltest.c"}
ASSUME ConnAssumption == NoConn \notin Conn
ASSUME LimitAssumption == Limit \in Nat /\ Limit > 4
\* Limit stands for all that ends the walk within the array, Limit + 1 for what is
\* beyond it (the array has FD_SETSIZE places, which hold -1 at the start).
ASSUME GarbageAssumption == Garbage \subseteq -1 .. Limit + 1
ASSUME FaultAssumption == MaxFault \in Nat

Stdin    == 0
listenfd == 3                 \* 0 to 2 are open from the start
Client   == 4 .. Limit - 1    \* the numbers accept returns
Index    == 0 .. Limit - 1    \* the part of the table that can be used
Free     == -1                \* no descriptor (0 in select.c)

VARIABLES
    prog,      \* the program; never changes
    pc,        \* "wait", "accept", "scan" (the walk over the table), "exited"
               \* or "undefined"
    clientfd,  \* the table; polltest.c's entry 0 is the listening socket
    allfds,    \* the set select is given
    maxfd, maxi,
    ready,     \* readfds, revents: what the call reported
    left,      \* history: what it reported and nobody has looked at
    count,     \* client_num, readyfd
    next,      \* i of the walk
    owner,     \* the connection behind a descriptor number
    backlog,   \* the listening socket's queue
    fresh,     \* connections not yet made
    hot,       \* connections with input nobody has read
    peer,      \* how a connection is: "open", "closed", "reset" or "failed"
    faults

tableVars == <<clientfd, allfds, maxfd, maxi>>
loopVars  == <<ready, left, count, next>>
netVars   == <<owner, backlog, fresh, hot, peer>>
vars      == <<prog, pc, tableVars, loopVars, netVars, faults>>

Selects == prog \in {"select.c", "selecttest.c"}
First   == IF prog = "polltest.c" THEN 1 ELSE 0    \* the first client's place

\* Where a walk over the table begins.
mutFromOne  == 1
StartOfWalk == First

TypeOK ==
    /\ prog \in Program
    /\ pc \in {"wait", "accept", "scan", "exited", "undefined"}
    /\ clientfd \in [Index -> Client \cup {Free, listenfd}]
    /\ allfds \subseteq Client \cup {Stdin, listenfd}
    /\ maxfd \in Client \cup {listenfd}
    /\ maxi \in -1 .. Limit + 1 /\ (prog # "selecttest.c" => maxi < Limit)
    /\ ready \subseteq Client \cup {Stdin, listenfd}
    /\ left \subseteq Client \cup {Stdin, listenfd}
    /\ count \in 0 .. Limit
    /\ next \in 0 .. Limit
    /\ owner \in [Client -> Conn \cup {NoConn}]
    /\ backlog \in Seq(Conn)
    /\ fresh \subseteq Conn
    /\ hot \subseteq Conn
    /\ peer \in [Conn -> {"open", "closed", "reset", "failed"}]
    /\ faults \in 0 .. MaxFault

\* selecttest.c initialises neither maxi nor allset.  Of the bits in allset only
\* those up to maxfd are looked at: those of the descriptors that are open from
\* the start, which may be set (Stdin stands for the three), and those of client
\* numbers, each set by an accept before maxfd gets there.
Init ==
    /\ prog \in Program
    /\ pc = "wait"
    /\ clientfd = [j \in Index |->
                      IF prog = "polltest.c" /\ j = 0 THEN listenfd ELSE Free]
    /\ maxfd = listenfd
    /\ IF prog = "selecttest.c"
       THEN allfds \in {{listenfd}, {listenfd, Stdin}} /\ maxi \in Garbage
       ELSE allfds = {listenfd} /\ maxi = 0
    /\ ready = {} /\ left = {} /\ count = 0 /\ next = StartOfWalk
    /\ owner = [f \in Client |-> NoConn]
    /\ backlog = <<>> /\ fresh = Conn /\ hot = {}
    /\ peer = [c \in Conn |-> "open"]
    /\ faults = 0

-----------------------------------------------------------------------------
(* Waiting.                                                                *)

HasInput(c) == c \in hot \/ peer[c] # "open"

Readable(f) ==
    \/ f = listenfd /\ backlog # <<>>
    \/ f \in Client /\ owner[f] # NoConn /\ HasInput(owner[f])

\* What the call is given: a set up to maxfd, or the entries up to maxi.
Watched ==
    IF Selects THEN {f \in allfds : f <= maxfd}
               ELSE {clientfd[j] : j \in 0 .. maxi} \ {Free}

\* The call returns, and if no connection waits the walk over the table begins.
\* Standard input may or may not have something to read.
Wait ==
    /\ pc = "wait"
    /\ \E stray \in SUBSET (Watched \cap {Stdin}) :
          ready' = stray \cup {f \in Watched : Readable(f)}
    /\ ready' # {} /\ left' = ready'
    /\ count' = Cardinality(ready')
    /\ pc' = IF listenfd \in ready' THEN "accept" ELSE "scan"
    /\ next' = StartOfWalk
    /\ UNCHANGED <<prog, tableVars, netVars, faults>>

-----------------------------------------------------------------------------
(* The listening socket.                                                   *)

Larger(m, n) == IF m > n THEN m ELSE n

\* --count <= 0 ends the round.  f has been looked at; i is n.  (Between rounds
\* ready is not used.)
mutEnough(n) == n <= 1
Enough(n) == n <= 0
Looked(f, n) ==
    /\ left' = left \ {f}
    /\ count' = count - 1
    /\ pc' = IF Enough(count - 1) THEN "wait" ELSE "scan"
    /\ next' = IF Enough(count - 1) THEN StartOfWalk ELSE n
    /\ ready' = IF Enough(count - 1) THEN {} ELSE ready

NewMaxi(k) == Larger(k, maxi)

IsFirstFree(k) ==
    /\ k >= First /\ clientfd[k] = Free
    /\ \A j \in First .. k - 1 : clientfd[j] # Free

IsLowest(f) == owner[f] = NoConn /\ \A g \in 4 .. f - 1 : owner[g] # NoConn
Full        == \A f \in Client : owner[f] # NoConn

Listening == pc = "accept"

\* accept returns the first connection under the lowest number that is free,
\* and the program enters it in the first place that is free.
Accept(f, k) ==
    /\ Listening /\ backlog # <<>> /\ IsLowest(f) /\ IsFirstFree(k)
    /\ owner' = [owner EXCEPT ![f] = Head(backlog)]
    /\ backlog' = Tail(backlog)
    /\ clientfd' = [clientfd EXCEPT ![k] = f]
    /\ Looked(listenfd, StartOfWalk)
    /\ UNCHANGED <<prog, fresh, hot, peer, faults>>

SelectAccept(f, k) ==
    /\ prog = "select.c" /\ Accept(f, k)
    /\ allfds' = allfds \cup {f}
    /\ maxfd' = Larger(f, maxfd)
    /\ UNCHANGED maxi

SelecttestAccept(f, k) ==
    /\ prog = "selecttest.c" /\ Accept(f, k)
    /\ allfds' = allfds \cup {f}
    /\ maxfd' = Larger(f, maxfd)
    /\ maxi' = NewMaxi(k)

PollAccept(f, k) ==
    /\ prog = "polltest.c" /\ Accept(f, k)
    /\ maxi' = NewMaxi(k)
    /\ UNCHANGED <<allfds, maxfd>>

\* accept fails, and will again as long as there is no free number: select.c
\* starts over, selecttest.c sets bit -1, polltest.c enters -1 and goes on.
Refuse ==
    /\ Listening
    /\ \/ Full /\ UNCHANGED faults
       \/ faults < MaxFault /\ faults' = faults + 1
    /\ UNCHANGED <<prog, clientfd, allfds, maxfd, netVars>>

SelectRefuse ==
    /\ prog = "select.c" /\ Refuse
    /\ pc' = "wait" /\ ready' = {}
    /\ UNCHANGED <<maxi, left, count, next>>

SelecttestRefuse ==
    /\ prog = "selecttest.c" /\ Refuse
    /\ pc' = "undefined"
    /\ UNCHANGED <<maxi, loopVars>>

PollRefuse ==
    /\ prog = "polltest.c" /\ Refuse
    /\ \E k \in Index : IsFirstFree(k) /\ maxi' = NewMaxi(k)
    /\ Looked(listenfd, StartOfWalk)

-----------------------------------------------------------------------------
(* The walk over the table.                                                *)

\* Where it ends: select.c compares the index with the largest descriptor, the
\* others with the largest index.
Bound == IF prog = "select.c" THEN maxfd ELSE maxi

IsNext(j) ==
    /\ j >= next /\ j < Bound /\ clientfd[j] \in ready
    /\ \A m \in next .. j - 1 : clientfd[m] \notin ready

Seen(j) == Looked(clientfd[j], j + 1)

ReadData(j) ==
    LET c == owner[clientfd[j]]
    IN  /\ IsNext(j) /\ c \in hot
        /\ hot' = hot \ {c}
        /\ Seen(j)
        /\ UNCHANGED <<prog, tableVars, owner, backlog, fresh, peer, faults>>

\* close, FD_CLR, and the entry is free.
mutStaleEntry(j) == clientfd[j]
mutZero(j) == 0
Emptied(j) == Free
mutNoClear(f) == allfds
FdClr(f) == allfds \ {f}
Close(j) ==
    /\ owner' = [owner EXCEPT ![clientfd[j]] = NoConn]
    /\ clientfd' = [clientfd EXCEPT ![j] = Emptied(j)]
    /\ allfds' = FdClr(clientfd[j])

ReadEnd(j) ==
    LET c == owner[clientfd[j]]
    IN  /\ IsNext(j) /\ c \notin hot /\ peer[c] = "closed"
        /\ Close(j)
        /\ Seen(j)
        /\ UNCHANGED <<prog, maxfd, maxi, backlog, fresh, hot, peer, faults>>

\* read fails once and reports the end of the connection after that.  The two
\* select programs take -1 for data.
Broken(c) == c \notin hot /\ peer[c] \in {"reset", "failed"}

SelectReadError(j) ==
    LET c == owner[clientfd[j]]
    IN  /\ Selects /\ IsNext(j) /\ Broken(c)
        /\ peer' = [peer EXCEPT ![c] = "closed"]
        /\ Seen(j)
        /\ UNCHANGED <<prog, tableVars, owner, backlog, fresh, hot, faults>>

PollReadReset(j) ==
    LET c == owner[clientfd[j]]
    IN  /\ prog = "polltest.c" /\ IsNext(j) /\ Broken(c) /\ peer[c] = "reset"
        /\ Close(j)
        /\ Seen(j)
        /\ UNCHANGED <<prog, maxfd, maxi, backlog, fresh, hot, peer, faults>>

PollReadError(j) ==
    LET c == owner[clientfd[j]]
    IN  /\ prog = "polltest.c" /\ IsNext(j) /\ Broken(c) /\ peer[c] = "failed"
        /\ pc' = "exited"
        /\ UNCHANGED <<prog, tableVars, loopVars, netVars, faults>>

WalkEnds == pc = "scan" /\ \A j \in Index : ~ IsNext(j)

ScanDone ==
    /\ WalkEnds /\ Bound <= Limit
    /\ pc' = "wait" /\ next' = StartOfWalk
    /\ ready' = {}
    /\ UNCHANGED <<prog, tableVars, left, count, netVars, faults>>

\* With a maxi beyond the array the walk goes on behind it.
LeaveTable ==
    /\ WalkEnds /\ Bound > Limit
    /\ pc' = "undefined"
    /\ UNCHANGED <<prog, tableVars, loopVars, netVars, faults>>

-----------------------------------------------------------------------------
(* The clients.                                                            *)

Running == pc \in {"wait", "accept", "scan"}
Made(c) == Running /\ c \notin fresh /\ peer[c] = "open"

Connect(c) ==
    /\ Running /\ c \in fresh
    /\ fresh' = fresh \ {c}
    /\ backlog' = Append(backlog, c)
    /\ UNCHANGED <<prog, pc, tableVars, loopVars, owner, hot, peer, faults>>

Send(c) ==
    /\ Made(c)
    /\ hot' = hot \cup {c}
    /\ UNCHANGED <<prog, pc, tableVars, loopVars, owner, backlog, fresh, peer,
                   faults>>

Leave(c) ==
    /\ Made(c)
    /\ peer' = [peer EXCEPT ![c] = "closed"]
    /\ UNCHANGED <<prog, pc, tableVars, loopVars, owner, backlog, fresh, hot,
                   faults>>

Break(c, how) ==
    /\ Made(c) /\ faults < MaxFault
    /\ faults' = faults + 1
    /\ peer' = [peer EXCEPT ![c] = how]
    /\ UNCHANGED <<prog, pc, tableVars, loopVars, owner, backlog, fresh, hot>>

-----------------------------------------------------------------------------
AcceptStep ==
    /\ Listening
    /\ \E f \in Client, k \in Index :
          SelectAccept(f, k) \/ SelecttestAccept(f, k) \/ PollAccept(f, k)
RefuseStep == Listening /\ (SelectRefuse \/ SelecttestRefuse \/ PollRefuse)
ReadStep ==
    /\ pc = "scan"
    /\ \E j \in Index : \/ ReadData(j)
                        \/ ReadEnd(j)
                        \/ SelectReadError(j)
                        \/ PollReadReset(j)
                        \/ PollReadError(j)

Server ==
    Wait \/ AcceptStep \/ RefuseStep \/ ReadStep \/ ScanDone \/ LeaveTable
Clients ==
    \E c \in Conn : \/ Connect(c)
                    \/ Send(c)
                    \/ Leave(c)
                    \/ \E how \in {"reset", "failed"} : Break(c, how)

Next == Server \/ Clients
Spec == Init /\ [][Next]_vars

\* The program runs on, and select returns when something is readable.
FairSpec == Spec /\ WF_vars(Server)

-----------------------------------------------------------------------------
(* What the servers promise.                                               *)

\* The table, the numbers and the set tell the same story, although numbers and
\* places are each given out anew, lowest first: entry j holds number j + 4 (in
\* polltest.c j + 3), the numbers in the table are the open ones and the ones
\* select is given, and no client is beyond maxfd or maxi.
Base == 4 - First
TableMatchesNumbers ==
    TypeOK /\ (Running =>
        /\ \A j \in Index : j >= First => clientfd[j] \in {Free, j + Base}
        /\ \A f \in Client : owner[f] # NoConn <=> clientfd[f - Base] = f
        /\ \A f \in Client : owner[f] # NoConn <=> f \in Watched)

\* No accept and no read blocks the only thread there is: what is accepted from
\* or read when the walk comes to it is still readable, although other entries
\* were emptied and their numbers given out since.
NeverBlocks ==
    /\ Listening => Readable(listenfd)
    /\ \A j \in Index : pc = "scan" /\ IsNext(j) => Readable(clientfd[j])

\* select.c ends its walk at an index no smaller than a descriptor number, which
\* is beyond every client; the others reach all but the last place.
WithinBound ==
    Running => \A j \in Index :
        j >= First /\ clientfd[j] # Free =>
            IF prog = "select.c" THEN j < Bound ELSE j <= Bound

\* The count does not end a round early: unless accept failed, when a round is
\* over every client it reported below the bound has been read.
RoundIsComplete ==
    pc = "wait" /\ listenfd \notin left =>
        \A j \in Index : j >= First /\ j < Bound => clientfd[j] \notin left

\* The walk over the table reaches whoever it has to, whatever ends it.
WalkReaches == WithinBound /\ RoundIsComplete

\* A client below the bound is read when it has sent something or is gone, however
\* busy the others are, unless the program ends, or select.c, out of numbers,
\* starts over at each failed accept and never comes to its clients.
Pending(c) ==
    /\ HasInput(c)
    /\ \E f \in Client, j \in Index :
          owner[f] = c /\ clientfd[j] = f /\ First <= j /\ j < Bound
Starved == prog = "select.c" /\ Full /\ backlog # <<>>
Served == \A c \in Conn : Pending(c) ~> (~ Pending(c) \/ ~ Running \/ Starved)
=============================================================================
