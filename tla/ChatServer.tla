----------------------------- MODULE ChatServer -----------------------------
(***************************************************************************)
(* The broadcast chat server chatserver.c: the parent accepts and forks, a *)
(* child per client receives and sends what it got to every descriptor     *)
(* number in a table all processes share.  A number means what it means in *)
(* the descriptor table of the process that uses it, and a child's is the  *)
(* parent's as it was at the fork.                                         *)
(*                                                                         *)
(* A child is known by its place in the table (its idx).  Messages are not *)
(* cut; the table's hundred places are enough.                             *)
(***************************************************************************)
EXTENDS Integers, FiniteSets, Sequences

CONSTANTS
    Client,      \* the connections clients make
    NoClient,    \* no connection
    MaxWrite,    \* how many messages each client sends
    MaxFault     \* failures of accept, fork and connections, killed children

\* What is assumed of them.
ConstantsOK ==
    /\ IsFiniteSet(Client) /\ NoClient \notin Client
    /\ MaxWrite \in [Client -> Nat] /\ MaxFault \in Nat

Num   == Cardinality(Client)
Place == 0 .. Num                  \* places in fds
Fd    == 4 .. Num + 3              \* descriptor numbers accept may return
Message == Client \X (Nat \ {0})

VARIABLES
    ppc,         \* the parent: "accept", "fork" or "exited"
    idx,
    fds,         \* the shared table; 0 is no client, -1 a failed accept
    files,       \* the parent's descriptor table
    cpc,         \* each child: "none", "recv", "test", "send", "leave", "ended"
    cfiles,      \* its descriptor table
    buf,         \* the message it is sending on
    i,           \* how far in fds it is
    backlog,     \* the listening socket's queue
    fresh,       \* connections not yet made
    wrote,       \* how many messages each client has sent
    read,        \* how many of them have been received
    peer,        \* each client: "open", "closed", "closing" (and written to
                 \* since), "broken" (an error is pending), "reset" (and was told)
    got,         \* what each client was sent
    who,         \* history: the client each place was given to
    faults

parentVars == <<ppc, idx, files, who>>
childVars  == <<cpc, cfiles, buf, i>>
netVars    == <<backlog, fresh, wrote, read, peer, got>>
vars       == <<parentVars, fds, childVars, netVars, faults>>

Files == [Fd -> Client \cup {NoClient}]

TypeOK ==
    /\ ppc \in {"accept", "fork", "exited"}
    /\ idx \in Place
    /\ fds \in [Place -> Fd \cup {0, -1}]
    /\ files \in Files
    /\ cpc \in [Place -> {"none", "recv", "test", "send", "leave", "ended"}]
    /\ cfiles \in [Place -> Files]
    /\ buf \in [Place -> {<<>>} \cup Message]
    /\ i \in [Place -> 0 .. Num + 1]
    /\ backlog \in Seq(Client)
    /\ fresh \subseteq Client
    /\ wrote \in [Client -> Nat] /\ read \in [Client -> Nat]
    /\ \A c \in Client : read[c] <= wrote[c] /\ wrote[c] <= MaxWrite[c]
    /\ peer \in [Client -> {"open", "closed", "closing", "broken", "reset"}]
    /\ got \in [Client -> Seq(Message)]
    /\ who \in [Place -> Client \cup {NoClient}]
    /\ faults \in 0 .. MaxFault

NoFiles == [f \in Fd |-> NoClient]

Init ==
    /\ ppc = "accept" /\ idx = 0
    /\ fds = [p \in Place |-> 0]
    /\ files = NoFiles
    /\ cpc = [p \in Place |-> "none"]
    /\ cfiles = [p \in Place |-> NoFiles]
    /\ buf = [p \in Place |-> <<>>] /\ i = [p \in Place |-> 0]
    /\ backlog = <<>> /\ fresh = Client
    /\ wrote = [c \in Client |-> 0] /\ read = [c \in Client |-> 0]
    /\ peer = [c \in Client |-> "open"]
    /\ got = [c \in Client |-> <<>>]
    /\ who = [p \in Place |-> NoClient]
    /\ faults = 0

Fault == faults < MaxFault /\ faults' = faults + 1

-----------------------------------------------------------------------------
(* The parent.                                                             *)

IsLowest(f) == files[f] = NoClient /\ \A g \in Fd : g < f => files[g] # NoClient

Accept ==
    /\ ppc = "accept" /\ backlog # <<>>
    /\ \E f \in Fd : /\ IsLowest(f)
                     /\ fds' = [fds EXCEPT ![idx] = f]
                     /\ files' = [files EXCEPT ![f] = Head(backlog)]
    /\ who' = [who EXCEPT ![idx] = Head(backlog)]
    /\ backlog' = Tail(backlog)
    /\ ppc' = "fork"
    /\ UNCHANGED <<idx, childVars, fresh, wrote, read, peer, got, faults>>

\* The loop ends; the children go on.
AcceptFails ==
    /\ ppc = "accept" /\ backlog # <<>> /\ Fault
    /\ fds' = [fds EXCEPT ![idx] = -1]
    /\ ppc' = "exited"
    /\ UNCHANGED <<idx, files, who, childVars, netVars>>

\* The parent keeps its descriptor: no number is given out twice.
mutParentCloses == [files EXCEPT ![fds[idx]] = NoClient]
AfterFork == files

Inherited == files

Fork ==
    /\ ppc = "fork"
    /\ cpc' = [cpc EXCEPT ![idx] = "recv"]
    /\ cfiles' = [cfiles EXCEPT ![idx] = Inherited]
    /\ files' = AfterFork
    /\ idx' = idx + 1
    /\ ppc' = "accept"
    /\ UNCHANGED <<fds, who, buf, i, netVars, faults>>

\* -1 is taken for the parent's return: nobody serves the client.
ForkFails ==
    /\ ppc = "fork" /\ Fault
    /\ idx' = idx + 1
    /\ ppc' = "accept"
    /\ UNCHANGED <<fds, files, who, childVars, netVars>>

-----------------------------------------------------------------------------
(* The child at place p.                                                   *)

\* The client behind a number, for the child at p.
Behind(p, f) == IF f \in Fd THEN cfiles[p][f] ELSE NoClient
Own(p) == Behind(p, fds[p])

Receive(p) ==
    LET c == Own(p)
    IN  /\ cpc[p] = "recv" /\ read[c] < wrote[c]
        /\ read' = [read EXCEPT ![c] = @ + 1]
        /\ buf' = [buf EXCEPT ![p] = <<c, read[c] + 1>>]
        /\ i' = [i EXCEPT ![p] = 0]
        /\ cpc' = [cpc EXCEPT ![p] = "test"]
        /\ UNCHANGED <<parentVars, fds, cfiles, backlog, fresh, wrote, peer, got,
                       faults>>

\* recv returns 0 or -1: the child closes its descriptor ...
ReceiveEnd(p) ==
    LET c == Own(p)
    IN  /\ cpc[p] = "recv" /\ read[c] = wrote[c] /\ peer[c] # "open"
        /\ cfiles' = [cfiles EXCEPT ![p][fds[p]] = NoClient]
        /\ cpc' = [cpc EXCEPT ![p] = "leave"]
        /\ UNCHANGED <<parentVars, fds, buf, i, netVars, faults>>

\* ... clears its place and exits.
Cleared(p) == [fds EXCEPT ![p] = 0]
Leave(p) ==
    /\ cpc[p] = "leave"
    /\ fds' = Cleared(p)
    /\ cpc' = [cpc EXCEPT ![p] = "ended"]
    /\ UNCHANGED <<parentVars, cfiles, buf, i, netVars, faults>>

\* One turn of the loop over the table: is there a number?
mutStopAtFirstFree(p) == IF fds[i[p]] = 0 THEN Num + 1 ELSE i[p] + 1
NextPlace(p) == i[p] + 1
Test(p) ==
    /\ cpc[p] = "test"
    /\ \/ /\ i[p] \notin Place
          /\ cpc' = [cpc EXCEPT ![p] = "recv"]
          /\ UNCHANGED i
       \/ /\ i[p] \in Place /\ fds[i[p]] > 0
          /\ cpc' = [cpc EXCEPT ![p] = "send"]
          /\ UNCHANGED i
       \/ /\ i[p] \in Place /\ fds[i[p]] <= 0
          /\ i' = [i EXCEPT ![p] = NextPlace(p)]
          /\ UNCHANGED cpc
    /\ UNCHANGED <<parentVars, fds, cfiles, buf, netVars, faults>>

Sending(p) ==
    /\ cpc[p] = "send"
    /\ cpc' = [cpc EXCEPT ![p] = "test"]
    /\ i' = [i EXCEPT ![p] = i[p] + 1]
    /\ UNCHANGED <<parentVars, fds, cfiles, buf, backlog, fresh, wrote, read,
                   faults>>

\* The number is read again, and is by now perhaps 0.  Whatever is not an open
\* descriptor of this process is an error that is ignored.
SendNowhere(p) ==
    /\ Sending(p) /\ Behind(p, fds[i[p]]) = NoClient
    /\ UNCHANGED <<peer, got>>

SendTo(p) ==
    LET d == Behind(p, fds[i[p]])
    IN  /\ Sending(p) /\ d # NoClient /\ peer[d] # "reset"
        /\ got' = IF peer[d] = "open" THEN [got EXCEPT ![d] = Append(@, buf[p])]
                                      ELSE got
        /\ peer' = [peer EXCEPT ![d] = CASE @ = "closed" -> "closing"
                                         [] @ = "broken" -> "reset"
                                         [] OTHER -> @]

\* Sending to a connection that was reset is SIGPIPE: the child ends and its
\* place stays as it is.
SendKills(p) ==
    LET d == Behind(p, fds[i[p]])
    IN  /\ cpc[p] = "send" /\ d # NoClient /\ peer[d] = "reset"
        /\ cpc' = [cpc EXCEPT ![p] = "ended"]
        /\ UNCHANGED <<parentVars, fds, cfiles, buf, i, netVars, faults>>

-----------------------------------------------------------------------------
(* The clients.                                                            *)

Connect(c) ==
    /\ c \in fresh
    /\ fresh' = fresh \ {c}
    /\ backlog' = Append(backlog, c)
    /\ UNCHANGED <<parentVars, fds, childVars, wrote, read, peer, got, faults>>

Made(c) == c \notin fresh /\ peer[c] = "open"

Write(c) ==
    /\ Made(c) /\ wrote[c] < MaxWrite[c]
    /\ wrote' = [wrote EXCEPT ![c] = @ + 1]
    /\ UNCHANGED <<parentVars, fds, childVars, backlog, fresh, read, peer, got,
                   faults>>

Becomes(c, how) ==
    /\ peer' = [peer EXCEPT ![c] = how]
    /\ UNCHANGED <<parentVars, fds, childVars, backlog, fresh, wrote, read, got>>

Close(c) == Made(c) /\ Becomes(c, "closed") /\ UNCHANGED faults
ResetArrives(c) ==
    peer[c] = "closing" /\ Becomes(c, "reset") /\ UNCHANGED faults
Break(c) == Made(c) /\ Fault /\ Becomes(c, "broken")

Crash(p) ==
    /\ cpc[p] \in {"recv", "test", "send", "leave"} /\ Fault
    /\ cpc' = [cpc EXCEPT ![p] = "ended"]
    /\ UNCHANGED <<parentVars, fds, cfiles, buf, i, netVars>>

-----------------------------------------------------------------------------
Parent == Accept \/ Fork
ChildOf(p) ==
    \/ Receive(p) \/ ReceiveEnd(p) \/ Leave(p)
    \/ Test(p) \/ SendNowhere(p) \/ SendTo(p) \/ SendKills(p)

Environment ==
    \/ AcceptFails \/ ForkFails
    \/ \E c \in Client : Connect(c) \/ Write(c) \/ Close(c) \/ ResetArrives(c)
                           \/ Break(c)
    \/ \E p \in Place : Crash(p)

Next == Parent \/ (\E p \in Place : ChildOf(p)) \/ Environment
Spec == Init /\ [][Next]_vars

-----------------------------------------------------------------------------
(* What the server promises.                                               *)

Lives(p) == cpc[p] \notin {"none", "ended"}

\* The processes agree on what the shared numbers mean: a number in the table
\* that is open in a child is there the client its place was given to, whoever
\* has left and whoever has come since the child was forked.
NumbersAgree ==
    \A p, q \in Place :
        Lives(p) /\ fds[q] > 0 => Behind(p, fds[q]) \in {who[q], NoClient}

\* What a client is sent of one sender comes in the order it was sent, and
\* nothing comes twice.
InOrder ==
    \A d \in Client : \A j, k \in DOMAIN got[d] :
        j < k /\ got[d][j][1] = got[d][k][1] => got[d][j][2] < got[d][k][2]

\* A child that is back at recv has sent its last message to everyone who came
\* before it and is still there: to those whose child was killed or could not be
\* forked as well, and across the places of those who left meanwhile.
EarlierHear ==
    \A q, p \in Place :
        /\ q <= p /\ cpc[p] = "recv" /\ buf[p] # <<>>
        /\ who[q] # NoClient /\ peer[who[q]] = "open"
        => \E k \in DOMAIN got[who[q]] : got[who[q]][k] = buf[p]

\* What is sure of who hears a message: its sender and those who came before, all
\* of them, each once and in the sender's order.
HeardByThoseBefore == InOrder /\ EarlierHear

\* The loop is called a broadcast, its table one of all clients: a message sent on
\* a number of the table reaches the client the number was given for, if it is
\* there.  (A child has no descriptor for those who came after its fork.)
SendReaches(p) ==
    /\ cpc[p] = "send" /\ cpc'[p] = "test"
    /\ fds[i[p]] > 0 /\ peer[who[i[p]]] = "open"
    => got'[who[i[p]]] = Append(got[who[i[p]]], buf[p])
BroadcastReachesTable == [][\A p \in Place : SendReaches(p)]_vars
=============================================================================
