--------------------------- MODULE ChatShmServer ---------------------------
(***************************************************************************)
(* The chat server of chatshmserver.cpp: one child process per client,     *)
(* a table of the children in the parent, one slot of shared memory per    *)
(* client.  A child that receives a message writes it into its slot and    *)
(* sends the slot's number through its channel; the parent relays the      *)
(* number to the other children, which send the slot to their clients.     *)
(*                                                                         *)
(* A step of a process is one event of an epoll batch, or the part of it   *)
(* up to the next point where another process can interfere.  The numbers  *)
(* of processes and of the descriptors of their channels are both reused;  *)
(* a process and its channel are one element of Pid here.  What children   *)
(* do after the parent has exited is not modelled.                         *)
(***************************************************************************)
EXTENDS Integers, FiniteSets, Sequences

CONSTANTS
    Pid,         \* process numbers, reused once they are free
    Conn,        \* the connections clients make
    USER_LIMIT,  \* clients served at a time
    Author,      \* the connections on which a client sends,
    MaxMsg,      \* and the messages it sends on one
    MaxTerm,     \* SIGTERMs sent to the parent
    MaxFault,    \* killed children, failed forks and accepts, reset connections
    SigCap,      \* bytes the signal pipe holds
    ChanCap      \* ints a channel holds in one direction

ASSUME LimitAssumption == USER_LIMIT \in Nat \ {0}
ASSUME PidAssumption == Pid \cap {"listen", "sig", "nobody"} = {}
ASSUME MsgAssumption == MaxMsg \in Nat
ASSUME CapacityAssumption == SigCap \in Nat \ {0} /\ ChanCap \in Nat \ {0}

Slot   == 0 .. USER_LIMIT - 1
NoUser == -1
Nobody == "nobody"                  \* an entry of users never filled
Msg    == Conn \X (1 .. MaxMsg)     \* <<author's connection, serial>>

VARIABLES
    ppc,          \* the parent: "wait", "batch" or "exited"
    pbatch,       \* events of its batch still to handle
    parmed,       \* edges its epoll has to report
    psigpipe,     \* bytes in sig_pipefd
    sigbuf,       \* bytes received from it and not yet handled
    ppend,        \* signals pending for the parent
    users,        \* users[i].pid
    user_count,
    sub_process,  \* the slot of the table a process was entered in
    terminate,
    stop_server,
    cpc,          \* "free", "forked", "closed", "test", "enter", "wait",
                  \* "batch", "zeroed" or "zombie"
    stop_child,
    cidx,         \* the idx run_child was called with
    cconn,        \* the connection it was called with
    cbatch,       \* events of the child's batch: "conn", "pipe"
    carmed,       \* edges its epoll has to report
    cterm,        \* SIGTERM is pending for it
    toParent,     \* ints in its channel, towards the parent
    toChild,      \* and towards the child
    share_mem,    \* the messages each slot holds
    fresh,        \* connections not yet made
    backlog,      \* connections waiting for accept
    inbox,        \* messages a connection has received and no one has read
    peer,         \* the client's end: "open", "closed" or "reset"
    wrote,        \* messages it has sent
    got,          \* messages it has been sent
    moved,        \* history: a table entry other than the last was removed
    late,         \* history: children forked after stop_server was set
    terms, faults

parentVars == <<ppc, pbatch, parmed, psigpipe, sigbuf, ppend>>
tableVars  == <<users, user_count, sub_process, terminate, stop_server>>
childVars  == <<cpc, stop_child, cidx, cconn, cbatch, carmed, cterm>>
chanVars   == <<toParent, toChild, share_mem>>
netVars    == <<fresh, backlog, inbox, peer, wrote, got>>
auxVars    == <<moved, late, terms, faults>>
vars == <<parentVars, tableVars, childVars, chanVars, netVars, auxVars>>

TypeOK ==
    /\ ppc \in {"wait", "batch", "exited"}
    /\ pbatch \subseteq {"listen", "sig"} \cup Pid
    /\ parmed \subseteq {"listen", "sig"} \cup Pid
    /\ psigpipe \in Seq({"CHLD", "TERM"})
    /\ Len(psigpipe) <= SigCap
    /\ sigbuf \in Seq({"CHLD", "TERM"})
    /\ ppend \subseteq {"CHLD", "TERM"}
    /\ users \in [0 .. USER_LIMIT -> Pid \cup {Nobody}]
    /\ user_count \in 0 .. USER_LIMIT
    /\ sub_process \in [Pid -> Slot \cup {NoUser}]
    /\ terminate \in BOOLEAN
    /\ stop_server \in BOOLEAN
    /\ cpc \in [Pid -> {"free", "forked", "closed", "test", "enter", "wait",
                        "batch", "zeroed", "zombie"}]
    /\ stop_child \in [Pid -> BOOLEAN]
    /\ cidx \in [Pid -> Slot]
    /\ cconn \in [Pid -> Conn \cup {Nobody}]
    /\ cbatch \in [Pid -> SUBSET {"conn", "pipe"}]
    /\ carmed \in [Pid -> SUBSET {"conn", "pipe"}]
    /\ cterm \in [Pid -> BOOLEAN]
    /\ toParent \in [Pid -> Seq(Slot)]
    /\ toChild \in [Pid -> Seq(Slot)]
    /\ share_mem \in [Slot -> SUBSET Msg]
    /\ fresh \subseteq Conn
    /\ backlog \in Seq(Conn)
    /\ inbox \in [Conn -> SUBSET Msg]
    /\ peer \in [Conn -> {"open", "closed", "reset"}]
    /\ wrote \in [Conn -> 0 .. MaxMsg]
    /\ got \in [Conn -> SUBSET Msg]
    /\ moved \in BOOLEAN
    /\ late \subseteq Pid
    /\ terms \in Nat
    /\ faults \in Nat

Init ==
    /\ ppc = "wait" /\ pbatch = {} /\ parmed = {}
    /\ psigpipe = <<>> /\ sigbuf = <<>> /\ ppend = {}
    /\ users = [i \in 0 .. USER_LIMIT |-> Nobody]
    /\ user_count = 0
    /\ sub_process = [p \in Pid |-> NoUser]
    /\ terminate = FALSE /\ stop_server = FALSE
    /\ cpc = [p \in Pid |-> "free"]
    /\ stop_child = [p \in Pid |-> FALSE]
    /\ cidx = [p \in Pid |-> 0]
    /\ cconn = [p \in Pid |-> Nobody]
    /\ cbatch = [p \in Pid |-> {}] /\ carmed = [p \in Pid |-> {}]
    /\ cterm = [p \in Pid |-> FALSE]
    /\ toParent = [p \in Pid |-> <<>>] /\ toChild = [p \in Pid |-> <<>>]
    /\ share_mem = [i \in Slot |-> {}]
    /\ fresh = Conn /\ backlog = <<>>
    /\ inbox = [c \in Conn |-> {}]
    /\ peer = [c \in Conn |-> "open"]
    /\ wrote = [c \in Conn |-> 0]
    /\ got = [c \in Conn |-> {}]
    /\ moved = FALSE /\ late = {}
    /\ terms = 0 /\ faults = 0

-----------------------------------------------------------------------------
Unreaped(p) == cpc[p] # "free"
Alive(p)    == cpc[p] \notin {"free", "zombie"}
Registered(p) == cpc[p] \in {"test", "enter", "wait", "batch", "zeroed"}

\* The children in the table.
InTable(p) == \E i \in 0 .. user_count - 1 : users[i] = p

\* Both ends of a channel are non-blocking: what does not fit is lost, and raises
\* no edge at the other end.
Fits(chan) == Len(chan) < ChanCap
Sent(chan, e) == IF Fits(chan) THEN Append(chan, e) ELSE chan

ConnReadable(c) == inbox[c] # {} \/ peer[c] # "open"

-----------------------------------------------------------------------------
(* The parent.                                                             *)

\* EPOLLIN on a channel: an int, or the end of a dead child's stream.
Readable(e) ==
    CASE e = "listen" -> backlog # <<>>
      [] e = "sig"    -> psigpipe # <<>>
      [] OTHER        -> toParent[e] # <<>> \/ cpc[e] = "zombie"

ParentWait ==
    LET ready == {e \in parmed : Readable(e)}
    IN  /\ ppc = "wait" /\ ready # {}
        /\ ppc' = "batch"
        /\ pbatch' = ready
        /\ parmed' = {}
        /\ UNCHANGED <<psigpipe, sigbuf, ppend, tableVars, childVars, chanVars,
                       netVars, auxVars>>

Handling(e) == ppc = "batch" /\ sigbuf = <<>> /\ e \in pbatch

\* accept with a full table: the client is told and its connection closed.
Full == user_count >= USER_LIMIT

Reject ==
    /\ Handling("listen") /\ backlog # <<>> /\ Full
    /\ pbatch' = pbatch \ {"listen"}
    /\ backlog' = Tail(backlog)
    /\ peer' = [peer EXCEPT ![Head(backlog)] = "closed"]
    /\ UNCHANGED <<ppc, parmed, psigpipe, sigbuf, ppend, tableVars, childVars,
                   chanVars, fresh, inbox, wrote, got, auxVars>>

\* The entry in the table and the slot of a new client.
mutCountFirst == user_count + 1
NewIdx == user_count

\* accept, socketpair, fork: the child p is entered in the table at the end.
\* It starts with the parent's handlers and the parent's signal pipe.
Accept(p) ==
    /\ Handling("listen") /\ backlog # <<>> /\ ~ Full
    /\ cpc[p] = "free"
    /\ pbatch' = pbatch \ {"listen"}
    /\ backlog' = Tail(backlog)
    /\ users' = [users EXCEPT ![user_count] = p]
    /\ sub_process' = [sub_process EXCEPT ![p] = user_count]
    /\ user_count' = user_count + 1
    /\ cpc' = [cpc EXCEPT ![p] = "forked"]
    /\ stop_child' = [stop_child EXCEPT ![p] = FALSE]
    /\ cidx' = [cidx EXCEPT ![p] = NewIdx]
    /\ cconn' = [cconn EXCEPT ![p] = Head(backlog)]
    /\ late' = IF stop_server THEN late \cup {p} ELSE late \ {p}
    /\ UNCHANGED <<ppc, parmed, psigpipe, sigbuf, ppend, terminate,
                   stop_server, cbatch, carmed, cterm, chanVars, fresh, inbox,
                   peer, wrote, got, moved, terms, faults>>

\* accept or fork fails: the event is spent, in the second case the client too.
AcceptFails ==
    /\ Handling("listen") /\ faults < MaxFault /\ backlog # <<>> /\ ~ Full
    /\ faults' = faults + 1
    /\ pbatch' = pbatch \ {"listen"}
    /\ \/ UNCHANGED <<backlog, peer>>
       \/ /\ backlog' = Tail(backlog)
          /\ peer' = [peer EXCEPT ![Head(backlog)] = "closed"]
    /\ UNCHANGED <<ppc, parmed, psigpipe, sigbuf, ppend, tableVars, childVars,
                   chanVars, fresh, inbox, wrote, got, moved, late, terms>>

RecvSignals ==
    /\ Handling("sig")
    /\ sigbuf' = psigpipe
    /\ psigpipe' = <<>>
    /\ pbatch' = pbatch \ {"sig"}
    /\ UNCHANGED <<ppc, parmed, ppend, tableVars, childVars, chanVars, netVars,
                   auxVars>>

HandlingSig(s) == ppc = "batch" /\ sigbuf # <<>> /\ Head(sigbuf) = s

\* The last entry takes the place of the one removed, and its process is
\* entered at the new place.
mutKeepOldPlace(del, table, sub) == sub
SubAfterMove(del, table, sub) == [sub EXCEPT ![table[del]] = del]

\* One round of the waitpid loop: p leaves the table, its channel is closed.
ReapOne(p) ==
    LET del   == sub_process[p]
        last  == user_count - 1
        table == [users EXCEPT ![del] = users[last]]
        sub   == [sub_process EXCEPT ![p] = NoUser]
    IN  /\ HandlingSig("CHLD") /\ cpc[p] = "zombie"
        /\ cpc' = [cpc EXCEPT ![p] = "free"]
        /\ IF del = NoUser
           THEN /\ sub_process' = sub
                /\ UNCHANGED <<users, user_count, parmed, moved>>
           ELSE /\ users' = table
                /\ user_count' = last
                /\ sub_process' = SubAfterMove(del, table, sub)
                /\ parmed' = parmed \ {p}
                /\ moved' = (moved \/ del # last)
        /\ toParent' = [toParent EXCEPT ![p] = <<>>]
        /\ toChild' = [toChild EXCEPT ![p] = <<>>]
        /\ UNCHANGED <<ppc, pbatch, psigpipe, sigbuf, ppend, terminate,
                       stop_server, stop_child, cidx, cconn, cbatch, carmed,
                       cterm, share_mem, netVars, late, terms, faults>>

\* The loop ends when waitpid finds no zombie.
mutOneWaitpid == TRUE
NoMoreZombies == \A p \in Pid : cpc[p] # "zombie"

mutStopAtOnce == terminate
AllGone == terminate /\ user_count = 0

ReapDone ==
    /\ HandlingSig("CHLD") /\ NoMoreZombies
    /\ sigbuf' = Tail(sigbuf)
    /\ stop_server' = (stop_server \/ AllGone)
    /\ UNCHANGED <<ppc, pbatch, parmed, psigpipe, ppend, users, user_count,
                   sub_process, terminate, childVars, chanVars, netVars,
                   auxVars>>

\* Who is killed: the children in the table.
mutAllButFirst(p) == \E i \in 1 .. user_count - 1 : users[i] = p
ToKill(p) == InTable(p)

\* SIGTERM or SIGINT: without clients the server stops; otherwise it kills the
\* children of the table and stops once the last is collected.
HandleTerm ==
    /\ HandlingSig("TERM")
    /\ sigbuf' = Tail(sigbuf)
    /\ \/ /\ user_count = 0
          /\ stop_server' = TRUE
          /\ UNCHANGED <<terminate, cterm>>
       \/ /\ user_count > 0
          /\ cterm' = [p \in Pid |-> cterm[p] \/ (ToKill(p) /\ Alive(p))]
          /\ terminate' = TRUE
          /\ UNCHANGED stop_server
    /\ UNCHANGED <<ppc, pbatch, parmed, psigpipe, ppend, users, user_count,
                   sub_process, cpc, stop_child, cidx, cconn, cbatch, carmed,
                   chanVars, netVars, auxVars>>

\* Everyone in the table but the sender of the event.
mutNotTheLast(p) ==
    {q \in Pid : q # p /\ \E i \in 0 .. user_count - 2 : users[i] = q}
mutEveryone(p) == {q \in Pid : InTable(q)}
Others(p) == {q \in Pid : InTable(q) /\ q # p}

\* An event of the channel of p: one int is read and relayed.  The event may be
\* stale (the channel has been closed since) or the stream at its end.
Relay(p) ==
    /\ Handling(p)
    /\ pbatch' = pbatch \ {p}
    /\ \/ /\ InTable(p) /\ toParent[p] # <<>>
          /\ toParent' = [toParent EXCEPT ![p] = Tail(@)]
          /\ toChild' = [q \in Pid |->
                IF q \in Others(p) /\ Alive(q)
                THEN Sent(toChild[q], Head(toParent[p])) ELSE toChild[q]]
          /\ carmed' = [q \in Pid |->
                IF q \in Others(p) /\ Registered(q) /\ Fits(toChild[q])
                THEN carmed[q] \cup {"pipe"} ELSE carmed[q]]
       \/ /\ ~ (InTable(p) /\ toParent[p] # <<>>)
          /\ UNCHANGED <<toParent, toChild, carmed>>
    /\ UNCHANGED <<ppc, parmed, psigpipe, sigbuf, ppend, tableVars, cpc,
                   stop_child, cidx, cconn, cbatch, cterm, share_mem, netVars,
                   auxVars>>

ParentBatchDone ==
    /\ ppc = "batch" /\ pbatch = {} /\ sigbuf = <<>>
    /\ ppc' = IF stop_server THEN "exited" ELSE "wait"
    /\ UNCHANGED <<pbatch, parmed, psigpipe, sigbuf, ppend, tableVars,
                   childVars, chanVars, netVars, auxVars>>

\* sig_handler, run by the parent or by a child that still has it and the
\* descriptors: a byte in the signal pipe, lost when the pipe is full.
SigByte(s) ==
    \/ /\ Len(psigpipe) < SigCap
       /\ psigpipe' = Append(psigpipe, s)
       /\ parmed' = parmed \cup {"sig"}
    \/ /\ Len(psigpipe) >= SigCap
       /\ UNCHANGED <<psigpipe, parmed>>

DeliverParent(s) ==
    /\ s \in ppend /\ ppc # "exited"
    /\ ppend' = ppend \ {s}
    /\ SigByte(s)
    /\ UNCHANGED <<ppc, pbatch, sigbuf, tableVars, childVars, chanVars,
                   netVars, auxVars>>

-----------------------------------------------------------------------------
(* A child.                                                                *)

\* The child ends: its descriptors close, which is an edge on its channel, and
\* the parent gets SIGCHLD.
Dies(p) ==
    /\ cpc' = [cpc EXCEPT ![p] = "zombie"]
    /\ ppend' = ppend \cup {"CHLD"}
    /\ parmed' = parmed \cup {p}
    /\ stop_child' = [stop_child EXCEPT ![p] = FALSE]
    /\ cbatch' = [cbatch EXCEPT ![p] = {}]
    /\ carmed' = [carmed EXCEPT ![p] = {}]
    /\ cterm' = [cterm EXCEPT ![p] = FALSE]
    /\ toChild' = [toChild EXCEPT ![p] = <<>>]
    /\ inbox' = [inbox EXCEPT ![cconn[p]] = {}]
    /\ peer' = [peer EXCEPT ![cconn[p]] = "closed"]

\* The child closes what it inherited, the signal pipe among it.
ChildCloses(p) ==
    /\ cpc[p] = "forked"
    /\ cpc' = [cpc EXCEPT ![p] = "closed"]
    /\ UNCHANGED <<parentVars, tableVars, stop_child, cidx, cconn, cbatch,
                   carmed, cterm, chanVars, netVars, auxVars>>

\* run_child up to its loop: both descriptors are registered, with an edge if
\* they are readable already, and SIGTERM gets child_term_handler.
ChildSetup(p) ==
    /\ cpc[p] = "closed"
    /\ cpc' = [cpc EXCEPT ![p] = "test"]
    /\ carmed' = [carmed EXCEPT ![p] =
            {e \in {"conn", "pipe"} : IF e = "conn" THEN ConnReadable(cconn[p])
                                                   ELSE toChild[p] # <<>>}]
    /\ UNCHANGED <<parentVars, tableVars, stop_child, cidx, cconn, cbatch,
                   cterm, chanVars, netVars, auxVars>>

\* while(!stop_child): a SIGTERM after this test and before epoll_wait is not
\* noticed until an event comes.
ChildTest(p) ==
    /\ cpc[p] = "test"
    /\ \/ stop_child[p] /\ Dies(p)
       \/ /\ ~ stop_child[p]
          /\ cpc' = [cpc EXCEPT ![p] = "enter"]
          /\ UNCHANGED <<ppend, parmed, stop_child, cbatch, carmed, cterm,
                         toChild, inbox, peer>>
    /\ UNCHANGED <<ppc, pbatch, psigpipe, sigbuf, tableVars, cidx, cconn,
                   toParent, share_mem, fresh, backlog, wrote, got, auxVars>>

ChildEnter(p) ==
    /\ cpc[p] = "enter"
    /\ cpc' = [cpc EXCEPT ![p] = "wait"]
    /\ UNCHANGED <<parentVars, tableVars, stop_child, cidx, cconn, cbatch,
                   carmed, cterm, chanVars, netVars, auxVars>>

ChildReady(p) ==
    {e \in carmed[p] : IF e = "conn" THEN ConnReadable(cconn[p])
                                     ELSE toChild[p] # <<>>}

ChildWait(p) ==
    /\ cpc[p] = "wait" /\ ChildReady(p) # {}
    /\ cpc' = [cpc EXCEPT ![p] = "batch"]
    /\ cbatch' = [cbatch EXCEPT ![p] = ChildReady(p)]
    /\ carmed' = [carmed EXCEPT ![p] = {}]
    /\ UNCHANGED <<parentVars, tableVars, stop_child, cidx, cconn, cterm,
                   chanVars, netVars, auxVars>>

\* The client's event: first the slot is cleared,
ChildZero(p) ==
    /\ cpc[p] = "batch" /\ "conn" \in cbatch[p]
    /\ cpc' = [cpc EXCEPT ![p] = "zeroed"]
    /\ cbatch' = [cbatch EXCEPT ![p] = @ \ {"conn"}]
    /\ share_mem' = [share_mem EXCEPT ![cidx[p]] = {}]
    /\ UNCHANGED <<parentVars, tableVars, stop_child, cidx, cconn, carmed,
                   cterm, toParent, toChild, netVars, auxVars>>

\* ... then recv fills it with what there is and the parent is told; or the
\* client has closed, which takes stop_child back; or the connection is reset.
ChildRecv(p) ==
    LET c == cconn[p]
    IN  /\ cpc[p] = "zeroed"
        /\ cpc' = [cpc EXCEPT ![p] = "batch"]
        /\ \/ /\ inbox[c] # {}
              /\ share_mem' = [share_mem EXCEPT ![cidx[p]] = inbox[c]]
              /\ inbox' = [inbox EXCEPT ![c] = {}]
              /\ toParent' = [toParent EXCEPT ![p] = Sent(@, cidx[p])]
              /\ parmed' = IF Fits(toParent[p]) THEN parmed \cup {p} ELSE parmed
              /\ UNCHANGED <<stop_child, peer>>
           \/ /\ inbox[c] = {}
              /\ stop_child' = [stop_child EXCEPT ![p] = peer[c] = "reset"]
              /\ peer' = [peer EXCEPT ![c] = "closed"]
              /\ UNCHANGED <<share_mem, inbox, toParent, parmed>>
        /\ UNCHANGED <<ppc, pbatch, psigpipe, sigbuf, ppend, tableVars, cidx,
                       cconn, cbatch, carmed, cterm, toChild, fresh, backlog,
                       wrote, got, auxVars>>

\* An int from the parent: the slot it names, as it is now, goes to the client.
ChildForward(p) ==
    /\ cpc[p] = "batch" /\ "pipe" \in cbatch[p]
    /\ cbatch' = [cbatch EXCEPT ![p] = @ \ {"pipe"}]
    /\ toChild' = [toChild EXCEPT ![p] = Tail(@)]
    /\ got' = [got EXCEPT ![cconn[p]] =
                  IF peer[cconn[p]] = "open"
                  THEN @ \cup share_mem[Head(toChild[p])] ELSE @]
    /\ UNCHANGED <<parentVars, tableVars, cpc, stop_child, cidx, cconn,
                   carmed, cterm, toParent, share_mem, fresh, backlog, inbox,
                   peer, wrote, auxVars>>

ChildBatchDone(p) ==
    /\ cpc[p] = "batch" /\ cbatch[p] = {}
    /\ cpc' = [cpc EXCEPT ![p] = "test"]
    /\ UNCHANGED <<parentVars, tableVars, stop_child, cidx, cconn, cbatch,
                   carmed, cterm, chanVars, netVars, auxVars>>

\* SIGTERM reaches the child: in the parent's handler (a byte in the parent's
\* pipe, or nothing once that is closed), or in its own, which interrupts
\* epoll_wait.
DeliverChild(p) ==
    /\ cterm[p]
    /\ cterm' = [cterm EXCEPT ![p] = FALSE]
    /\ \/ /\ cpc[p] = "forked"
          /\ SigByte("TERM")
          /\ UNCHANGED <<cpc, stop_child>>
       \/ /\ cpc[p] = "closed"
          /\ UNCHANGED <<psigpipe, parmed, cpc, stop_child>>
       \/ /\ Registered(p)
          /\ stop_child' = [stop_child EXCEPT ![p] = TRUE]
          /\ cpc' = [cpc EXCEPT ![p] = IF @ = "wait" THEN "test" ELSE @]
          /\ UNCHANGED <<psigpipe, parmed>>
    /\ UNCHANGED <<ppc, pbatch, sigbuf, ppend, tableVars, cidx, cconn, cbatch,
                   carmed, chanVars, netVars, auxVars>>

-----------------------------------------------------------------------------
(* The environment.                                                        *)

Up == ppc # "exited"

Crash(p) ==
    /\ Up /\ Alive(p) /\ faults < MaxFault
    /\ faults' = faults + 1
    /\ Dies(p)
    /\ UNCHANGED <<ppc, pbatch, psigpipe, sigbuf, tableVars, cidx, cconn,
                   toParent, share_mem, fresh, backlog, wrote, got, moved,
                   late, terms>>

Connect(c) ==
    /\ Up /\ c \in fresh
    /\ fresh' = fresh \ {c}
    /\ backlog' = Append(backlog, c)
    /\ parmed' = parmed \cup {"listen"}
    /\ UNCHANGED <<ppc, pbatch, psigpipe, sigbuf, ppend, tableVars, childVars,
                   chanVars, inbox, peer, wrote, got, auxVars>>

\* An edge for the child that has registered the connection.
ConnEdge(c) ==
    carmed' = [p \in Pid |-> IF Registered(p) /\ cconn[p] = c
                             THEN carmed[p] \cup {"conn"} ELSE carmed[p]]

Connected(c) == c \notin fresh /\ peer[c] = "open"

ClientSends(c) ==
    /\ Up /\ c \in Author /\ Connected(c) /\ wrote[c] < MaxMsg
    /\ wrote' = [wrote EXCEPT ![c] = @ + 1]
    /\ inbox' = [inbox EXCEPT ![c] = @ \cup {<<c, wrote[c] + 1>>}]
    /\ ConnEdge(c)
    /\ UNCHANGED <<parentVars, tableVars, cpc, stop_child, cidx, cconn,
                   cbatch, cterm, chanVars, fresh, backlog, peer, got, auxVars>>

ClientCloses(c) ==
    /\ Up /\ Connected(c)
    /\ peer' = [peer EXCEPT ![c] = "closed"]
    /\ ConnEdge(c)
    /\ UNCHANGED <<parentVars, tableVars, cpc, stop_child, cidx, cconn,
                   cbatch, cterm, chanVars, fresh, backlog, inbox, wrote, got,
                   auxVars>>

ClientResets(c) ==
    /\ Up /\ Connected(c) /\ faults < MaxFault
    /\ faults' = faults + 1
    /\ peer' = [peer EXCEPT ![c] = "reset"]
    /\ ConnEdge(c)
    /\ UNCHANGED <<parentVars, tableVars, cpc, stop_child, cidx, cconn,
                   cbatch, cterm, chanVars, fresh, backlog, inbox, wrote, got,
                   moved, late, terms>>

Terminate ==
    /\ Up /\ terms < MaxTerm
    /\ terms' = terms + 1
    /\ ppend' = ppend \cup {"TERM"}
    /\ UNCHANGED <<ppc, pbatch, parmed, psigpipe, sigbuf, tableVars, childVars,
                   chanVars, netVars, moved, late, faults>>

-----------------------------------------------------------------------------
ParentStep ==
    \/ ParentWait
    \/ Reject
    \/ \E p \in Pid : Accept(p)
    \/ RecvSignals
    \/ \E p \in Pid : ReapOne(p)
    \/ ReapDone
    \/ HandleTerm
    \/ \E p \in Pid : Relay(p)
    \/ ParentBatchDone

ChildStep(p) ==
    /\ Up
    /\ \/ ChildCloses(p)
       \/ ChildSetup(p)
       \/ ChildTest(p)
       \/ ChildEnter(p)
       \/ ChildWait(p)
       \/ ChildZero(p)
       \/ ChildRecv(p)
       \/ ChildForward(p)
       \/ ChildBatchDone(p)

Deliver ==
    \/ \E s \in {"CHLD", "TERM"} : DeliverParent(s)
    \/ \E p \in Pid : Up /\ DeliverChild(p)

Environment ==
    \/ AcceptFails
    \/ Terminate
    \/ \E p \in Pid : Crash(p)
    \/ \E c \in Conn : \/ Connect(c)
                       \/ ClientSends(c)
                       \/ ClientCloses(c)
                       \/ ClientResets(c)

Next ==
    \/ ParentStep
    \/ \E p \in Pid : ChildStep(p)
    \/ Deliver
    \/ Environment

\* Processes that can run are scheduled, pending signals are delivered; clients,
\* SIGTERMs and faults owe nothing.
Fairness ==
    /\ WF_vars(ParentStep)
    /\ \A p \in Pid : WF_vars(ChildStep(p))
    /\ \A s \in {"CHLD", "TERM"} : WF_vars(DeliverParent(s))
    /\ \A p \in Pid : WF_vars(Up /\ DeliverChild(p))

Spec     == Init /\ [][Next]_vars
FairSpec == Spec /\ Fairness

-----------------------------------------------------------------------------
(* What the server promises.                                               *)

\* The table and its inverse agree: the entries in use are exactly the children
\* not yet collected, each once, and sub_process leads from a child back to its
\* entry; so every pid that waitpid returns is found and the right entry is
\* removed, in whatever order children end and entries move.
TableOK ==
    /\ \A i \in 0 .. user_count - 1 :
          Unreaped(users[i]) /\ sub_process[users[i]] = i
    /\ \A p \in Pid : Unreaped(p) => InTable(p)

\* As long as only the last entry has ever been removed, the slot a child writes
\* is the place it has in the table, so no two clients share one.
SlotsMatchTable ==
    ~ moved => \A i \in 0 .. user_count - 1 : cidx[users[i]] = i

\* As long as only the last entry has ever been removed, no client is sent what
\* it wrote itself, however stale the numbers in the channels and the slots are.
NoEcho ==
    ~ moved => \A c \in Conn : \A m \in got[c] : m[1] # c

\* When the server exits, any child left was forked after the decision to stop,
\* by a connection in the same batch of events.
StopLeavesOnlyLate ==
    stop_server => \A p \in Pid : Unreaped(p) => p \in late


\* A message reaches every other client that had its child in the table when it
\* was sent ("broadcast", 404), unless that client or either child goes.
BroadcastReaches ==
    \A c \in Author, n \in 1 .. MaxMsg : \A d \in Conn \ {c} :
        (/\ <<c, n>> \in inbox[c]
         /\ \E p, q \in Pid : /\ InTable(p) /\ Alive(p) /\ cconn[p] = c
                              /\ InTable(q) /\ Alive(q) /\ cconn[q] = d)
        ~> (<<c, n>> \in got[d] \/ peer[c] # "open" \/ peer[d] # "open")

\* SIGTERM ends the server: once it is handled, the server exits.
SigtermEndsServer == HandlingSig("TERM") ~> ppc = "exited"

\* A SIGTERM that finds every child in epoll_wait with nothing to read, no
\* client that connects or sends and the signal pipe empty (a full one would
\* lose the SIGCHLDs to come) ends the server.
Quiet ==
    /\ fresh = {} /\ backlog = <<>> /\ psigpipe = <<>>
    /\ \A p \in Pid : Unreaped(p) => cpc[p] = "wait" /\ carmed[p] = {}
    /\ \A c \in Conn : peer[c] = "closed"

QuietSigtermEndsServer == (Quiet /\ HandlingSig("TERM")) ~> ppc = "exited"

=============================================================================
