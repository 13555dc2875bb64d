---------------------------- MODULE ProcessPool ----------------------------
(***************************************************************************)
(* The half-sync/half-async process pool of processpool.h: a parent that   *)
(* owns the listening socket's epoll registration and N children that do   *)
(* the accepting.  A connection raises an edge on the listening socket,    *)
(* the parent picks a child round robin and writes one int to its pipe,    *)
(* the child reads the int and accepts.  SIGTERM and SIGCHLD become bytes  *)
(* in a signal pipe that the same epoll loop reads.                        *)
(*                                                                         *)
(* One process takes one step at a time: an epoll_wait, one event of the   *)
(* batch it returned, or one signal byte.  epoll_wait interrupted by a     *)
(* signal changes nothing and is not a step.  SIGINT is handled as SIGTERM *)
(* (387-388) and is not told apart from it.                                *)
(***************************************************************************)
EXTENDS Integers, FiniteSets, Sequences

CONSTANTS
    N,         \* m_process_number, the children
    Conn,      \* the connections clients make
    MaxTerm,   \* SIGTERMs sent from outside, to the parent or to a child
    MaxFault,  \* crashes of a child, failed forks and failed accepts
    SigCap,    \* bytes the parent's signal pipe holds
    PipeCap    \* ints one m_pipefd channel holds

ASSUME NAssumption == N \in Nat \ {0}
ASSUME ConnAssumption == Conn \cap {"pipe", "sig"} = {}
ASSUME CapAssumption == SigCap \in Nat \ {0} /\ PipeCap \in Nat \ {0}

Idx   == 0 .. N-1
NoPid == -1
Pids  == Idx \cup {NoPid}    \* the pid of the i-th child is i

VARIABLES
    ppc,       \* the parent: "fork", "wait", "batch", "exited" or "killed"
    m_pid,     \* m_sub_process[i].m_pid
    m_stop,    \* the parent's m_stop
    sub_process_counter,
    pbatch,    \* events of the parent's current batch still to handle
    parmed,    \* edges epoll has to report to the parent
    psigpipe,  \* bytes in the parent's signal pipe
    sigbuf,    \* bytes received from it, still to be handled
    ppend,     \* signals pending for the parent
    cpc,       \* child i: "none", "start", "wait", "batch", "recvd",
               \* "zombie" or "reaped"
    cstop,     \* its m_stop
    cbatch,    \* its batch
    carmed,    \* edges its epoll has to report
    csig,      \* a SIGTERM byte is in its signal pipe
    cpend,     \* SIGTERM is pending for it
    pipe,      \* ints in its channel
    conns,     \* the connections it has accepted and not closed
    backlog,   \* the listening socket's queue of established connections
    fresh,     \* connections not yet made
    hot,       \* connections with input nobody has read
    sent,      \* history: how often the parent chose child i
    missed,    \* history: children whose SIGCHLD reached no signal pipe
    terms,     \* SIGTERMs sent from outside so far
    faults     \* faults so far

parentVars == <<ppc, m_pid, m_stop, sub_process_counter, pbatch, parmed,
                psigpipe, sigbuf, ppend>>
childVars  == <<cpc, cstop, cbatch, carmed, csig, cpend, pipe, conns>>
netVars    == <<backlog, fresh, hot>>
auxVars    == <<sent, missed, terms, faults>>
vars       == <<parentVars, childVars, netVars, auxVars>>

TypeOK ==
    /\ ppc \in {"fork", "wait", "batch", "exited", "killed"}
    /\ m_pid \in [Idx -> Pids]
    /\ m_stop \in BOOLEAN
    /\ sub_process_counter \in Idx
    /\ pbatch \subseteq {"listen", "sig"}
    /\ parmed \subseteq {"listen", "sig"}
    /\ psigpipe \in Seq({"CHLD", "TERM"})
    /\ Len(psigpipe) <= SigCap
    /\ sigbuf \in Seq({"CHLD", "TERM"})
    /\ ppend \subseteq {"CHLD", "TERM"}
    /\ cpc \in [Idx -> {"none", "start", "wait", "batch", "recvd",
                        "zombie", "reaped"}]
    /\ cstop \in [Idx -> BOOLEAN]
    /\ cbatch \in [Idx -> SUBSET ({"pipe", "sig"} \cup Conn)]
    /\ carmed \in [Idx -> SUBSET ({"pipe", "sig"} \cup Conn)]
    /\ csig \in [Idx -> BOOLEAN]
    /\ cpend \in [Idx -> BOOLEAN]
    /\ pipe \in [Idx -> 0 .. PipeCap]
    /\ conns \in [Idx -> SUBSET Conn]
    /\ backlog \in Seq(Conn)
    /\ fresh \subseteq Conn
    /\ hot \subseteq Conn
    /\ sent \in [Idx -> Nat]
    /\ missed \subseteq Idx
    /\ terms \in Nat
    /\ faults \in Nat

Init ==
    /\ ppc = "fork"
    /\ m_pid = [i \in Idx |-> NoPid]
    /\ m_stop = FALSE
    /\ sub_process_counter = 0
    /\ pbatch = {} /\ parmed = {}
    /\ psigpipe = <<>> /\ sigbuf = <<>> /\ ppend = {}
    /\ cpc = [i \in Idx |-> "none"]
    /\ cstop = [i \in Idx |-> FALSE]
    /\ cbatch = [i \in Idx |-> {}] /\ carmed = [i \in Idx |-> {}]
    /\ csig = [i \in Idx |-> FALSE] /\ cpend = [i \in Idx |-> FALSE]
    /\ pipe = [i \in Idx |-> 0]
    /\ conns = [i \in Idx |-> {}]
    /\ backlog = <<>> /\ fresh = Conn /\ hot = {}
    /\ sent = [i \in Idx |-> 0] /\ missed = {}
    /\ terms = 0 /\ faults = 0

-----------------------------------------------------------------------------
(* What several actions share.                                             *)

InLoop     == ppc \in {"wait", "batch"}          \* handlers installed
Running(i) == cpc[i] \in {"wait", "batch", "recvd"}
Alive(i)   == cpc[i] = "start" \/ Running(i)

\* A child ends: its sockets close, it becomes a zombie of a parent that is
\* there and SIGCHLD is generated for it; a parent without a handler ignores it.
Dies(i) ==
    /\ cpc' = [cpc EXCEPT ![i] = IF ppc = "fork" \/ InLoop THEN "zombie"
                                                           ELSE "reaped"]
    /\ ppend' = IF InLoop THEN ppend \cup {"CHLD"} ELSE ppend
    /\ missed' = IF ppc = "fork" THEN missed \cup {i} ELSE missed
    /\ cbatch' = [cbatch EXCEPT ![i] = {}]
    /\ carmed' = [carmed EXCEPT ![i] = {}]
    /\ csig' = [csig EXCEPT ![i] = FALSE]
    /\ cpend' = [cpend EXCEPT ![i] = FALSE]
    /\ pipe' = [pipe EXCEPT ![i] = 0]
    /\ conns' = [conns EXCEPT ![i] = {}]

\* addfd registers with EPOLLET: an edge is reported once.
mutLevelTriggered(armed, ready) == ready
AfterReport(armed, ready) == {}

\* An int written to the channel of a child that has registered it is an edge,
\* whether or not older ints are still in the channel.
mutOneShot(i) == IF Running(i) /\ sent[i] = 0 THEN {"pipe"} ELSE {}
PipeEdge(i) == IF Running(i) THEN {"pipe"} ELSE {}

\* A connection is an edge of the listening socket once that is registered.
mutListenOneShot == IF InLoop /\ \A i \in Idx : sent[i] = 0 THEN {"listen"} ELSE {}
ListenEdge == IF InLoop THEN {"listen"} ELSE {}

-----------------------------------------------------------------------------
(* The parent.                                                             *)

\* The constructor forks child i and records its pid.
Fork(i) ==
    /\ ppc = "fork" /\ cpc[i] = "none"
    /\ \A j \in Idx : j < i => cpc[j] # "none"
    /\ cpc' = [cpc EXCEPT ![i] = "start"]
    /\ m_pid' = [m_pid EXCEPT ![i] = i]
    /\ UNCHANGED <<ppc, m_stop, sub_process_counter, pbatch, parmed, psigpipe,
                   sigbuf, ppend, cstop, cbatch, carmed, csig, cpend, pipe,
                   conns, netVars, auxVars>>

\* The parent is gone: init reaps the zombies it had.
ParentDies ==
    /\ ppc' = "killed"
    /\ cpc' = [i \in Idx |-> IF cpc[i] = "zombie" THEN "reaped" ELSE cpc[i]]

\* fork fails and the assertion aborts the parent; its children run on.
ForkFails ==
    /\ ppc = "fork" /\ faults < MaxFault
    /\ \E i \in Idx : cpc[i] = "none"
    /\ ParentDies
    /\ faults' = faults + 1
    /\ UNCHANGED <<m_pid, m_stop, sub_process_counter, pbatch, parmed,
                   psigpipe, sigbuf, ppend, cstop, cbatch, carmed, csig,
                   cpend, pipe, conns, netVars, sent, missed, terms>>

\* setup_sig_pipe, then the listening socket is registered: a connection that
\* is already queued is an edge at once.
ParentSetup ==
    /\ ppc = "fork" /\ \A i \in Idx : cpc[i] # "none"
    /\ ppc' = "wait"
    /\ parmed' = IF backlog # <<>> THEN {"listen"} ELSE {}
    /\ UNCHANGED <<m_pid, m_stop, sub_process_counter, pbatch, psigpipe,
                   sigbuf, ppend, childVars, netVars, auxVars>>

Readable(e) == IF e = "listen" THEN backlog # <<>> ELSE psigpipe # <<>>

ParentWait ==
    LET ready == {e \in parmed : Readable(e)}
    IN  /\ ppc = "wait" /\ ready # {}
        /\ ppc' = "batch"
        /\ pbatch' = ready
        /\ parmed' = AfterReport(parmed, ready)
        /\ UNCHANGED <<m_pid, m_stop, sub_process_counter, psigpipe, sigbuf,
                       ppend, childVars, netVars, auxVars>>

\* How far the do-while scan walks from sub_process_counter before it is at i.
Distance(i) == IF i >= sub_process_counter THEN i - sub_process_counter
                                           ELSE i + N - sub_process_counter

\* The child the scan stops at: the first with a pid, in cyclic order.
IsNextChild(i) ==
    /\ m_pid[i] # NoPid
    /\ \A j \in Idx : m_pid[j] # NoPid => Distance(i) <= Distance(j)

\* The counter moves past the child that was chosen.
mutAdvancePastEnd(i) == i + 1
mutAdvanceFromCounter(i) == (sub_process_counter + 1) % N
Advance(i) == (i + 1) % N

\* send() into the channel of child i; a dead child's is EPIPE, and lost.
SendToChild(i) ==
    /\ Alive(i) => pipe[i] < PipeCap           \* a full channel blocks
    /\ pipe' = [pipe EXCEPT ![i] = IF Alive(i) THEN @ + 1 ELSE @]
    /\ carmed' = [carmed EXCEPT ![i] = @ \cup PipeEdge(i)]

\* An edge of the listening socket: choose a child and notify it.
HandleListen ==
    /\ ppc = "batch" /\ sigbuf = <<>> /\ "listen" \in pbatch
    /\ \/ \E i \in Idx :
            /\ IsNextChild(i)
            /\ SendToChild(i)
            /\ sub_process_counter' = Advance(i)
            /\ sent' = [sent EXCEPT ![i] = @ + 1]
            /\ pbatch' = pbatch \ {"listen"}
            /\ UNCHANGED m_stop
       \/ /\ \A i \in Idx : m_pid[i] = NoPid   \* nobody left: leave the batch
          /\ m_stop' = TRUE
          /\ pbatch' = {}
          /\ UNCHANGED <<sub_process_counter, pipe, carmed, sent>>
    /\ UNCHANGED <<ppc, m_pid, parmed, psigpipe, sigbuf, ppend, cpc, cstop,
                   cbatch, csig, cpend, conns, netVars, missed, terms, faults>>

\* An edge of the signal pipe: receive all the bytes it holds.
RecvSignals ==
    /\ ppc = "batch" /\ sigbuf = <<>> /\ "sig" \in pbatch
    /\ sigbuf' = psigpipe
    /\ psigpipe' = <<>>
    /\ pbatch' = pbatch \ {"sig"}
    /\ UNCHANGED <<ppc, m_pid, m_stop, sub_process_counter, parmed, ppend,
                   childVars, netVars, auxVars>>

\* The waitpid loop collects every zombie there is: SIGCHLDs coalesce.
Zombies == {i \in Idx : cpc[i] = "zombie"}
mutOneWaitpid == {i \in Zombies : \A j \in Zombies : i <= j}
Collected == Zombies

\* m_stop becomes true and is taken back for every child that has a pid.
mutAnyJoined(pids) == \E i \in Idx : pids[i] = NoPid
AllJoined(pids) == \A i \in Idx : pids[i] = NoPid

HandleChld ==
    /\ ppc = "batch" /\ sigbuf # <<>> /\ Head(sigbuf) = "CHLD"
    /\ sigbuf' = Tail(sigbuf)
    /\ cpc' = [i \in Idx |-> IF i \in Collected THEN "reaped" ELSE cpc[i]]
    /\ m_pid' = [i \in Idx |-> IF m_pid[i] \in Collected THEN NoPid
                                                         ELSE m_pid[i]]
    /\ m_stop' = AllJoined(m_pid')
    /\ UNCHANGED <<ppc, sub_process_counter, pbatch, parmed, psigpipe, ppend,
                   cstop, cbatch, carmed, csig, cpend, pipe, conns, netVars,
                   auxVars>>

\* SIGTERM or SIGINT: pass SIGTERM on to every child that has a pid.
mutKillFirst(i) == m_pid[i] # NoPid /\ \A j \in Idx : j < i => m_pid[j] = NoPid
Killed(i) == m_pid[i] # NoPid

HandleTerm ==
    /\ ppc = "batch" /\ sigbuf # <<>> /\ Head(sigbuf) = "TERM"
    /\ sigbuf' = Tail(sigbuf)
    /\ cpend' = [i \in Idx |-> cpend[i] \/ (Killed(i) /\ Alive(i))]
    /\ UNCHANGED <<ppc, m_pid, m_stop, sub_process_counter, pbatch, parmed,
                   psigpipe, ppend, cpc, cstop, cbatch, carmed, csig, pipe,
                   conns, netVars, auxVars>>

\* The batch is done and m_stop is tested.
ParentBatchDone ==
    /\ ppc = "batch" /\ pbatch = {} /\ sigbuf = <<>>
    /\ ppc' = IF m_stop THEN "exited" ELSE "wait"
    /\ UNCHANGED <<m_pid, m_stop, sub_process_counter, pbatch, parmed,
                   psigpipe, sigbuf, ppend, childVars, netVars, auxVars>>

\* A pending signal reaches the parent: SIGTERM kills it before the handlers
\* are installed; afterwards sig_handler sends a byte on the non-blocking end
\* of the signal pipe, which a full pipe refuses.
DeliverParent(s) ==
    /\ s \in ppend
    /\ ppend' = ppend \ {s}
    /\ \/ /\ ppc = "fork"
          /\ ParentDies
          /\ UNCHANGED <<parmed, psigpipe, missed>>
       \/ /\ InLoop
          /\ Len(psigpipe) < SigCap
          /\ psigpipe' = Append(psigpipe, s)
          /\ parmed' = parmed \cup {"sig"}
          /\ UNCHANGED <<ppc, cpc, missed>>
       \/ /\ InLoop
          /\ Len(psigpipe) >= SigCap
          /\ missed' = IF s = "CHLD" THEN missed \cup Zombies ELSE missed
          /\ UNCHANGED <<ppc, cpc, psigpipe, parmed>>
    /\ UNCHANGED <<m_pid, m_stop, sub_process_counter, pbatch, sigbuf, cstop,
                   cbatch, carmed, csig, cpend, pipe, conns, netVars, sent,
                   terms, faults>>

-----------------------------------------------------------------------------
(* A child.                                                                *)

\* setup_sig_pipe, then the child's end of the channel is registered.
ChildSetup(i) ==
    /\ cpc[i] = "start"
    /\ cpc' = [cpc EXCEPT ![i] = "wait"]
    /\ carmed' = [carmed EXCEPT ![i] = IF pipe[i] > 0 THEN {"pipe"} ELSE {}]
    /\ UNCHANGED <<parentVars, cstop, cbatch, csig, cpend, pipe, conns,
                   netVars, auxVars>>

ChildReady(i) ==
    {e \in carmed[i] : \/ e = "pipe" /\ pipe[i] > 0
                       \/ e = "sig" /\ csig[i]
                       \/ e \in conns[i] \cap hot}

ChildWait(i) ==
    /\ cpc[i] = "wait" /\ ChildReady(i) # {}
    /\ cpc' = [cpc EXCEPT ![i] = "batch"]
    /\ cbatch' = [cbatch EXCEPT ![i] = ChildReady(i)]
    /\ carmed' = [carmed EXCEPT ![i] = AfterReport(@, ChildReady(i))]
    /\ UNCHANGED <<parentVars, cstop, csig, cpend, pipe, conns, netVars,
                   auxVars>>

\* An edge of the channel: one int is received, however many it holds.
ChildRecv(i) ==
    /\ cpc[i] = "batch" /\ "pipe" \in cbatch[i]
    /\ cpc' = [cpc EXCEPT ![i] = "recvd"]
    /\ cbatch' = [cbatch EXCEPT ![i] = @ \ {"pipe"}]
    /\ pipe' = [pipe EXCEPT ![i] = @ - 1]
    /\ UNCHANGED <<parentVars, cstop, carmed, csig, cpend, conns, netVars,
                   auxVars>>

ChildAccept(i) ==
    /\ cpc[i] = "recvd" /\ backlog # <<>>
    /\ cpc' = [cpc EXCEPT ![i] = "batch"]
    /\ conns' = [conns EXCEPT ![i] = @ \cup {Head(backlog)}]
    /\ backlog' = Tail(backlog)
    /\ carmed' = [carmed EXCEPT ![i] = @ \cup ({Head(backlog)} \cap hot)]
    /\ UNCHANGED <<parentVars, cstop, cbatch, csig, cpend, pipe, fresh, hot,
                   auxVars>>

\* continue goes on with the rest of the batch.
mutBreak(i) == {}
RestOfBatch(i) == cbatch[i]

\* accept fails, for want of descriptors or with nothing queued, and the
\* notification is spent.
AcceptFails(i) ==
    /\ cpc[i] = "recvd"
    /\ backlog # <<>> => faults < MaxFault
    /\ faults' = IF backlog # <<>> THEN faults + 1 ELSE faults
    /\ cpc' = [cpc EXCEPT ![i] = "batch"]
    /\ cbatch' = [cbatch EXCEPT ![i] = RestOfBatch(i)]
    /\ UNCHANGED <<parentVars, cstop, carmed, csig, cpend, pipe, conns,
                   netVars, sent, missed, terms>>

ChildSig(i) ==
    /\ cpc[i] = "batch" /\ "sig" \in cbatch[i]
    /\ cbatch' = [cbatch EXCEPT ![i] = @ \ {"sig"}]
    /\ csig' = [csig EXCEPT ![i] = FALSE]
    /\ cstop' = [cstop EXCEPT ![i] = TRUE]
    /\ UNCHANGED <<parentVars, cpc, carmed, cpend, pipe, conns, netVars,
                   auxVars>>

\* users[sockfd].process(), which reads all the input there is and may close
\* the connection; what it does is the template parameter's.
ChildProcess(i, k) ==
    /\ cpc[i] = "batch" /\ k \in cbatch[i] \cap Conn
    /\ cbatch' = [cbatch EXCEPT ![i] = @ \ {k}]
    /\ hot' = hot \ {k}
    /\ \/ conns' = conns
       \/ conns' = [conns EXCEPT ![i] = @ \ {k}]
    /\ UNCHANGED <<parentVars, cpc, cstop, carmed, csig, cpend, pipe, backlog,
                   fresh, auxVars>>

\* The batch is done: the loop goes on, or the child leaves it and exits.
ChildBatchDone(i) ==
    /\ cpc[i] = "batch" /\ cbatch[i] = {}
    /\ \/ /\ ~cstop[i]
          /\ cpc' = [cpc EXCEPT ![i] = "wait"]
          /\ UNCHANGED <<ppend, missed, cbatch, carmed, csig, cpend, pipe,
                         conns>>
       \/ cstop[i] /\ Dies(i)
    /\ UNCHANGED <<ppc, m_pid, m_stop, sub_process_counter, pbatch, parmed,
                   psigpipe, sigbuf, cstop, netVars, sent, terms, faults>>

\* A pending SIGTERM reaches the child: before addsig it is fatal, afterwards
\* the handler writes its byte.
DeliverChild(i) ==
    /\ cpend[i]
    /\ \/ cpc[i] = "start" /\ Dies(i)
       \/ /\ Running(i)
          /\ cpend' = [cpend EXCEPT ![i] = FALSE]
          /\ csig' = [csig EXCEPT ![i] = TRUE]
          /\ carmed' = [carmed EXCEPT ![i] = @ \cup {"sig"}]
          /\ UNCHANGED <<cpc, ppend, missed, cbatch, pipe, conns>>
    /\ UNCHANGED <<ppc, m_pid, m_stop, sub_process_counter, pbatch, parmed,
                   psigpipe, sigbuf, cstop, netVars, sent, terms, faults>>

-----------------------------------------------------------------------------
(* The environment.                                                        *)

Crash(i) ==
    /\ Alive(i) /\ faults < MaxFault
    /\ faults' = faults + 1
    /\ Dies(i)
    /\ UNCHANGED <<ppc, m_pid, m_stop, sub_process_counter, pbatch, parmed,
                   psigpipe, sigbuf, cstop, netVars, sent, terms>>

\* A client connects; the queue is an edge for a parent that watches it.
Arrive(k) ==
    /\ k \in fresh
    /\ fresh' = fresh \ {k}
    /\ backlog' = Append(backlog, k)
    /\ parmed' = parmed \cup ListenEdge
    /\ UNCHANGED <<ppc, m_pid, m_stop, sub_process_counter, pbatch, psigpipe,
                   sigbuf, ppend, childVars, hot, auxVars>>

\* A client that is queued or accepted sends input.
ClientSends(k) ==
    /\ k \notin fresh /\ k \notin hot
    /\ \/ \E n \in 1 .. Len(backlog) : backlog[n] = k
       \/ \E i \in Idx : k \in conns[i]
    /\ hot' = hot \cup {k}
    /\ carmed' = [i \in Idx |-> IF k \in conns[i] THEN carmed[i] \cup {k}
                                                  ELSE carmed[i]]
    /\ UNCHANGED <<parentVars, cpc, cstop, cbatch, csig, cpend, pipe, conns,
                   backlog, fresh, auxVars>>

TermParent ==
    /\ terms < MaxTerm /\ (ppc = "fork" \/ InLoop)
    /\ terms' = terms + 1
    /\ ppend' = ppend \cup {"TERM"}
    /\ UNCHANGED <<ppc, m_pid, m_stop, sub_process_counter, pbatch, parmed,
                   psigpipe, sigbuf, childVars, netVars, sent, missed, faults>>

TermChild(i) ==
    /\ terms < MaxTerm /\ Alive(i)
    /\ terms' = terms + 1
    /\ cpend' = [cpend EXCEPT ![i] = TRUE]
    /\ UNCHANGED <<parentVars, cpc, cstop, cbatch, carmed, csig, pipe, conns,
                   netVars, sent, missed, faults>>

-----------------------------------------------------------------------------
ParentStep ==
    \/ \E i \in Idx : Fork(i)
    \/ ParentSetup
    \/ ParentWait
    \/ HandleListen
    \/ RecvSignals
    \/ HandleChld
    \/ HandleTerm
    \/ ParentBatchDone

ChildStep(i) ==
    \/ ChildSetup(i)
    \/ ChildWait(i)
    \/ ChildRecv(i)
    \/ ChildAccept(i)
    \/ ChildSig(i)
    \/ \E k \in Conn : ChildProcess(i, k)
    \/ ChildBatchDone(i)

Deliver ==
    \/ \E s \in {"CHLD", "TERM"} : DeliverParent(s)
    \/ \E i \in Idx : DeliverChild(i)

Environment ==
    \/ ForkFails
    \/ TermParent
    \/ \E i \in Idx : AcceptFails(i) \/ Crash(i) \/ TermChild(i)
    \/ \E k \in Conn : Arrive(k) \/ ClientSends(k)

Next ==
    \/ ParentStep
    \/ \E i \in Idx : ChildStep(i)
    \/ Deliver
    \/ Environment

\* The scheduler runs every process that can run and the kernel keeps
\* delivering while a signal is pending; clients, signals from outside and
\* faults owe nothing.
Fairness ==
    /\ WF_vars(ParentStep)
    /\ \A i \in Idx : WF_vars(ChildStep(i))
    /\ WF_vars(Deliver)

Spec     == Init /\ [][Next]_vars
FairSpec == Spec /\ Fairness

-----------------------------------------------------------------------------
(* What the pool promises.                                                 *)

\* The notifications not yet spent: ints in a channel, and the one a child has
\* received and not yet used.
Held(i) == pipe[i] + (IF cpc[i] = "recvd" THEN 1 ELSE 0)
Outstanding == {x \in Idx \X (1 .. PipeCap + 1) : x[2] <= Held(x[1])}

Edge(set) == IF "listen" \in set THEN 1 ELSE 0

\* A notification always stands for a connection that waits: the notifications
\* in the channels, in the children's hands and still to be sent (an edge that
\* is armed or in the batch) are never more than the queue holds, whichever
\* child accepts and whoever dies, so that no child calls accept in vain.
NotificationBacked ==
    Cardinality(Outstanding) + Edge(pbatch) + Edge(parmed) <= Len(backlog)

\* The parent leaves its loop only when it has collected every child: m_stop,
\* which the CHLD bytes and the listening edges set and reset on their way
\* through one batch, is never true with a child that runs or is a zombie.
ParentLeavesNoChild ==
    ppc = "exited" => \A i \in Idx : cpc[i] = "reaped"

\* Round robin survives deaths: two children that still have a pid have been
\* chosen equally often, give or take one, though the scan skips dead ones.
RoundRobinBalance ==
    \A i, j \in Idx :
        m_pid[i] # NoPid /\ m_pid[j] # NoPid => sent[i] <= sent[j] + 1

\* A zombie whose SIGCHLD was not lost will be collected: the signal is
\* pending, in the signal pipe or among the bytes being handled, although
\* several deaths may share one signal and one byte.
NoForgottenZombie ==
    InLoop =>
        \A i \in Zombies \ missed :
            \/ "CHLD" \in ppend
            \/ \E n \in 1 .. Len(psigpipe) : psigpipe[n] = "CHLD"
            \/ \E n \in 1 .. Len(sigbuf) : sigbuf[n] = "CHLD"

\* The parent's blocking send cannot block on a child that will not read: a
\* channel that is full has an edge that its child has still to handle, even
\* though the child takes one int per edge and leaves coalesced ones behind.
FullChannelHasEdge ==
    \A i \in Idx :
        Running(i) /\ pipe[i] = PipeCap => "pipe" \in carmed[i] \cup cbatch[i]

\* SIGTERM to the parent ends the pool: once the byte is in the signal pipe of
\* a parent that has a child alive, the parent exits, and by then it has
\* collected all its children, whatever crashes on the way.
ShutdownCompletes ==
    /\ \E n \in 1 .. Len(psigpipe) : psigpipe[n] = "TERM"
    /\ \E i \in Idx : Alive(i)
    ~> ppc = "exited"

Accepted(k) == k \notin fresh /\ \A n \in 1 .. Len(backlog) : backlog[n] # k

\* While connections come one at a time and nothing fails or is stopped, each
\* is accepted: its edge is not coalesced with another, and the child it is
\* handed to takes it.
OneAtATimeAccepted ==
    [](Len(backlog) <= 1 /\ faults = 0 /\ terms = 0) =>
        \A k \in Conn : (k \notin fresh) ~> Accepted(k)

Unread(k) == k \in hot /\ \E i \in Idx : k \in conns[i]

\* The input of a connection that a child has accepted is processed, unless
\* the child is told to stop or dies.
InputProcessed ==
    \A k \in Conn : Unread(k) ~> ~ Unread(k)

=============================================================================
