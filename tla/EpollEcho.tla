------------------------------ MODULE EpollEcho ------------------------------
(***************************************************************************)
(* The echo server epoll.cpp: one loop over edge-triggered descriptors.    *)
(* The listening socket gives one accept per event; a client's descriptor  *)
(* is registered for reading, after each read for writing, and after each  *)
(* write for reading again.  What was read last, from whichever client, is *)
(* in line and n, and that is what is written.                             *)
(*                                                                         *)
(* A piece is what one read of MAXLINE bytes takes.  Send buffers do not   *)
(* fill up, and no more than the 20 events of one epoll_wait are there at  *)
(* a time.  An epoll_wait that times out changes nothing and is no step.   *)
(***************************************************************************)
EXTENDS Naturals, FiniteSets, Sequences

CONSTANTS
    Conn,        \* the connections clients make
    MaxPiece,    \* how many pieces each client sends
    MaxFault     \* failures of accept and of connections

\* What is assumed of them.
ConstantsOK == MaxPiece \in [Conn -> Nat] /\ MaxFault \in Nat /\ "listen" \notin Conn

VARIABLES
    pc,          \* "wait", "batch", "exited" or "killed" (by SIGPIPE)
    batch,       \* the events still to be handled
    armed,       \* the descriptors on epoll's ready list
    mode,        \* what each connection is registered for: "in" or "out"
    open,        \* connections accepted and not closed
    line,        \* the piece in the buffer: its client and number
    n,           \* what the last read returned: "data", "none" or "error"
    backlog,     \* the listening socket's queue
    fresh,       \* connections not yet made
    sent,        \* how many pieces each client has sent
    taken,       \* how many of them have been read
    peer,        \* how each connection is, see Peers
    echoed,      \* what each client was sent
    together,    \* history: where two connections were at a time: "open", "queue"
    faults

serverVars == <<pc, batch, armed, mode, open, line, n>>
netVars    == <<backlog, fresh, sent, taken, peer>>
vars       == <<serverVars, netVars, echoed, together, faults>>

\* A peer is there, has closed, has closed and was written to since; or the
\* connection has an error to report (EPIPE, ECONNRESET, ETIMEDOUT), or had.
Peers == {"open", "closed", "closing", "epipe", "reset", "timedout", "dead"}

NoLine == <<>>
Pieces == {NoLine} \cup (Conn \X (Nat \ {0}))

TypeOK ==
    /\ pc \in {"wait", "batch", "exited", "killed"}
    /\ batch \subseteq Conn \cup {"listen"}
    /\ armed \subseteq Conn \cup {"listen"}
    /\ mode \in [Conn -> {"in", "out"}]
    /\ open \subseteq Conn \ fresh
    /\ line \in Pieces
    /\ n \in {"data", "none", "error"}
    /\ backlog \in Seq(Conn)
    /\ fresh \subseteq Conn
    /\ sent \in [Conn -> Nat]
    /\ \A c \in Conn : taken[c] <= sent[c] /\ sent[c] <= MaxPiece[c]
    /\ peer \in [Conn -> Peers]
    /\ echoed \in [Conn -> Seq(Pieces)]
    /\ together \subseteq {"open", "queue"}
    /\ faults \in 0 .. MaxFault

\* n and line are not set, but nothing is written before something was read.
Init ==
    /\ pc = "wait" /\ batch = {} /\ armed = {}
    /\ mode = [c \in Conn |-> "in"] /\ open = {}
    /\ line = NoLine /\ n = "none"
    /\ backlog = <<>> /\ fresh = Conn
    /\ sent = [c \in Conn |-> 0] /\ taken = [c \in Conn |-> 0]
    /\ peer = [c \in Conn |-> "open"]
    /\ echoed = [c \in Conn |-> <<>>] /\ together = {}
    /\ faults = 0

Running == pc \in {"wait", "batch"}

-----------------------------------------------------------------------------
(* Events.                                                                 *)

HasData(c)  == taken[c] < sent[c]
CanRead(c)  == HasData(c) \/ peer[c] # "open"
Readable(x) == IF x = "listen" THEN backlog # <<>>
                               ELSE mode[x] = "in" => CanRead(x)

\* Registering a descriptor, anew or for something else, looks whether it is
\* ready; that is the only edge there is for what came before.
mutNoLook(c, ready) == armed \ {c}
Registered(c, ready) == IF ready THEN armed \cup {c} ELSE armed

Wait ==
    /\ pc = "wait"
    /\ batch' = {x \in armed : Readable(x)}
    /\ batch' # {}
    /\ armed' = {}
    /\ pc' = "batch"
    /\ UNCHANGED <<mode, open, line, n, netVars, echoed, together, faults>>

Together(where, when) == together' = IF when THEN together \cup {where} ELSE together

Handled(x) ==
    /\ pc = "batch" /\ x \in batch
    /\ batch' = batch \ {x}
    /\ pc' = IF batch' = {} THEN "wait" ELSE "batch"

Accept ==
    /\ Handled("listen") /\ backlog # <<>>
    /\ LET c == Head(backlog)
       IN  /\ open' = open \cup {c}
           /\ mode' = [mode EXCEPT ![c] = "in"]
           /\ armed' = Registered(c, CanRead(c))
    /\ backlog' = Tail(backlog)
    /\ Together("open", open # {})
    /\ UNCHANGED <<line, n, fresh, sent, taken, peer, echoed, faults>>

\* accept fails and the server gives up.
AcceptFails ==
    /\ pc = "batch" /\ "listen" \in batch
    /\ faults < MaxFault /\ faults' = faults + 1
    /\ pc' = "exited"
    /\ UNCHANGED <<batch, armed, mode, open, line, n, netVars, echoed, together>>

-----------------------------------------------------------------------------
(* Reading.                                                                *)

Reads(c)    == Handled(c) /\ mode[c] = "in"
ForWrite(c) == mode' = [mode EXCEPT ![c] = "out"] /\ armed' = Registered(c, TRUE)

ReadData(c) ==
    /\ Reads(c) /\ HasData(c)
    /\ taken' = [taken EXCEPT ![c] = @ + 1]
    /\ line' = <<c, taken[c] + 1>> /\ n' = "data"
    /\ ForWrite(c)
    /\ UNCHANGED <<open, backlog, fresh, sent, peer, echoed, together, faults>>

\* The end of the connection, or ECONNRESET: it is closed, and registering it
\* for writing fails.
Closed(c) == open \ {c}

ReadEnd(c) ==
    /\ Reads(c) /\ ~ HasData(c)
    /\ n' = IF peer[c] = "reset" THEN "error" ELSE "none"
    /\ peer[c] \in {"closed", "closing", "dead", "reset"}
    /\ open' = Closed(c)
    /\ armed' = armed \ {c}
    /\ UNCHANGED <<mode, line, netVars, echoed, together, faults>>

\* Any other error is reported once and the connection goes on as if it had
\* been read.
ReadError(c) ==
    /\ Reads(c) /\ ~ HasData(c) /\ peer[c] \in {"epipe", "timedout"}
    /\ n' = "error"
    /\ peer' = [peer EXCEPT ![c] = "dead"]
    /\ ForWrite(c)
    /\ UNCHANGED <<open, line, backlog, fresh, sent, taken, echoed, together,
                   faults>>

-----------------------------------------------------------------------------
(* Writing.                                                                *)

mutStillOut == "out"
AfterWrite  == "in"

Writes(c) ==
    /\ Handled(c) /\ mode[c] = "out"
    /\ mode' = [mode EXCEPT ![c] = AfterWrite]
    /\ armed' = Registered(c, CanRead(c))
    /\ UNCHANGED <<open, line, n, backlog, fresh, sent, taken, together, faults>>

\* n is 0 or -1: nothing is written.
WriteNothing(c) ==
    /\ Writes(c) /\ n # "data"
    /\ UNCHANGED <<peer, echoed>>

WriteLine(c) ==
    /\ Writes(c) /\ n = "data" /\ peer[c] \in {"open", "closed", "closing"}
    /\ echoed' = IF peer[c] = "open" THEN [echoed EXCEPT ![c] = Append(@, line)]
                                     ELSE echoed
    /\ peer' = [peer EXCEPT ![c] = IF @ = "closed" THEN "closing" ELSE @]

\* An error that is pending is what write reports ...
WriteError(c) ==
    /\ Writes(c) /\ n = "data" /\ peer[c] \in {"reset", "timedout"}
    /\ peer' = [peer EXCEPT ![c] = "dead"]
    /\ UNCHANGED echoed

\* ... and without one, or when it is EPIPE, SIGPIPE ends the server.
WriteKills(c) ==
    /\ pc = "batch" /\ c \in batch /\ mode[c] = "out"
    /\ n = "data" /\ peer[c] \in {"epipe", "dead"}
    /\ pc' = "killed"
    /\ UNCHANGED <<batch, armed, mode, open, line, n, netVars, echoed, together,
                   faults>>

-----------------------------------------------------------------------------
(* The clients.                                                            *)

Arm(x, when) == armed' = IF when THEN armed \cup {x} ELSE armed

Connect(c) ==
    /\ Running /\ c \in fresh
    /\ fresh' = fresh \ {c}
    /\ backlog' = Append(backlog, c)
    /\ Arm("listen", TRUE)
    /\ Together("queue", backlog # <<>>)
    /\ UNCHANGED <<pc, batch, mode, open, line, n, sent, taken, peer, echoed, faults>>

Made(c) == Running /\ c \notin fresh /\ peer[c] = "open"

Send(c) ==
    /\ Made(c) /\ sent[c] < MaxPiece[c]
    /\ sent' = [sent EXCEPT ![c] = @ + 1]
    /\ Arm(c, c \in open /\ mode[c] = "in")
    /\ UNCHANGED <<pc, batch, mode, open, line, n, backlog, fresh, taken, peer,
                   echoed, together, faults>>

Becomes(c, how) ==
    /\ peer' = [peer EXCEPT ![c] = how]
    /\ Arm(c, c \in open)
    /\ UNCHANGED <<pc, batch, mode, open, line, n, backlog, fresh, sent, taken,
                   echoed, together>>

Leave(c) == Made(c) /\ Becomes(c, "closed") /\ UNCHANGED faults

\* What was written to a client that has closed is answered with a reset.
ResetArrives(c) ==
    /\ Running /\ peer[c] = "closing"
    /\ Becomes(c, "epipe")
    /\ UNCHANGED faults

Break(c, how) ==
    /\ Made(c) /\ faults < MaxFault
    /\ Becomes(c, how)
    /\ faults' = faults + 1

-----------------------------------------------------------------------------
Serve(c) ==
    \/ ReadData(c) \/ ReadEnd(c) \/ ReadError(c)
    \/ WriteNothing(c) \/ WriteLine(c) \/ WriteError(c) \/ WriteKills(c)

Server == Wait \/ Accept \/ AcceptFails \/ \E c \in Conn : Serve(c)

Clients ==
    \E c \in Conn : \/ Connect(c) \/ Send(c) \/ Leave(c) \/ ResetArrives(c)
                    \/ \E how \in {"reset", "timedout"} : Break(c, how)

Next == Server \/ Clients
Spec == Init /\ [][Next]_vars

\* The program runs on, and epoll_wait returns when something is ready.
FairSpec == Spec /\ WF_vars(Server)

-----------------------------------------------------------------------------
(* What the server promises.                                               *)

\* While one client is connected at a time each gets back what it sent, piece by
\* piece in order: the one buffer carries nothing over from a client that left
\* in the middle of its echo to the next.
EchoIsOwn ==
    "open" \notin together => \A c \in Conn : \A k \in 1 .. Len(echoed[c]) :
                      echoed[c][k] = <<c, k>>

\* A client is served from its connection to its end, unless the server ends.
\* While connections come one at a time each is accepted: the edge it makes is not
\* merged with another's, for which there would be one accept.  All a client sends is
\* read, although each edge gives one read of one piece and what is left makes no edge
\* of its own.  And when its peer is gone it is closed, although a read error other
\* than ECONNRESET does not close it.
Queued(c)  == \E k \in 1 .. Len(backlog) : backlog[k] = c
Waiting(c) == \/ Queued(c) /\ "queue" \notin together
              \/ c \in open /\ (HasData(c) \/ peer[c] # "open")
ClientsAreServed == \A c \in Conn : Waiting(c) ~> (~ Waiting(c) \/ ~ Running)
=============================================================================
