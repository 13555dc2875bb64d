------------------------------ MODULE NatCheck ------------------------------
(***************************************************************************)
(* nat_check.c: one process, one select loop.  It connects to servers 1    *)
(* and 2, pings them with datagrams, expects a callback of server 3 that   *)
(* server 2 asks for, tries to meet server 3 halfway and to reach itself   *)
(* through the NAT, and prints what it learnt.                             *)
(*                                                                         *)
(* A loop round is cut at its calls to the kernel, so that the network may *)
(* act between any two of them.  The kernel's part and the network (links, *)
(* the listen queue, the datagrams) are modelled from how the program uses *)
(* them.  A link has a number: 1 to 3 are the connections to the servers,  *)
(* Hairpin is the one to ourselves (tcp4 at one end, an accepted socket at *)
(* the other), Callback comes from server 3 and Stray from anyone else.    *)
(***************************************************************************)
EXTENDS Naturals, Sequences, FiniteSets

CONSTANTS
  NTRIES,        \* rounds of datagrams; 20 in the code
  Addrs,         \* the public addresses, with their ports, a server may report
  INADDR_ANY,           \* INADDR_ANY: nothing reported yet
  Says,          \* what each peer may send over its TCP link
  Datagrams,     \* what may reach udp1: a server, or 0, and what it holds
  MaxEvents      \* bound on the steps of the network

ASSUME TriesAssumption == NTRIES \in Nat \ {0}
ASSUME AnyAssumption == INADDR_ANY \notin Addrs
ASSUME BoundAssumption == MaxEvents \in Nat

Servers  == 1..3
Hairpin  == 4
Callback == 5
Stray    == 6
Links    == 1..6

\* Descriptors in the order main creates them; 0 stands for -1.
None == 0
tcp0 == 1
udp1 == 2
Tcp  == [n \in 1..4 |-> n + 2]
udp2 == 7
MaxFd == 10
Fds  == 1..MaxFd

\* What a read finds.  Runt stands for any answer checktcp does not take: too
\* short, the end of the stream, or a bad magic number; Reset is a failing read.
Nothing == "nothing"
Runt    == "runt"
Reset   == "reset"
Loop    == "loop"
Answers == Addrs \cup {Runt, Reset}

ASSUME WordAssumption == {Nothing, Runt, Reset, Loop} \cap (Addrs \cup {INADDR_ANY}) = {}

ASSUME SaysAssumption == Says \in [Links -> SUBSET Answers]
ASSUME DatagramAssumption ==
  Datagrams \subseteq (Servers \X Addrs) \cup {<<0, Loop>>, <<0, Runt>>}

VARIABLES
  pc, try, timeout,           \* where main is, i, and whether select timed out
  tcp, incb, inloop,          \* the descriptors, None once given up
  rfds, wfds, maxsock,
  myt, myu,                   \* addresses reported over TCP and over UDP
  tcploop, udploop, t3toosoon,
  open, peer, backlog,        \* kernel: open descriptors, the link behind an
                              \* accepted one, connections not accepted yet
  link, joined, inbox,        \* network: outgoing links, incoming ones that
                              \* exist, what waits to be read on each
  udpq, looped,               \* datagrams waiting, whether one was sent to our
                              \* own public address
  early,                      \* history: server 3's answer over its callback
                              \* came in before server 2's answer did
  events                      \* how often the network has acted

fdVars  == <<tcp, incb, inloop, rfds, wfds, maxsock, open, peer>>
result  == <<myt, myu, tcploop, udploop, t3toosoon>>
network == <<backlog, link, joined, inbox, udpq, looped, early, events>>
vars    == <<pc, try, timeout, fdVars, result, network>>

Ended   == {"died", "reported"}
Stages  == {"request", "select", "listen", "check1", "check2", "check3",
            "checkcb", "loopout", "loopin", "udp"}
Check(n) == <<"check1", "check2", "check3">>[n]
After(n) == <<"check2", "check3", "checkcb">>[n]

Larger(a, b) == IF a > b THEN a ELSE b
Die == pc' = "died"

Init ==
  /\ pc = "request" /\ try = 1 /\ timeout = FALSE
  /\ tcp = Tcp /\ incb = None /\ inloop = None
  /\ rfds = {tcp0, udp1} /\ wfds = {Tcp[1], Tcp[2]}
  /\ maxsock = Tcp[2]
  /\ myt = [s \in Servers |-> INADDR_ANY] /\ myu = [s \in Servers |-> INADDR_ANY]
  /\ tcploop = FALSE /\ udploop = FALSE /\ t3toosoon = FALSE
  /\ open = 1..7 /\ peer = [f \in Fds |-> None] /\ backlog = <<>>
  /\ link = [n \in 1..4 |-> IF n < 3 THEN "pending" ELSE "idle"]
  /\ joined = {} /\ inbox = [l \in Links |-> Nothing]
  /\ udpq = {} /\ looped = FALSE /\ early = FALSE
  /\ events = 0

-----------------------------------------------------------------------------
(* The round of datagrams, and select.                                     *)

Request ==
  /\ pc = "request"
  /\ looped' = (looped \/ myu[2] # INADDR_ANY)
  /\ timeout' = FALSE
  /\ pc' = "select"
  /\ UNCHANGED <<try, fdVars, result, backlog, link, joined, inbox, udpq,
                 early, events>>

Readable(f) ==
  \/ f = tcp0 /\ backlog # <<>>
  \/ f = udp1 /\ udpq # {}
  \/ \E n \in 1..3 : f = tcp[n] /\ inbox[n] # Nothing
  \/ peer[f] # None /\ inbox[peer[f]] # Nothing
Writable(f) == \E n \in 1..4 : f = tcp[n] /\ link[n] \notin {"idle", "pending"}
Ready == {f \in rfds : f <= maxsock /\ Readable(f)}
           \cup {f \in wfds : f <= maxsock /\ Writable(f)}

Select ==
  /\ pc = "select"
  /\ timeout' = (Ready = {})
  /\ pc' = "listen"
  /\ UNCHANGED <<try, fdVars, result, network>>

-----------------------------------------------------------------------------
(* listentcp: every connection that waits is accepted, and kept if it is   *)
(* the first callback of server 3 or the first of all the others.          *)

NewFd == CHOOSE f \in Fds \ open : \A g \in Fds \ open : f <= g
FromServer3(l) == l = Callback
Taken(l) == IF FromServer3(l) THEN incb # None ELSE inloop # None

Accept ==
  /\ pc = "listen" /\ backlog # <<>>
  /\ LET l == Head(backlog) IN
     /\ ~Taken(l)
     /\ IF FromServer3(l) THEN incb' = NewFd /\ inloop' = inloop
                          ELSE inloop' = NewFd /\ incb' = incb
     /\ peer' = [peer EXCEPT ![NewFd] = l]
  /\ open' = open \cup {NewFd}
  /\ rfds' = rfds \cup {NewFd}
  /\ maxsock' = Larger(maxsock, NewFd)
  /\ backlog' = Tail(backlog)
  /\ UNCHANGED <<pc, try, timeout, tcp, wfds, result, link, joined, inbox,
                 udpq, looped, early, events>>

AcceptClose ==
  /\ pc = "listen" /\ backlog # <<>> /\ Taken(Head(backlog))
  /\ backlog' = Tail(backlog)
  /\ UNCHANGED <<pc, try, timeout, fdVars, result, link, joined, inbox, udpq,
                 looped, early, events>>

ListenDone ==
  /\ pc = "listen" /\ backlog = <<>>
  /\ pc' = "check1"
  /\ UNCHANGED <<try, timeout, fdVars, result, network>>

-----------------------------------------------------------------------------
(* checktcp                                                                *)

\* Nothing to do: given up, not watched, not connected yet, nothing to read.
CheckIdle(n) ==
  /\ pc = Check(n)
  /\ \/ tcp[n] \notin rfds \cup wfds
     \/ tcp[n] \in wfds /\ link[n] = "pending"
     \/ tcp[n] \in rfds \ wfds /\ inbox[n] = Nothing
  /\ pc' = After(n)
  /\ UNCHANGED <<try, timeout, fdVars, result, network>>

CheckDies(n) ==
  /\ pc = Check(n)
  /\ \/ tcp[n] \in wfds /\ link[n] = "refused"
     \/ tcp[n] \in rfds \ wfds /\ inbox[n] = Reset
  /\ Die
  /\ UNCHANGED <<try, timeout, fdVars, result, network>>

mutKeepWriting(f) == wfds' = wfds
mutForget(f) == rfds' = rfds

StopWriting(f) == wfds' = wfds \ {f}
StartReading(f) == rfds' = rfds \cup {f}

CheckSends(n) ==
  /\ pc = Check(n) /\ tcp[n] \in wfds /\ link[n] \notin {"pending", "refused"}
  /\ link' = [link EXCEPT ![n] = "asked"]
  /\ StopWriting(tcp[n])
  /\ StartReading(tcp[n])
  /\ pc' = After(n)
  /\ UNCHANGED <<try, timeout, tcp, incb, inloop, maxsock, open, peer, result,
                 backlog, joined, inbox, udpq, looped, early, events>>

\* The answer m of server s is its first: it is recorded.
Recorded(s, m) == m \in Addrs /\ myt[s] = INADDR_ANY

ReadAnswer(s, l) ==
  /\ inbox' = [inbox EXCEPT ![l] = Nothing]
  /\ myt' = IF Recorded(s, inbox[l]) THEN [myt EXCEPT ![s] = inbox[l]] ELSE myt

\* Server 2 has answered: connect to server 3, which fails at once when its
\* callback is already here, and to our own public address.
ConnectBack ==
  \E meet \in IF Callback \in joined THEN {FALSE} ELSE BOOLEAN :
    LET watched == IF meet THEN {tcp[3], tcp[4]} ELSE {tcp[4]} IN
    /\ link' = [link EXCEPT ![3] = IF meet THEN "pending" ELSE @,
                            ![4] = "pending"]
    /\ wfds' = wfds \cup watched
    /\ maxsock' = Larger(maxsock, tcp[4])

GiveUp(n) == tcp' = [tcp EXCEPT ![n] = None] /\ rfds' = rfds \ {tcp[n]}

CheckReads(n) ==
  /\ pc = Check(n) /\ tcp[n] \in rfds \ wfds /\ inbox[n] \notin {Nothing, Reset}
  /\ ReadAnswer(n, n)
  /\ \/ /\ n = 2 /\ Recorded(n, inbox[n])
        /\ ConnectBack /\ GiveUp(n) /\ pc' = After(n)
     \/ /\ n = 2 /\ Recorded(n, inbox[n])       \* connect(tcp4) fails at once
        /\ Die /\ UNCHANGED <<link, wfds, maxsock, tcp, rfds>>
     \/ /\ n # 2 \/ ~Recorded(n, inbox[n])
        /\ GiveUp(n) /\ pc' = After(n) /\ UNCHANGED <<link, wfds, maxsock>>
  /\ UNCHANGED <<try, timeout, incb, inloop, open, peer, myu, tcploop, udploop,
                 t3toosoon, backlog, joined, udpq, looped, early, events>>

mutAnyTime(my) == my[3] # INADDR_ANY

\* What follows the four calls: server 3 was heard before server 2.
TooSoon(my) == my[3] # INADDR_ANY /\ my[2] = INADDR_ANY
NoteTooSoon == t3toosoon' = (t3toosoon \/ TooSoon(myt'))

CheckCallbackIdle ==
  /\ pc = "checkcb"
  /\ incb \notin rfds \/ inbox[Callback] = Nothing
  /\ pc' = "loopout"
  /\ UNCHANGED <<try, timeout, fdVars, myt, myu, tcploop, udploop, network>>
  /\ NoteTooSoon

CheckCallbackDies ==
  /\ pc = "checkcb" /\ incb \in rfds /\ inbox[Callback] = Reset
  /\ Die
  /\ UNCHANGED <<try, timeout, fdVars, result, network>>

CheckCallbackReads ==
  /\ pc = "checkcb" /\ incb \in rfds /\ inbox[Callback] \notin {Nothing, Reset}
  /\ ReadAnswer(3, Callback)
  /\ rfds' = rfds \ {incb}
  /\ incb' = None
  /\ NoteTooSoon
  /\ pc' = "loopout"
  /\ UNCHANGED <<try, timeout, tcp, inloop, wfds, maxsock, open, peer, myu,
                 tcploop, udploop, backlog, link, joined, udpq, looped, early,
                 events>>

-----------------------------------------------------------------------------
(* checkloopback: our end of the hairpin, then the accepted end.           *)

LoopOutIdle ==
  /\ pc = "loopout"
  /\ tcp[4] \notin wfds \/ link[4] = "pending"
  /\ pc' = "loopin"
  /\ UNCHANGED <<try, timeout, fdVars, result, network>>

LoopOutDies ==
  /\ pc = "loopout" /\ tcp[4] \in wfds /\ link[4] = "refused"
  /\ Die
  /\ UNCHANGED <<try, timeout, fdVars, result, network>>

\* The message goes out, or the send fails for good: the accepted end then finds
\* our close, a reset or nothing.
LoopOutSends ==
  /\ pc = "loopout" /\ tcp[4] \in wfds /\ link[4] = "up"
  /\ \E m \in {Loop, Runt, Reset, Nothing} : inbox' = [inbox EXCEPT ![Hairpin] = m]
  /\ link' = [link EXCEPT ![4] = "asked"]
  /\ StopWriting(tcp[4])
  /\ open' = open \ {tcp[4]}
  /\ tcp' = [tcp EXCEPT ![4] = None]
  /\ pc' = "loopin"
  /\ UNCHANGED <<try, timeout, incb, inloop, rfds, maxsock, peer, result,
                 backlog, joined, udpq, looped, early, events>>

Heard == inloop # None /\ inbox[peer[inloop]] # Nothing
IsLoop(m) == m = Loop
mutCloseWatched ==
  /\ rfds' = rfds
  /\ open' = open \ {inloop}
  /\ peer' = [peer EXCEPT ![inloop] = None]
  /\ inloop' = None
CloseInloop ==
  /\ rfds' = rfds \ {inloop}
  /\ open' = open \ {inloop}
  /\ peer' = [peer EXCEPT ![inloop] = None]
  /\ inloop' = None

\* A failing recv is passed over; the next one finds the end of the stream.
LoopInFails ==
  /\ pc = "loopin" /\ Heard /\ inbox[peer[inloop]] = Reset
  /\ inbox' = [inbox EXCEPT ![peer[inloop]] = Runt]
  /\ pc' = "udp"
  /\ UNCHANGED <<try, timeout, fdVars, result, backlog, link, joined, udpq,
                 looped, early, events>>

LoopInReads ==
  /\ pc = "loopin" /\ Heard /\ inbox[peer[inloop]] # Reset
  /\ tcploop' = (tcploop \/ IsLoop(inbox[peer[inloop]]))
  /\ inbox' = [inbox EXCEPT ![peer[inloop]] = Nothing]
  /\ CloseInloop
  /\ pc' = "udp"
  /\ UNCHANGED <<try, timeout, tcp, incb, wfds, maxsock, myt, myu, udploop,
                 t3toosoon, backlog, link, joined, udpq, looped, early, events>>

LoopInIdle ==
  /\ pc = "loopin" /\ ~Heard
  /\ pc' = "udp"
  /\ UNCHANGED <<try, timeout, fdVars, result, network>>

-----------------------------------------------------------------------------
(* recvudp, the end of the round and the report.                           *)

mutLatest(d) == d[2]

\* checkudp keeps the first address a server reports.
KeptAddress(d) == IF myu[d[1]] = INADDR_ANY THEN d[2] ELSE myu[d[1]]

RecvUdp(d) ==
  /\ pc = "udp" /\ d \in udpq
  /\ udpq' = udpq \ {d}
  /\ udploop' = (udploop \/ IsLoop(d[2]))
  /\ myu' = IF d[1] \in Servers THEN [myu EXCEPT ![d[1]] = KeptAddress(d)] ELSE myu
  /\ UNCHANGED <<pc, try, timeout, fdVars, myt, tcploop, t3toosoon, backlog,
                 link, joined, inbox, looped, early, events>>

mutLastTry == try > NTRIES
LastTry == try >= NTRIES

NextRound ==
  /\ pc = "udp" /\ udpq = {}
  /\ IF ~timeout
     THEN pc' = "select" /\ try' = try
     ELSE /\ ~LastTry
          /\ pc' = "request" /\ try' = try + 1
  /\ UNCHANGED <<timeout, fdVars, result, network>>

Contacted == \A s \in 1..2 : myt[s] # INADDR_ANY /\ myu[s] # INADDR_ANY

Report ==
  /\ pc = "udp" /\ udpq = {} /\ timeout /\ LastTry
  /\ IF Contacted THEN pc' = "reported" ELSE Die
  /\ UNCHANGED <<try, timeout, fdVars, result, network>>

Main ==
  \/ Request \/ Select
  \/ Accept \/ AcceptClose \/ ListenDone
  \/ \E n \in 1..3 : CheckIdle(n) \/ CheckDies(n) \/ CheckSends(n) \/ CheckReads(n)
  \/ CheckCallbackIdle \/ CheckCallbackDies \/ CheckCallbackReads
  \/ LoopOutIdle \/ LoopOutDies \/ LoopOutSends
  \/ LoopInFails \/ LoopInReads \/ LoopInIdle
  \/ (\E d \in udpq : RecvUdp(d)) \/ NextRound \/ Report

-----------------------------------------------------------------------------
(* The network.                                                            *)

\* Whatever arrives can do so just before the first call that finds it; at the
\* other stages nothing is read that could not have come earlier.
Event(stages) ==
  /\ pc \in stages /\ events < MaxEvents
  /\ events' = events + 1
Arrival  == Event({"select", "listen", "check1", "checkcb"})
Delivery == Event({"select", "udp"})

\* A connection attempt of ours comes through.  The one to ourselves shows up
\* at our own listening socket.
Connected(n) ==
  /\ Arrival /\ link[n] = "pending"
  /\ link' = [link EXCEPT ![n] = "up"]
  /\ IF n = 4 THEN backlog' = Append(backlog, Hairpin) /\ joined' = joined \cup {Hairpin}
              ELSE UNCHANGED <<backlog, joined>>
  /\ UNCHANGED <<pc, try, timeout, fdVars, result, inbox, udpq, looped,
                 early>>

\* It is refused, or reset before we have sent our request.
Refused(n) ==
  /\ Arrival
  /\ link[n] = "pending" \/ (link[n] = "up" /\ n # 4)
  /\ link' = [link EXCEPT ![n] = "refused"]
  /\ UNCHANGED <<pc, try, timeout, fdVars, result, backlog, joined, inbox,
                 udpq, looped, early>>

\* A server answers the request it got, once.
Answer(n) ==
  /\ Arrival /\ link[n] = "asked"
  /\ link' = [link EXCEPT ![n] = "answered"]
  /\ \E m \in Says[n] : inbox' = [inbox EXCEPT ![n] = m]
  /\ UNCHANGED <<pc, try, timeout, fdVars, result, backlog, joined, udpq,
                 looped, early>>

\* Someone connects to us: server 3, once server 2 has our request and unless
\* our own attempt meets it, or a stranger.
Arrive(l) ==
  /\ Arrival /\ l \notin joined
  /\ l = Callback => link[2] \in {"asked", "answered"} /\ link[3] = "idle"
  /\ joined' = joined \cup {l}
  /\ backlog' = Append(backlog, l)
  /\ UNCHANGED <<pc, try, timeout, fdVars, result, link, inbox, udpq,
                 looped, early>>

\* The one who connected sends, once, while the connection is there.
Connection(l) ==
  \/ \E k \in DOMAIN backlog : backlog[k] = l
  \/ \E f \in {incb, inloop} \cap Fds : peer[f] = l
Speak(l) ==
  /\ Arrival /\ Connection(l) /\ inbox[l] = Nothing
  /\ \E m \in Says[l] : inbox' = [inbox EXCEPT ![l] = m]
  /\ early' = (early \/ (l = Callback /\ link[2] # "answered"))
  /\ UNCHANGED <<pc, try, timeout, fdVars, result, backlog, link, joined,
                 udpq, looped>>

\* A datagram reaches udp1: an answer to a ping, however often and late, a
\* message of server 3, the one we sent ourselves, or something else.
Datagram(d) ==
  /\ Delivery /\ d \notin udpq
  /\ d[2] = Loop => looped
  /\ udpq' = udpq \cup {d}
  /\ UNCHANGED <<pc, try, timeout, fdVars, result, backlog, link, joined,
                 inbox, looped, early>>

-----------------------------------------------------------------------------
(* The kernel fails a call.                                                *)

\* sendto, select and accept: perrdie.
CallFails ==
  /\ pc \in {"request", "select", "listen"}
  /\ Die
  /\ UNCHANGED <<try, timeout, fdVars, result, network>>

\* recvfrom: its -1 is no less than the size of a reply, so what the buffer and the
\* source address hold is looked at.  Both may never have been set: at worst they
\* are those of a reply that nobody sent.
RecvUdpFails ==
  /\ Event({"udp"})
  /\ \/ UNCHANGED myu
     \/ \E d \in {e \in Datagrams : e[1] \in Servers} :
           myu' = [myu EXCEPT ![d[1]] = KeptAddress(d)]
  /\ UNCHANGED <<pc, try, timeout, fdVars, myt, tcploop, udploop, t3toosoon,
                 backlog, link, joined, inbox, udpq, looped, early>>

Network ==
  \/ \E n \in 1..4 : Connected(n) \/ Refused(n)
  \/ \E n \in 1..3 : Answer(n)
  \/ \E l \in {Callback, Stray} : Arrive(l) \/ Speak(l)
  \/ \E d \in Datagrams : Datagram(d)

Next == Main \/ Network \/ CallFails \/ RecvUdpFails
Spec == Init /\ [][Next]_vars
FairSpec == Spec /\ WF_vars(Main)

-----------------------------------------------------------------------------
TypeOK ==
  /\ pc \in Stages \cup Ended /\ try \in 1..NTRIES /\ timeout \in BOOLEAN
  /\ tcp \in [1..4 -> {None} \cup 3..6]
  /\ incb \in {None} \cup Fds /\ inloop \in {None} \cup Fds
  /\ rfds \subseteq Fds /\ wfds \subseteq Fds /\ maxsock \in Fds
  /\ myt \in [Servers -> Addrs \cup {INADDR_ANY}] /\ myu \in [Servers -> Addrs \cup {INADDR_ANY}]
  /\ {tcploop, udploop, t3toosoon, looped, early} \subseteq BOOLEAN
  /\ open \subseteq Fds /\ peer \in [Fds -> {None} \cup 4..6]
  /\ backlog \in Seq(4..6) /\ joined \subseteq 4..6
  /\ link \in [1..4 -> {"idle", "pending", "up", "refused", "asked", "answered"}]
  /\ inbox \in [Links -> Answers \cup {Nothing, Loop}]
  /\ udpq \subseteq Datagrams /\ events \in 0..MaxEvents

\* Every descriptor select is given is open and not above maxsock, and belongs
\* to one of the sockets the loop looks at, which are all different: the number
\* of a closed socket that accept hands out again is never another's.
Held == {tcp[n] : n \in 1..4} \cup {incb, inloop}
WatchedAreOpen ==
  /\ TypeOK
  /\ rfds \cup wfds \subseteq open \cap (Held \cup {tcp0, udp1})
  /\ rfds \cap wfds = {}
  /\ \A f \in rfds \cup wfds : f <= maxsock
  /\ Cardinality(Held \ {None}) =
       Cardinality({n \in 1..4 : tcp[n] # None}) + (IF incb = None THEN 0 ELSE 1)
         + (IF inloop = None THEN 0 ELSE 1)

\* Whatever waits for the program is something select will wake it for: a link
\* that is up or refused is watched for writing, an answer or a loopback
\* message for reading, unless listentcp closed the connection it came on.
NothingForgotten ==
  pc = "select" =>
    /\ \A n \in 1..4 : link[n] \in {"up", "refused"} => tcp[n] \in wfds
    /\ \A n \in Servers : inbox[n] # Nothing => tcp[n] \in rfds
    /\ \A f \in Fds : peer[f] # None /\ inbox[peer[f]] # Nothing => f \in rfds

\* checktcp and checkudp keep the first address a server reports: a second
\* answer, another one over the callback or a late datagram changes nothing.
FirstAnswerKept ==
  [][\A s \in Servers : /\ myt[s] # INADDR_ANY => myt'[s] = myt[s]
                        /\ myu[s] # INADDR_ANY => myu'[s] = myu[s]]_vars

\* The warning that connections are not filtered is only given for a
\* connection server 3 made to us, never for one our own attempt opened.
TooSoonIsCallback == t3toosoon => Callback \in joined /\ link[3] = "idle"

\* A loopback is only reported when our own message came back.
LoopbackIsOurs ==
  /\ tcploop => Hairpin \in joined /\ tcp[4] = None
  /\ udploop => looped

\* What the program says of the network rests on something that happened.
VerdictsAreEarned == TooSoonIsCallback /\ LoopbackIsOurs

\* The comment before the test of t3toosoon: a callback that comes, with its
\* answer, before server 2's answer means that the firewall does not filter.
CallbackFirstIsNoticed ==
  pc = "loopout" /\ early /\ myt[3] # INADDR_ANY => t3toosoon

\* The program ends: no socket stays ready that nobody serves, which would
\* keep select from ever timing out.
Ends == <>(pc \in Ended)

=============================================================================
