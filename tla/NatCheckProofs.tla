---------------------------- MODULE NatCheckProofs ----------------------------
(***************************************************************************)
(* Theorems about NatCheck, for any number of rounds, any addresses, and   *)
(* whatever the servers, strangers and the network do, however often.      *)
(***************************************************************************)
EXTENDS NatCheck, FiniteSetTheorems, TLAPS

-----------------------------------------------------------------------------
(* The inductive invariant.                                                *)

\* A socket of ours is watched for writing until its request is sent, then for
\* reading until its answer is read.
TcpOK ==
  /\ \A n \in 1..4 : /\ tcp[n] \in {None, Tcp[n]}
                     /\ tcp[n] \in wfds <=> link[n] \in {"pending", "up", "refused"}
                     /\ link[n] = "idle" => tcp[n] # None
  /\ \A n \in Servers : /\ tcp[n] \in rfds => link[n] \in {"asked", "answered"}
                        /\ link[n] = "asked" => tcp[n] \in rfds
                        /\ inbox[n] # Nothing => tcp[n] \in rfds /\ link[n] = "answered"

\* The numbers accept may hand out: those that main did not give away, and that of the
\* socket to ourselves once it is closed.
Free == {Tcp[4], 8, 9, 10}

\* Only what is held is watched, and a number in use is not handed out again.
FdOK ==
  /\ Fds \ Free \subseteq open
  /\ tcp[4] # None => tcp[4] \in open /\ peer[Tcp[4]] = None
  /\ \A f \in Fds : /\ peer[f] # None => f \in open \cap Free
                    /\ f \in {8, 9, 10} \cap open => peer[f] # None
  /\ incb # None => peer[incb] = Callback /\ incb \in rfds
  /\ inloop # None => peer[inloop] \in {Hairpin, Stray} /\ inloop \in rfds
  /\ \A f \in rfds : f \in {tcp0, udp1, incb, inloop} \/ \E n \in Servers : f = tcp[n]
  /\ \A f \in wfds : \E n \in 1..4 : f = tcp[n]
  /\ \A f \in rfds \cup wfds : f <= maxsock

\* Who connects to us waits, or is behind one descriptor, which is held unless it
\* was server 3 and has been heard.
PeersOK ==
  /\ \A f, g \in Fds : peer[f] # None /\ peer[f] = peer[g] => f = g
  /\ \A j, k \in DOMAIN backlog : backlog[j] = backlog[k] => j = k
  /\ \A j \in DOMAIN backlog : backlog[j] \in joined /\ \A f \in Fds : peer[f] # backlog[j]
  /\ \A f \in Fds : peer[f] # None =>
        /\ peer[f] \in joined
        /\ \/ f \in {incb, inloop}
           \/ peer[f] = Callback /\ inbox[Callback] = Nothing
  /\ Hairpin \in joined => link[4] \in {"up", "asked"}

\* Until server 2 has answered nothing is tried towards server 3 or ourselves.
AnswersOK ==
  /\ tcp[2] # None \/ myt[2] = INADDR_ANY => link[3] = "idle" /\ link[4] = "idle"
  /\ myt[3] # INADDR_ANY => myt[2] # INADDR_ANY \/ Callback \in joined
  /\ \A l \in Links : inbox[l] = Loop => l = Hairpin
  /\ inbox[Hairpin] # Nothing => tcp[4] = None
  /\ \A d \in udpq : d[2] = Loop => looped

CheckInv ==
  TypeOK /\ TcpOK /\ FdOK /\ PeersOK /\ AnswersOK /\ VerdictsAreEarned

-----------------------------------------------------------------------------
(* Sequences, and what the constants are.                                  *)

\* What Append gives.
LEMMA AppendSeq ==
  ASSUME NEW S, NEW s \in Seq(S), NEW e \in S
  PROVE  /\ Append(s, e) \in Seq(S)
         /\ Len(s) \in Nat /\ DOMAIN s = 1 .. Len(s)
         /\ DOMAIN Append(s, e) = 1 .. Len(s) + 1
         /\ Append(s, e)[Len(s) + 1] = e
         /\ \A j \in 1 .. Len(s) : Append(s, e)[j] = s[j]
OBVIOUS

\* What Tail gives.
LEMMA TailSeq ==
  ASSUME NEW S, NEW s \in Seq(S), s # <<>>
  PROVE  /\ Tail(s) \in Seq(S)
         /\ Len(s) \in Nat \ {0} /\ DOMAIN s = 1 .. Len(s) /\ 1 \in DOMAIN s
         /\ DOMAIN Tail(s) = 1 .. Len(s) - 1
         /\ Head(s) = s[1] /\ Head(s) \in S
         /\ \A j \in 1 .. Len(s) - 1 : Tail(s)[j] = s[j + 1]
OBVIOUS

\* The numbers of the four sockets.
LEMMA TcpIs == Tcp[1] = 3 /\ Tcp[2] = 4 /\ Tcp[3] = 5 /\ Tcp[4] = 6
BY DEF Tcp

\* The numbers accept may hand out, and the others.
LEMMA FreeIs == Free = {6, 8, 9, 10} /\ Fds \ Free = {1, 2, 3, 4, 5, 7} /\ Fds = 1..10
BY TcpIs DEF Free, Fds, MaxFd

\* The stages of the program.
LEMMA StagesAre ==
  /\ \A n \in 1..3 : Check(n) \in Stages /\ After(n) \in Stages
  /\ {"request", "select", "listen", "check1", "checkcb", "loopout", "loopin", "udp"}
       \subseteq Stages
  /\ "died" \in Ended /\ "reported" \in Ended
BY DEF Check, After, Stages, Ended

\* An accepted connection has a number that nobody holds: there are four of them, and
\* at most two of the three that can connect are behind one.
LEMMA NewFdIs ==
  ASSUME TypeOK, FdOK, PeersOK, backlog # <<>>
  PROVE  NewFd \in Free /\ NewFd \in Fds /\ NewFd \notin open
<1>1. Head(backlog) \in 4..6 /\ \A f \in Fds : peer[f] # Head(backlog)
  BY TailSeq DEF TypeOK, PeersOK
<1>2. \A f \in {8, 9, 10} : f \in Fds /\ peer[f] \in {None} \cup 4..6
  BY FreeIs DEF TypeOK
<1>3. \E f \in {8, 9, 10} : f \notin open
  <2> SUFFICES ASSUME 8 \in open, 9 \in open, 10 \in open PROVE FALSE
    OBVIOUS
  <2>1. peer[8] # None /\ peer[9] # None /\ peer[10] # None
    BY <1>2 DEF FdOK
  <2>2. peer[8] # peer[9] /\ peer[8] # peer[10] /\ peer[9] # peer[10]
    BY <1>2, <2>1 DEF PeersOK
  <2> QED
    BY <1>1, <1>2, <2>1, <2>2 DEF None
<1>4. Fds \ open \subseteq {6, 8, 9, 10}
  BY FreeIs DEF FdOK
<1>5. \E f \in Fds \ open : \A g \in Fds \ open : f <= g
  <2>1. CASE 6 \notin open
    BY <1>4, <2>1, FreeIs
  <2>2. CASE 6 \in open /\ 8 \notin open
    BY <1>4, <2>2, FreeIs
  <2>3. CASE 6 \in open /\ 8 \in open /\ 9 \notin open
    BY <1>4, <2>3, FreeIs
  <2>4. CASE 6 \in open /\ 8 \in open /\ 9 \in open
    BY <1>3, <1>4, <2>4, FreeIs
  <2> QED
    BY <2>1, <2>2, <2>3, <2>4
<1>6. NewFd \in Fds \ open
  BY <1>5 DEF NewFd
<1> QED
  BY <1>4, <1>6, FreeIs

\* The one that is accepted leaves the queue, and nobody is behind it yet.
LEMMA AcceptIs ==
  ASSUME TypeOK, FdOK, PeersOK, Accept
  PROVE  \E l \in 4..6 :
           /\ l = Head(backlog) /\ ~ Taken(l)
           /\ l \in joined /\ \A f \in Fds : peer[f] # l
           /\ peer' = [peer EXCEPT ![NewFd] = l]
           /\ NewFd \in Free /\ NewFd \in Fds /\ NewFd \notin open
           /\ \A j \in DOMAIN backlog' : backlog'[j] # l
<1>1. backlog # <<>> /\ backlog' = Tail(backlog)
  BY DEF Accept
<1>2. \A j \in 1 .. Len(backlog) - 1 : backlog'[j] = backlog[j + 1]
  BY <1>1, TailSeq DEF TypeOK
<1>3. /\ Len(backlog) \in Nat \ {0} /\ DOMAIN backlog = 1 .. Len(backlog)
      /\ DOMAIN backlog' = 1 .. Len(backlog) - 1 /\ Head(backlog) = backlog[1]
      /\ Head(backlog) \in 4..6
  BY <1>1, TailSeq DEF TypeOK
<1>4. \A j \in DOMAIN backlog' : backlog'[j] # Head(backlog)
  <2> SUFFICES ASSUME NEW j \in DOMAIN backlog', backlog'[j] = Head(backlog) PROVE FALSE
    OBVIOUS
  <2>1. j + 1 \in DOMAIN backlog /\ 1 \in DOMAIN backlog /\ backlog[j + 1] = backlog[1]
    BY <1>2, <1>3
  <2>2. j + 1 = 1
    BY <2>1 DEF PeersOK
  <2> QED
    BY <1>3, <2>2
<1>5. Head(backlog) \in joined /\ \A f \in Fds : peer[f] # Head(backlog)
  BY <1>3 DEF PeersOK
<1>6. ~ Taken(Head(backlog)) /\ peer' = [peer EXCEPT ![NewFd] = Head(backlog)]
  BY DEF Accept
<1> QED
  BY <1>1, <1>3, <1>4, <1>5, <1>6, NewFdIs

\* The others move up.
LEMMA TailIs ==
  ASSUME TypeOK, backlog # <<>>, backlog' = Tail(backlog)
  PROVE  /\ backlog' \in Seq(4..6)
         /\ \A j \in DOMAIN backlog' :
               j \in Nat /\ j + 1 \in DOMAIN backlog /\ backlog'[j] = backlog[j + 1]
<1>1. /\ Len(backlog) \in Nat \ {0} /\ DOMAIN backlog = 1 .. Len(backlog)
      /\ DOMAIN backlog' = 1 .. Len(backlog) - 1 /\ backlog' \in Seq(4..6)
      /\ \A j \in 1 .. Len(backlog) - 1 : backlog'[j] = backlog[j + 1]
  BY TailSeq DEF TypeOK
<1> QED
  BY <1>1

\* Only the first callback and the first of the others is kept.
LEMMA KeptIs ==
  ASSUME TypeOK, Accept, NEW l \in 4..6, l = Head(backlog)
  PROVE  \/ l = Callback /\ incb = None /\ incb' = NewFd /\ inloop' = inloop
         \/ l \in {Hairpin, Stray} /\ inloop = None /\ inloop' = NewFd /\ incb' = incb
BY DEF Accept, Taken, FromServer3, Callback, Hairpin, Stray

\* What a server says is never taken for our own message.
LEMMA SaysIs ==
  /\ \A l \in Links : \A m \in Says[l] : m \in Answers \cup {Nothing, Loop} /\ m # Loop
  /\ \A d \in Datagrams : d[1] \in Servers => d[2] \in Addrs /\ d[2] # Loop
<1>1. \A m \in Answers : m # Loop
  BY WordAssumption DEF Answers, Loop, Runt, Reset
<1>2. \A d \in Datagrams : d[1] \in Servers => d[2] \in Addrs
  BY DatagramAssumption DEF Servers
<1> QED
  BY <1>1, <1>2, SaysAssumption, WordAssumption

\* What a step of the network counts.
LEMMA EventIs ==
  ASSUME TypeOK, NEW stages, Event(stages)
  PROVE  events' \in 0..MaxEvents
BY BoundAssumption DEF TypeOK, Event

\* An answer is recorded once; only server 2's first one opens the other sockets.
LEMMA CheckReadsIs ==
  ASSUME TypeOK, NEW n \in 1..3, CheckReads(n)
  PROVE  /\ inbox' = [inbox EXCEPT ![n] = Nothing] /\ inbox[n] # Nothing
         /\ tcp[n] \in rfds /\ tcp[n] \notin wfds
         /\ myt' \in [Servers -> Addrs \cup {INADDR_ANY}]
         /\ \A s \in Servers : s # n \/ myt[s] # INADDR_ANY => myt'[s] = myt[s]
         /\ \/ /\ n = 2 /\ myt'[2] # INADDR_ANY /\ GiveUp(n) /\ pc' = After(n)
               /\ \E meet \in BOOLEAN :
                    /\ meet => Callback \notin joined
                    /\ link' = [link EXCEPT ![3] = IF meet THEN "pending" ELSE @,
                                            ![4] = "pending"]
                    /\ wfds' = wfds \cup IF meet THEN {tcp[3], tcp[4]} ELSE {tcp[4]}
                    /\ maxsock' \in {maxsock, tcp[4]}
                    /\ maxsock' >= maxsock /\ maxsock' >= tcp[4]
            \/ /\ n = 2 /\ myt'[2] # INADDR_ANY /\ pc' = "died"
               /\ UNCHANGED <<link, wfds, maxsock, tcp, rfds>>
            \/ /\ n = 2 => myt' = myt
               /\ GiveUp(n) /\ pc' = After(n) /\ UNCHANGED <<link, wfds, maxsock>>
<1> USE FreeIs DEF TypeOK, Servers, Links, None
<1>1. /\ inbox' = [inbox EXCEPT ![n] = Nothing] /\ inbox[n] # Nothing
      /\ tcp[n] \in rfds /\ tcp[n] \notin wfds
  BY DEF CheckReads, ReadAnswer
<1>2. /\ myt' \in [Servers -> Addrs \cup {INADDR_ANY}]
      /\ \A s \in Servers : s # n \/ myt[s] # INADDR_ANY => myt'[s] = myt[s]
      /\ Recorded(n, inbox[n]) => myt'[n] # INADDR_ANY
      /\ ~ Recorded(n, inbox[n]) => myt' = myt
  BY AnyAssumption DEF CheckReads, ReadAnswer, Recorded
<1>3. CASE n = 2 /\ Recorded(n, inbox[n]) /\ ConnectBack /\ GiveUp(n) /\ pc' = After(n)
  <2>1. \A x, y \in Nat : Larger(x, y) \in {x, y} /\ Larger(x, y) >= x /\ Larger(x, y) >= y
    BY DEF Larger
  <2>2. maxsock \in Nat /\ tcp[4] \in Nat
    OBVIOUS
  <2>3. PICK meet \in BOOLEAN :
          /\ meet => Callback \notin joined
          /\ link' = [link EXCEPT ![3] = IF meet THEN "pending" ELSE @, ![4] = "pending"]
          /\ wfds' = wfds \cup IF meet THEN {tcp[3], tcp[4]} ELSE {tcp[4]}
          /\ maxsock' = Larger(maxsock, tcp[4])
    BY <1>3 DEF ConnectBack
  <2> QED
    BY <1>1, <1>2, <1>3, <2>1, <2>2, <2>3
<1>4. CASE /\ n = 2 /\ Recorded(n, inbox[n]) /\ Die
           /\ UNCHANGED <<link, wfds, maxsock, tcp, rfds>>
  BY <1>1, <1>2, <1>4 DEF Die
<1>5. CASE /\ n # 2 \/ ~ Recorded(n, inbox[n])
           /\ GiveUp(n) /\ pc' = After(n) /\ UNCHANGED <<link, wfds, maxsock>>
  BY <1>1, <1>2, <1>5
<1> QED
  BY <1>3, <1>4, <1>5 DEF CheckReads

\* What is accepted is not one of the sockets main made.
LEMMA HeldIs ==
  ASSUME TypeOK, TcpOK, FdOK
  PROVE  /\ incb # None => incb \in Free /\ incb \in Fds /\ incb \in open
         /\ inloop # None => inloop \in Free /\ inloop \in Fds /\ inloop \in open
         /\ incb # None => incb # inloop
         /\ tcp[4] # None => tcp[4] \notin {incb, inloop}
BY FreeIs, SMTT(30) DEF TypeOK, TcpOK, FdOK, None, Callback, Hairpin, Stray

-----------------------------------------------------------------------------
(* The initial state.                                                      *)

\* The invariant holds at the start.
LEMMA InitCheckInv ==
  ASSUME Init
  PROVE  CheckInv
<1> USE FreeIs, TcpIs, TriesAssumption, BoundAssumption
    DEF Init, Servers, Links, None, tcp0, udp1, Hairpin
<1>1. TypeOK
  <2>1. pc \in Stages \cup Ended /\ try \in 1..NTRIES /\ timeout \in BOOLEAN
    <3>1. pc \in Stages
      BY StagesAre
    <3>2. try \in 1..NTRIES
      OBVIOUS
    <3> QED
      BY <3>1, <3>2
  <2>4. /\ tcp \in [1..4 -> {None} \cup 3..6]
        /\ incb \in {None} \cup Fds /\ inloop \in {None} \cup Fds
    BY DEF Tcp
  <2>5. rfds \subseteq Fds /\ wfds \subseteq Fds /\ maxsock \in Fds /\ open \subseteq Fds
    OBVIOUS
  <2>2. /\ myt \in [Servers -> Addrs \cup {INADDR_ANY}]
        /\ myu \in [Servers -> Addrs \cup {INADDR_ANY}]
        /\ peer \in [Fds -> {None} \cup 4..6]
    OBVIOUS
  <2>6. {tcploop, udploop, t3toosoon, looped, early} \subseteq BOOLEAN
    OBVIOUS
  <2>3. /\ backlog \in Seq(4..6) /\ joined \subseteq 4..6
        /\ link \in [1..4 -> {"idle", "pending", "up", "refused", "asked", "answered"}]
        /\ inbox \in [Links -> Answers \cup {Nothing, Loop}]
        /\ udpq \subseteq Datagrams /\ events \in 0..MaxEvents
    OBVIOUS
  <2> QED
    BY <2>1, <2>2, <2>3, <2>4, <2>5, <2>6 DEF TypeOK
<1>2. TcpOK
  BY DEF TcpOK, Tcp
<1>3. FdOK
  BY DEF FdOK
<1>4. PeersOK
  BY DEF PeersOK
<1>5. AnswersOK /\ VerdictsAreEarned
  BY DEF AnswersOK, VerdictsAreEarned, TooSoonIsCallback, LoopbackIsOurs, Nothing, Loop
<1> QED
  BY <1>1, <1>2, <1>3, <1>4, <1>5 DEF CheckInv

-----------------------------------------------------------------------------
(* What each step keeps of the invariant.                                  *)

\* Everything stays what it is.
LEMMA TypeStep ==
  ASSUME CheckInv, [Next]_vars
  PROVE  TypeOK'
<1> USE DEF CheckInv, TypeOK, Servers, Links, None, tcp0, udp1, Hairpin, Callback, Stray, fdVars, result, network, vars
<1> USE FreeIs
<1>1. CASE Request
  BY <1>1, StagesAre, FreeIs, TcpIs DEF Request
<1>2. CASE Select
  BY <1>2, StagesAre, FreeIs, TcpIs DEF Select
<1>3. CASE Accept
  <2>1. NewFd \in Free /\ NewFd \in Fds /\ NewFd \notin open
    BY <1>3, NewFdIs DEF Accept
  <2>2. maxsock' \in Fds
    BY <1>3, <2>1 DEF Accept, Larger
  <2>3. PICK l \in 4..6 : l = Head(backlog) /\ peer' = [peer EXCEPT ![NewFd] = l]
    BY <1>3, AcceptIs
  <2>4. /\ incb' \in {None} \cup Fds /\ inloop' \in {None} \cup Fds
        /\ backlog' \in Seq(4..6)
    BY <1>3, <2>1, <2>3, KeptIs, TailIs DEF Accept
  <2>5. peer' \in [Fds -> {None} \cup 4..6]
    BY <2>1, <2>3
  <2> QED
    BY <1>3, <2>1, <2>2, <2>4, <2>5 DEF Accept
<1>4. CASE AcceptClose
  BY <1>4, StagesAre, FreeIs, TcpIs DEF AcceptClose
<1>5. CASE ListenDone
  BY <1>5, StagesAre, FreeIs, TcpIs DEF ListenDone
<1>6. ASSUME NEW n \in 1..3, CheckIdle(n) PROVE TypeOK'
  BY <1>6, StagesAre, FreeIs, TcpIs DEF CheckIdle
<1>7. ASSUME NEW n \in 1..3, CheckDies(n) PROVE TypeOK'
  BY <1>7, StagesAre, FreeIs, TcpIs DEF CheckDies, Die
<1>8. ASSUME NEW n \in 1..3, CheckSends(n) PROVE TypeOK'
  BY <1>8, StagesAre, FreeIs, TcpIs DEF CheckSends, StopWriting, StartReading
<1>9. ASSUME NEW n \in 1..3, CheckReads(n) PROVE TypeOK'
  <2> USE CheckReadsIs, FreeIs, TcpIs DEF TypeOK
  <2>1. CASE /\ n = 2 /\ myt'[2] # INADDR_ANY /\ GiveUp(n) /\ pc' = After(n)
             /\ \E meet \in BOOLEAN :
                  /\ meet => Callback \notin joined
                  /\ link' = [link EXCEPT ![3] = IF meet THEN "pending" ELSE @,
                                          ![4] = "pending"]
                  /\ wfds' = wfds \cup IF meet THEN {tcp[3], tcp[4]} ELSE {tcp[4]}
                  /\ maxsock' \in {maxsock, tcp[4]}
                  /\ maxsock' >= maxsock /\ maxsock' >= tcp[4]
    <3>1. /\ tcp' = [tcp EXCEPT ![n] = None] /\ rfds' = rfds \ {tcp[n]}
          /\ pc' \in Stages
      BY <2>1, StagesAre DEF GiveUp
    <3>2. /\ tcp[2] # None /\ link[3] = "idle" /\ link[4] = "idle"
      BY <1>9, <2>1 DEF AnswersOK
    <3>3. tcp[3] \in Fds /\ tcp[4] \in Fds
      BY <3>2 DEF TcpOK
    <3>4. wfds' \subseteq Fds /\ maxsock' \in Fds
      BY <2>1, <3>3
    <3>5. link' \in [1..4 -> {"idle", "pending", "up", "refused", "asked", "answered"}]
      BY <2>1, SMTT(30)
    <3>6. /\ tcp' \in [1..4 -> {None} \cup 3..6] /\ rfds' \subseteq Fds
          /\ inbox' \in [Links -> Answers \cup {Nothing, Loop}]
          /\ myt' \in [Servers -> Addrs \cup {INADDR_ANY}]
      BY <1>9, <3>1
    <3> QED
      BY <1>9, <3>1, <3>4, <3>5, <3>6 DEF CheckReads
  <2>2. CASE /\ n = 2 /\ myt'[2] # INADDR_ANY /\ pc' = "died"
             /\ UNCHANGED <<link, wfds, maxsock, tcp, rfds>>
    BY <1>9, <2>2, StagesAre DEF CheckReads, GiveUp, TypeOK
  <2>3. CASE /\ n = 2 => myt' = myt
             /\ GiveUp(n) /\ pc' = After(n) /\ UNCHANGED <<link, wfds, maxsock>>
    BY <1>9, <2>3, StagesAre, ZenonT(40) DEF CheckReads, GiveUp, TypeOK
  <2> QED
    BY <1>9, <2>1, <2>2, <2>3
<1>10. CASE CheckCallbackIdle
  BY <1>10, StagesAre, FreeIs, TcpIs
  DEF CheckCallbackIdle, NoteTooSoon, TooSoon
<1>11. CASE CheckCallbackDies
  BY <1>11, StagesAre, FreeIs, TcpIs DEF CheckCallbackDies, Die
<1>12. CASE CheckCallbackReads
  BY <1>12, StagesAre, FreeIs, TcpIs
  DEF CheckCallbackReads, ReadAnswer, Recorded, NoteTooSoon, TooSoon
<1>13. CASE LoopOutIdle
  BY <1>13, StagesAre, FreeIs, TcpIs DEF LoopOutIdle
<1>14. CASE LoopOutDies
  BY <1>14, StagesAre, FreeIs, TcpIs DEF LoopOutDies, Die
<1>15. CASE LoopOutSends
  <2>1. inbox' \in [Links -> Answers \cup {Nothing, Loop}]
    BY <1>15 DEF LoopOutSends, Answers
  <2> QED
    BY <1>15, <2>1, StagesAre, FreeIs, TcpIs DEF LoopOutSends, StopWriting
<1>16. CASE LoopInReads
  BY <1>16, StagesAre, FreeIs, TcpIs DEF LoopInReads, Heard, CloseInloop
<1>17. CASE LoopInIdle
  BY <1>17, StagesAre, FreeIs, TcpIs DEF LoopInIdle
<1>18. ASSUME NEW d \in udpq, RecvUdp(d) PROVE TypeOK'
  <2>1. d \in Datagrams /\ (d[1] \in Servers => d[2] \in Addrs)
    BY SaysIs
  <2>2. myu' \in [Servers -> Addrs \cup {INADDR_ANY}]
    BY <1>18, <2>1 DEF RecvUdp, KeptAddress
  <2>3. udploop' \in BOOLEAN
    BY <1>18 DEF RecvUdp, IsLoop
  <2>4. udpq' \subseteq Datagrams
    BY <1>18 DEF RecvUdp
  <2> QED
    BY <1>18, <2>2, <2>3, <2>4 DEF RecvUdp
<1>19. CASE NextRound
  BY <1>19, StagesAre, TriesAssumption, SMTT(30) DEF NextRound, LastTry
<1>20. CASE Report
  BY <1>20, StagesAre, FreeIs, TcpIs DEF Report, Die
<1>21. ASSUME NEW n \in 1..4, Connected(n) PROVE TypeOK'
  <2>1. events' \in 0..MaxEvents
    BY <1>21, EventIs DEF Connected, Arrival, Event
  <2>2. link' \in [1..4 -> {"idle", "pending", "up", "refused", "asked", "answered"}]
    BY <1>21 DEF Connected
  <2>3. backlog' \in Seq(4..6) /\ joined' \subseteq 4..6
    <3>1. CASE n = 4
      <4>1. /\ backlog' = Append(backlog, Hairpin) /\ joined' = joined \cup {Hairpin}
            /\ Hairpin \in 4..6 /\ backlog \in Seq(4..6)
        BY <1>21, <3>1 DEF Connected
      <4>2. Append(backlog, Hairpin) \in Seq(4..6)
        BY <4>1, AppendSeq
      <4> QED
        BY <4>1, <4>2
    <3>2. CASE n # 4
      BY <1>21, <3>2 DEF Connected
    <3> QED
      BY <3>1, <3>2
  <2> QED
    BY <1>21, <2>1, <2>2, <2>3 DEF Connected
<1>22. ASSUME NEW n \in 1..4, Refused(n) PROVE TypeOK'
  <2>1. events' \in 0..MaxEvents
    BY <1>22, EventIs DEF Refused, Arrival, Event
  <2> QED
    BY <1>22, <2>1 DEF Refused
<1>23. ASSUME NEW n \in 1..3, Answer(n) PROVE TypeOK'
  <2>1. events' \in 0..MaxEvents
    BY <1>23, EventIs DEF Answer, Arrival, Event
  <2>2. inbox' \in [Links -> Answers \cup {Nothing, Loop}]
    BY <1>23, SaysIs DEF Answer
  <2> QED
    BY <1>23, <2>1, <2>2 DEF Answer
<1>24. ASSUME NEW l \in {Callback, Stray}, Arrive(l) PROVE TypeOK'
  <2>1. events' \in 0..MaxEvents
    BY <1>24, EventIs DEF Arrive, Arrival, Event
  <2>2. backlog' \in Seq(4..6) /\ joined' \subseteq 4..6
    BY <1>24, AppendSeq DEF Arrive
  <2> QED
    BY <1>24, <2>1, <2>2 DEF Arrive
<1>25. ASSUME NEW l \in {Callback, Stray}, Speak(l) PROVE TypeOK'
  <2>1. events' \in 0..MaxEvents
    BY <1>25, EventIs DEF Speak, Arrival, Event, Connection
  <2>2. inbox' \in [Links -> Answers \cup {Nothing, Loop}]
    BY <1>25, SaysIs DEF Speak
  <2>3. early' \in BOOLEAN
    BY <1>25 DEF Speak
  <2> QED
    BY <1>25, <2>1, <2>2, <2>3 DEF Speak
<1>26. ASSUME NEW d \in Datagrams, Datagram(d) PROVE TypeOK'
  <2>1. events' \in 0..MaxEvents
    BY <1>26, EventIs DEF Datagram, Delivery, Event
  <2> QED
    BY <1>26, <2>1 DEF Datagram
<1>27. CASE LoopInFails
  <2>1. inbox' \in [Links -> Answers \cup {Nothing, Loop}]
    BY <1>27 DEF LoopInFails, Answers
  <2> QED
    BY <1>27, <2>1, StagesAre DEF LoopInFails
<1>28. CASE CallFails
  BY <1>28, StagesAre, FreeIs, TcpIs DEF CallFails, Die
<1>29. CASE RecvUdpFails
  <2>1. \A d \in Datagrams : d[1] \in Servers => KeptAddress(d) \in Addrs \cup {INADDR_ANY}
    BY SaysIs DEF KeptAddress
  <2>2. myu' \in [Servers -> Addrs \cup {INADDR_ANY}]
    <3>1. CASE UNCHANGED myu
      BY <3>1
    <3>2. ASSUME NEW d \in Datagrams, d[1] \in Servers,
                 myu' = [myu EXCEPT ![d[1]] = KeptAddress(d)]
          PROVE  myu' \in [Servers -> Addrs \cup {INADDR_ANY}]
      BY <2>1, <3>2
    <3> QED
      BY <1>29, <3>1, <3>2 DEF RecvUdpFails
  <2>3. events' \in 0..MaxEvents
    BY <1>29, EventIs DEF RecvUdpFails, Event
  <2>4. UNCHANGED <<pc, try, timeout, fdVars, myt, tcploop, udploop, t3toosoon,
                    backlog, link, joined, inbox, udpq, looped, early>>
    BY <1>29 DEF RecvUdpFails
  <2> QED
    BY <2>2, <2>3, <2>4
<1>30. CASE UNCHANGED vars
  BY <1>30, StagesAre, FreeIs, TcpIs
<1> QED
  BY <1>1, <1>2, <1>3, <1>4, <1>5, <1>6, <1>7, <1>8, <1>9, <1>10, <1>11,
     <1>12, <1>13, <1>14, <1>15, <1>16, <1>17, <1>18, <1>19, <1>20, <1>21,
     <1>22, <1>23, <1>24, <1>25, <1>26, <1>27, <1>28, <1>29, <1>30
  DEF Next, Main, Network

\* Nothing is watched that the program has given up.
LEMMA TcpStep ==
  ASSUME CheckInv, [Next]_vars
  PROVE  TcpOK'
<1> USE DEF CheckInv, Servers, Links, None, tcp0, udp1, Hairpin, Callback, Stray, fdVars, result, network, vars
<1>1. CASE Request
  BY <1>1, FreeIs, TcpIs DEF Request, TypeOK, TcpOK
<1>2. CASE Select
  BY <1>2, FreeIs, TcpIs DEF Select, TypeOK, TcpOK
<1>3. CASE Accept
  <2>1. NewFd \in Free /\ NewFd \in Fds /\ NewFd \notin open
    BY <1>3, NewFdIs DEF Accept
  <2> QED
    BY <1>3, <2>1, FreeIs, TcpIs, SMTT(30) DEF Accept, TypeOK, TcpOK
<1>4. CASE AcceptClose
  BY <1>4, FreeIs, TcpIs DEF AcceptClose, TypeOK, TcpOK
<1>5. CASE ListenDone
  BY <1>5, FreeIs, TcpIs DEF ListenDone, TypeOK, TcpOK
<1>6. ASSUME NEW n \in 1..3, CheckIdle(n) PROVE TcpOK'
  BY <1>6, FreeIs, TcpIs DEF CheckIdle, TypeOK, TcpOK
<1>7. ASSUME NEW n \in 1..3, CheckDies(n) PROVE TcpOK'
  BY <1>7, FreeIs, TcpIs DEF CheckDies, Die, TypeOK, TcpOK
<1>8. ASSUME NEW n \in 1..3, CheckSends(n) PROVE TcpOK'
  BY <1>8, FreeIs, TcpIs
  DEF CheckSends, StopWriting, StartReading, TypeOK, TcpOK
<1>9. ASSUME NEW n \in 1..3, CheckReads(n) PROVE TcpOK'
  <2> USE CheckReadsIs, FreeIs, TcpIs DEF TypeOK
  <2>1. CASE /\ n = 2 /\ myt'[2] # INADDR_ANY /\ GiveUp(n) /\ pc' = After(n)
             /\ \E meet \in BOOLEAN :
                  /\ meet => Callback \notin joined
                  /\ link' = [link EXCEPT ![3] = IF meet THEN "pending" ELSE @,
                                          ![4] = "pending"]
                  /\ wfds' = wfds \cup IF meet THEN {tcp[3], tcp[4]} ELSE {tcp[4]}
                  /\ maxsock' \in {maxsock, tcp[4]}
                  /\ maxsock' >= maxsock /\ maxsock' >= tcp[4]
    BY <1>9, <2>1 DEF CheckReads, GiveUp, TcpOK, AnswersOK
  <2>2. CASE /\ n = 2 /\ myt'[2] # INADDR_ANY /\ pc' = "died"
             /\ UNCHANGED <<link, wfds, maxsock, tcp, rfds>>
    BY <1>9, <2>2 DEF CheckReads, GiveUp, TcpOK, AnswersOK
  <2>3. CASE /\ n = 2 => myt' = myt
             /\ GiveUp(n) /\ pc' = After(n) /\ UNCHANGED <<link, wfds, maxsock>>
    <3>1. tcp' = [tcp EXCEPT ![n] = None] /\ rfds' = rfds \ {tcp[n]} /\ tcp[n] \in rfds
      BY <1>9, <2>3 DEF CheckReads, GiveUp
    <3>2. link[n] = "answered" /\ inbox' = [inbox EXCEPT ![n] = Nothing]
      BY <1>9 DEF TcpOK
    <3>3. tcp'[n] = None /\ tcp'[n] \notin rfds' /\ tcp'[n] \notin wfds
      BY <3>1
    <3>4. \A m \in 1..4 \ {n} : tcp'[m] = tcp[m] /\ (tcp[m] \in rfds' <=> tcp[m] \in rfds)
      BY <3>1 DEF TcpOK
    <3>5. \A m \in Servers : inbox'[m] # Nothing => m # n /\ inbox'[m] = inbox[m]
      BY <3>2
    <3> QED
      BY <2>3, <3>2, <3>3, <3>4, <3>5 DEF TcpOK
  <2> QED
    BY <1>9, <2>1, <2>2, <2>3
<1>10. CASE CheckCallbackIdle
  BY <1>10, FreeIs, TcpIs
  DEF CheckCallbackIdle, NoteTooSoon, TooSoon, TypeOK, TcpOK
<1>11. CASE CheckCallbackDies
  BY <1>11, FreeIs, TcpIs DEF CheckCallbackDies, Die, TypeOK, TcpOK
<1>12. CASE CheckCallbackReads
  BY <1>12, FreeIs, TcpIs, HeldIs
  DEF CheckCallbackReads, ReadAnswer, TypeOK, TcpOK
<1>13. CASE LoopOutIdle
  BY <1>13, FreeIs, TcpIs DEF LoopOutIdle, TypeOK, TcpOK
<1>14. CASE LoopOutDies
  BY <1>14, FreeIs, TcpIs DEF LoopOutDies, Die, TypeOK, TcpOK
<1>15. CASE LoopOutSends
  BY <1>15, FreeIs, TcpIs DEF LoopOutSends, StopWriting, TypeOK, TcpOK
<1>16. CASE LoopInReads
  <2>1. inloop \in Free /\ peer[inloop] \in {Hairpin, Stray}
    BY <1>16, HeldIs DEF LoopInReads, Heard, FdOK
  <2> QED
    BY <1>16, <2>1, FreeIs, TcpIs DEF LoopInReads, CloseInloop, TypeOK, TcpOK
<1>17. CASE LoopInIdle
  BY <1>17, FreeIs, TcpIs DEF LoopInIdle, TypeOK, TcpOK
<1>18. ASSUME NEW d \in udpq, RecvUdp(d) PROVE TcpOK'
  BY <1>18, FreeIs, TcpIs DEF RecvUdp, KeptAddress, TypeOK, TcpOK
<1>19. CASE NextRound
  BY <1>19, FreeIs, TcpIs DEF NextRound, TypeOK, TcpOK
<1>20. CASE Report
  BY <1>20, FreeIs, TcpIs DEF Report, Die, TypeOK, TcpOK
<1>21. ASSUME NEW n \in 1..4, Connected(n) PROVE TcpOK'
  BY <1>21, FreeIs, TcpIs DEF Connected, Arrival, Event, TypeOK, TcpOK
<1>22. ASSUME NEW n \in 1..4, Refused(n) PROVE TcpOK'
  BY <1>22, FreeIs, TcpIs DEF Refused, Arrival, Event, TypeOK, TcpOK
<1>23. ASSUME NEW n \in 1..3, Answer(n) PROVE TcpOK'
  BY <1>23, FreeIs, TcpIs DEF Answer, Arrival, Event, TypeOK, TcpOK
<1>24. ASSUME NEW l \in {Callback, Stray}, Arrive(l) PROVE TcpOK'
  BY <1>24, FreeIs, TcpIs DEF Arrive, Arrival, Event, TypeOK, TcpOK
<1>25. ASSUME NEW l \in {Callback, Stray}, Speak(l) PROVE TcpOK'
  BY <1>25, FreeIs, TcpIs DEF Speak, Arrival, Event, Connection, TypeOK, TcpOK
<1>26. ASSUME NEW d \in Datagrams, Datagram(d) PROVE TcpOK'
  BY <1>26, FreeIs, TcpIs DEF Datagram, Delivery, Event, TypeOK, TcpOK
<1>27. CASE LoopInFails
  BY <1>27, FreeIs, TcpIs DEF LoopInFails, Heard, TypeOK, TcpOK
<1>28. CASE CallFails
  BY <1>28, FreeIs, TcpIs DEF CallFails, Die, TypeOK, TcpOK
<1>29. CASE RecvUdpFails
  BY <1>29, FreeIs, TcpIs DEF RecvUdpFails, KeptAddress, Event, TypeOK, TcpOK
<1>30. CASE UNCHANGED vars
  BY <1>30, FreeIs, TcpIs DEF TypeOK, TcpOK
<1> QED
  BY <1>1, <1>2, <1>3, <1>4, <1>5, <1>6, <1>7, <1>8, <1>9, <1>10, <1>11,
     <1>12, <1>13, <1>14, <1>15, <1>16, <1>17, <1>18, <1>19, <1>20, <1>21,
     <1>22, <1>23, <1>24, <1>25, <1>26, <1>27, <1>28, <1>29, <1>30
  DEF Next, Main, Network

\* What is held is open, and what accept gives is nobody's.
LEMMA FdStep ==
  ASSUME CheckInv, [Next]_vars
  PROVE  FdOK'
<1> USE DEF CheckInv, Servers, Links, None, tcp0, udp1, Hairpin, Callback, Stray, fdVars, result, network, vars
<1>1. CASE Request
  BY <1>1, FreeIs, TcpIs DEF Request, TypeOK, TcpOK, FdOK
<1>2. CASE Select
  BY <1>2, FreeIs, TcpIs DEF Select, TypeOK, TcpOK, FdOK
<1>3. CASE Accept
  <2>1. PICK l \in 4..6 :
           /\ l = Head(backlog) /\ peer' = [peer EXCEPT ![NewFd] = l]
           /\ NewFd \in Free /\ NewFd \in Fds /\ NewFd \notin open
    BY <1>3, AcceptIs
  <2>2. \/ l = Callback /\ incb = None /\ incb' = NewFd /\ inloop' = inloop
        \/ l \in {Hairpin, Stray} /\ inloop = None /\ inloop' = NewFd /\ incb' = incb
    BY <1>3, <2>1, KeptIs
  <2>3. open' = open \cup {NewFd} /\ rfds' = rfds \cup {NewFd} /\ tcp' = tcp /\ wfds' = wfds
    BY <1>3 DEF Accept
  <2>4. maxsock' >= maxsock /\ maxsock' >= NewFd /\ maxsock' \in Nat /\ maxsock \in Nat
    BY <1>3, <2>1, FreeIs DEF Accept, Larger, TypeOK
  <2>5. peer \in [Fds -> {None} \cup 4..6] /\ \A f \in Fds \ {NewFd} : peer'[f] = peer[f]
    BY <2>1 DEF TypeOK
  <2>6. peer'[NewFd] = l /\ l # None
    BY <2>1, <2>5
  <2>7. /\ tcp[4] # None => tcp[4] # NewFd
        /\ incb # None => incb # NewFd /\ incb \in Fds
        /\ inloop # None => inloop # NewFd /\ inloop \in Fds
    BY <2>1, HeldIs DEF FdOK
  <2>8. /\ Fds \ Free \subseteq open'
        /\ tcp'[4] # None => tcp'[4] \in open' /\ peer'[Tcp[4]] = None
        /\ \A f \in Fds : /\ peer'[f] # None => f \in open' \cap Free
                          /\ f \in {8, 9, 10} \cap open' => peer'[f] # None
    BY <2>1, <2>3, <2>5, <2>6, <2>7, FreeIs, TcpIs DEF FdOK, TcpOK
  <2>9. /\ incb' # None => peer'[incb'] = Callback /\ incb' \in rfds'
        /\ inloop' # None => peer'[inloop'] \in {Hairpin, Stray} /\ inloop' \in rfds'
    BY <2>2, <2>3, <2>5, <2>6, <2>7 DEF FdOK
  <2>10. /\ \A f \in rfds' : \/ f \in {tcp0, udp1, incb', inloop'}
                             \/ \E n \in Servers : f = tcp'[n]
         /\ \A f \in wfds' : \E n \in 1..4 : f = tcp'[n]
    BY <2>2, <2>3, FreeIs DEF FdOK, TypeOK
  <2>11. \A f \in rfds' \cup wfds' : f <= maxsock'
    BY <2>1, <2>3, <2>4, FreeIs DEF FdOK, TypeOK
  <2> QED
    BY <2>8, <2>9, <2>10, <2>11 DEF FdOK
<1>4. CASE AcceptClose
  BY <1>4, FreeIs, TcpIs DEF AcceptClose, TypeOK, TcpOK, FdOK
<1>5. CASE ListenDone
  BY <1>5, FreeIs, TcpIs DEF ListenDone, TypeOK, TcpOK, FdOK
<1>6. ASSUME NEW n \in 1..3, CheckIdle(n) PROVE FdOK'
  BY <1>6, FreeIs, TcpIs DEF CheckIdle, TypeOK, TcpOK, FdOK
<1>7. ASSUME NEW n \in 1..3, CheckDies(n) PROVE FdOK'
  BY <1>7, FreeIs, TcpIs DEF CheckDies, Die, TypeOK, TcpOK, FdOK
<1>8. ASSUME NEW n \in 1..3, CheckSends(n) PROVE FdOK'
  BY <1>8, FreeIs, TcpIs, SMTT(30)
  DEF CheckSends, StopWriting, StartReading, TypeOK, TcpOK, FdOK
<1>9. ASSUME NEW n \in 1..3, CheckReads(n) PROVE FdOK'
  <2> USE CheckReadsIs, FreeIs, TcpIs DEF TypeOK
  <2>1. CASE /\ n = 2 /\ myt'[2] # INADDR_ANY /\ GiveUp(n) /\ pc' = After(n)
             /\ \E meet \in BOOLEAN :
                  /\ meet => Callback \notin joined
                  /\ link' = [link EXCEPT ![3] = IF meet THEN "pending" ELSE @,
                                          ![4] = "pending"]
                  /\ wfds' = wfds \cup IF meet THEN {tcp[3], tcp[4]} ELSE {tcp[4]}
                  /\ maxsock' \in {maxsock, tcp[4]}
                  /\ maxsock' >= maxsock /\ maxsock' >= tcp[4]
    <3>1. tcp' = [tcp EXCEPT ![n] = None] /\ rfds' = rfds \ {tcp[n]} /\ tcp[n] \in rfds
      BY <1>9, <2>1 DEF GiveUp
    <3>2. tcp[2] # None /\ link[3] = "idle" /\ link[4] = "idle"
      BY <2>1, <3>1 DEF AnswersOK
    <3>3. tcp[3] = 5 /\ tcp[4] = 6 /\ tcp'[3] = 5 /\ tcp'[4] = 6 /\ tcp[2] = 4
      BY <2>1, <3>1, <3>2 DEF TcpOK
    <3>4. UNCHANGED <<open, peer, incb, inloop>>
      BY <1>9 DEF CheckReads
    <3>5. incb # 4 /\ inloop # 4
      BY <3>3, HeldIs
    <3>6. \A f \in wfds' : f \in wfds \/ f \in {5, 6}
      BY <2>1, <3>3
    <3>7. /\ \A f \in rfds' : \/ f \in {tcp0, udp1, incb', inloop'}
                              \/ \E m \in Servers : f = tcp'[m]
          /\ \A f \in wfds' : \E m \in 1..4 : f = tcp'[m]
      BY <1>9, <2>1, <3>1, <3>3, <3>4, <3>6, SMTT(30) DEF FdOK
    <3>8. \A f \in rfds' \cup wfds' : f <= maxsock'
      BY <2>1, <3>1, <3>3, <3>6 DEF FdOK
    <3>9. /\ incb' # None => peer'[incb'] = Callback /\ incb' \in rfds'
          /\ inloop' # None => peer'[inloop'] \in {Hairpin, Stray} /\ inloop' \in rfds'
          /\ tcp'[4] # None => tcp'[4] \in open' /\ peer'[Tcp[4]] = None
      BY <2>1, <3>1, <3>3, <3>4, <3>5 DEF FdOK
    <3> QED
      BY <3>4, <3>7, <3>8, <3>9 DEF FdOK
  <2>2. CASE /\ n = 2 /\ myt'[2] # INADDR_ANY /\ pc' = "died"
             /\ UNCHANGED <<link, wfds, maxsock, tcp, rfds>>
    BY <1>9, <2>2 DEF CheckReads, GiveUp, FdOK, TcpOK, AnswersOK
  <2>3. CASE /\ n = 2 => myt' = myt
             /\ GiveUp(n) /\ pc' = After(n) /\ UNCHANGED <<link, wfds, maxsock>>
    BY <1>9, <2>3, SMTT(30) DEF CheckReads, GiveUp, FdOK, TcpOK, AnswersOK
  <2> QED
    BY <1>9, <2>1, <2>2, <2>3
<1>10. CASE CheckCallbackIdle
  BY <1>10, FreeIs, TcpIs
  DEF CheckCallbackIdle, NoteTooSoon, TooSoon, TypeOK, TcpOK, FdOK
<1>11. CASE CheckCallbackDies
  BY <1>11, FreeIs, TcpIs DEF CheckCallbackDies, Die, TypeOK, TcpOK, FdOK
<1>12. CASE CheckCallbackReads
  BY <1>12, FreeIs, TcpIs, SMTT(30)
  DEF CheckCallbackReads, ReadAnswer, Recorded, NoteTooSoon, TooSoon, TypeOK,
      TcpOK, FdOK
<1>13. CASE LoopOutIdle
  BY <1>13, FreeIs, TcpIs DEF LoopOutIdle, TypeOK, TcpOK, FdOK
<1>14. CASE LoopOutDies
  BY <1>14, FreeIs, TcpIs DEF LoopOutDies, Die, TypeOK, TcpOK, FdOK
<1>15. CASE LoopOutSends
  BY <1>15, FreeIs, TcpIs DEF LoopOutSends, StopWriting, TypeOK, TcpOK, FdOK
<1>16. CASE LoopInReads
  BY <1>16, FreeIs, TcpIs, SMTT(30)
  DEF LoopInReads, Heard, CloseInloop, TypeOK, TcpOK, FdOK
<1>17. CASE LoopInIdle
  BY <1>17, FreeIs, TcpIs DEF LoopInIdle, TypeOK, TcpOK, FdOK
<1>18. ASSUME NEW d \in udpq, RecvUdp(d) PROVE FdOK'
  BY <1>18, FreeIs, TcpIs DEF RecvUdp, KeptAddress, TypeOK, TcpOK, FdOK
<1>19. CASE NextRound
  BY <1>19, FreeIs, TcpIs DEF NextRound, TypeOK, TcpOK, FdOK
<1>20. CASE Report
  BY <1>20, FreeIs, TcpIs DEF Report, Die, TypeOK, TcpOK, FdOK
<1>21. ASSUME NEW n \in 1..4, Connected(n) PROVE FdOK'
  BY <1>21, FreeIs, TcpIs DEF Connected, Arrival, Event, TypeOK, TcpOK, FdOK
<1>22. ASSUME NEW n \in 1..4, Refused(n) PROVE FdOK'
  BY <1>22, FreeIs, TcpIs DEF Refused, Arrival, Event, TypeOK, TcpOK, FdOK
<1>23. ASSUME NEW n \in 1..3, Answer(n) PROVE FdOK'
  BY <1>23, FreeIs, TcpIs DEF Answer, Arrival, Event, TypeOK, TcpOK, FdOK
<1>24. ASSUME NEW l \in {Callback, Stray}, Arrive(l) PROVE FdOK'
  BY <1>24, FreeIs, TcpIs DEF Arrive, Arrival, Event, TypeOK, TcpOK, FdOK
<1>25. ASSUME NEW l \in {Callback, Stray}, Speak(l) PROVE FdOK'
  BY <1>25, FreeIs, TcpIs
  DEF Speak, Arrival, Event, Connection, TypeOK, TcpOK, FdOK
<1>26. ASSUME NEW d \in Datagrams, Datagram(d) PROVE FdOK'
  BY <1>26, FreeIs, TcpIs DEF Datagram, Delivery, Event, TypeOK, TcpOK, FdOK
<1>27. CASE LoopInFails
  BY <1>27, FreeIs, TcpIs DEF LoopInFails, Heard, TypeOK, TcpOK, FdOK
<1>28. CASE CallFails
  BY <1>28, FreeIs, TcpIs DEF CallFails, Die, TypeOK, TcpOK, FdOK
<1>29. CASE RecvUdpFails
  BY <1>29, FreeIs, TcpIs DEF RecvUdpFails, KeptAddress, Event, TypeOK, TcpOK, FdOK
<1>30. CASE UNCHANGED vars
  BY <1>30, FreeIs, TcpIs DEF TypeOK, TcpOK, FdOK
<1> QED
  BY <1>1, <1>2, <1>3, <1>4, <1>5, <1>6, <1>7, <1>8, <1>9, <1>10, <1>11,
     <1>12, <1>13, <1>14, <1>15, <1>16, <1>17, <1>18, <1>19, <1>20, <1>21,
     <1>22, <1>23, <1>24, <1>25, <1>26, <1>27, <1>28, <1>29, <1>30
  DEF Next, Main, Network

\* Who comes waits behind the others.
LEMMA JoinPeers ==
  ASSUME TypeOK, PeersOK, NEW l \in 4..6, l \notin joined,
         backlog' = Append(backlog, l), joined' = joined \cup {l},
         UNCHANGED <<peer, incb, inloop, inbox>>,
         Hairpin \in joined' => link'[4] \in {"up", "asked"}
  PROVE  PeersOK'
<1>1. /\ Len(backlog) \in Nat /\ DOMAIN backlog = 1 .. Len(backlog)
      /\ DOMAIN backlog' = 1 .. Len(backlog) + 1 /\ backlog'[Len(backlog) + 1] = l
      /\ \A j \in 1 .. Len(backlog) : backlog'[j] = backlog[j]
  BY AppendSeq DEF TypeOK
<1>2. \A j \in 1 .. Len(backlog) : backlog[j] # l
  BY <1>1 DEF PeersOK
<1>3. \A f \in Fds : peer[f] # l
  BY DEF PeersOK, None
<1>4. \A j, k \in DOMAIN backlog' : backlog'[j] = backlog'[k] => j = k
  <2> SUFFICES ASSUME NEW j \in DOMAIN backlog', NEW k \in DOMAIN backlog',
                      backlog'[j] = backlog'[k]
               PROVE  j = k
    OBVIOUS
  <2>1. CASE j \in 1 .. Len(backlog) /\ k \in 1 .. Len(backlog)
    BY <1>1, <2>1 DEF PeersOK
  <2>2. CASE j = Len(backlog) + 1 \/ k = Len(backlog) + 1
    BY <1>1, <1>2, <2>2
  <2> QED
    BY <1>1, <2>1, <2>2
<1>5. \A j \in DOMAIN backlog' :
         backlog'[j] \in joined' /\ \A f \in Fds : peer[f] # backlog'[j]
  <2> SUFFICES ASSUME NEW j \in DOMAIN backlog'
               PROVE  backlog'[j] \in joined' /\ \A f \in Fds : peer[f] # backlog'[j]
    OBVIOUS
  <2>1. CASE j \in 1 .. Len(backlog)
    BY <1>1, <2>1 DEF PeersOK
  <2>2. CASE j = Len(backlog) + 1
    BY <1>1, <1>3, <2>2
  <2> QED
    BY <1>1, <2>1, <2>2
<1>6. \A f \in Fds : peer'[f] # None =>
         /\ peer'[f] \in joined'
         /\ \/ f \in {incb', inloop'}
            \/ peer'[f] = Callback /\ inbox'[Callback] = Nothing
  BY DEF PeersOK
<1>7. \A f, g \in Fds : peer'[f] # None /\ peer'[f] = peer'[g] => f = g
  BY DEF PeersOK
<1> QED
  BY <1>4, <1>5, <1>6, <1>7 DEF PeersOK

\* Nobody is behind two descriptors.
LEMMA PeersStep ==
  ASSUME CheckInv, [Next]_vars
  PROVE  PeersOK'
<1> USE DEF CheckInv, Servers, Links, None, tcp0, udp1, Hairpin, Callback, Stray, fdVars, result, network, vars
<1>1. CASE Request
  BY <1>1, FreeIs, TcpIs DEF Request, TypeOK, FdOK, PeersOK
<1>2. CASE Select
  BY <1>2, FreeIs, TcpIs DEF Select, TypeOK, FdOK, PeersOK
<1>3. CASE Accept
  <2>1. PICK l \in 4..6 :
           /\ l = Head(backlog) /\ l \in joined /\ \A f \in Fds : peer[f] # l
           /\ peer' = [peer EXCEPT ![NewFd] = l]
           /\ NewFd \in Free /\ NewFd \in Fds /\ NewFd \notin open
           /\ \A j \in DOMAIN backlog' : backlog'[j] # l
    BY <1>3, AcceptIs
  <2>2. \/ l = Callback /\ incb = None /\ incb' = NewFd /\ inloop' = inloop
        \/ l \in {Hairpin, Stray} /\ inloop = None /\ inloop' = NewFd /\ incb' = incb
    BY <1>3, <2>1, KeptIs
  <2>3. \A j \in DOMAIN backlog' :
           j \in Nat /\ j + 1 \in DOMAIN backlog /\ backlog'[j] = backlog[j + 1]
    BY <1>3, TailIs DEF Accept
  <2>4. \A j, k \in DOMAIN backlog' : backlog'[j] = backlog'[k] => j = k
    <3> SUFFICES ASSUME NEW j \in DOMAIN backlog', NEW k \in DOMAIN backlog',
                        backlog'[j] = backlog'[k]
                 PROVE  j = k
      OBVIOUS
    <3>1. j + 1 = k + 1
      BY <2>3 DEF PeersOK
    <3> QED
      BY <2>3, <3>1
  <2>5. peer'[NewFd] = l /\ \A f \in Fds \ {NewFd} : peer'[f] = peer[f]
    BY <2>1 DEF TypeOK
  <2>6. UNCHANGED <<joined, inbox, link>>
    BY <1>3 DEF Accept
  <2>7. \A f, g \in Fds : peer'[f] # None /\ peer'[f] = peer'[g] => f = g
    BY <2>1, <2>5 DEF PeersOK
  <2>8. \A j \in DOMAIN backlog' :
           backlog'[j] \in joined /\ \A f \in Fds : peer'[f] # backlog'[j]
    BY <2>1, <2>3, <2>5 DEF PeersOK
  <2>9. \A f \in Fds : peer'[f] # None =>
           /\ peer'[f] \in joined
           /\ \/ f \in {incb', inloop'}
              \/ peer'[f] = Callback /\ inbox[Callback] = Nothing
    BY <2>1, <2>2, <2>5, FreeIs DEF PeersOK
  <2> QED
    BY <2>4, <2>6, <2>7, <2>8, <2>9 DEF PeersOK
<1>4. CASE AcceptClose
  <2>1. \A j \in DOMAIN backlog' :
           j \in Nat /\ j + 1 \in DOMAIN backlog /\ backlog'[j] = backlog[j + 1]
    BY <1>4, TailIs DEF AcceptClose
  <2>2. \A j, k \in DOMAIN backlog' : backlog'[j] = backlog'[k] => j = k
    <3> SUFFICES ASSUME NEW j \in DOMAIN backlog', NEW k \in DOMAIN backlog',
                        backlog'[j] = backlog'[k]
                 PROVE  j = k
      OBVIOUS
    <3>1. j + 1 = k + 1
      BY <2>1 DEF PeersOK
    <3> QED
      BY <2>1, <3>1
  <2> QED
    BY <1>4, <2>1, <2>2 DEF AcceptClose, PeersOK
<1>5. CASE ListenDone
  BY <1>5, FreeIs, TcpIs DEF ListenDone, TypeOK, FdOK, PeersOK
<1>6. ASSUME NEW n \in 1..3, CheckIdle(n) PROVE PeersOK'
  BY <1>6, FreeIs, TcpIs DEF CheckIdle, TypeOK, FdOK, PeersOK
<1>7. ASSUME NEW n \in 1..3, CheckDies(n) PROVE PeersOK'
  BY <1>7, FreeIs, TcpIs DEF CheckDies, Die, TypeOK, FdOK, PeersOK
<1>8. ASSUME NEW n \in 1..3, CheckSends(n) PROVE PeersOK'
  BY <1>8, FreeIs, TcpIs
  DEF CheckSends, StopWriting, StartReading, TypeOK, FdOK, PeersOK
<1>9. ASSUME NEW n \in 1..3, CheckReads(n) PROVE PeersOK'
  <2>1. UNCHANGED <<joined, peer, backlog, incb, inloop>>
    BY <1>9 DEF CheckReads
  <2>2. inbox'[Callback] = inbox[Callback]
    BY <1>9, CheckReadsIs DEF TypeOK
  <2>3. Hairpin \in joined => link'[4] = link[4]
    <3>1. n = 2 => tcp[2] # None
      BY <1>9, CheckReadsIs, FreeIs DEF TypeOK
    <3> QED
      BY <1>9, <3>1, CheckReadsIs DEF PeersOK, AnswersOK
  <2> QED
    BY <2>1, <2>2, <2>3 DEF PeersOK
<1>10. CASE CheckCallbackIdle
  BY <1>10, FreeIs, TcpIs
  DEF CheckCallbackIdle, NoteTooSoon, TooSoon, TypeOK, FdOK, PeersOK
<1>11. CASE CheckCallbackDies
  BY <1>11, FreeIs, TcpIs DEF CheckCallbackDies, Die, TypeOK, FdOK, PeersOK
<1>12. CASE CheckCallbackReads
  BY <1>12, FreeIs, TcpIs
  DEF CheckCallbackReads, ReadAnswer, Recorded, NoteTooSoon, TooSoon, TypeOK,
      FdOK, PeersOK
<1>13. CASE LoopOutIdle
  BY <1>13, FreeIs, TcpIs DEF LoopOutIdle, TypeOK, FdOK, PeersOK
<1>14. CASE LoopOutDies
  BY <1>14, FreeIs, TcpIs DEF LoopOutDies, Die, TypeOK, FdOK, PeersOK
<1>15. CASE LoopOutSends
  BY <1>15, FreeIs, TcpIs DEF LoopOutSends, StopWriting, TypeOK, FdOK, PeersOK
<1>16. CASE LoopInReads
  BY <1>16, FreeIs, TcpIs, SMTT(30)
  DEF LoopInReads, Heard, CloseInloop, TypeOK, FdOK, PeersOK
<1>17. CASE LoopInIdle
  BY <1>17, FreeIs, TcpIs DEF LoopInIdle, TypeOK, FdOK, PeersOK
<1>18. ASSUME NEW d \in udpq, RecvUdp(d) PROVE PeersOK'
  BY <1>18, FreeIs, TcpIs DEF RecvUdp, KeptAddress, TypeOK, FdOK, PeersOK
<1>19. CASE NextRound
  BY <1>19, FreeIs, TcpIs DEF NextRound, TypeOK, FdOK, PeersOK
<1>20. CASE Report
  BY <1>20, FreeIs, TcpIs DEF Report, Die, TypeOK, FdOK, PeersOK
<1>21. ASSUME NEW n \in 1..4, Connected(n) PROVE PeersOK'
  <2>1. CASE n = 4
    <3>1. link'[4] = "up" /\ Hairpin \notin joined
      BY <1>21, <2>1 DEF Connected, TypeOK, PeersOK
    <3> QED
      BY <1>21, <2>1, <3>1, JoinPeers DEF Connected, fdVars
  <2>2. CASE n # 4
    BY <1>21, <2>2 DEF Connected, TypeOK, PeersOK
  <2> QED
    BY <2>1, <2>2
<1>22. ASSUME NEW n \in 1..4, Refused(n) PROVE PeersOK'
  BY <1>22, FreeIs, TcpIs DEF Refused, Arrival, Event, TypeOK, FdOK, PeersOK
<1>23. ASSUME NEW n \in 1..3, Answer(n) PROVE PeersOK'
  BY <1>23, FreeIs, TcpIs DEF Answer, Arrival, Event, TypeOK, FdOK, PeersOK
<1>24. ASSUME NEW l \in {Callback, Stray}, Arrive(l) PROVE PeersOK'
  BY <1>24, JoinPeers DEF Arrive, PeersOK
<1>25. ASSUME NEW l \in {Callback, Stray}, Speak(l) PROVE PeersOK'
  BY <1>25, FreeIs, TcpIs
  DEF Speak, Arrival, Event, Connection, TypeOK, FdOK, PeersOK
<1>26. ASSUME NEW d \in Datagrams, Datagram(d) PROVE PeersOK'
  BY <1>26, FreeIs, TcpIs DEF Datagram, Delivery, Event, TypeOK, FdOK, PeersOK
<1>27. CASE LoopInFails
  BY <1>27, FreeIs, TcpIs DEF LoopInFails, Heard, TypeOK, FdOK, PeersOK
<1>28. CASE CallFails
  BY <1>28, FreeIs, TcpIs DEF CallFails, Die, TypeOK, FdOK, PeersOK
<1>29. CASE RecvUdpFails
  BY <1>29, FreeIs, TcpIs DEF RecvUdpFails, KeptAddress, Event, TypeOK, FdOK, PeersOK
<1>30. CASE UNCHANGED vars
  BY <1>30, FreeIs, TcpIs DEF TypeOK, FdOK, PeersOK
<1> QED
  BY <1>1, <1>2, <1>3, <1>4, <1>5, <1>6, <1>7, <1>8, <1>9, <1>10, <1>11,
     <1>12, <1>13, <1>14, <1>15, <1>16, <1>17, <1>18, <1>19, <1>20, <1>21,
     <1>22, <1>23, <1>24, <1>25, <1>26, <1>27, <1>28, <1>29, <1>30
  DEF Next, Main, Network

\* Only the answer of server 2 lets the program try the others.
LEMMA AnswersStep ==
  ASSUME CheckInv, [Next]_vars
  PROVE  AnswersOK'
<1> USE DEF CheckInv, Servers, Links, None, tcp0, udp1, Hairpin, Callback, Stray, fdVars, result, network, vars
<1>1. CASE Request
  BY <1>1, FreeIs, TcpIs DEF Request, TypeOK, AnswersOK, TcpOK, FdOK
<1>2. CASE Select
  BY <1>2, FreeIs, TcpIs DEF Select, TypeOK, AnswersOK, TcpOK, FdOK
<1>3. CASE Accept
  BY <1>3, FreeIs, TcpIs DEF Accept, Larger, TypeOK, AnswersOK, TcpOK, FdOK
<1>4. CASE AcceptClose
  BY <1>4, FreeIs, TcpIs DEF AcceptClose, TypeOK, AnswersOK, TcpOK, FdOK
<1>5. CASE ListenDone
  BY <1>5, FreeIs, TcpIs DEF ListenDone, TypeOK, AnswersOK, TcpOK, FdOK
<1>6. ASSUME NEW n \in 1..3, CheckIdle(n) PROVE AnswersOK'
  BY <1>6, FreeIs, TcpIs DEF CheckIdle, TypeOK, AnswersOK, TcpOK, FdOK
<1>7. ASSUME NEW n \in 1..3, CheckDies(n) PROVE AnswersOK'
  BY <1>7, FreeIs, TcpIs DEF CheckDies, Die, TypeOK, AnswersOK, TcpOK, FdOK
<1>8. ASSUME NEW n \in 1..3, CheckSends(n) PROVE AnswersOK'
  BY <1>8, FreeIs, TcpIs
  DEF CheckSends, StopWriting, StartReading, TypeOK, AnswersOK, TcpOK, FdOK
<1>9. ASSUME NEW n \in 1..3, CheckReads(n) PROVE AnswersOK'
  <2>1. tcp[n] # None
    BY <1>9, CheckReadsIs, FreeIs DEF TypeOK
  <2> USE CheckReadsIs, FreeIs, TcpIs DEF TypeOK
  <2>2. CASE /\ n = 2 /\ myt'[2] # INADDR_ANY /\ GiveUp(n) /\ pc' = After(n)
             /\ \E meet \in BOOLEAN :
                  /\ meet => Callback \notin joined
                  /\ link' = [link EXCEPT ![3] = IF meet THEN "pending" ELSE @,
                                          ![4] = "pending"]
                  /\ wfds' = wfds \cup IF meet THEN {tcp[3], tcp[4]} ELSE {tcp[4]}
                  /\ maxsock' \in {maxsock, tcp[4]}
                  /\ maxsock' >= maxsock /\ maxsock' >= tcp[4]
    BY <1>9, <2>1, <2>2 DEF CheckReads, GiveUp, AnswersOK, TcpOK
  <2>3. CASE /\ n = 2 /\ myt'[2] # INADDR_ANY /\ pc' = "died"
             /\ UNCHANGED <<link, wfds, maxsock, tcp, rfds>>
    BY <1>9, <2>1, <2>3, SMTT(30) DEF CheckReads, GiveUp, AnswersOK, TcpOK
  <2>4. CASE /\ n = 2 => myt' = myt
             /\ GiveUp(n) /\ pc' = After(n) /\ UNCHANGED <<link, wfds, maxsock>>
    <3>1. n = 3 => myt[2] # INADDR_ANY
      BY <1>9, <2>1, <2>2 DEF TcpOK, AnswersOK
    <3>2. tcp' = [tcp EXCEPT ![n] = None] /\ UNCHANGED <<joined, udpq, looped, link>>
      BY <1>9, <2>1, <2>4 DEF CheckReads, GiveUp
    <3>3. /\ tcp'[2] # None => tcp[2] # None
          /\ myt'[2] = INADDR_ANY => myt[2] = INADDR_ANY
          /\ tcp[4] = None => tcp'[4] = None
      BY <1>9, <2>1, <2>4, <3>2
    <3>4. myt'[3] # INADDR_ANY => n = 3 \/ myt[3] # INADDR_ANY
      BY <1>9
    <3>5. \A l \in Links : inbox'[l] # Nothing => inbox'[l] = inbox[l]
      BY <1>9
    <3>6. myt'[3] # INADDR_ANY => myt'[2] # INADDR_ANY \/ Callback \in joined'
      BY <3>1, <3>2, <3>3, <3>4 DEF AnswersOK
    <3>7. \A l \in Links : inbox'[l] = Loop => l = Hairpin
      BY <3>5 DEF AnswersOK, Loop, Nothing
    <3> QED
      BY <3>2, <3>3, <3>5, <3>6, <3>7 DEF AnswersOK
  <2> QED
    BY <1>9, <2>1, <2>2, <2>3, <2>4
<1>10. CASE CheckCallbackIdle
  BY <1>10, FreeIs, TcpIs
  DEF CheckCallbackIdle, NoteTooSoon, TooSoon, TypeOK, AnswersOK, TcpOK, FdOK
<1>11. CASE CheckCallbackDies
  BY <1>11, FreeIs, TcpIs
  DEF CheckCallbackDies, Die, TypeOK, AnswersOK, TcpOK, FdOK
<1>12. CASE CheckCallbackReads
  <2>1. incb \in Fds /\ peer[incb] = Callback
    BY <1>12, FreeIs DEF CheckCallbackReads, FdOK, TypeOK
  <2>2. Callback \in joined
    BY <2>1 DEF PeersOK
  <2> QED
    BY <1>12, <2>2, AnyAssumption
    DEF CheckCallbackReads, ReadAnswer, Recorded, AnswersOK, TypeOK, Nothing, Loop
<1>13. CASE LoopOutIdle
  BY <1>13, FreeIs, TcpIs DEF LoopOutIdle, TypeOK, AnswersOK, TcpOK, FdOK
<1>14. CASE LoopOutDies
  BY <1>14, FreeIs, TcpIs DEF LoopOutDies, Die, TypeOK, AnswersOK, TcpOK, FdOK
<1>15. CASE LoopOutSends
  BY <1>15, FreeIs, TcpIs
  DEF LoopOutSends, StopWriting, TypeOK, AnswersOK, TcpOK, FdOK
<1>16. CASE LoopInReads
  BY <1>16, FreeIs, TcpIs
  DEF LoopInReads, Heard, CloseInloop, TypeOK, AnswersOK, TcpOK, FdOK
<1>17. CASE LoopInIdle
  BY <1>17, FreeIs, TcpIs DEF LoopInIdle, TypeOK, AnswersOK, TcpOK, FdOK
<1>18. ASSUME NEW d \in udpq, RecvUdp(d) PROVE AnswersOK'
  BY <1>18, FreeIs, TcpIs
  DEF RecvUdp, KeptAddress, TypeOK, AnswersOK, TcpOK, FdOK
<1>19. CASE NextRound
  BY <1>19, FreeIs, TcpIs DEF NextRound, TypeOK, AnswersOK, TcpOK, FdOK
<1>20. CASE Report
  BY <1>20, FreeIs, TcpIs DEF Report, Die, TypeOK, AnswersOK, TcpOK, FdOK
<1>21. ASSUME NEW n \in 1..4, Connected(n) PROVE AnswersOK'
  BY <1>21, FreeIs, TcpIs
  DEF Connected, Arrival, Event, TypeOK, AnswersOK, TcpOK, FdOK
<1>22. ASSUME NEW n \in 1..4, Refused(n) PROVE AnswersOK'
  BY <1>22, FreeIs, TcpIs
  DEF Refused, Arrival, Event, TypeOK, AnswersOK, TcpOK, FdOK
<1>23. ASSUME NEW n \in 1..3, Answer(n) PROVE AnswersOK'
  <2>1. \A m \in Says[n] : m # Loop
    BY SaysIs
  <2> QED
    BY <1>23, <2>1 DEF Answer, AnswersOK, TypeOK
<1>24. ASSUME NEW l \in {Callback, Stray}, Arrive(l) PROVE AnswersOK'
  BY <1>24, FreeIs, TcpIs
  DEF Arrive, Arrival, Event, TypeOK, AnswersOK, TcpOK, FdOK
<1>25. ASSUME NEW l \in {Callback, Stray}, Speak(l) PROVE AnswersOK'
  <2>1. \A m \in Says[l] : m # Loop
    BY SaysIs
  <2> QED
    BY <1>25, <2>1 DEF Speak, AnswersOK, TypeOK
<1>26. ASSUME NEW d \in Datagrams, Datagram(d) PROVE AnswersOK'
  BY <1>26, FreeIs, TcpIs
  DEF Datagram, Delivery, Event, TypeOK, AnswersOK, TcpOK, FdOK
<1>27. CASE LoopInFails
  <2>1. /\ inbox' = [inbox EXCEPT ![peer[inloop]] = Runt]
        /\ inbox[peer[inloop]] # Nothing /\ Runt # Loop
    BY <1>27, WordAssumption DEF LoopInFails, Heard, Runt, Loop
  <2>2. /\ \A l \in Links : inbox'[l] = Loop => l = Hairpin
        /\ inbox'[Hairpin] # Nothing => tcp[4] = None
    BY <2>1 DEF TypeOK, AnswersOK, Links, Hairpin
  <2> QED
    BY <1>27, <2>2 DEF LoopInFails, AnswersOK
<1>28. CASE CallFails
  BY <1>28, FreeIs, TcpIs DEF CallFails, Die, TypeOK, AnswersOK, TcpOK, FdOK
<1>29. CASE RecvUdpFails
  BY <1>29, FreeIs, TcpIs DEF RecvUdpFails, KeptAddress, Event, TypeOK, AnswersOK, TcpOK, FdOK
<1>30. CASE UNCHANGED vars
  BY <1>30, FreeIs, TcpIs DEF TypeOK, AnswersOK, TcpOK, FdOK
<1> QED
  BY <1>1, <1>2, <1>3, <1>4, <1>5, <1>6, <1>7, <1>8, <1>9, <1>10, <1>11,
     <1>12, <1>13, <1>14, <1>15, <1>16, <1>17, <1>18, <1>19, <1>20, <1>21,
     <1>22, <1>23, <1>24, <1>25, <1>26, <1>27, <1>28, <1>29, <1>30
  DEF Next, Main, Network

\* What is noted has happened.
LEMMA VerdictsStep ==
  ASSUME CheckInv, [Next]_vars
  PROVE  VerdictsAreEarned'
<1> USE DEF CheckInv, Servers, Links, None, tcp0, udp1, Hairpin, Callback, Stray, fdVars, result, network, vars
<1>1. CASE Request
  BY <1>1, FreeIs, TcpIs
  DEF Request, VerdictsAreEarned, TooSoonIsCallback, LoopbackIsOurs, TypeOK
<1>2. CASE Select
  BY <1>2, FreeIs, TcpIs
  DEF Select, VerdictsAreEarned, TooSoonIsCallback, LoopbackIsOurs, TypeOK
<1>3. CASE Accept
  BY <1>3, FreeIs, TcpIs
  DEF Accept, Larger, VerdictsAreEarned, TooSoonIsCallback, LoopbackIsOurs,
      TypeOK
<1>4. CASE AcceptClose
  BY <1>4, FreeIs, TcpIs
  DEF AcceptClose, VerdictsAreEarned, TooSoonIsCallback, LoopbackIsOurs,
      TypeOK
<1>5. CASE ListenDone
  BY <1>5, FreeIs, TcpIs
  DEF ListenDone, VerdictsAreEarned, TooSoonIsCallback, LoopbackIsOurs, TypeOK
<1>6. ASSUME NEW n \in 1..3, CheckIdle(n) PROVE VerdictsAreEarned'
  BY <1>6, FreeIs, TcpIs
  DEF CheckIdle, VerdictsAreEarned, TooSoonIsCallback, LoopbackIsOurs, TypeOK
<1>7. ASSUME NEW n \in 1..3, CheckDies(n) PROVE VerdictsAreEarned'
  BY <1>7, FreeIs, TcpIs
  DEF CheckDies, Die, VerdictsAreEarned, TooSoonIsCallback, LoopbackIsOurs,
      TypeOK
<1>8. ASSUME NEW n \in 1..3, CheckSends(n) PROVE VerdictsAreEarned'
  <2>1. link[n] # "idle" /\ tcp' = tcp
    BY <1>8 DEF CheckSends, TcpOK
  <2> QED
    BY <1>8, <2>1 DEF CheckSends, VerdictsAreEarned, TooSoonIsCallback, LoopbackIsOurs, TypeOK
<1>9. ASSUME NEW n \in 1..3, CheckReads(n) PROVE VerdictsAreEarned'
  <2>1. t3toosoon /\ link[3] = "idle" /\ Callback \in joined => link'[3] = "idle"
    BY <1>9, CheckReadsIs DEF TypeOK
  <2>2. tcp[4] = None => tcp'[4] = None
    BY <1>9, CheckReadsIs DEF GiveUp, TypeOK
  <2>3. UNCHANGED <<t3toosoon, joined, tcploop, udploop, looped>>
    BY <1>9 DEF CheckReads
  <2> QED
    BY <2>1, <2>2, <2>3 DEF VerdictsAreEarned, TooSoonIsCallback, LoopbackIsOurs
<1>10. CASE CheckCallbackIdle
  <2>1. TooSoon(myt') => Callback \in joined /\ link[3] = "idle"
    BY <1>10 DEF CheckCallbackIdle, NoteTooSoon, TooSoon, TooSoon, AnswersOK
  <2> QED
    BY <1>10, <2>1 DEF CheckCallbackIdle, NoteTooSoon, VerdictsAreEarned, TooSoonIsCallback,
                    LoopbackIsOurs
<1>11. CASE CheckCallbackDies
  BY <1>11, FreeIs, TcpIs
  DEF CheckCallbackDies, Die, VerdictsAreEarned, TooSoonIsCallback,
      LoopbackIsOurs, TypeOK
<1>12. CASE CheckCallbackReads
  <2>1. incb \in Fds /\ peer[incb] = Callback
    BY <1>12, FreeIs DEF CheckCallbackReads, FdOK, TypeOK
  <2>2. Callback \in joined /\ myt'[2] = myt[2]
    BY <1>12, <2>1 DEF PeersOK, CheckCallbackReads, ReadAnswer, TypeOK
  <2>3. TooSoon(myt') => link[3] = "idle"
    BY <2>2 DEF TooSoon, AnswersOK
  <2> QED
    BY <1>12, <2>2, <2>3 DEF CheckCallbackReads, NoteTooSoon, VerdictsAreEarned,
                          TooSoonIsCallback, LoopbackIsOurs
<1>13. CASE LoopOutIdle
  BY <1>13, FreeIs, TcpIs
  DEF LoopOutIdle, VerdictsAreEarned, TooSoonIsCallback, LoopbackIsOurs,
      TypeOK
<1>14. CASE LoopOutDies
  BY <1>14, FreeIs, TcpIs
  DEF LoopOutDies, Die, VerdictsAreEarned, TooSoonIsCallback, LoopbackIsOurs,
      TypeOK
<1>15. CASE LoopOutSends
  BY <1>15, FreeIs, TcpIs
  DEF LoopOutSends, StopWriting, VerdictsAreEarned, TooSoonIsCallback,
      LoopbackIsOurs, TypeOK
<1>16. CASE LoopInReads
  <2>1. inloop \in Fds /\ peer[inloop] \in {Hairpin, Stray} /\ peer[inloop] \in joined
    BY <1>16, HeldIs DEF LoopInReads, Heard, FdOK, PeersOK
  <2>2. inbox[peer[inloop]] = Loop => Hairpin \in joined /\ tcp[4] = None
    BY <2>1 DEF AnswersOK, Loop, Nothing
  <2> QED
    BY <1>16, <2>2 DEF LoopInReads, IsLoop, CloseInloop, VerdictsAreEarned, TooSoonIsCallback,
                    LoopbackIsOurs
<1>17. CASE LoopInIdle
  BY <1>17, FreeIs, TcpIs
  DEF LoopInIdle, VerdictsAreEarned, TooSoonIsCallback, LoopbackIsOurs, TypeOK
<1>18. ASSUME NEW d \in udpq, RecvUdp(d) PROVE VerdictsAreEarned'
  <2>1. d[2] = Loop => looped
    BY DEF AnswersOK
  <2> QED
    BY <1>18, <2>1 DEF RecvUdp, IsLoop, VerdictsAreEarned, TooSoonIsCallback, LoopbackIsOurs
<1>19. CASE NextRound
  BY <1>19, FreeIs, TcpIs
  DEF NextRound, VerdictsAreEarned, TooSoonIsCallback, LoopbackIsOurs, TypeOK
<1>20. CASE Report
  BY <1>20, FreeIs, TcpIs
  DEF Report, Die, VerdictsAreEarned, TooSoonIsCallback, LoopbackIsOurs,
      TypeOK
<1>21. ASSUME NEW n \in 1..4, Connected(n) PROVE VerdictsAreEarned'
  BY <1>21, FreeIs, TcpIs
  DEF Connected, Arrival, Event, VerdictsAreEarned, TooSoonIsCallback,
      LoopbackIsOurs, TypeOK
<1>22. ASSUME NEW n \in 1..4, Refused(n) PROVE VerdictsAreEarned'
  BY <1>22, FreeIs, TcpIs
  DEF Refused, Arrival, Event, VerdictsAreEarned, TooSoonIsCallback,
      LoopbackIsOurs, TypeOK
<1>23. ASSUME NEW n \in 1..3, Answer(n) PROVE VerdictsAreEarned'
  BY <1>23, FreeIs, TcpIs
  DEF Answer, Arrival, Event, VerdictsAreEarned, TooSoonIsCallback,
      LoopbackIsOurs, TypeOK
<1>24. ASSUME NEW l \in {Callback, Stray}, Arrive(l) PROVE VerdictsAreEarned'
  BY <1>24, FreeIs, TcpIs
  DEF Arrive, Arrival, Event, VerdictsAreEarned, TooSoonIsCallback,
      LoopbackIsOurs, TypeOK
<1>25. ASSUME NEW l \in {Callback, Stray}, Speak(l) PROVE VerdictsAreEarned'
  BY <1>25, FreeIs, TcpIs
  DEF Speak, Arrival, Event, Connection, VerdictsAreEarned, TooSoonIsCallback,
      LoopbackIsOurs, TypeOK
<1>26. ASSUME NEW d \in Datagrams, Datagram(d) PROVE VerdictsAreEarned'
  BY <1>26, FreeIs, TcpIs
  DEF Datagram, Delivery, Event, VerdictsAreEarned, TooSoonIsCallback,
      LoopbackIsOurs, TypeOK
<1>27. CASE LoopInFails
  BY <1>27, FreeIs, TcpIs
  DEF LoopInFails, Heard, VerdictsAreEarned, TooSoonIsCallback, LoopbackIsOurs, TypeOK
<1>28. CASE CallFails
  BY <1>28, FreeIs, TcpIs
  DEF CallFails, Die, VerdictsAreEarned, TooSoonIsCallback, LoopbackIsOurs, TypeOK
<1>29. CASE RecvUdpFails
  BY <1>29, FreeIs, TcpIs
  DEF RecvUdpFails, KeptAddress, Event, VerdictsAreEarned, TooSoonIsCallback, LoopbackIsOurs, TypeOK
<1>30. CASE UNCHANGED vars
  BY <1>30, FreeIs, TcpIs DEF VerdictsAreEarned, TooSoonIsCallback, LoopbackIsOurs, TypeOK
<1> QED
  BY <1>1, <1>2, <1>3, <1>4, <1>5, <1>6, <1>7, <1>8, <1>9, <1>10, <1>11,
     <1>12, <1>13, <1>14, <1>15, <1>16, <1>17, <1>18, <1>19, <1>20, <1>21,
     <1>22, <1>23, <1>24, <1>25, <1>26, <1>27, <1>28, <1>29, <1>30
  DEF Next, Main, Network

\* No address that was reported changes.
Kept == \A s \in Servers : /\ myt[s] # INADDR_ANY => myt'[s] = myt[s]
                           /\ myu[s] # INADDR_ANY => myu'[s] = myu[s]

\* The addresses change in three places, each time from none.
LEMMA KeptStep ==
  ASSUME TypeOK, [Next]_vars
  PROVE  Kept
<1> USE DEF Kept, fdVars, result, network, vars
<1>1. CASE Request
  BY <1>1 DEF Request
<1>2. CASE Select
  BY <1>2 DEF Select
<1>3. CASE Accept
  BY <1>3 DEF Accept, Larger
<1>4. CASE AcceptClose
  BY <1>4 DEF AcceptClose
<1>5. CASE ListenDone
  BY <1>5 DEF ListenDone
<1>6. ASSUME NEW n \in 1..3, CheckIdle(n) PROVE Kept
  BY <1>6 DEF CheckIdle
<1>7. ASSUME NEW n \in 1..3, CheckDies(n) PROVE Kept
  BY <1>7 DEF CheckDies, Die
<1>8. ASSUME NEW n \in 1..3, CheckSends(n) PROVE Kept
  BY <1>8 DEF CheckSends, StopWriting, StartReading
<1>9. ASSUME NEW n \in 1..3, CheckReads(n) PROVE Kept
  BY <1>9, CheckReadsIs DEF CheckReads
<1>10. CASE CheckCallbackIdle
  BY <1>10 DEF CheckCallbackIdle, NoteTooSoon, TooSoon
<1>11. CASE CheckCallbackDies
  BY <1>11 DEF CheckCallbackDies, Die
<1>12. CASE CheckCallbackReads
  BY <1>12 DEF CheckCallbackReads, ReadAnswer, Recorded, TypeOK, Servers
<1>13. CASE LoopOutIdle
  BY <1>13 DEF LoopOutIdle
<1>14. CASE LoopOutDies
  BY <1>14 DEF LoopOutDies, Die
<1>15. CASE LoopOutSends
  BY <1>15 DEF LoopOutSends, StopWriting
<1>16. CASE LoopInReads
  BY <1>16 DEF LoopInReads, Heard, CloseInloop
<1>17. CASE LoopInIdle
  BY <1>17 DEF LoopInIdle
<1>18. ASSUME NEW d \in udpq, RecvUdp(d) PROVE Kept
  BY <1>18 DEF RecvUdp, KeptAddress, TypeOK, Servers
<1>19. CASE NextRound
  BY <1>19 DEF NextRound
<1>20. CASE Report
  BY <1>20 DEF Report, Die
<1>21. ASSUME NEW n \in 1..4, Connected(n) PROVE Kept
  BY <1>21 DEF Connected, Arrival, Event
<1>22. ASSUME NEW n \in 1..4, Refused(n) PROVE Kept
  BY <1>22 DEF Refused, Arrival, Event
<1>23. ASSUME NEW n \in 1..3, Answer(n) PROVE Kept
  BY <1>23 DEF Answer, Arrival, Event
<1>24. ASSUME NEW l \in {Callback, Stray}, Arrive(l) PROVE Kept
  BY <1>24 DEF Arrive, Arrival, Event
<1>25. ASSUME NEW l \in {Callback, Stray}, Speak(l) PROVE Kept
  BY <1>25 DEF Speak, Arrival, Event, Connection
<1>26. ASSUME NEW d \in Datagrams, Datagram(d) PROVE Kept
  BY <1>26 DEF Datagram, Delivery, Event
<1>27. CASE LoopInFails
  BY <1>27 DEF LoopInFails, Heard
<1>28. CASE CallFails
  BY <1>28 DEF CallFails, Die
<1>29. CASE RecvUdpFails
  BY <1>29 DEF RecvUdpFails, KeptAddress, Event, TypeOK, Servers
<1>30. CASE UNCHANGED vars
  BY <1>30
<1> QED
  BY <1>1, <1>2, <1>3, <1>4, <1>5, <1>6, <1>7, <1>8, <1>9, <1>10, <1>11,
     <1>12, <1>13, <1>14, <1>15, <1>16, <1>17, <1>18, <1>19, <1>20, <1>21,
     <1>22, <1>23, <1>24, <1>25, <1>26, <1>27, <1>28, <1>29, <1>30
  DEF Next, Main, Network

\* Every step keeps the invariant.
LEMMA CheckInvStep ==
  ASSUME CheckInv, [Next]_vars
  PROVE  CheckInv'
BY TypeStep, TcpStep, FdStep, PeersStep, AnswersStep, VerdictsStep DEF CheckInv

\* The invariant holds throughout.
LEMMA CheckInvariant == Spec => []CheckInv
<1>1. Init => CheckInv
  BY InitCheckInv
<1>2. CheckInv /\ [Next]_vars => CheckInv'
  BY CheckInvStep
<1> QED
  BY <1>1, <1>2, PTL DEF Spec

-----------------------------------------------------------------------------
(* Counting what is held.                                                  *)

\* All that is held is different.
LEMMA HeldAreDifferent ==
  ASSUME TypeOK, TcpOK, FdOK
  PROVE  Cardinality(Held \ {None}) =
           Cardinality({n \in 1..4 : tcp[n] # None}) + (IF incb = None THEN 0 ELSE 1)
             + (IF inloop = None THEN 0 ELSE 1)
<1> DEFINE S(k) == {n \in 1..k : tcp[n] # None}
           T(k) == {tcp[n] : n \in 1..k} \ {None}
           Same(k) == /\ IsFiniteSet(S(k)) /\ IsFiniteSet(T(k))
                      /\ Cardinality(S(k)) = Cardinality(T(k))
<1>1. \A n \in 1..4 : tcp[n] \in {0, n + 2}
  BY TcpIs DEF TcpOK, None, Tcp
<1>2. Same(0)
  <2>1. S(0) = {} /\ T(0) = {}
    OBVIOUS
  <2> QED
    BY <2>1, FS_EmptySet
<1>3. ASSUME NEW k \in 0..3, Same(k)
      PROVE  Same(k + 1)
  <2>1. \A n \in 1..(k + 1) : n \in 1..k \/ n = k + 1
    OBVIOUS
  <2>2. 1..k \subseteq 1..(k + 1) /\ k + 1 \in 1..(k + 1)
    OBVIOUS
  <2>3. CASE tcp[k + 1] = None
    <3>1. S(k + 1) = S(k)
      BY <2>1, <2>2, <2>3
    <3>2. T(k + 1) = T(k)
      BY <2>1, <2>2, <2>3
    <3> QED
      BY <1>3, <3>1, <3>2
  <2>4. CASE tcp[k + 1] # None
    <3>1. S(k + 1) = S(k) \cup {k + 1}
      BY <2>1, <2>2, <2>4
    <3>2. T(k + 1) = T(k) \cup {tcp[k + 1]}
      BY <2>1, <2>2, <2>4
    <3>3. k + 1 \notin S(k)
      OBVIOUS
    <3>4. tcp[k + 1] \notin T(k)
      <4>1. \A n \in 1..k : n \in 1..4 /\ n # k + 1
        OBVIOUS
      <4>2. tcp[k + 1] = k + 3 /\ \A n \in 1..k : tcp[n] \in {0, n + 2}
        BY <1>1, <2>4, <4>1 DEF None
      <4>3. \A n \in 1..k : tcp[n] # tcp[k + 1]
        BY <4>1, <4>2
      <4> QED
        BY <4>3
    <3>5. /\ IsFiniteSet(S(k)) /\ IsFiniteSet(T(k))
          /\ Cardinality(S(k)) = Cardinality(T(k))
      BY <1>3
    <3> HIDE DEF S, T
    <3>6. /\ IsFiniteSet(S(k) \cup {k + 1})
          /\ Cardinality(S(k) \cup {k + 1}) = Cardinality(S(k)) + 1
      BY <3>3, <3>5, FS_AddElement
    <3>7. /\ IsFiniteSet(T(k) \cup {tcp[k + 1]})
          /\ Cardinality(T(k) \cup {tcp[k + 1]}) = Cardinality(T(k)) + 1
      BY <3>4, <3>5, FS_AddElement
    <3> QED
      BY <3>1, <3>2, <3>5, <3>6, <3>7
  <2> QED
    BY <2>3, <2>4
<1>4. Same(4)
  <2> HIDE DEF Same
  <2>1. Same(0 + 1)
    BY <1>2, <1>3
  <2>2. Same(1 + 1)
    BY <1>3, <2>1
  <2>3. Same(2 + 1)
    BY <1>3, <2>2
  <2>4. Same(3 + 1)
    BY <1>3, <2>3
  <2> QED
    BY <2>4
<1>5. Held \ {None} = T(4) \cup ({incb, inloop} \ {None})
  BY DEF Held
<1>6. /\ incb # None => incb \notin T(4) /\ incb # inloop
      /\ inloop # None => inloop \notin T(4)
  <2>1. \A f \in T(4) : f \in {3, 4, 5} \/ f = tcp[4]
    BY <1>1 DEF None
  <2> QED
    BY <2>1, HeldIs, FreeIs
<1>7. Cardinality(T(4)) \in Nat
  BY <1>4, FS_CardinalityType
<1> HIDE DEF S, T
<1>8. CASE incb = None /\ inloop = None
  <2>1. Held \ {None} = T(4)
    BY <1>5, <1>8
  <2> QED
    BY <1>4, <1>7, <1>8, <2>1, SMTT(30) DEF S
<1>9. CASE incb # None /\ inloop = None
  <2>1. Held \ {None} = T(4) \cup {incb}
    BY <1>5, <1>9
  <2>2. Cardinality(T(4) \cup {incb}) = Cardinality(T(4)) + 1
    BY <1>4, <1>6, <1>9, FS_AddElement
  <2> QED
    BY <1>4, <1>7, <1>9, <2>1, <2>2 DEF S
<1>10. CASE incb = None /\ inloop # None
  <2>1. Held \ {None} = T(4) \cup {inloop}
    BY <1>5, <1>10
  <2>2. Cardinality(T(4) \cup {inloop}) = Cardinality(T(4)) + 1
    BY <1>4, <1>6, <1>10, FS_AddElement
  <2> QED
    BY <1>4, <1>7, <1>10, <2>1, <2>2 DEF S
<1>11. CASE incb # None /\ inloop # None
  <2>1. Held \ {None} = (T(4) \cup {incb}) \cup {inloop}
    BY <1>5, <1>11
  <2>2. /\ IsFiniteSet(T(4) \cup {incb})
        /\ Cardinality(T(4) \cup {incb}) = Cardinality(T(4)) + 1
    BY <1>4, <1>6, <1>11, FS_AddElement
  <2>3. inloop \notin T(4) \cup {incb}
    BY <1>6, <1>11
  <2>4. Cardinality(Held \ {None}) = Cardinality(T(4)) + 2
    BY <1>7, <2>1, <2>2, <2>3, FS_AddElement, SMTT(30)
  <2> QED
    BY <1>4, <1>7, <1>11, <2>4 DEF S
<1> QED
  BY <1>8, <1>9, <1>10, <1>11

-----------------------------------------------------------------------------
(* The theorems.                                                           *)

\* Everything the program keeps stays what it is: the descriptors accept may give
\* are never used up.
THEOREM TypeCorrect == Spec => []TypeOK
<1>1. CheckInv => TypeOK
  BY DEF CheckInv
<1> QED
  BY <1>1, CheckInvariant, PTL

\* What nat_check.c gives select is open, below maxsock and held by one of its sockets,
\* and no two of them have one number: the socket to ourselves is closed in
\* checkloopback, and accept in listentcp may give its number again.
THEOREM WatchedAlwaysOpen == Spec => []WatchedAreOpen
<1>1. CheckInv => WatchedAreOpen
  <2> SUFFICES ASSUME CheckInv PROVE WatchedAreOpen
    OBVIOUS
  <2> USE FreeIs DEF CheckInv, None, Servers, tcp0, udp1
  <2>1. \A n \in 1..4 : tcp[n] # None => tcp[n] \in open
    BY TcpIs DEF TcpOK, FdOK
  <2>2. rfds \subseteq open \cap (Held \cup {tcp0, udp1})
    <3> SUFFICES ASSUME NEW f \in rfds
                 PROVE  f \in open /\ f \in Held \cup {tcp0, udp1}
      OBVIOUS
    <3>1. f \in Fds /\ f # None
      BY DEF TypeOK
    <3>2. CASE f \in {tcp0, udp1}
      BY <3>2 DEF FdOK
    <3>3. CASE f \in {incb, inloop}
      BY <3>1, <3>3, HeldIs DEF Held
    <3>4. CASE \E n \in Servers : f = tcp[n]
      BY <2>1, <3>1, <3>4 DEF Held
    <3> QED
      BY <3>2, <3>3, <3>4 DEF FdOK
  <2>3. wfds \subseteq open \cap (Held \cup {tcp0, udp1})
    <3> SUFFICES ASSUME NEW f \in wfds
                 PROVE  f \in open /\ f \in Held
      OBVIOUS
    <3>1. f \in Fds /\ f # None
      BY DEF TypeOK
    <3>2. PICK n \in 1..4 : f = tcp[n]
      BY DEF FdOK
    <3> QED
      BY <2>1, <3>1, <3>2 DEF Held
  <2>4. rfds \cap wfds = {}
    <3> SUFFICES ASSUME NEW f \in rfds, f \in wfds PROVE FALSE
      OBVIOUS
    <3>1. f \in Fds /\ f # None
      BY DEF TypeOK
    <3>2. PICK n \in 1..4 : f = tcp[n] /\ f = Tcp[n]
      BY <3>1 DEF FdOK, TcpOK
    <3>3. link[n] \in {"pending", "up", "refused"}
      BY <3>2 DEF TcpOK
    <3>4. CASE n \in Servers
      BY <3>2, <3>3, <3>4 DEF TcpOK
    <3>5. CASE n = 4
      BY <3>1, <3>2, <3>5, HeldIs, TcpIs DEF FdOK, TcpOK
    <3> QED
      BY <3>4, <3>5
  <2>5. \A f \in rfds \cup wfds : f <= maxsock
    BY DEF FdOK
  <2> QED
    BY <2>2, <2>3, <2>4, <2>5, HeldAreDifferent DEF WatchedAreOpen
<1> QED
  BY <1>1, CheckInvariant, PTL

\* Whenever nat_check.c waits in select, it watches for all that has come: a connection
\* that is up or refused, an answer, and what somebody it accepted has sent.
THEOREM NothingEverForgotten == Spec => []NothingForgotten
<1>1. CheckInv => NothingForgotten
  <2> SUFFICES ASSUME CheckInv PROVE NothingForgotten
    OBVIOUS
  <2>1. /\ \A n \in 1..4 : link[n] \in {"up", "refused"} => tcp[n] \in wfds
        /\ \A n \in Servers : inbox[n] # Nothing => tcp[n] \in rfds
    BY DEF CheckInv, TcpOK
  <2>2. \A f \in Fds : peer[f] # None /\ inbox[peer[f]] # Nothing => f \in rfds
    BY FreeIs DEF CheckInv, PeersOK, FdOK, None
  <2> QED
    BY <2>1, <2>2 DEF NothingForgotten
<1> QED
  BY <1>1, CheckInvariant, PTL

\* What nat_check.c reports of the network has happened: server 3 called back without
\* our own attempt to reach it, and a loopback brought our own message.
THEOREM VerdictsAlwaysEarned == Spec => []VerdictsAreEarned
<1>1. CheckInv => VerdictsAreEarned
  BY DEF CheckInv
<1> QED
  BY <1>1, CheckInvariant, PTL

\* checktcp and checkudp never change an address that a server has reported.
THEOREM FirstAnswerAlwaysKept == Spec => FirstAnswerKept
<1>1. CheckInv /\ [Next]_vars => [Kept]_vars
  BY KeptStep DEF CheckInv
<1> QED
  BY <1>1, CheckInvariant, PTL DEF Spec, FirstAnswerKept, Kept
=============================================================================
