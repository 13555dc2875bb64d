---------------------------- MODULE ProgramsProofs ----------------------------
(***************************************************************************)
(* Of the programs of MCPrograms: the pairs that share a semaphore,        *)
(* descriptors, a connection or datagrams are sound, for any number of      *)
(* clients, lines and failures; the reading and writing helpers and the     *)
(* non-blocking connect, for any length of a stream and any cut of it;      *)
(* ping, for any number of packets, any width of a word and any times; the  *)
(* HTTP parser, for any requests without a zero byte and any size of its   *)
(* buffer; and the chat server and the file transfer, from the theorems     *)
(* about each.                                                             *)
(***************************************************************************)
EXTENDS MCPrograms, FiniteSetTheorems, SequenceTheorems, WellFoundedInduction,
        TLAPS

-----------------------------------------------------------------------------
\* A step of all of them is for each a step of its own or none.
LEMMA OneRuns ==
  ASSUME [MCNext]_all
  PROVE  /\ [FORK!Next]_forkVars
         /\ [CLIENT!Next]_clientVars
         /\ [SEM!Next]_semVars
         /\ [UDP!Next]_udpVars
         /\ [IO!Next]_ioVars
         /\ [NB!Next]_nbVars
         /\ [PING!Next]_pingVars
         /\ [C!Next]_chatVars
         /\ [F!Next]_fileVars
         /\ [HTTP!Next]_httpVars
<1>1. CASE MCNext
  BY <1>1 DEF MCNext, Only
<1>2. CASE UNCHANGED all
  BY <1>2 DEF all
<1> QED
  BY <1>1, <1>2

-----------------------------------------------------------------------------
(* chatclient.c.                                                           *)

\* The handler runs, and its signal is pending, only when the receiver has ended, which
\* it does after the last message.
ClientInv ==
    /\ CLIENT!Sound
    /\ me = "start" => receiver = "none" /\ peer = "none"
    /\ chldsig \/ me = "handler" => receiver = "ended"
    /\ receiver # "none" => peer # "none"
    /\ receiver = "ended" => ~ heard /\ peer # "up"

\* It holds at the start.
LEMMA ClientStarts == CLIENT!Init => ClientInv
BY DEF CLIENT!Init, ClientInv, CLIENT!Sound, CLIENT!TypeOK

\* Every step of the chat client keeps it.
LEMMA ClientGoesOn ==
  ASSUME ClientInv, [CLIENT!Next]_clientVars
  PROVE  ClientInv'
<1> USE DEF ClientInv, CLIENT!Sound, CLIENT!TypeOK
<1>1. CASE CLIENT!Start
  BY <1>1 DEF CLIENT!Start, CLIENT!initUI, CLIENT!initSocket
<1>2. CASE CLIENT!Type
  BY <1>2 DEF CLIENT!Type
<1>3. CASE CLIENT!Send
  BY <1>3 DEF CLIENT!Send
<1>4. CASE CLIENT!Handle
  BY <1>4 DEF CLIENT!Handle
<1>5. CASE CLIENT!HandlerEnds
  BY <1>5 DEF CLIENT!HandlerEnds, CLIENT!destroy
<1>6. CASE CLIENT!Receive
  BY <1>6 DEF CLIENT!Receive
<1>7. CASE CLIENT!ReceiveEnd
  BY <1>7 DEF CLIENT!ReceiveEnd, CLIENT!Gone
<1>8. CASE CLIENT!Hear
  BY <1>8 DEF CLIENT!Hear
<1>9. CASE CLIENT!ServerCloses
  BY <1>9 DEF CLIENT!ServerCloses
<1>10. CASE UNCHANGED clientVars
  BY <1>10 DEF clientVars
<1> QED
  BY <1>1, <1>2, <1>3, <1>4, <1>5, <1>6, <1>7, <1>8, <1>9, <1>10
  DEF CLIENT!Next, CLIENT!Parent, CLIENT!Receiver

-----------------------------------------------------------------------------
(* echoserver.cpp.                                                         *)

\* Before the fork the parent holds a descriptor that no child has and whose client has
\* no child; a child that has not started has none.
ForkInv ==
    /\ FORK!Sound
    /\ main = "fork" =>
          hand \in kept /\ child[hand] = "none" /\ \A d \in Caller : hand \notin copies[d]
    /\ main = "close" => child[hand] # "none"
    /\ \A c \in Caller : child[c] = "none" => copies[c] = {}

\* It holds at the start, if there is a client.
LEMMA ForkStarts ==
  ASSUME FORK!ConstantsOK, FORK!Init
  PROVE  ForkInv
<1>1. hand \in Caller
  BY DEF FORK!Init, FORK!ConstantsOK
<1> USE DEF FORK!Init, FORK!ConstantsOK
<1>2. FORK!TypeOK
  <2>1. {reaping, sigchld} \subseteq BOOLEAN
    OBVIOUS
  <2>2. child \in [Caller -> {"none", "run", "left", "zombie", "gone"}]
    OBVIOUS
  <2>3. copies \in [Caller -> SUBSET Caller]
    OBVIOUS
  <2>4. caller \in [Caller -> {"new", "open", "sent", "told", "late", "over", "killed"}]
    OBVIOUS
  <2>5. /\ main \in {"accept", "fork", "close", "ended"}
        /\ kept \subseteq Caller /\ ffaults \in 0 .. MaxForkFault
    OBVIOUS
  <2> QED
    BY <1>1, <2>1, <2>2, <2>3, <2>4, <2>5 DEF FORK!TypeOK
<1>3. FORK!ZombiesAreNoticed
  BY DEF FORK!ZombiesAreNoticed, FORK!Zombies
<1>4. FORK!DescriptorsAreHanded
  BY DEF FORK!DescriptorsAreHanded
<1> QED
  BY <1>1, <1>2, <1>3, <1>4 DEF ForkInv, FORK!Sound

\* Every step of the echo server and its clients keeps it.
LEMMA ForkGoesOn ==
  ASSUME FORK!ConstantsOK, ForkInv, [FORK!Next]_forkVars
  PROVE  ForkInv'
<1> USE DEF FORK!ConstantsOK, ForkInv, FORK!Sound, FORK!TypeOK, FORK!ZombiesAreNoticed,
       FORK!Zombies, FORK!DescriptorsAreHanded, FORK!Unforked, FORK!signals, FORK!children,
       FORK!At, FORK!Fault
<1>1. ASSUME NEW c \in Caller, FORK!Accept(c) PROVE ForkInv'
  BY <1>1 DEF FORK!Accept
<1>2. CASE FORK!AcceptFails
  BY <1>2 DEF FORK!AcceptFails
<1>3. CASE FORK!Fork
  BY <1>3 DEF FORK!Fork
<1>4. CASE FORK!ForkFails
  BY <1>4 DEF FORK!ForkFails
<1>5. CASE FORK!Close
  BY <1>5 DEF FORK!Close, FORK!WithoutHand
<1>6. CASE FORK!HandlerStarts
  BY <1>6 DEF FORK!HandlerStarts
<1>7. ASSUME NEW c \in Caller, FORK!Collect(c) PROVE ForkInv'
  BY <1>7 DEF FORK!Collect
<1>8. CASE FORK!HandlerEnds
  <2>1. FORK!Zombies' = {}
    BY <1>8 DEF FORK!HandlerEnds, FORK!NoMore
  <2>2. FORK!ZombiesAreNoticed'
    BY <2>1
  <2> HIDE DEF FORK!ZombiesAreNoticed
  <2> QED
    BY <1>8, <2>2 DEF FORK!HandlerEnds
<1>9. ASSUME NEW c \in Caller, FORK!ChildLeaves(c) PROVE ForkInv'
  BY <1>9 DEF FORK!ChildLeaves
<1>10. ASSUME NEW c \in Caller, FORK!ChildExits(c) PROVE ForkInv'
  <2> USE <1>10 DEF FORK!ChildExits
  <2>1. FORK!TypeOK'
    OBVIOUS
  <2>2. FORK!ZombiesAreNoticed'
    OBVIOUS
  <2>3. FORK!DescriptorsAreHanded'
    OBVIOUS
  <2> HIDE DEF FORK!ZombiesAreNoticed, FORK!DescriptorsAreHanded, FORK!TypeOK
  <2> QED
    BY <2>1, <2>2, <2>3 DEF FORK!TypeOK
<1>11. ASSUME NEW c \in Caller,
              NEW from \in {"new", "open", "sent", "told", "late"},
              NEW to \in {"open", "sent", "told", "late", "over", "killed"},
              FORK!CallerGoes(c, from, to)
       PROVE  ForkInv'
  BY <1>11 DEF FORK!CallerGoes
<1>12. ASSUME NEW c \in Caller,
              \/ FORK!Connect(c) \/ FORK!Send(c) \/ FORK!Receive(c)
              \/ FORK!SendLate(c) \/ FORK!ReceiveLate(c) \/ FORK!Kill(c)
       PROVE  ForkInv'
  BY <1>11, <1>12 DEF FORK!Connect, FORK!Send, FORK!Receive, FORK!SendLate,
     FORK!ReceiveLate, FORK!Kill
<1>13. CASE UNCHANGED forkVars
  BY <1>13 DEF forkVars
<1> QED
  BY <1>1, <1>2, <1>3, <1>4, <1>5, <1>6, <1>7, <1>8, <1>9, <1>10, <1>12, <1>13
  DEF FORK!Next, FORK!Parent, FORK!Process

-----------------------------------------------------------------------------
(* sem.cpp.                                                                *)

\* The numbers in the queue are those that the semaphore counts, that it will count and
\* that a consumer it let through has not taken yet.
Counted ==
    Len(que) = var_sem + (IF made = "post" THEN 1 ELSE 0)
                       + (IF used \in {"lock", "front", "pop"} THEN 1 ELSE 0)

\* The lock is its holder's.
SemInv ==
    /\ SEM!Sound
    /\ que \in Seq(Nat) /\ shown \in Seq(Nat) /\ var_sem \in Nat /\ count \in Nat \ {0}
    /\ lock = "consumer" <=> used \in {"front", "pop", "unlock"}
    /\ Counted

\* It holds at the start.
LEMMA SemStarts == SEM!Init => SemInv
<1> SUFFICES ASSUME SEM!Init PROVE SemInv
  OBVIOUS
<1> USE DEF SEM!Init
<1>1. shown \o que = [i \in 1 .. count - 1 |-> i]
  OBVIOUS
<1>2. SEM!Sound
  BY <1>1 DEF SEM!Sound
<1> QED
  BY <1>2 DEF SemInv, Counted

\* A number that is appended to the queue is appended to what will have been shown.
LEMMA Pushed ==
  ASSUME NEW s \in Seq(Nat), NEW q \in Seq(Nat), NEW k \in Nat \ {0},
         s \o q = [i \in 1 .. k - 1 |-> i]
  PROVE  s \o Append(q, k) = [i \in 1 .. k |-> i]
<1> DEFINE t == s \o Append(q, k)
<1>1. t \in Seq(Nat) /\ Len(t) = Len(s) + Len(q) + 1
  OBVIOUS
<1>2. Len(s) + Len(q) = k - 1
  <2>1. Len(s \o q) = k - 1
    OBVIOUS
  <2> QED
    BY <2>1
<1>3. ASSUME NEW i \in 1 .. k PROVE t[i] = i
  <2>1. CASE i = k
    BY <1>2, <2>1
  <2>2. CASE i # k
    <3>1. i \in 1 .. Len(s) + Len(q)
      BY <1>2, <2>2
    <3>2. t[i] = IF i <= Len(s) THEN s[i] ELSE Append(q, k)[i - Len(s)]
      BY <3>1, ConcatProperties
    <3>3. i > Len(s) => Append(q, k)[i - Len(s)] = q[i - Len(s)]
      BY <3>1, AppendProperties
    <3>4. (s \o q)[i] = IF i <= Len(s) THEN s[i] ELSE q[i - Len(s)]
      BY <3>1, ConcatProperties, ZenonT(40)
    <3>5. t[i] = (s \o q)[i]
      BY <3>2, <3>3, <3>4
    <3> QED
      BY <2>2, <3>5
  <2> QED
    BY <2>1, <2>2
<1> DEFINE u == [i \in 1 .. k |-> i]
<1>4. u \in Seq(Nat) /\ Len(u) = k
  OBVIOUS
<1>5. Len(t) = k
  BY <1>1, <1>2
<1>6. \A i \in 1 .. k : t[i] = u[i]
  BY <1>3
<1> HIDE DEF t, u
<1>7. t = u
  BY <1>1, <1>4, <1>5, <1>6, SeqEqual
<1> QED
  BY <1>7 DEF t, u

\* Moving the head of the queue to what is shown changes nothing in all.
LEMMA Moved ==
  ASSUME NEW S, NEW s \in Seq(S), NEW q \in Seq(S), q # <<>>
  PROVE  Append(s, Head(q)) \o Tail(q) = s \o q
<1>1. Append(s, Head(q)) \in Seq(S) /\ Tail(q) \in Seq(S) /\ Len(Tail(q)) = Len(q) - 1
  OBVIOUS
<1> DEFINE t == Append(s, Head(q)) \o Tail(q)
<1>2. /\ t \in Seq(S) /\ Len(t) = Len(s) + Len(q)
      /\ s \o q \in Seq(S) /\ Len(s \o q) = Len(s) + Len(q)
  BY <1>1
<1>3. ASSUME NEW i \in 1 .. Len(s) + Len(q) PROVE t[i] = (s \o q)[i]
  <2>1. CASE i <= Len(s)
    BY <1>1, <2>1
  <2>2. CASE i = Len(s) + 1
    BY <1>1, <2>2
  <2>3. CASE i > Len(s) + 1
    BY <1>1, <2>3
  <2> QED
    BY <2>1, <2>2, <2>3
<1> QED
  BY <1>2, <1>3


\* Every step of the producer and of the consumer keeps the invariant.
LEMMA SemGoesOn ==
  ASSUME SemInv, [SEM!Next]_semVars
  PROVE  SemInv'
<1> USE DEF SemInv, Counted, SEM!Produce, SEM!Consume, SEM!Lock, SEM!Unlock
<1> USE DEF SEM!Sound
<1>1. CASE /\ count <= MaxCount /\ SEM!Produce("lock", "push")
           /\ SEM!Lock("producer") /\ UNCHANGED count
  BY <1>1
<1>2. CASE /\ SEM!Produce("push", "post")
           /\ que' = Append(que, count) /\ count' = count + 1 /\ UNCHANGED <<var_sem, lock>>
  <2>1. lock = "producer" /\ used \notin {"front", "pop", "unlock"}
    BY <1>2
  <2>2. shown \o que = [i \in 1 .. count - 1 |-> i]
    BY <2>1
  <2>3. shown \o Append(que, count) = [i \in 1 .. count |-> i]
    BY <2>2, Pushed
  <2>4. que' \in Seq(Nat) /\ Len(que') = Len(que) + 1 /\ count' - 1 = count
    BY <1>2
  <2>5. shown' \o (IF used' = "pop" THEN Tail(que') ELSE que') = [i \in 1 .. count' - 1 |-> i]
    BY <1>2, <2>1, <2>3, <2>4
  <2>6. SEM!Sound'
    BY <1>2, <2>1, <2>5
  <2>7. Counted'
    BY <1>2, <2>1, <2>4
  <2> HIDE DEF Counted, SEM!Sound
  <2> QED
    BY <1>2, <2>4, <2>6, <2>7
<1>3. CASE /\ SEM!Produce("post", "unlock")
           /\ var_sem' = var_sem + 1 /\ UNCHANGED <<que, lock, count>>
  <2>1. Counted'
    BY <1>3
  <2>2. SEM!Sound'
    BY <1>3
  <2> HIDE DEF Counted, SEM!Sound
  <2> QED
    BY <1>3, <2>1, <2>2
<1>4. CASE SEM!Produce("unlock", "lock") /\ SEM!Unlock("producer") /\ UNCHANGED count
  BY <1>4
<1>5. CASE /\ var_sem > 0 /\ SEM!Consume("wait", "lock")
           /\ var_sem' = var_sem - 1 /\ UNCHANGED <<que, lock, shown>>
  BY <1>5
<1>6. CASE SEM!Consume("lock", "front") /\ SEM!Lock("consumer") /\ UNCHANGED shown
  <2>1. que # <<>>
    BY <1>6
  <2> QED
    BY <1>6, <2>1
<1>7. CASE /\ SEM!Consume("front", "pop")
           /\ shown' = Append(shown, Head(que)) /\ UNCHANGED <<que, var_sem, lock>>
  <2>1. que # <<>> /\ shown \o que = [i \in 1 .. count - 1 |-> i]
    BY <1>7
  <2>2. Append(shown, Head(que)) \o Tail(que) = [i \in 1 .. count - 1 |-> i]
    <3>1. shown \in Seq(Nat) /\ que \in Seq(Nat)
      OBVIOUS
    <3>2. Append(shown, Head(que)) \o Tail(que) = shown \o que
      BY <2>1, <3>1, Moved, ZenonT(40)
    <3> QED
      BY <2>1, <3>2
  <2>3. shown' \in Seq(Nat)
    BY <1>7, <2>1
  <2>4. SEM!Sound'
    BY <1>7, <2>1, <2>2
  <2> QED
    BY <1>7, <2>3, <2>4
<1>8. CASE /\ SEM!Consume("pop", "unlock")
           /\ que' = Tail(que) /\ UNCHANGED <<var_sem, lock, shown>>
  <2>1. que # <<>>
    BY <1>8
  <2>2. que' \in Seq(Nat) /\ Len(que') = Len(que) - 1
    BY <1>8, <2>1
  <2>3. SEM!Sound'
    BY <1>8
  <2> QED
    BY <1>8, <2>2, <2>3
<1>9. CASE SEM!Consume("unlock", "wait") /\ SEM!Unlock("consumer") /\ UNCHANGED shown
  BY <1>9
<1>10. CASE UNCHANGED semVars
  BY <1>10 DEF semVars
<1> QED
  BY <1>1, <1>2, <1>3, <1>4, <1>5, <1>6, <1>7, <1>8, <1>9, <1>10
  DEF SEM!Next, SEM!producer_process, SEM!coustom_process

-----------------------------------------------------------------------------
(* udpechoclient.c and udpechoserver.c.                                    *)

\* How often the answer to a line was printed and is on its way, there or back.
Times(s, d) == Cardinality({i \in DOMAIN s : s[i] = d})
OnTheWay(d) == requests[d] + answers[d]

\* The client has printed a line for each it sent, but for the one it waits for.  There
\* are no more datagrams for a line than it and what the network doubled, and none but
\* for the last line as long as it has doubled nothing.
UdpInv ==
    /\ UDP!Sound
    /\ lines \in Nat /\ doubled \in Nat /\ printed \in Seq(Nat)
    /\ lines = Len(printed) + (IF udp = "type" THEN 0 ELSE 1)
    /\ requests \in [UDP!Line -> Nat] /\ answers \in [UDP!Line -> Nat]
    /\ lines <= MaxLine /\ \A d \in UDP!Line : OnTheWay(d) > 0 => d <= lines
    /\ doubled = 0 => \A d \in UDP!Line : OnTheWay(d) > 0 => udp # "type" /\ d = lines
    /\ \A d \in UDP!Line : Times(printed, d) + OnTheWay(d) <= 1 + doubled

\* A number of times is a number.
LEMMA TimesIsNat ==
  ASSUME NEW s \in Seq(Nat), NEW d
  PROVE  /\ IsFiniteSet({i \in DOMAIN s : s[i] = d})
         /\ Times(s, d) \in Nat
<1>1. IsFiniteSet(1 .. Len(s)) /\ DOMAIN s = 1 .. Len(s)
  BY FS_Interval
<1>2. IsFiniteSet({i \in DOMAIN s : s[i] = d})
  BY <1>1, FS_Subset
<1> QED
  BY <1>2, FS_CardinalityType DEF Times

\* What is appended is there once more, and everything else as often as before.
LEMMA OnceMore ==
  ASSUME NEW s \in Seq(Nat), NEW e \in Nat, NEW d
  PROVE  Times(Append(s, e), d) = Times(s, d) + (IF d = e THEN 1 ELSE 0)
<1> DEFINE t == Append(s, e)
           S == {i \in DOMAIN s : s[i] = d}
           T == {i \in DOMAIN t : t[i] = d}
           l == Len(s) + 1
<1>1. /\ t \in Seq(Nat) /\ DOMAIN t = 1 .. l /\ DOMAIN s = 1 .. Len(s) /\ t[l] = e
      /\ \A i \in 1 .. Len(s) : t[i] = s[i]
  BY AppendProperties
<1>2. IsFiniteSet(S) /\ l \notin S /\ l \in Nat /\ Len(s) \in Nat
  <2>1. IsFiniteSet(S)
    BY TimesIsNat
  <2>2. Len(s) \in Nat /\ l \in Nat /\ l \notin DOMAIN s
    BY <1>1
  <2> QED
    BY <2>1, <2>2
<1> HIDE DEF t, l
<1>3. 1 .. l = 1 .. Len(s) \cup {l}
  BY <1>2 DEF l
<1>4. CASE d = e
  <2>1. T = S \cup {l}
    BY <1>1, <1>3, <1>4
  <2>2. Cardinality(S \cup {l}) = Cardinality(S) + 1
    BY <1>2, FS_AddElement
  <2> QED
    BY <1>4, <2>1, <2>2 DEF Times, t
<1>5. CASE d # e
  <2>1. T = S
    BY <1>1, <1>3, <1>5
  <2>2. Times(s, d) \in Nat
    BY TimesIsNat
  <2>3. Times(t, d) = Times(s, d)
    BY <2>1 DEF Times
  <2> QED
    BY <1>5, <2>2, <2>3 DEF t
<1> QED
  BY <1>4, <1>5

\* The invariant holds at the start.
LEMMA UdpStarts == UDP!Init => UdpInv
<1> SUFFICES ASSUME UDP!Init PROVE UdpInv
  OBVIOUS
<1>1. /\ udp = "type" /\ lines = 0 /\ doubled = 0 /\ printed = <<>> /\ MaxLine \in Nat
      /\ \A d \in UDP!Line : requests[d] = 0 /\ answers[d] = 0
      /\ requests \in [UDP!Line -> Nat] /\ answers \in [UDP!Line -> Nat]
  BY UdpConstants DEF UDP!Init, UDP!Nowhere, UDP!Line, UDP!ConstantsOK
<1>2. \A d : Times(printed, d) = 0
  <2>1. \A d : {i \in DOMAIN printed : printed[i] = d} = {}
    BY <1>1
  <2> QED
    BY <2>1, FS_EmptySet DEF Times
<1>3. \A d \in UDP!Line : OnTheWay(d) = 0
  BY <1>1 DEF OnTheWay
<1>4. UDP!Sound
  BY <1>1 DEF UDP!Sound
<1> QED
  BY <1>1, <1>2, <1>3, <1>4 DEF UdpInv

\* UdpEcho counts as this module does.
LEMMA SameCount == \A S : UDP!Cardinality(S) = Cardinality(S)
BY Zenon DEF UDP!Cardinality, Cardinality

\* Sound, with the count of what is printed named.
LEMMA UdpSound ==
  UDP!Sound <=>
    /\ udp \in {"type", "wait", "undefined"} /\ (udp = "undefined" => ~ running)
    /\ \A i \in DOMAIN printed : printed[i] <= i /\ (doubled = 0 => printed[i] = i)
    /\ \A d \in 1 .. lines : Times(printed, d) <= 1 + doubled
<1>1. (\A d \in 1 .. lines : Times(printed, d) <= 1 + doubled) <=>
      (\A d \in 1 .. lines : UDP!Cardinality({i \in DOMAIN printed : printed[i] = d}) <= 1 + doubled)
  BY SameCount, Zenon DEF Times
<1> QED
  BY <1>1, Zenon DEF UDP!Sound

\* One datagram more and one fewer.
LEMMA CountsAre ==
  ASSUME NEW n \in [UDP!Line -> Nat], NEW d \in UDP!Line
  PROVE  /\ UDP!More(n, d) \in [UDP!Line -> Nat]
         /\ \A e \in UDP!Line : UDP!More(n, d)[e] = n[e] + (IF e = d THEN 1 ELSE 0)
         /\ n[d] > 0 =>
              /\ UDP!Fewer(n, d) \in [UDP!Line -> Nat]
              /\ \A e \in UDP!Line : UDP!Fewer(n, d)[e] = n[e] - (IF e = d THEN 1 ELSE 0)
<1>1. n[d] \in Nat /\ \A e \in UDP!Line : n[e] \in Nat
  OBVIOUS
<1>2. /\ UDP!More(n, d) \in [UDP!Line -> Nat]
      /\ \A e \in UDP!Line : UDP!More(n, d)[e] = n[e] + (IF e = d THEN 1 ELSE 0)
  BY <1>1 DEF UDP!More
<1>3. ASSUME n[d] > 0
      PROVE  /\ UDP!Fewer(n, d) \in [UDP!Line -> Nat]
             /\ \A e \in UDP!Line : UDP!Fewer(n, d)[e] = n[e] - (IF e = d THEN 1 ELSE 0)
  <2>1. n[d] - 1 \in Nat
    BY <1>1, <1>3
  <2> QED
    BY <1>1, <2>1 DEF UDP!Fewer
<1> QED
  BY <1>2, <1>3

\* Every step of client, server and network keeps the invariant.
LEMMA UdpGoesOn ==
  ASSUME UdpInv, [UDP!Next]_udpVars
  PROVE  UdpInv'
<1> DEFINE Printed == \A i \in DOMAIN printed : printed[i] <= i /\ (doubled = 0 => printed[i] = i)
           Within(d) == Times(printed, d) + OnTheWay(d) <= 1 + doubled
           Sent(d) == OnTheWay(d) > 0 => d <= lines
           Certain(d) == doubled = 0 => (OnTheWay(d) > 0 => udp # "type" /\ d = lines)
<1>0. MaxLine \in Nat /\ UDP!Line = 1 .. MaxLine
  BY UdpConstants DEF UDP!ConstantsOK, UDP!Line
<1>1. /\ udp \in {"type", "wait", "undefined"} /\ (udp = "undefined" => ~ running)
      /\ Printed
  BY UdpSound DEF UdpInv
<1>2. lines \in Nat /\ doubled \in Nat
  BY DEF UdpInv
<1>p. /\ printed \in Seq(Nat) /\ lines <= MaxLine
      /\ lines = Len(printed) + (IF udp = "type" THEN 0 ELSE 1)
  BY DEF UdpInv
<1>c. requests \in [UDP!Line -> Nat] /\ answers \in [UDP!Line -> Nat]
  BY DEF UdpInv
<1>b. \A d \in UDP!Line : Sent(d) /\ Certain(d) /\ Within(d)
  BY DEF UdpInv
<1>3. \A d : Times(printed, d) \in Nat
  BY <1>p, TimesIsNat
<1>4. \A d \in UDP!Line : requests[d] \in Nat /\ answers[d] \in Nat /\ OnTheWay(d) \in Nat
  BY <1>c DEF OnTheWay
\* It is enough that what is on its way stays within what the network doubled.
<1>5. ASSUME /\ udp' \in {"type", "wait", "undefined"} /\ (udp' = "undefined" => ~ running')
             /\ Printed'
             /\ lines' \in Nat /\ doubled' \in Nat /\ printed' \in Seq(Nat) /\ lines' <= MaxLine
             /\ lines' = Len(printed') + (IF udp' = "type" THEN 0 ELSE 1)
             /\ requests' \in [UDP!Line -> Nat] /\ answers' \in [UDP!Line -> Nat]
             /\ \A d \in UDP!Line : Sent(d)' /\ Certain(d)' /\ Within(d)'
      PROVE  UdpInv'
  <2>1. ASSUME NEW d \in 1 .. lines'
        PROVE  UDP!Cardinality({i \in DOMAIN printed' : printed'[i] = d}) <= 1 + doubled'
    <3>a. d \in UDP!Line
      BY <1>0, <1>5
    <3>b. Times(printed', d) \in Nat
      BY <1>5, TimesIsNat
    <3>1. Times(printed', d) \in Nat /\ d \in UDP!Line
      BY <3>a, <3>b
    <3>2. OnTheWay(d)' \in Nat
      BY <1>5, <3>1 DEF OnTheWay
    <3>3. Times(printed', d) + OnTheWay(d)' <= 1 + doubled'
      BY <1>5, <3>1
    <3>4. Times(printed', d) <= 1 + doubled'
      BY <1>5, <3>1, <3>2, <3>3
    <3> QED
      BY <3>4, SameCount DEF Times
  <2>2. UDP!Sound'
    BY <1>5, <2>1 DEF UDP!Sound
  <2> QED
    BY <1>5, <2>2 DEF UdpInv
<1> HIDE DEF Within, Sent, Certain
<1>6. CASE UDP!SendLine
  <2>1. /\ udp = "type" /\ lines < MaxLine /\ udp' = "wait" /\ lines' = lines + 1
        /\ requests' = UDP!More(requests, lines + 1)
        /\ UNCHANGED <<answers, printed, doubled, dropped, running>>
    BY <1>6 DEF UDP!SendLine
  <2>a. lines + 1 \in UDP!Line
    BY <1>0, <1>2, <1>p, <2>1
  <2>2. /\ lines + 1 \in UDP!Line /\ requests' \in [UDP!Line -> Nat]
        /\ \A e \in UDP!Line : requests'[e] = requests[e] + (IF e = lines + 1 THEN 1 ELSE 0)
    BY <1>c, <2>1, <2>a, CountsAre
  <2>3. Times(printed, lines + 1) = 0
    <3>1. {i \in DOMAIN printed : printed[i] = lines + 1} = {}
      BY <1>1, <1>2, <1>p, <2>1
    <3> QED
      BY <3>1, FS_EmptySet DEF Times
  <2>4. OnTheWay(lines + 1) = 0
    <3>1. Sent(lines + 1) /\ OnTheWay(lines + 1) \in Nat
      BY <1>b, <1>4, <2>2
    <3> QED
      BY <1>2, <3>1 DEF Sent
  <2>5. \A d \in UDP!Line : OnTheWay(d)' = OnTheWay(d) + (IF d = lines + 1 THEN 1 ELSE 0)
    BY <1>4, <2>1, <2>2 DEF OnTheWay
  <2>6. ASSUME NEW d \in UDP!Line PROVE Sent(d)' /\ Certain(d)' /\ Within(d)'
    <3>1. CASE d = lines + 1
      BY <1>2, <1>b, <2>1, <2>3, <2>4, <2>5, <3>1 DEF Within, Sent, Certain
    <3>2. CASE d # lines + 1
      <4>1. OnTheWay(d)' = OnTheWay(d) /\ OnTheWay(d) \in Nat /\ d \in Int
        BY <1>0, <1>4, <2>5, <3>2
      <4>2. Sent(d) /\ Certain(d) /\ Within(d)
        BY <1>b
      <4> QED
        BY <1>2, <1>b, <2>1, <4>1, <4>2 DEF Within, Sent, Certain
    <3> QED
      BY <3>1, <3>2
  <2>7. /\ lines' \in Nat /\ doubled' \in Nat /\ lines' <= MaxLine /\ printed' \in Seq(Nat)
        /\ lines' = Len(printed') + (IF udp' = "type" THEN 0 ELSE 1)
    BY <1>0, <1>2, <1>p, <2>1
  <2>8. Printed' /\ answers' \in [UDP!Line -> Nat]
    BY <1>1, <1>c, <2>1
  <2> QED
    BY <1>1, <1>5, <2>1, <2>2, <2>6, <2>7, <2>8
<1>7. CASE UDP!Serve
  <2>1. PICK d \in UDP!Line : UDP!Delivered(d, requests, requests') /\ answers' = UDP!More(answers, d)
    BY <1>7 DEF UDP!Serve
  <2>2. UNCHANGED <<udp, lines, printed, dropped, running>>
    BY <1>7 DEF UDP!Serve
  <2>3. /\ requests[d] > 0 /\ OnTheWay(d) > 0
        /\ \/ requests' = UDP!Fewer(requests, d) /\ doubled' = doubled
           \/ requests' = requests /\ doubled' = doubled + 1
    BY <1>4, <2>1 DEF UDP!Delivered, OnTheWay
  <2>a. /\ answers' \in [UDP!Line -> Nat]
        /\ \A e \in UDP!Line : answers'[e] = answers[e] + (IF e = d THEN 1 ELSE 0)
    BY <1>c, <2>1, CountsAre
  <2>b. /\ requests' \in [UDP!Line -> Nat] /\ doubled' \in {doubled, doubled + 1}
        /\ \A e \in UDP!Line :
             requests'[e] = requests[e] - (IF e = d THEN 1 - (doubled' - doubled) ELSE 0)
    <3>1. CASE requests' = UDP!Fewer(requests, d) /\ doubled' = doubled
      BY <1>2, <1>c, <1>4, <2>3, <3>1, CountsAre
    <3>2. CASE requests' = requests /\ doubled' = doubled + 1
      BY <1>2, <1>c, <1>4, <3>2
    <3> QED
      BY <2>3, <3>1, <3>2
  <2>4. requests' \in [UDP!Line -> Nat] /\ answers' \in [UDP!Line -> Nat] /\ doubled' \in Nat
    BY <1>2, <2>a, <2>b
  <2>5. doubled' >= doubled /\ \A e \in UDP!Line :
          OnTheWay(e)' = OnTheWay(e) + (IF e = d THEN doubled' - doubled ELSE 0)
    BY <1>2, <1>4, <2>a, <2>b DEF OnTheWay
  <2>6. ASSUME NEW e \in UDP!Line PROVE Sent(e)' /\ Certain(e)' /\ Within(e)'
    <3>1. Sent(e) /\ Certain(e) /\ Within(e) /\ Sent(d) /\ Certain(d)
      BY <1>b
    <3>2. OnTheWay(e) \in Nat /\ OnTheWay(d) \in Nat /\ Times(printed, e) \in Nat
      BY <1>3, <1>4
    <3>3. OnTheWay(e)' = OnTheWay(e) + (IF e = d THEN doubled' - doubled ELSE 0)
      BY <2>5
    <3>4. e = d \/ OnTheWay(e)' = OnTheWay(e)
      BY <3>2, <3>3
    <3>5. Sent(e)' /\ Certain(e)'
      BY <1>2, <1>b, <2>2, <2>3, <2>4, <2>5, <3>1, <3>4 DEF Sent, Certain
    <3>6. Within(e)'
      BY <1>2, <1>b, <2>2, <2>4, <2>5, <3>1, <3>2, <3>3 DEF Within
    <3> QED
      BY <3>5, <3>6
  <2>7. /\ lines' \in Nat /\ lines' <= MaxLine /\ printed' \in Seq(Nat)
        /\ lines' = Len(printed') + (IF udp' = "type" THEN 0 ELSE 1)
    BY <1>2, <1>p, <2>2
  <2>8. doubled' = 0 => doubled = 0
    BY <1>2, <2>4, <2>5
  <2>9. Printed'
    BY <1>1, <2>2, <2>8
  <2> QED
    BY <1>1, <1>5, <2>2, <2>4, <2>6, <2>7, <2>9
<1>8. CASE UDP!PrintAnswer
  <2>1. PICK d \in UDP!Line : UDP!Delivered(d, answers, answers') /\ printed' = Append(printed, d)
    BY <1>8 DEF UDP!PrintAnswer
  <2>2. udp = "wait" /\ udp' = "type" /\ UNCHANGED <<lines, requests, dropped, running>>
    BY <1>8 DEF UDP!PrintAnswer
  <2>3. /\ answers[d] > 0 /\ OnTheWay(d) > 0
        /\ \/ answers' = UDP!Fewer(answers, d) /\ doubled' = doubled
           \/ answers' = answers /\ doubled' = doubled + 1
    BY <1>4, <2>1 DEF UDP!Delivered, OnTheWay
  <2>b. /\ answers' \in [UDP!Line -> Nat] /\ doubled' \in {doubled, doubled + 1}
        /\ \A e \in UDP!Line :
             answers'[e] = answers[e] - (IF e = d THEN 1 - (doubled' - doubled) ELSE 0)
    <3>1. CASE answers' = UDP!Fewer(answers, d) /\ doubled' = doubled
      BY <1>2, <1>c, <1>4, <2>3, <3>1, CountsAre
    <3>2. CASE answers' = answers /\ doubled' = doubled + 1
      BY <1>2, <1>c, <1>4, <3>2
    <3> QED
      BY <2>3, <3>1, <3>2
  <2>4. answers' \in [UDP!Line -> Nat] /\ doubled' \in Nat /\ doubled' >= doubled
    BY <1>2, <2>b
  <2>5. /\ d \in Nat /\ lines = Len(printed) + 1 /\ d <= lines
        /\ doubled = 0 => d = lines
    BY <1>0, <1>2, <1>p, <1>b, <2>2, <2>3 DEF Sent, Certain
  <2>6. \A e : Times(printed', e) = Times(printed, e) + (IF e = d THEN 1 ELSE 0)
    BY <1>p, <2>1, <2>5, OnceMore
  <2>7. \A e \in UDP!Line :
          OnTheWay(e)' = OnTheWay(e) - (IF e = d THEN 1 - (doubled' - doubled) ELSE 0)
    BY <1>2, <1>4, <2>2, <2>b DEF OnTheWay
  <2>8. ASSUME NEW e \in UDP!Line PROVE Sent(e)' /\ Certain(e)' /\ Within(e)'
    <3>1. Sent(e) /\ Certain(e) /\ Within(e)
      BY <1>b
    <3>2. OnTheWay(e) \in Nat /\ OnTheWay(e)' \in Nat /\ Times(printed, e) \in Nat
      BY <1>3, <1>4, <2>2, <2>4 DEF OnTheWay
    <3>a. /\ OnTheWay(e)' = OnTheWay(e) - (IF e = d THEN 1 - (doubled' - doubled) ELSE 0)
          /\ Times(printed', e) = Times(printed, e) + (IF e = d THEN 1 ELSE 0)
      BY <2>6, <2>7
    <3>b. Sent(e)'
      BY <1>2, <1>b, <2>2, <2>5, <2>b, <3>1, <3>2, <3>a DEF Sent
    <3>c. Within(e)'
      BY <1>2, <1>b, <2>4, <3>1, <3>2, <3>a DEF Within
    <3>3. Sent(e)' /\ Within(e)'
      BY <3>b, <3>c
    <3>4. ASSUME doubled' = 0 PROVE OnTheWay(e)' = 0
      BY <1>2, <1>b, <2>4, <2>5, <2>6, <2>7, <3>1, <3>2, <3>4 DEF Within, Certain
    <3> QED
      BY <3>3, <3>4 DEF Certain
  <2>9. printed' \in Seq(Nat) /\ Len(printed') = Len(printed) + 1
    BY <1>p, <2>1, <2>5
  <2>10. Printed'
    BY <1>1, <1>2, <1>p, <2>1, <2>3, <2>4, <2>5
  <2>11. /\ lines' \in Nat /\ lines' <= MaxLine /\ requests' \in [UDP!Line -> Nat]
         /\ lines' = Len(printed') + (IF udp' = "type" THEN 0 ELSE 1)
    BY <1>2, <1>p, <1>c, <2>2, <2>5, <2>9
  <2> QED
    BY <1>1, <1>5, <2>2, <2>4, <2>8, <2>9, <2>10, <2>11
<1>9. CASE UDP!Unreachable
  <2> USE <1>9 DEF UDP!Unreachable
  <2>1. \A d \in UDP!Line : Sent(d)' /\ Certain(d)' /\ Within(d)'
    BY <1>b DEF Within, Sent, Certain, OnTheWay
  <2> QED
    BY <1>0, <1>1, <1>2, <1>p, <1>c, <1>5, <2>1
<1>10. CASE UDP!Lose
  <2>1. UNCHANGED <<udp, lines, printed, doubled, running>>
    BY <1>10 DEF UDP!Lose
  <2>2. PICK d \in UDP!Line :
          \/ requests[d] > 0 /\ requests' = UDP!Fewer(requests, d) /\ UNCHANGED answers
          \/ answers[d] > 0 /\ answers' = UDP!Fewer(answers, d) /\ UNCHANGED requests
    BY <1>10 DEF UDP!Lose
  <2>a. /\ requests' \in [UDP!Line -> Nat] /\ answers' \in [UDP!Line -> Nat]
        /\ \A e \in UDP!Line : requests'[e] <= requests[e] /\ answers'[e] <= answers[e]
    <3>1. CASE requests[d] > 0 /\ requests' = UDP!Fewer(requests, d) /\ UNCHANGED answers
      <4>1. /\ requests' \in [UDP!Line -> Nat]
            /\ \A e \in UDP!Line : requests'[e] = requests[e] - (IF e = d THEN 1 ELSE 0)
        BY <1>c, <3>1, CountsAre
      <4> QED
        BY <1>c, <1>4, <3>1, <4>1
    <3>2. CASE answers[d] > 0 /\ answers' = UDP!Fewer(answers, d) /\ UNCHANGED requests
      <4>1. /\ answers' \in [UDP!Line -> Nat]
            /\ \A e \in UDP!Line : answers'[e] = answers[e] - (IF e = d THEN 1 ELSE 0)
        BY <1>c, <3>2, CountsAre
      <4> QED
        BY <1>c, <1>4, <3>2, <4>1
    <3> QED
      BY <2>2, <3>1, <3>2
  <2>3. requests' \in [UDP!Line -> Nat] /\ answers' \in [UDP!Line -> Nat]
    BY <2>a
  <2>4. \A e \in UDP!Line : OnTheWay(e)' \in Nat /\ OnTheWay(e)' <= OnTheWay(e)
    BY <1>4, <2>a DEF OnTheWay
  <2>5. ASSUME NEW e \in UDP!Line PROVE Sent(e)' /\ Certain(e)' /\ Within(e)'
    <3>1. Sent(e) /\ Certain(e) /\ Within(e) /\ OnTheWay(e) \in Nat /\ Times(printed, e) \in Nat
      BY <1>b, <1>3, <1>4
    <3> QED
      BY <1>2, <1>b, <2>1, <2>4, <3>1 DEF Within, Sent, Certain
  <2> QED
    BY <1>0, <1>1, <1>2, <1>p, <1>c, <1>5, <2>1, <2>3, <2>5
<1>11. CASE UNCHANGED udpVars
  BY <1>11 DEF udpVars, UdpInv, UDP!Sound, OnTheWay
<1> QED
  BY <1>6, <1>7, <1>8, <1>9, <1>10, <1>11 DEF UDP!Next

-----------------------------------------------------------------------------
(* connect_nb.c.                                                           *)

\* What the function has said of the connection so far is so, until select is
\* interrupted.
ConnectInv ==
    /\ NB!Sound
    /\ nb = "start" => link = "none" /\ error = "0" /\ outcome = "0" /\ sock = "blocking"
    /\ nb \in {"select", "option", "done"} =>
          sock = "nonblocking" /\ outcome = "0" /\ link # "none"
    /\ nb \in {"select", "option"} => error = "0"
    /\ nb = "option" => link # "pending" \/ woken
    /\ nb = "done" /\ error = "0" => link = "up" \/ woken

\* It holds at the start.
LEMMA ConnectStarts == NB!Init => ConnectInv
BY DEF NB!Init, ConnectInv, NB!Sound, NB!TypeOK

\* Every step of the function and of the network keeps it.
LEMMA ConnectGoesOn ==
  ASSUME ConnectInv, [NB!Next]_nbVars
  PROVE  ConnectInv'
<1> USE DEF ConnectInv, NB!Sound, NB!TypeOK
<1>1. CASE NB!Connect
  BY <1>1 DEF NB!Connect
<1>2. CASE NB!Answer
  BY <1>2 DEF NB!Answer
<1>3. CASE NB!SelectReady
  BY <1>3 DEF NB!SelectReady
<1>4. CASE NB!SelectTimesOut
  BY <1>4 DEF NB!SelectTimesOut
<1>5. CASE NB!SelectInterrupted
  BY <1>5 DEF NB!SelectInterrupted
<1>6. CASE NB!GetOption
  BY <1>6 DEF NB!GetOption, NB!SoError
<1>7. CASE NB!Done
  BY <1>7 DEF NB!Done
<1>8. CASE NB!OptionFails
  BY <1>8 DEF NB!OptionFails
<1>9. CASE UNCHANGED nbVars
  BY <1>9 DEF nbVars
<1> QED
  BY <1>1, <1>2, <1>3, <1>4, <1>5, <1>6, <1>7, <1>8, <1>9 DEF NB!Next, NB!Function

-----------------------------------------------------------------------------
(* readn.cpp, writen.cpp, readline.cpp and readline_bufcache.cpp.          *)

\* nleft and ptr go together; an error moves both, one step back each.  Without one
\* what was moved is in its place.
TransferOK ==
    /\ fn \in {"readn", "writen"} =>
          /\ - Len(bad) <= ptr /\ ptr <= Size
          /\ io = "loop" => left = Size - ptr /\ ptr < Size
    /\ fn = "readn" =>
          /\ ptr <= Len(buf)
          /\ bad = <<>> => ptr = Len(buf) /\ buf \o fd = input
    /\ fn = "writen" =>
          /\ buf = input /\ Len(buf) = Size
          /\ bad = <<>> => fd = SubSeq(buf, 1, ptr)

\* While readline goes on it has stored left characters, has room and met no newline.
LineOK ==
    fn = "readline" =>
      /\ ptr = 0 /\ buf \o fd = input
      /\ io = "loop" =>
            /\ left = Len(buf) /\ left + 2 <= Size
            /\ \A i \in 1 .. Len(buf) : buf[i] # Newline

\* The pointer is in the cache, and behind it is what the count says.
CacheOK ==
    fn = "my_read" =>
      /\ ptr >= 0 /\ ptr <= MAXLINE /\ ret \in {-1, 0}
      /\ left > 0 => ptr + left = Len(cache) /\ Len(cache) <= MAXLINE

StreamInv == IO!Sound /\ TransferOK /\ LineOK /\ CacheOK

\* The smallest of a set.
LEMMA MinIs ==
  ASSUME NEW S, S \subseteq Int, NEW m \in S, \A y \in S : m <= y
  PROVE  IO!Min(S) = m
<1> DEFINE n == IO!Min(S)
<1>1. n \in S /\ \A y \in S : n <= y
  <2>1. \E x \in S : \A y \in S : x <= y
    OBVIOUS
  <2> QED
    BY <2>1, Zenon DEF IO!Min
<1> HIDE DEF n
<1>2. n \in Int /\ m \in Int /\ n <= m /\ m <= n
  BY <1>1
<1>3. n = m
  BY <1>2
<1> QED
  BY <1>3 DEF n

\* The smaller of two.
LEMMA MinOfTwo ==
  ASSUME NEW a \in Int, NEW b \in Int, a <= b
  PROVE  IO!Min({a, b}) = a /\ IO!Min({b, a}) = a
BY MinIs

\* What a call moves.
LEMMA MovesIs ==
  ASSUME NEW k \in Nat, NEW m \in Nat, NEW r \in IO!Moves(k, m)
  PROVE  IF m = 0 THEN r = 0 ELSE r \in 1 .. m /\ r <= k
<1>1. CASE m = 0
  BY <1>1 DEF IO!Moves
<1>2. CASE m # 0 /\ k <= m
  <2>1. IO!Min({k, m}) = k
    BY <1>2, MinOfTwo
  <2> QED
    BY <1>2, <2>1 DEF IO!Moves
<1>3. CASE m # 0 /\ k > m
  <2>1. IO!Min({k, m}) = m
    BY <1>3, MinOfTwo
  <2> QED
    BY <1>3, <2>1 DEF IO!Moves
<1> QED
  BY <1>1, <1>2, <1>3

\* Arithmetic on a size_t that stays within its width, and of an error, -1.
LEMMA SizeArithmetic ==
  ASSUME IO!ConstantsOK, NEW a \in Nat, a < Wide - 1
  PROVE  /\ \A r \in Int : 0 <= r /\ r <= a => IO!Minus(a, r % Wide) = a - r
         /\ IO!Minus(a, (-1) % Wide) = a + 1
<1> USE DEF IO!ConstantsOK
<1>1. ASSUME NEW r \in Int, 0 <= r, r <= a
      PROVE  IO!Minus(a, r % Wide) = a - r
  <2>1. r % Wide = r
    BY <1>1
  <2>2. (a - r) % Wide = a - r
    BY <1>1
  <2> QED
    BY <2>1, <2>2 DEF IO!Minus
<1>2. IO!Minus(a, (-1) % Wide) = a + 1
  <2>1. (-1) % Wide = Wide - 1
    OBVIOUS
  <2>2. (a - (Wide - 1)) % Wide = a + 1
    OBVIOUS
  <2> QED
    BY <2>1, <2>2 DEF IO!Minus
<1> QED
  BY <1>1, <1>2

\* The result of readn as a ssize_t.
LEMMA SignedIs ==
  ASSUME IO!ConstantsOK, NEW p \in Int, - MaxBad <= p, p <= Size
  PROVE  IO!Signed(IO!Minus(Size, Size - p)) = p
<1> USE DEF IO!ConstantsOK
<1>1. Size - (Size - p) = p
  OBVIOUS
<1>2. CASE p >= 0
  <2>1. p % Wide = p
    BY <1>2
  <2>2. p < Wide \div 2
    BY <1>2
  <2> QED
    BY <1>1, <2>1, <2>2 DEF IO!Signed, IO!Minus
<1>3. CASE p < 0
  <2>1. p % Wide = Wide + p
    BY <1>3
  <2>2. ~ (Wide + p < Wide \div 2)
    BY <1>3
  <2> QED
    BY <1>1, <2>1, <2>2 DEF IO!Signed, IO!Minus
<1> QED
  BY <1>2, <1>3

\* A sequence cut in two.
LEMMA CutInTwo ==
  ASSUME NEW S, NEW s \in Seq(S), NEW r \in 0 .. Len(s)
  PROVE  /\ SubSeq(s, 1, r) \in Seq(S) /\ Len(SubSeq(s, 1, r)) = r
         /\ SubSeq(s, r + 1, Len(s)) \in Seq(S) /\ Len(SubSeq(s, r + 1, Len(s))) = Len(s) - r
         /\ SubSeq(s, 1, r) \o SubSeq(s, r + 1, Len(s)) = s
<1>1. SubSeq(s, 1, r) \o SubSeq(s, r + 1, Len(s)) = SubSeq(s, 1, Len(s))
  <2>1. 1 \in 1 .. Len(s) + 1 /\ r \in 1 - 1 .. Len(s) /\ Len(s) \in r .. Len(s)
    OBVIOUS
  <2> QED
    BY <2>1, ConcatAdjacentSubSeq
<1>2. SubSeq(s, 1, Len(s)) = s
  BY SubSeqFull
<1>3. SubSeq(s, 1, r) \in Seq(S) /\ Len(SubSeq(s, 1, r)) = r
  OBVIOUS
<1>4. SubSeq(s, r + 1, Len(s)) \in Seq(S) /\ Len(SubSeq(s, r + 1, Len(s))) = Len(s) - r
  OBVIOUS
<1> QED
  BY <1>1, <1>2, <1>3, <1>4

\* Three sequences can be put together in either order.
LEMMA Regrouped == \A S : \A a, b, c \in Seq(S) : (a \o b) \o c = a \o (b \o c)
BY ConcatAssociative

\* The parts of what was put together.
LEMMA PartsOf ==
  ASSUME NEW S, NEW a \in Seq(S), NEW b \in Seq(S)
  PROVE  /\ SubSeq(a \o b, 1, Len(a)) = a
         /\ SubSeq(a \o b, Len(a) + 1, Len(a \o b)) = b
OBVIOUS

\* nleft counts down what ptr counts up, by an error as well.
LEMMA AdvanceIs ==
  ASSUME IO!ConstantsOK, NEW r \in Int, IO!Advance(r),
         ptr \in Int, left = Size - ptr, ptr < Size, - MaxBad <= ptr,
         (0 <= r /\ r <= left) \/ r = -1
  PROVE  /\ ptr' = ptr + r /\ left' = Size - ptr'
         /\ IF ptr' = Size THEN io' = "done" /\ ret' = Size ELSE io' = "loop" /\ ret' = ret
<1> USE DEF IO!ConstantsOK
<1>1. left \in Nat /\ left < Wide - 1
  OBVIOUS
<1>2. IO!Minus(left, r % Wide) = left - r
  BY <1>1, SizeArithmetic
<1>3. ptr' = ptr + r /\ left' = left - r
  BY <1>2 DEF IO!Advance
<1>4. left' = Size - ptr' /\ (left' = 0 <=> ptr' = Size)
  BY <1>3
<1> QED
  BY <1>3, <1>4 DEF IO!Advance, IO!Return, IO!GoOn

\* The invariant holds at the start.
LEMMA StreamStarts ==
  ASSUME IO!ConstantsOK, IO!Init
  PROVE  StreamInv
<1> USE DEF IO!ConstantsOK, IO!Init
<1>1. input \in Seq(Char) /\ (fn = "writen" => Len(input) = Size)
  <2>1. CASE fn = "writen"
    BY <2>1
  <2>2. CASE fn # "writen"
    <3>1. PICK j \in 0 .. Size + 1 : input \in [1 .. j -> Char]
      BY <2>2 DEF IO!Inputs
    <3> QED
      BY <2>2, <3>1
  <2> QED
    BY <2>1, <2>2
<1>2. IO!TypeOK
  BY <1>1 DEF IO!TypeOK
<1>3. <<>> \o input = input /\ SubSeq(input, 1, 0) = <<>>
  BY <1>1
<1>4. IO!PartsMakeWhole /\ IO!LineIsExact
  BY DEF IO!PartsMakeWhole, IO!LineIsExact
<1>5. IO!CacheLosesNothing
  BY <1>3 DEF IO!CacheLosesNothing, IO!readlinebuf
<1>6. TransferOK /\ LineOK /\ CacheOK
  BY <1>1, <1>3 DEF TransferOK, LineOK, CacheOK
<1> QED
  BY <1>2, <1>4, <1>5, <1>6 DEF StreamInv, IO!Sound

\* A step of readn: what it moves comes behind what is there.
LEMMA ReadnStep ==
  ASSUME IO!ConstantsOK, StreamInv, IO!readn
  PROVE  StreamInv'
<1> USE DEF IO!ConstantsOK
<1>1. /\ fn = "readn" /\ io = "loop" /\ fn' = fn /\ cache' = cache /\ input' = input /\ bad' = bad
      /\ IO!TypeOK
  BY DEF IO!readn, StreamInv, IO!Sound
<1>2. /\ buf \in Seq(Char) /\ fd \in Seq(Char) /\ input \in Seq(Char)
      /\ bad \in Seq({"EINTR", "EIO", "zero"}) /\ Len(bad) <= MaxBad
      /\ ptr \in Int /\ ret \in - MaxBad .. Size
  BY <1>1 DEF IO!TypeOK
<1>3. /\ - Len(bad) <= ptr /\ ptr < Size /\ left = Size - ptr /\ ptr <= Len(buf)
      /\ bad = <<>> => ptr = Len(buf) /\ buf \o fd = input
  BY <1>1 DEF StreamInv, TransferOK
<1>4. PICK r \in IO!Moves(left, Len(fd)) :
          IF r = 0
          THEN IO!Return(IO!Signed(IO!Minus(Size, left))) /\ UNCHANGED <<buf, left, ptr, fd>>
          ELSE /\ buf' = SubSeq(buf, 1, ptr) \o SubSeq(fd, 1, r)
               /\ fd' = SubSeq(fd, r + 1, Len(fd))
               /\ IF ptr < 0 THEN io' = "undefined" /\ UNCHANGED <<left, ptr, ret>>
                             ELSE IO!Advance(r)
  BY DEF IO!readn
<1>5. left \in Nat /\ Len(fd) \in Nat /\ left # 0
  BY <1>2, <1>3
<1>6. IF Len(fd) = 0 THEN r = 0 ELSE r \in 1 .. Len(fd) /\ r <= left
  BY <1>5, MovesIs
<1>7. IO!LineIsExact' /\ IO!CacheLosesNothing' /\ LineOK' /\ CacheOK'
  BY <1>1 DEF IO!LineIsExact, IO!CacheLosesNothing, LineOK, CacheOK
<1>8. CASE r = 0
  <2>1. /\ io' = "done" /\ ret' = ptr /\ buf' = buf /\ left' = left /\ ptr' = ptr /\ fd' = fd
        /\ Len(fd) = 0
    <3>1. - MaxBad <= ptr /\ ptr <= Size
      BY <1>2, <1>3
    <3>2. IO!Signed(IO!Minus(Size, left)) = ptr
      BY <1>2, <1>3, <3>1, SignedIs
    <3> QED
      BY <1>4, <1>5, <1>6, <1>8, <3>2 DEF IO!Return
  <2>2. IO!TypeOK'
    BY <1>1, <1>2, <1>3, <2>1 DEF IO!TypeOK
  <2>3. TransferOK'
    BY <1>1, <1>2, <1>3, <2>1 DEF TransferOK
  <2>4. ASSUME bad = <<>>
        PROVE  ret' = IO!Min({Size, Len(input)}) /\ buf' = SubSeq(input, 1, ret') /\ buf' \o fd' = input
    <3>1. ptr = Len(buf) /\ buf \o fd = input /\ fd = <<>>
      BY <1>2, <1>3, <2>1, <2>4
    <3>2. SubSeq(input, 1, Len(buf)) = buf
      BY <1>2, <3>1, PartsOf
    <3>3. Len(input) = ptr
      BY <1>2, <3>1
    <3>4. Len(input) \in Int /\ Size \in Int /\ Len(input) <= Size
      BY <1>2, <1>3, <3>3
    <3>5. IO!Min({Size, Len(input)}) = Len(input)
      BY <3>4, MinOfTwo
    <3> QED
      BY <2>1, <3>1, <3>2, <3>3, <3>5
  <2>5. IO!PartsMakeWhole'
    BY <1>1, <2>4 DEF IO!PartsMakeWhole, IO!Whole
  <2> QED
    BY <1>7, <2>2, <2>3, <2>5 DEF StreamInv, IO!Sound
<1>9. CASE r # 0
  <2> DEFINE front == SubSeq(buf, 1, ptr)
             new   == SubSeq(fd, 1, r)
  <2>1. /\ r \in 1 .. Len(fd) /\ r <= left
        /\ buf' = front \o new /\ fd' = SubSeq(fd, r + 1, Len(fd))
    BY <1>4, <1>5, <1>6, <1>9
  <2>2. /\ new \in Seq(Char) /\ Len(new) = r /\ fd' \in Seq(Char)
        /\ new \o fd' = fd
    BY <1>2, <2>1, CutInTwo, SMTT(30)
  <2>3. /\ front \in Seq(Char) /\ Len(front) = IF ptr < 0 THEN 0 ELSE ptr
        /\ ptr = Len(buf) => front = buf
    BY <1>2, <1>3
  <2> HIDE DEF front, new
  <2>4. buf' \in Seq(Char) /\ Len(buf') = Len(front) + r
    BY <2>1, <2>2, <2>3, ConcatProperties
  <2>5. /\ - Len(bad) <= ptr' /\ ptr' <= Size /\ ptr' <= Len(buf')
        /\ io' = "loop" => left' = Size - ptr' /\ ptr' < Size /\ ret' = ret
        /\ io' = "done" => ret' = Size /\ ptr' = Size
        /\ io' \in {"loop", "done", "undefined"} /\ ret' \in - MaxBad .. Size
        /\ left' \in -1 .. Wide - 1 /\ ptr' \in Int
        /\ ptr = Len(buf) => ptr' = ptr + r
    <3>1. CASE ptr < 0
      BY <1>1, <1>2, <1>3, <1>4, <1>9, <2>1, <2>3, <2>4, <3>1 DEF IO!TypeOK
    <3>2. CASE ptr >= 0
      <4>1. IO!Advance(r)
        BY <1>2, <1>4, <1>9, <3>2
      <4>2. /\ ptr' = ptr + r /\ left' = Size - ptr'
            /\ IF ptr' = Size THEN io' = "done" /\ ret' = Size ELSE io' = "loop" /\ ret' = ret
        BY <1>2, <1>3, <2>1, <3>2, <4>1, AdvanceIs
      <4> QED
        BY <1>2, <1>3, <2>1, <2>3, <2>4, <3>2, <4>2, SMTT(30)
    <3> QED
      BY <1>2, <3>1, <3>2
  <2>6. bad = <<>> => ptr' = Len(buf') /\ buf' \o fd' = input
    <3> SUFFICES ASSUME bad = <<>> PROVE ptr' = Len(buf') /\ buf' \o fd' = input
      OBVIOUS
    <3>1. front = buf /\ buf \o fd = input /\ ptr = Len(buf)
      BY <1>3, <2>3
    <3>2. buf \in Seq(Char) /\ new \in Seq(Char) /\ fd' \in Seq(Char)
      BY <1>2, <2>2
    <3>3. (buf \o new) \o fd' = buf \o (new \o fd')
      BY <3>2, Regrouped, SMTT(30)
    <3> QED
      BY <2>1, <2>2, <2>4, <2>5, <3>1, <3>3
  <2>7. IO!TypeOK'
    <3>1. {buf, cache, fd, input}' \subseteq Seq(Char)
      BY <1>1, <2>2, <2>4 DEF IO!TypeOK
    <3>2. ptr' \in - MaxBad .. Size + MAXLINE
      BY <1>2, <2>5
    <3> QED
      BY <1>1, <1>2, <2>5, <3>1, <3>2 DEF IO!TypeOK
  <2>8. TransferOK'
    BY <1>1, <2>5, <2>6 DEF TransferOK
  <2>9. ASSUME bad = <<>>, io' = "done"
        PROVE  ret' = IO!Min({Size, Len(input)}) /\ buf' = SubSeq(input, 1, ret') /\ buf' \o fd' = input
    <3>1. ret' = Size /\ Len(buf') = Size /\ buf' \o fd' = input
      BY <2>5, <2>6, <2>9
    <3>2. SubSeq(input, 1, Size) = buf'
      BY <2>2, <2>4, <3>1, PartsOf
    <3>3. Len(input) >= Size /\ Len(input) \in Nat
      BY <2>2, <2>4, <3>1
    <3>4. IO!Min({Size, Len(input)}) = Size
      BY <3>3, MinOfTwo
    <3> QED
      BY <3>1, <3>2, <3>4
  <2>10. IO!PartsMakeWhole'
    BY <1>1, <2>9 DEF IO!PartsMakeWhole, IO!Whole
  <2> QED
    BY <1>7, <2>7, <2>8, <2>10 DEF StreamInv, IO!Sound
<1> QED
  BY <1>8, <1>9

\* A step of writen: what it moves is what comes next in the buffer.
LEMMA WritenStep ==
  ASSUME IO!ConstantsOK, StreamInv, IO!writen
  PROVE  StreamInv'
<1> USE DEF IO!ConstantsOK
<1>1. /\ fn = "writen" /\ io = "loop" /\ fn' = fn /\ buf' = buf /\ cache' = cache
      /\ input' = input /\ bad' = bad /\ IO!TypeOK
  BY DEF IO!writen, StreamInv, IO!Sound
<1>2. /\ buf \in Seq(Char) /\ fd \in Seq(Char) /\ bad \in Seq({"EINTR", "EIO", "zero"})
      /\ Len(bad) <= MaxBad /\ ptr \in Int /\ ret \in - MaxBad .. Size
  BY <1>1 DEF IO!TypeOK
<1>3. /\ - Len(bad) <= ptr /\ ptr < Size /\ left = Size - ptr /\ buf = input /\ Len(buf) = Size
      /\ bad = <<>> => fd = SubSeq(buf, 1, ptr)
  BY <1>1 DEF StreamInv, TransferOK
<1>4. IO!LineIsExact' /\ IO!CacheLosesNothing' /\ LineOK' /\ CacheOK'
  BY <1>1 DEF IO!LineIsExact, IO!CacheLosesNothing, LineOK, CacheOK
<1>5. CASE ptr < 0
  <2>1. io' = "undefined" /\ left' = left /\ ptr' = ptr /\ fd' = fd /\ ret' = ret
    BY <1>5 DEF IO!writen
  <2>2. IO!TypeOK' /\ IO!PartsMakeWhole'
    BY <1>1, <2>1 DEF IO!TypeOK, IO!PartsMakeWhole
  <2>3. TransferOK'
    BY <1>1, <1>2, <1>3, <2>1 DEF TransferOK
  <2> QED
    BY <1>4, <2>2, <2>3 DEF StreamInv, IO!Sound
<1>6. CASE ptr >= 0
  <2>1. PICK r \in IO!Moves(left, left) : fd' = fd \o SubSeq(buf, ptr + 1, ptr + r) /\ IO!Advance(r)
    <3>1. ~ (ptr < 0)
      BY <1>2, <1>6
    <3> QED
      BY <3>1 DEF IO!writen
  <2>2. r \in 1 .. left
    <3>1. left \in Nat /\ left # 0
      BY <1>2, <1>3
    <3> QED
      BY <3>1, MovesIs
  <2>3. /\ ptr' = ptr + r /\ left' = Size - ptr'
        /\ IF ptr' = Size THEN io' = "done" /\ ret' = Size ELSE io' = "loop" /\ ret' = ret
    BY <1>2, <1>3, <1>6, <2>1, <2>2, AdvanceIs
  <2>4. ptr' \in 1 .. Size /\ ptr \in 0 .. Size /\ ptr \in 0 .. ptr'
    BY <1>2, <1>3, <1>6, <2>2, <2>3
  <2>5. SubSeq(buf, ptr + 1, ptr + r) \in Seq(Char)
    BY <1>2, <1>3, <2>2, <2>3, <2>4, SubSeqProperties
  <2>6. fd' \in Seq(Char)
    BY <1>2, <2>1, <2>5, ConcatProperties
  <2>7. bad = <<>> => fd' = SubSeq(buf, 1, ptr')
    <3>1. SubSeq(buf, 1, ptr) \o SubSeq(buf, ptr + 1, ptr') = SubSeq(buf, 1, ptr')
      <4>1. 1 \in 1 .. Len(buf) + 1 /\ ptr \in 1 - 1 .. Len(buf) /\ ptr' \in ptr .. Len(buf)
        BY <1>2, <1>3, <2>4
      <4> QED
        BY <1>2, <4>1, ConcatAdjacentSubSeq
    <3> QED
      BY <1>3, <2>1, <2>3, <3>1
  <2>8. IO!TypeOK'
    <3>1. {buf, cache, fd, input}' \subseteq Seq(Char)
      BY <1>1, <2>6 DEF IO!TypeOK
    <3>2. left' \in -1 .. Wide - 1 /\ ptr' \in - MaxBad .. Size + MAXLINE
      BY <2>3, <2>4
    <3>3. io' \in {"loop", "done", "undefined"} /\ ret' \in - MaxBad .. Size
      BY <1>2, <2>3
    <3>4. bad' \in Seq({"EINTR", "EIO", "zero"}) /\ Len(bad') <= MaxBad
      BY <1>1, <1>2
    <3> QED
      BY <1>1, <3>1, <3>2, <3>3, <3>4 DEF IO!TypeOK
  <2>9. TransferOK'
    BY <1>1, <1>2, <1>3, <2>3, <2>4, <2>7 DEF TransferOK
  <2>10. ASSUME bad = <<>>, io' = "done" PROVE ret' = Size /\ fd' = input
    <3>1. ptr' = Size /\ ret' = Size
      BY <2>3, <2>10
    <3>2. SubSeq(buf, 1, Size) = buf
      BY <1>2, <1>3, SubSeqFull
    <3> QED
      BY <1>3, <2>7, <2>10, <3>1, <3>2
  <2>11. IO!PartsMakeWhole'
    BY <1>1, <2>10 DEF IO!PartsMakeWhole, IO!Whole
  <2> QED
    BY <1>4, <2>8, <2>9, <2>11 DEF StreamInv, IO!Sound
<1> QED
  BY <1>2, <1>5, <1>6

\* A call that fails is remembered.
LEMMA BadIs ==
  ASSUME NEW e \in {"EINTR", "EIO", "zero"}, IO!TypeOK, IO!Bad(e)
  PROVE  /\ bad' \in Seq({"EINTR", "EIO", "zero"}) /\ bad' # <<>>
         /\ Len(bad') = Len(bad) + 1 /\ Len(bad) < MaxBad
<1>1. bad \in Seq({"EINTR", "EIO", "zero"}) /\ bad' = Append(bad, e) /\ Len(bad) < MaxBad
  BY DEF IO!TypeOK, IO!Bad
<1> QED
  BY <1>1, AppendProperties

\* What a failing write or read leaves is no matter of a whole transfer any more.
LEMMA FailureStep ==
  ASSUME IO!ConstantsOK, StreamInv, IO!WriteZero \/ IO!TransferFails
  PROVE  StreamInv'
<1> USE DEF IO!ConstantsOK
<1>1. /\ fn \in {"readn", "writen"} /\ io = "loop" /\ fn' = fn /\ buf' = buf /\ cache' = cache
      /\ fd' = fd /\ input' = input /\ IO!TypeOK
  BY DEF IO!WriteZero, IO!TransferFails, StreamInv, IO!Sound
<1>2. /\ buf \in Seq(Char) /\ bad \in Seq({"EINTR", "EIO", "zero"}) /\ MaxBad \in Nat
      /\ Len(bad) <= MaxBad /\ ptr \in Int /\ ret \in - MaxBad .. Size
  BY <1>1 DEF IO!TypeOK
<1>3. /\ - Len(bad) <= ptr /\ ptr < Size /\ left = Size - ptr
      /\ fn = "readn" => ptr <= Len(buf)
      /\ fn = "writen" => buf = input /\ Len(buf) = Size
  BY <1>1 DEF StreamInv, TransferOK
<1>4. /\ bad' \in Seq({"EINTR", "EIO", "zero"}) /\ bad' # <<>>
      /\ Len(bad') = Len(bad) + 1 /\ Len(bad) < MaxBad
  BY <1>1, BadIs DEF IO!WriteZero, IO!TransferFails, IO!Errors
<1>5. IO!LineIsExact' /\ IO!CacheLosesNothing' /\ LineOK' /\ CacheOK' /\ IO!PartsMakeWhole'
  BY <1>1, <1>4 DEF IO!LineIsExact, IO!CacheLosesNothing, LineOK, CacheOK, IO!PartsMakeWhole
<1>6. /\ ptr' \in Int /\ - Len(bad') <= ptr' /\ ptr' <= ptr
      /\ io' = "loop" => left' = Size - ptr'
      /\ io' \in {"loop", "done"} /\ ret' \in - MaxBad .. Size /\ left' \in -1 .. Wide - 1
  <2>1. CASE IO!WriteZero
    <3>1. io' = "done" /\ ret' = -1 /\ left' = left /\ ptr' = ptr
      BY <2>1 DEF IO!WriteZero, IO!Return
    <3>2. left' \in -1 .. Wide - 1
      BY <1>1, <3>1 DEF IO!TypeOK
    <3> QED
      BY <1>2, <1>3, <1>4, <3>1, <3>2
  <2>2. CASE IO!TransferFails
    <3>1. IO!Advance(-1)
      BY <2>2 DEF IO!TransferFails
    <3>2. - MaxBad <= ptr
      BY <1>2, <1>3
    <3>3. /\ ptr' = ptr + (-1) /\ left' = Size - ptr'
          /\ IF ptr' = Size THEN io' = "done" /\ ret' = Size ELSE io' = "loop" /\ ret' = ret
      BY <1>2, <1>3, <3>1, <3>2, AdvanceIs
    <3> QED
      BY <1>2, <1>3, <1>4, <3>3
  <2> QED
    BY <2>1, <2>2
<1>7. IO!TypeOK'
  <2>1. {buf, cache, fd, input}' \subseteq Seq(Char)
    BY <1>1 DEF IO!TypeOK
  <2>2. ptr' \in - MaxBad .. Size + MAXLINE /\ Len(bad') <= MaxBad
    BY <1>2, <1>3, <1>4, <1>6
  <2> QED
    BY <1>1, <1>4, <1>6, <2>1, <2>2 DEF IO!TypeOK
<1>8. TransferOK'
  <2>1. /\ - Len(bad') <= ptr' /\ ptr' <= Size
        /\ io' = "loop" => left' = Size - ptr' /\ ptr' < Size
    <3>1. ptr' \in Int /\ ptr' < Size /\ ptr' <= Size
      BY <1>2, <1>3, <1>6
    <3> QED
      BY <1>6, <3>1
  <2>2. fn' = "readn" => ptr' <= Len(buf')
    BY <1>1, <1>2, <1>3, <1>6
  <2>3. fn' = "writen" => buf' = input' /\ Len(buf') = Size
    BY <1>1, <1>3
  <2> QED
    BY <1>4, <2>1, <2>2, <2>3 DEF TransferOK
<1> QED
  BY <1>5, <1>7, <1>8 DEF StreamInv, IO!Sound

\* The places of newlines.
Newlines(s) == {i \in 1 .. Len(s) : s[i] = Newline}

\* What b holds of a stream is a line, and f what follows.
OneLine(b, f) ==
    /\ Len(b) <= Size - 1
    /\ \A i \in 1 .. Len(b) : i # Len(b) => b[i] # Newline
    /\ \/ f = <<>>
       \/ Len(b) = Size - 1
       \/ Len(b) > 0 /\ b[Len(b)] = Newline

\* Where a line ends: at the first newline, at the end of the stream or where it is full.
LEMMA LineEnds ==
  ASSUME IO!ConstantsOK, NEW b \in Seq(Char), NEW f \in Seq(Char), OneLine(b, f),
         NEW s, b \o f = s
  PROVE  /\ IO!Min(Newlines(s) \cup {Len(s), Size - 1}) = Len(b)
         /\ b = SubSeq(s, 1, Len(b)) /\ f = SubSeq(s, Len(b) + 1, Len(s))
         /\ Len(b) \in Newlines(s) <=> Len(b) > 0 /\ b[Len(b)] = Newline
<1> USE DEF IO!ConstantsOK, OneLine
<1> DEFINE ends == Newlines(s)
<1>0. ends = {i \in 1 .. Len(s) : s[i] = Newline}
  BY DEF Newlines
<1> HIDE DEF ends
<1>1. /\ s \in Seq(Char) /\ Len(s) = Len(b) + Len(f) /\ Len(b) \in Nat /\ Len(f) \in Nat
      /\ \A i \in 1 .. Len(b) : s[i] = b[i]
      /\ f = <<>> => Len(s) = Len(b)
  <2>1. Len(b) \in Nat /\ Len(f) \in Nat /\ (f = <<>> => Len(f) = 0)
    OBVIOUS
  <2>2. b \o f \in Seq(Char) /\ Len(b \o f) = Len(b) + Len(f)
    BY ConcatProperties
  <2>3. \A i \in 1 .. Len(b) : (b \o f)[i] = b[i]
    OBVIOUS
  <2> QED
    BY <2>1, <2>2, <2>3
<1>2. Len(b) \in ends <=> Len(b) > 0 /\ b[Len(b)] = Newline
  BY <1>0, <1>1
<1>3. Len(b) \in ends \cup {Len(s), Size - 1}
  BY <1>1, <1>2
<1>4. \A y \in ends \cup {Len(s), Size - 1} : Len(b) <= y
  <2>1. ASSUME NEW y \in ends PROVE Len(b) <= y
    <3>1. CASE y < Len(b)
      <4>1. y \in 1 .. Len(b) /\ y # Len(b) /\ s[y] = Newline
        BY <1>0, <1>1, <3>1
      <4> QED
        BY <1>1, <4>1
    <3> QED
      BY <1>0, <1>1, <3>1
  <2> QED
    BY <1>1, <2>1
<1>5. ends \cup {Len(s), Size - 1} \subseteq Int
  BY <1>0, <1>1
<1>6. IO!Min(ends \cup {Len(s), Size - 1}) = Len(b)
  BY <1>3, <1>4, <1>5, MinIs
<1>7. SubSeq(b \o f, 1, Len(b)) = b /\ SubSeq(b \o f, Len(b) + 1, Len(b \o f)) = f
  BY PartsOf
<1> QED
  BY <1>2, <1>6, <1>7 DEF ends

\* A character that is stored is the next of the stream.
LEMMA StoredIs ==
  ASSUME NEW b \in Seq(Char), NEW f \in Seq(Char), f # <<>>
  PROVE  /\ Append(b, Head(f)) \in Seq(Char) /\ Tail(f) \in Seq(Char)
         /\ Len(Append(b, Head(f))) = Len(b) + 1
         /\ \A i \in 1 .. Len(b) : Append(b, Head(f))[i] = b[i]
         /\ Append(b, Head(f))[Len(b) + 1] = Head(f)
         /\ Append(b, Head(f)) \o Tail(f) = b \o f
<1>1. Head(f) \in Char /\ Tail(f) \in Seq(Char)
  BY HeadTailProperties
<1>2. Append(b, Head(f)) \o Tail(f) = b \o f
  BY Moved
<1> QED
  BY <1>1, <1>2, AppendProperties

\* A step of readline, which stores a character or ends.
LEMMA ReadlineStep ==
  ASSUME IO!ConstantsOK, StreamInv, IO!readline
  PROVE  StreamInv'
<1> USE DEF IO!ConstantsOK
<1>1. /\ fn = "readline" /\ io = "loop" /\ fn' = fn /\ ptr' = ptr /\ cache' = cache
      /\ input' = input /\ bad' = bad /\ IO!TypeOK
  BY DEF IO!readline, StreamInv, IO!Sound
<1>2. /\ buf \in Seq(Char) /\ fd \in Seq(Char) /\ input \in Seq(Char) /\ ret \in - MaxBad .. Size
  BY <1>1 DEF IO!TypeOK
<1>3. /\ ptr = 0 /\ buf \o fd = input /\ left = Len(buf) /\ left + 2 <= Size
      /\ \A i \in 1 .. Len(buf) : buf[i] # Newline
  BY <1>1 DEF StreamInv, LineOK
<1>4. IO!PartsMakeWhole' /\ IO!CacheLosesNothing' /\ TransferOK' /\ CacheOK'
  BY <1>1 DEF IO!PartsMakeWhole, IO!CacheLosesNothing, TransferOK, CacheOK
<1> DEFINE ends == Newlines(input)
           len  == IO!Min(ends \cup {Len(input), Size - 1})
           Exact(b, f, r) ==
              /\ b = SubSeq(input, 1, len) /\ f = SubSeq(input, len + 1, Len(input))
              /\ r = IF len = Size - 1 /\ len \notin ends THEN len + 1 ELSE len
<1>5. ASSUME io' = "done" => Exact(buf', fd', ret') PROVE IO!LineIsExact'
  BY <1>1, <1>5 DEF IO!LineIsExact, Newlines
<1> HIDE DEF ends, len, Exact
<1>6. CASE fd = <<>>
  <2>1. io' = "done" /\ ret' = left /\ buf' = buf /\ left' = left /\ fd' = fd
    BY <1>6 DEF IO!readline, IO!Return
  <2>2. IO!TypeOK' /\ LineOK'
    BY <1>1, <1>2, <1>3, <2>1, SMTT(30) DEF IO!TypeOK, LineOK
  <2>3. len = Len(buf) /\ buf = SubSeq(input, 1, Len(buf)) /\ fd = SubSeq(input, Len(buf) + 1, Len(input))
    <3>1. OneLine(buf, fd)
      BY <1>2, <1>3, <1>6 DEF OneLine
    <3>2. /\ IO!Min(Newlines(input) \cup {Len(input), Size - 1}) = Len(buf)
          /\ buf = SubSeq(input, 1, Len(buf)) /\ fd = SubSeq(input, Len(buf) + 1, Len(input))
      <4>1. buf \in Seq(Char) /\ fd \in Seq(Char) /\ buf \o fd = input
        BY <1>2, <1>3
      <4>2. IO!Min(Newlines(input) \cup {Len(input), Size - 1}) = Len(buf)
        BY <3>1, <4>1, LineEnds
      <4>3. buf = SubSeq(input, 1, Len(buf))
        BY <3>1, <4>1, LineEnds
      <4>4. fd = SubSeq(input, Len(buf) + 1, Len(input))
        BY <3>1, <4>1, LineEnds
      <4> QED
        BY <4>2, <4>3, <4>4
    <3> QED
      BY <3>2 DEF len, ends
  <2>4. Exact(buf', fd', ret')
    BY <1>2, <1>3, <2>1, <2>3 DEF Exact
  <2> QED
    BY <1>4, <1>5, <2>2, <2>4 DEF StreamInv, IO!Sound
<1>7. CASE fd # <<>>
  <2> DEFINE c == Head(fd)
  <2>1. /\ buf' = Append(buf, c) /\ fd' = Tail(fd)
        /\ left' = IF c = Newline THEN left ELSE left + 1
        /\ IF c = Newline \/ left + 2 = Size THEN io' = "done" /\ ret' = left' + 1
                                             ELSE io' = "loop" /\ ret' = ret
    BY <1>7 DEF IO!readline, IO!Stored, IO!Return, IO!GoOn
  <2>2. /\ buf' \in Seq(Char) /\ fd' \in Seq(Char) /\ Len(buf') = Len(buf) + 1
        /\ \A i \in 1 .. Len(buf) : buf'[i] = buf[i]
        /\ buf'[Len(buf) + 1] = c /\ buf' \o fd' = input
    BY <1>2, <1>3, <1>7, <2>1, StoredIs, ZenonT(40)
  <2> HIDE DEF c
  <2>3. Len(buf) \in Nat /\ \A i \in 1 .. Len(buf') : i # Len(buf') => buf'[i] # Newline
    <3>1. Len(buf) \in Nat
      BY <1>2
    <3>2. ASSUME NEW i \in 1 .. Len(buf'), i # Len(buf') PROVE buf'[i] # Newline
      <4>1. i \in 1 .. Len(buf)
        BY <2>2, <3>1, <3>2
      <4> QED
        BY <1>3, <2>2, <4>1
    <3> QED
      BY <3>1, <3>2
  <2>4. left' \in 0 .. Size /\ ret' \in - MaxBad .. Size
    BY <1>2, <1>3, <2>1, <2>3
  <2>5. IO!TypeOK'
    <3>1. {buf, cache, fd, input}' \subseteq Seq(Char)
      BY <1>1, <2>2 DEF IO!TypeOK
    <3>2. left' \in -1 .. Wide - 1
      BY <2>4
    <3> QED
      BY <1>1, <2>1, <2>4, <3>1, <3>2 DEF IO!TypeOK
  <2>6. LineOK'
    <3>1. ASSUME io' = "loop"
          PROVE  /\ left' = Len(buf') /\ left' + 2 <= Size
                 /\ \A i \in 1 .. Len(buf') : buf'[i] # Newline
      <4>1. c # Newline /\ left + 2 # Size
        BY <2>1, <3>1
      <4>2. left' = Len(buf') /\ left' + 2 <= Size
        BY <1>3, <2>1, <2>2, <2>3, <4>1
      <4> QED
        BY <2>2, <2>3, <4>1, <4>2
    <3> QED
      BY <1>1, <1>3, <2>2, <3>1 DEF LineOK
  <2>7. ASSUME io' = "done" PROVE Exact(buf', fd', ret')
    <3>1. c = Newline \/ left + 2 = Size
      BY <2>1, <2>7
    <3>2. Len(buf') <= Size - 1 /\ (left + 2 = Size => Len(buf') = Size - 1) /\ Len(buf') > 0
      BY <1>3, <2>2, <2>3
    <3>3. OneLine(buf', fd')
      BY <2>2, <2>3, <3>1, <3>2 DEF OneLine
    <3>4. /\ len = Len(buf')
          /\ buf' = SubSeq(input, 1, Len(buf')) /\ fd' = SubSeq(input, Len(buf') + 1, Len(input))
          /\ Len(buf') \in ends <=> Len(buf') > 0 /\ buf'[Len(buf')] = Newline
      <4>1. /\ IO!Min(Newlines(input) \cup {Len(input), Size - 1}) = Len(buf')
            /\ buf' = SubSeq(input, 1, Len(buf')) /\ fd' = SubSeq(input, Len(buf') + 1, Len(input))
            /\ Len(buf') \in Newlines(input) <=> Len(buf') > 0 /\ buf'[Len(buf')] = Newline
        <5>1. buf' \in Seq(Char) /\ fd' \in Seq(Char) /\ buf' \o fd' = input
          BY <2>2
        <5>2. IO!Min(Newlines(input) \cup {Len(input), Size - 1}) = Len(buf')
          BY <3>3, <5>1, LineEnds
        <5>3. buf' = SubSeq(input, 1, Len(buf'))
          BY <3>3, <5>1, LineEnds
        <5>4. fd' = SubSeq(input, Len(buf') + 1, Len(input))
          BY <3>3, <5>1, LineEnds
        <5>5. Len(buf') \in Newlines(input) <=> Len(buf') > 0 /\ buf'[Len(buf')] = Newline
          BY <3>3, <5>1, LineEnds
        <5> QED
          BY <5>2, <5>3, <5>4, <5>5
      <4> QED
        BY <4>1 DEF len, ends
    <3>5. ret' = IF len = Size - 1 /\ len \notin ends THEN len + 1 ELSE len
      <4>1. CASE c = Newline
        BY <1>3, <2>1, <2>2, <2>3, <2>7, <3>2, <3>4, <4>1
      <4>2. CASE c # Newline
        BY <1>3, <2>1, <2>2, <2>3, <2>7, <3>1, <3>2, <3>4, <4>2
      <4> QED
        BY <4>1, <4>2
    <3> QED
      BY <3>4, <3>5 DEF Exact
  <2> QED
    BY <1>4, <1>5, <2>5, <2>6, <2>7 DEF StreamInv, IO!Sound
<1> QED
  BY <1>6, <1>7

\* A read of readline that is interrupted is made again, and one that fails ends it.
LEMMA LineFailsStep ==
  ASSUME IO!ConstantsOK, StreamInv, IO!LineFails
  PROVE  StreamInv'
<1> USE DEF IO!ConstantsOK
<1>1. /\ fn = "readline" /\ io = "loop" /\ fn' = fn /\ buf' = buf /\ left' = left /\ ptr' = ptr
      /\ cache' = cache /\ fd' = fd /\ input' = input
      /\ (io' = "loop" /\ ret' = ret) \/ (io' = "done" /\ ret' = -1)
      /\ IO!TypeOK
  <2>1. (io' = "loop" /\ ret' = ret) \/ (io' = "done" /\ ret' = -1)
    BY DEF IO!LineFails, IO!Return, IO!GoOn
  <2> QED
    BY <2>1 DEF IO!LineFails, StreamInv, IO!Sound
<1>2. /\ bad' \in Seq({"EINTR", "EIO", "zero"}) /\ Len(bad') = Len(bad) + 1 /\ Len(bad) < MaxBad
      /\ Len(bad) \in Nat
  <2>1. bad \in Seq({"EINTR", "EIO", "zero"})
    BY <1>1 DEF IO!TypeOK
  <2> QED
    BY <1>1, <2>1, BadIs DEF IO!LineFails
<1>3. IO!TypeOK'
  <2>1. ret' \in - MaxBad .. Size /\ Len(bad') <= MaxBad
    BY <1>1, <1>2 DEF IO!TypeOK
  <2> QED
    BY <1>1, <1>2, <2>1 DEF IO!TypeOK
<1>4. /\ IO!PartsMakeWhole' /\ IO!CacheLosesNothing' /\ TransferOK' /\ CacheOK'
      /\ IO!LineIsExact'
  BY <1>1 DEF IO!PartsMakeWhole, IO!CacheLosesNothing, TransferOK, CacheOK, IO!LineIsExact
<1>5. LineOK'
  BY <1>1 DEF StreamInv, LineOK
<1> QED
  BY <1>3, <1>4, <1>5 DEF StreamInv, IO!Sound


\* What my_read has to show is what the count says of the cache.
LEMMA ShownIs ==
  ASSUME IO!ConstantsOK, StreamInv, fn = "my_read"
  PROVE  /\ IO!readlinebuf \in Seq(Char)
         /\ left > 0 => /\ IO!readlinebuf # <<>>
                        /\ Head(IO!readlinebuf) = cache[ptr + 1]
                        /\ Tail(IO!readlinebuf) = IF left > 1 THEN SubSeq(cache, ptr + 2, ptr + left) ELSE <<>>
<1> USE DEF IO!ConstantsOK
<1>1. cache \in Seq(Char) /\ left \in Int /\ ptr \in Int
  BY DEF StreamInv, IO!Sound, IO!TypeOK
<1>2. CASE left <= 0
  BY <1>1, <1>2 DEF IO!readlinebuf
<1>3. CASE left > 0
  <2> DEFINE q == SubSeq(cache, ptr + 1, ptr + left)
  <2>1. ptr >= 0 /\ ptr + left = Len(cache)
    BY <1>3 DEF StreamInv, CacheOK
  <2>2. q \in Seq(Char) /\ Len(q) = left /\ \A i \in 1 .. left : q[i] = cache[ptr + i]
    BY <1>1, <1>3, <2>1
  <2>5. IO!readlinebuf = q
    BY <1>3 DEF IO!readlinebuf
  <2> HIDE DEF q
  <2>3. q # <<>> /\ Head(q) = cache[ptr + 1]
    <3>1. 1 \in 1 .. left /\ q[1] = cache[ptr + 1]
      BY <1>1, <1>3, <2>2
    <3>2. q # <<>>
      BY <1>1, <1>3, <2>2
    <3> QED
      BY <2>2, <3>1, <3>2, HeadTailProperties
  <2>4. Tail(q) = IF left > 1 THEN SubSeq(cache, ptr + 2, ptr + left) ELSE <<>>
    <3>1. Tail(q) \in Seq(Char) /\ Len(Tail(q)) = left - 1
          /\ \A i \in 1 .. left - 1 : Tail(q)[i] = cache[ptr + 1 + i]
      BY <1>1, <1>3, <2>2, <2>3
    <3>2. CASE left > 1
      <4>1. /\ SubSeq(cache, ptr + 2, ptr + left) \in Seq(Char)
            /\ Len(SubSeq(cache, ptr + 2, ptr + left)) = left - 1
            /\ \A i \in 1 .. left - 1 : SubSeq(cache, ptr + 2, ptr + left)[i] = cache[ptr + 1 + i]
        BY <1>1, <2>1, <3>2
      <4> DEFINE rest == SubSeq(cache, ptr + 2, ptr + left)
      <4>2. Tail(q) \in Seq(Char) /\ rest \in Seq(Char) /\ Len(Tail(q)) = Len(rest)
            /\ \A i \in 1 .. Len(rest) : Tail(q)[i] = rest[i]
        BY <3>1, <4>1
      <4> HIDE DEF rest
      <4>3. Tail(q) = rest
        BY <4>2
      <4> QED
        BY <3>2, <4>3 DEF rest
    <3>3. CASE ~ (left > 1)
      BY <1>1, <1>3, <3>1, <3>3
    <3> QED
      BY <3>2, <3>3
  <2> QED
    BY <2>2, <2>3, <2>4, <2>5
<1> QED
  BY <1>1, <1>2, <1>3

\* A character of the cache is handed out.
LEMMA FromCacheStep ==
  ASSUME IO!ConstantsOK, StreamInv, IO!FromCache
  PROVE  StreamInv'
<1> USE DEF IO!ConstantsOK
<1>1. /\ fn = "my_read" /\ io = "loop" /\ fn' = fn /\ io' = io /\ cache' = cache /\ fd' = fd
      /\ input' = input /\ bad' = bad /\ ret' = ret /\ IO!TypeOK
      /\ buf' = Append(buf, cache[ptr + 1]) /\ left' = left - 1 /\ ptr' = ptr + 1
      /\ ~ (left <= 0)
  BY DEF IO!FromCache, IO!Empty, StreamInv, IO!Sound
<1>2. /\ buf \in Seq(Char) /\ fd \in Seq(Char) /\ cache \in Seq(Char)
      /\ left \in -1 .. Wide - 1 /\ ptr \in Int
  BY <1>1 DEF IO!TypeOK
<1>3. left > 0 /\ ptr >= 0 /\ ptr + left = Len(cache) /\ Len(cache) <= MAXLINE
  BY <1>1, <1>2 DEF StreamInv, CacheOK
<1> DEFINE q == IO!readlinebuf
<1>4. /\ q \in Seq(Char) /\ q # <<>> /\ Head(q) = cache[ptr + 1]
      /\ Tail(q) = IF left > 1 THEN SubSeq(cache, ptr + 2, ptr + left) ELSE <<>>
  BY <1>1, <1>3, ShownIs
<1>5. IO!readlinebuf' = Tail(q)
  <2>1. ptr' + 1 = ptr + 2 /\ ptr' + left' = ptr + left /\ (left' > 0 <=> left > 1)
    BY <1>1, <1>2
  <2> QED
    BY <1>1, <1>4, <2>1 DEF IO!readlinebuf
<1>6. buf \o q \o fd = input
  BY <1>1 DEF StreamInv, IO!Sound, IO!CacheLosesNothing
<1> HIDE DEF q
<1>7. buf' \in Seq(Char) /\ buf' \o Tail(q) = buf \o q
  BY <1>1, <1>2, <1>4, StoredIs
<1>8. IO!CacheLosesNothing'
  BY <1>1, <1>5, <1>6, <1>7 DEF IO!CacheLosesNothing
<1>9. IO!TypeOK'
  <2>1. {buf, cache, fd, input}' \subseteq Seq(Char)
    BY <1>1, <1>7 DEF IO!TypeOK
  <2>2. left' \in -1 .. Wide - 1 /\ ptr' \in - MaxBad .. Size + MAXLINE
    BY <1>1, <1>2, <1>3
  <2> QED
    BY <1>1, <2>1, <2>2 DEF IO!TypeOK
<1>10. CacheOK'
  <2>1. ptr' >= 0 /\ ptr' <= MAXLINE /\ ptr' + left' = Len(cache')
    <3>1. ptr' = ptr + 1 /\ left' = left - 1 /\ Len(cache) \in Int /\ ptr + 1 <= ptr + left
      BY <1>1, <1>2, <1>3
    <3>2. ptr' >= 0 /\ ptr' <= MAXLINE
      BY <1>2, <1>3, <3>1
    <3>3. ptr' + left' = Len(cache')
      BY <1>1, <1>2, <1>3, <3>1
    <3> QED
      BY <3>2, <3>3
  <2>2. ret' \in {-1, 0}
    BY <1>1 DEF StreamInv, CacheOK
  <2> QED
    BY <1>1, <1>3, <2>1, <2>2 DEF CacheOK
<1>11. IO!PartsMakeWhole' /\ IO!LineIsExact' /\ TransferOK' /\ LineOK'
  BY <1>1 DEF IO!PartsMakeWhole, IO!LineIsExact, TransferOK, LineOK
<1> QED
  BY <1>8, <1>9, <1>10, <1>11 DEF StreamInv, IO!Sound

\* The cache is filled again and its first character handed out, or the stream ends.
LEMMA FillStep ==
  ASSUME IO!ConstantsOK, StreamInv, IO!Fill
  PROVE  StreamInv'
<1> USE DEF IO!ConstantsOK
<1>1. /\ fn = "my_read" /\ io = "loop" /\ fn' = fn /\ input' = input /\ bad' = bad
      /\ IO!TypeOK /\ left <= 0
  BY DEF IO!Fill, IO!Empty, StreamInv, IO!Sound
<1>2. /\ buf \in Seq(Char) /\ fd \in Seq(Char) /\ cache \in Seq(Char) /\ Len(fd) \in Nat
      /\ left \in -1 .. Wide - 1 /\ ptr \in - MaxBad .. Size + MAXLINE /\ ret \in - MaxBad .. Size
  BY <1>1 DEF IO!TypeOK
<1>3. IO!readlinebuf = <<>>
  BY <1>1, <1>2 DEF IO!readlinebuf
<1>4. buf \o fd = input
  <2>1. buf \o <<>> \o fd = input
    BY <1>1, <1>3 DEF StreamInv, IO!Sound, IO!CacheLosesNothing
  <2>2. buf \o <<>> = buf
    BY <1>2
  <2> QED
    BY <2>1, <2>2
<1>5. ptr >= 0 /\ ptr <= MAXLINE /\ ret \in {-1, 0}
  BY <1>1 DEF StreamInv, CacheOK
<1>6. PICK r \in IO!Moves(MAXLINE, Len(fd)) :
          IF r = 0
          THEN IO!Return(0) /\ left' = 0 /\ UNCHANGED <<buf, ptr, cache, fd>>
          ELSE /\ cache' = SubSeq(fd, 1, r) /\ fd' = SubSeq(fd, r + 1, Len(fd))
               /\ left' = r - 1 /\ ptr' = 1 /\ buf' = Append(buf, fd[1])
               /\ IO!GoOn
  BY DEF IO!Fill
<1>7. IF Len(fd) = 0 THEN r = 0 ELSE r \in 1 .. Len(fd) /\ r <= MAXLINE
  BY <1>2, MovesIs
<1>8. IO!PartsMakeWhole' /\ IO!LineIsExact' /\ TransferOK' /\ LineOK'
  BY <1>1 DEF IO!PartsMakeWhole, IO!LineIsExact, TransferOK, LineOK
<1>9. CASE r = 0
  <2>1. io' = "done" /\ ret' = 0 /\ left' = 0 /\ UNCHANGED <<buf, ptr, cache, fd>>
    BY <1>6, <1>9 DEF IO!Return
  <2>2. IO!TypeOK'
    <3>1. ret' \in - MaxBad .. Size /\ left' \in -1 .. Wide - 1
      BY <1>2, <2>1
    <3> QED
      BY <1>1, <2>1, <3>1 DEF IO!TypeOK
  <2>3. IO!readlinebuf' = <<>>
    BY <2>1 DEF IO!readlinebuf
  <2>4. IO!CacheLosesNothing'
    BY <1>1, <1>2, <1>4, <2>1, <2>3 DEF IO!CacheLosesNothing
  <2>5. CacheOK'
    BY <1>5, <2>1 DEF CacheOK
  <2> QED
    BY <1>8, <2>2, <2>4, <2>5 DEF StreamInv, IO!Sound
<1>10. CASE r # 0
  <2>1. /\ r \in 1 .. Len(fd) /\ r <= MAXLINE
        /\ cache' = SubSeq(fd, 1, r) /\ fd' = SubSeq(fd, r + 1, Len(fd))
        /\ left' = r - 1 /\ ptr' = 1 /\ buf' = Append(buf, fd[1])
        /\ io' = "loop" /\ ret' = ret
    BY <1>6, <1>7, <1>10 DEF IO!GoOn
  <2>2. /\ cache' \in Seq(Char) /\ Len(cache') = r /\ fd' \in Seq(Char) /\ cache' \o fd' = fd
    BY <1>2, <2>1, CutInTwo
  <2>3. cache' # <<>> /\ Head(cache') = fd[1]
    <3>1. cache'[1] = fd[1]
      BY <1>2, <2>1
    <3>2. cache' # <<>>
      <4>1. Len(cache') # 0
        BY <2>1, <2>2
      <4> QED
        BY <4>1
    <3> QED
      BY <2>2, <3>1, <3>2, HeadTailProperties
  <2>4. /\ buf' \in Seq(Char) /\ Tail(cache') \in Seq(Char)
        /\ buf' \o Tail(cache') = buf \o cache'
    <3> DEFINE new == cache'
    <3>1. new \in Seq(Char) /\ new # <<>> /\ buf' = Append(buf, Head(new))
      BY <2>1, <2>2, <2>3
    <3> HIDE DEF new
    <3>2. /\ Append(buf, Head(new)) \in Seq(Char) /\ Tail(new) \in Seq(Char)
          /\ Append(buf, Head(new)) \o Tail(new) = buf \o new
      BY <1>2, <3>1, StoredIs
    <3> QED
      BY <3>1, <3>2 DEF new
  <2>5. IO!readlinebuf' = Tail(cache')
    <3>1. ptr' + left' = r /\ ptr' + 1 = 2 /\ (left' > 0 <=> r > 1)
      BY <2>1
    <3>2. IO!readlinebuf' = IF r > 1 THEN SubSeq(cache', 2, r) ELSE <<>>
      BY <3>1 DEF IO!readlinebuf
    <3>3. CASE r > 1
      <4>1. SubSeq(cache', 2, r) = Tail(cache')
        BY <2>2, <2>3, <3>3
      <4> QED
        BY <3>2, <3>3, <4>1
    <3>4. CASE ~ (r > 1)
      <4>1. Len(cache') = 1
        BY <2>1, <2>2, <3>4
      <4> QED
        <5>1. Tail(cache') \in Seq(Char) /\ Len(Tail(cache')) = 0
          BY <2>2, <2>3, <4>1, HeadTailProperties
        <5>2. Tail(cache') = <<>>
          BY <5>1, EmptySeq
        <5> QED
          BY <3>2, <3>4, <5>2
    <3> QED
      BY <3>3, <3>4
  <2>6. IO!CacheLosesNothing'
    <3>1. (buf \o cache') \o fd' = buf \o (cache' \o fd')
      <4> DEFINE new == cache'
                 rest == fd'
      <4>1. new \in Seq(Char) /\ rest \in Seq(Char)
        BY <2>2
      <4> HIDE DEF new, rest
      <4>2. (buf \o new) \o rest = buf \o (new \o rest)
        <5>1. \A a, b, c \in Seq(Char) : (a \o b) \o c = a \o (b \o c)
          BY Regrouped, SMTT(30)
        <5> QED
          BY <1>2, <4>1, <5>1, ZenonT(40)
      <4> QED
        BY <4>2 DEF new, rest
    <3> QED
      BY <1>1, <1>4, <2>2, <2>4, <2>5, <3>1 DEF IO!CacheLosesNothing
  <2>7. IO!TypeOK'
    <3>1. {buf, cache, fd, input}' \subseteq Seq(Char)
      BY <1>1, <2>2, <2>4 DEF IO!TypeOK
    <3>2. left' \in -1 .. Wide - 1 /\ ptr' \in - MaxBad .. Size + MAXLINE
      BY <1>2, <2>1
    <3> QED
      BY <1>1, <2>1, <3>1, <3>2 DEF IO!TypeOK
  <2>8. CacheOK'
    <3>1. ptr' >= 0 /\ ptr' <= MAXLINE /\ ptr' + left' = Len(cache') /\ Len(cache') <= MAXLINE
      BY <1>2, <2>1, <2>2
    <3> QED
      BY <1>5, <2>1, <3>1 DEF CacheOK
  <2> QED
    BY <1>8, <2>6, <2>7, <2>8 DEF StreamInv, IO!Sound
<1> QED
  BY <1>9, <1>10

\* A fill that fails leaves nothing to show, and the caller may try again.
LEMMA FillFailsStep ==
  ASSUME IO!ConstantsOK, StreamInv, IO!FillFails \/ IO!Retry
  PROVE  StreamInv'
<1> USE DEF IO!ConstantsOK
<1>1. /\ fn = "my_read" /\ fn' = fn /\ buf' = buf /\ ptr' = ptr /\ cache' = cache
      /\ fd' = fd /\ input' = input /\ IO!TypeOK
  BY DEF IO!FillFails, IO!Retry, StreamInv, IO!Sound
<1>2. /\ left \in -1 .. Wide - 1 /\ ret \in - MaxBad .. Size /\ io \in {"loop", "done", "undefined"}
      /\ bad \in Seq({"EINTR", "EIO", "zero"}) /\ Len(bad) <= MaxBad
  BY <1>1 DEF IO!TypeOK
<1>3. /\ bad' \in Seq({"EINTR", "EIO", "zero"}) /\ Len(bad') <= MaxBad
      /\ io' \in {"loop", "done"} /\ left' \in {-1, left} /\ IO!readlinebuf' = IO!readlinebuf
      /\ (ret' = ret \/ ret' = -1) /\ ret' \in - MaxBad .. Size
  <2>1. CASE IO!FillFails
    <3>1. /\ left <= 0 /\ left' = -1 /\ io' \in {"loop", "done"} /\ (ret' = ret \/ ret' = -1)
      BY <2>1 DEF IO!FillFails, IO!Empty, IO!Return, IO!GoOn
    <3>2. /\ bad' \in Seq({"EINTR", "EIO", "zero"})
          /\ Len(bad') = Len(bad) + 1 /\ Len(bad) < MaxBad
      BY <1>1, <2>1, BadIs DEF IO!FillFails
    <3>3. IO!readlinebuf' = IO!readlinebuf
      BY <1>2, <3>1 DEF IO!readlinebuf
    <3>4. Len(bad) \in Nat
      BY <1>2
    <3> QED
      BY <1>2, <3>1, <3>2, <3>3, <3>4
  <2>2. CASE IO!Retry
    BY <1>1, <1>2, <2>2 DEF IO!Retry, IO!readlinebuf
  <2> QED
    BY <2>1, <2>2
<1>4. IO!TypeOK'
  <2>1. left' \in -1 .. Wide - 1
    BY <1>2, <1>3
  <2> QED
    BY <1>1, <1>3, <2>1 DEF IO!TypeOK
<1>5. IO!CacheLosesNothing'
  BY <1>1, <1>3 DEF StreamInv, IO!Sound, IO!CacheLosesNothing
<1>6. CacheOK'
  BY <1>1, <1>2, <1>3 DEF StreamInv, CacheOK
<1>7. IO!PartsMakeWhole' /\ IO!LineIsExact' /\ TransferOK' /\ LineOK'
  BY <1>1 DEF IO!PartsMakeWhole, IO!LineIsExact, TransferOK, LineOK
<1> QED
  BY <1>4, <1>5, <1>6, <1>7 DEF StreamInv, IO!Sound

\* Every step of a helper keeps the invariant.
LEMMA StreamGoesOn ==
  ASSUME IO!ConstantsOK, StreamInv, [IO!Next]_ioVars
  PROVE  StreamInv'
<1>1. CASE UNCHANGED ioVars
  <2>1. IO!TypeOK' <=> IO!TypeOK
    BY <1>1 DEF ioVars, IO!TypeOK
  <2>2. IO!PartsMakeWhole' <=> IO!PartsMakeWhole
    BY <1>1 DEF ioVars, IO!PartsMakeWhole, IO!Whole
  <2>3. IO!LineIsExact' <=> IO!LineIsExact
    BY <1>1 DEF ioVars, IO!LineIsExact
  <2>4. IO!CacheLosesNothing' <=> IO!CacheLosesNothing
    BY <1>1 DEF ioVars, IO!CacheLosesNothing, IO!readlinebuf
  <2>5. (TransferOK' <=> TransferOK) /\ (LineOK' <=> LineOK) /\ (CacheOK' <=> CacheOK)
    BY <1>1 DEF ioVars, TransferOK, LineOK, CacheOK
  <2> QED
    BY <2>1, <2>2, <2>3, <2>4, <2>5 DEF StreamInv, IO!Sound
<1>2. CASE IO!Next
  BY <1>2, ReadnStep, WritenStep, FailureStep, ReadlineStep, LineFailsStep, FromCacheStep,
     FillStep, FillFailsStep
  DEF IO!Next, IO!Helper
<1> QED
  BY <1>1, <1>2


-----------------------------------------------------------------------------
(* ping.c.                                                                 *)

\* Quotient and remainder, and what they are of.
LEMMA DivMod ==
  ASSUME NEW a \in Int, NEW w \in Nat \ {0}
  PROVE  /\ a \div w \in Int /\ a % w \in 0 .. w - 1
         /\ a = w * (a \div w) + (a % w)
         /\ a >= 0 => a \div w >= 0
BY SMTT(20)

\* Quotient and remainder are determined by the number they make up.
LEMMA DivModIs ==
  ASSUME NEW w \in Nat \ {0}, NEW q \in Int, NEW r \in 0 .. w - 1, NEW a \in Int, a = w * q + r
  PROVE  a % w = r /\ a \div w = q
BY SMTT(20)

\* Folded twice, the sum of the words and its complement are 0 in one's complement.
LEMMA Complements ==
  ASSUME NEW w \in Nat, w > 1, NEW hi \in Nat, NEW lo \in 0 .. w - 1, hi < w,
         NEW s1, s1 = hi + lo, NEW x, x = (s1 + (s1 \div w)) % w
  PROVE  (w * hi + lo + (w - 1 - x)) % (w - 1) = 0
<1> DEFINE m == (w - 1) * hi
<1>1. m \in Int /\ w * hi = m + hi
  BY SMTT(20)
<1>2. \A k \in Nat : ((w - 1) * k) % (w - 1) = 0
  <2> SUFFICES ASSUME NEW k \in Nat PROVE ((w - 1) * k) % (w - 1) = 0
    OBVIOUS
  <2> DEFINE a == (w - 1) * k
  <2>1. a \in Int /\ a = (w - 1) * k + 0 /\ w - 1 \in Nat \ {0} /\ 0 \in 0 .. (w - 1) - 1
    BY SMTT(20)
  <2> HIDE DEF a
  <2>2. a % (w - 1) = 0
    BY <2>1, DivModIs
  <2> QED
    BY <2>2 DEF a
<1>3. CASE s1 < w
  <2>1. s1 \in 0 .. w - 1 /\ s1 = w * 0 + s1 /\ s1 \in Int
    BY <1>3
  <2>2. s1 \div w = 0 /\ s1 % w = s1
    BY <2>1, DivModIs
  <2>3. s1 + (s1 \div w) = s1
    BY <2>1, <2>2
  <2>4. x = s1
    BY <2>2, <2>3
  <2>5. w * hi + lo + (w - 1 - x) = m + (w - 1)
    BY <1>1, <2>4
  <2>6. m + (w - 1) = (w - 1) * (hi + 1)
    BY SMTT(20)
  <2>7. hi + 1 \in Nat /\ ((w - 1) * (hi + 1)) % (w - 1) = 0
    <3>1. hi + 1 \in Nat
      OBVIOUS
    <3> QED
      BY <1>2, <3>1, Zenon
  <2> HIDE DEF m
  <2> QED
    BY <2>5, <2>6, <2>7, Zenon
<1>4. CASE s1 >= w
  <2>1. s1 - w \in 0 .. w - 1 /\ s1 = w * 1 + (s1 - w) /\ s1 \in Int
    BY <1>4
  <2>2. s1 \div w = 1
    BY <2>1, DivModIs
  <2> DEFINE y == s1 + 1
  <2>3. y - w \in 0 .. w - 1 /\ y = w * 1 + (y - w) /\ y \in Int
    BY <1>4
  <2>4. x = y % w
    BY <2>2
  <2> HIDE DEF y
  <2>5. x = y - w
    BY <2>3, <2>4, DivModIs
  <2>6. x = s1 + 1 - w
    BY <2>5 DEF y
  <2>7. w * hi + lo + (w - 1 - x) = m + (w - 1) + (w - 1)
    <3> HIDE DEF m
    <3> QED
      BY <1>1, <2>6
  <2>8. m + (w - 1) + (w - 1) = (w - 1) * (hi + 2)
    BY SMTT(20)
  <2>9. hi + 2 \in Nat /\ ((w - 1) * (hi + 2)) % (w - 1) = 0
    <3>1. hi + 2 \in Nat
      OBVIOUS
    <3> QED
      BY <1>2, <3>1, Zenon
  <2> HIDE DEF m
  <2> QED
    BY <2>7, <2>8, <2>9, Zenon
<1> QED
  BY <1>3, <1>4

\* Every request that cal_chksum completes passes a receiver's test.
LEMMA ChecksumVerifies ==
  ASSUME PING!ConstantsOK, pid \in Nat, NEW no \in 0 .. MAX_NO_PACKETS, NEW t \in Stamps
  PROVE  PING!WordSum(PING!pack(no, t).words) % (Word - 1) = 0
<1> USE DEF PING!ConstantsOK
<1> DEFINE id  == pid % Word
           sum == ICMP_ECHO + 0 + id + no + t
           hi  == sum \div Word
           lo  == sum % Word
           s1  == hi + lo
           x   == (s1 + (s1 \div Word)) % Word
<1>1. id \in 0 .. Word - 1
  BY DivMod
<1>2. Word \in Nat /\ Word > 1 /\ t \in Nat /\ no \in Nat /\ no <= MAX_NO_PACKETS /\ ICMP_ECHO \in Nat
      /\ MAX_NO_PACKETS \in Nat /\ ICMP_ECHO + Word + MAX_NO_PACKETS + t < Word * Word
  OBVIOUS
<1> HIDE DEF id, PING!ConstantsOK
<1>3. sum \in Nat /\ sum <= ICMP_ECHO + Word + MAX_NO_PACKETS + t
  BY <1>1, <1>2
<1>4. PING!WordSum(PING!pack(no, t).words) = sum + (Word - 1 - x)
  <2>1. PING!cal_chksum(<<ICMP_ECHO, 0, id, no, t>>) = Word - 1 - x
    BY DEF PING!cal_chksum, PING!WordSum, PING!Carried
  <2> DEFINE c == PING!cal_chksum(<<ICMP_ECHO, 0, id, no, t>>)
  <2>2. PING!pack(no, t).words = <<ICMP_ECHO, c, id, no, t>>
    BY DEF PING!pack, id
  <2> HIDE DEF c, x
  <2>3. c = Word - 1 - x
    BY <2>1 DEF c
  <2>4. PING!WordSum(PING!pack(no, t).words) = ICMP_ECHO + c + id + no + t
    BY <2>2 DEF PING!WordSum
  <2>5. x \in Int
    <3>1. s1 + (s1 \div Word) \in Int
      <4>1. s1 \in Int
        <5> HIDE DEF sum
        <5>1. hi \in Int /\ lo \in Int
          BY <1>2, <1>3, DivMod
        <5> QED
          BY <5>1
      <4> HIDE DEF s1
      <4>2. s1 \div Word \in Int
        BY <1>2, <4>1, DivMod
      <4> QED
        BY <4>1, <4>2
    <3> HIDE DEF s1
    <3> QED
      BY <1>2, <3>1, DivMod DEF x
  <2> QED
    BY <1>1, <1>2, <2>3, <2>4, <2>5
<1> HIDE DEF sum
<1>5. hi \in Nat /\ lo \in 0 .. Word - 1 /\ sum = Word * hi + lo
  <2>1. sum \in Int /\ sum >= 0 /\ Word \in Nat \ {0}
    BY <1>2, <1>3
  <2>2. sum \div Word \in Int /\ sum \div Word >= 0
    BY <2>1, DivMod
  <2>3. sum % Word \in 0 .. Word - 1 /\ sum = Word * (sum \div Word) + (sum % Word)
    BY <2>1, DivMod
  <2> QED
    BY <2>2, <2>3
<1> HIDE DEF hi, lo
<1>6. hi < Word
  <2>1. sum < Word * Word
    <3> DEFINE sq == Word * Word
    <3>1. sq \in Int
      BY <1>2
    <3>2. ICMP_ECHO + Word + MAX_NO_PACKETS + t < sq
      BY <1>2
    <3> HIDE DEF sq
    <3>3. sum < sq
      BY <1>2, <1>3, <3>1, <3>2
    <3> QED
      BY <3>3 DEF sq
  <2>2. Word * hi < Word * Word
    BY <1>2, <1>5, <2>1
  <2> QED
    BY <1>2, <1>5, <2>2, SMTT(20)
<1>7. (Word * hi + lo + (Word - 1 - x)) % (Word - 1) = 0
  BY <1>2, <1>5, <1>6, Complements
<1> QED
  BY <1>4, <1>5, <1>7

\* The difference of two times, in seconds and microseconds.
LEMMA DifferenceIs ==
  ASSUME PING!ConstantsOK, NEW out \in Nat, NEW in \in Nat,
         NEW d, d = PING!tv_sub(out, in)
  PROVE  /\ d.tv_sec \in Int /\ d.tv_usec \in 0 .. Second - 1 /\ d.real \in Int
         /\ (d.tv_sec * Second) + d.tv_usec = d.real
<1>1. Second \in Nat \ {0}
  BY DEF PING!ConstantsOK
<1> DEFINE q1 == out \div Second
           r1 == out % Second
           q2 == in \div Second
           r2 == in % Second
           b  == IF r1 - r2 < 0 THEN 1 ELSE 0
<1>2. /\ q1 \in Int /\ r1 \in 0 .. Second - 1 /\ out = Second * q1 + r1
      /\ q2 \in Int /\ r2 \in 0 .. Second - 1 /\ in = Second * q2 + r2
  BY <1>1, DivMod
<1>3. d.tv_sec = q1 - b - q2 /\ d.tv_usec = (r1 - r2) + b * Second /\ d.real = out - in
  BY DEF PING!tv_sub
<1> HIDE DEF q1, r1, q2, r2
<1>4. CASE r1 - r2 < 0
  <2>1. d.tv_sec = q1 - 1 - q2 /\ d.tv_usec = (r1 - r2) + Second
    BY <1>1, <1>2, <1>3, <1>4
  <2>2. (q1 - 1 - q2) * Second = Second * q1 - Second - Second * q2
    BY <1>1, <1>2, SMTT(20)
  <2>3. Second * q1 \in Int /\ Second * q2 \in Int
    BY <1>1, <1>2
  <2> QED
    BY <1>1, <1>2, <1>3, <1>4, <2>1, <2>2, <2>3
<1>5. CASE ~ (r1 - r2 < 0)
  <2>1. d.tv_sec = q1 - q2 /\ d.tv_usec = r1 - r2
    BY <1>1, <1>2, <1>3, <1>5
  <2>2. (q1 - q2) * Second = Second * q1 - Second * q2
    BY <1>1, <1>2, SMTT(20)
  <2>3. Second * q1 \in Int /\ Second * q2 \in Int
    BY <1>1, <1>2
  <2> QED
    BY <1>1, <1>2, <1>3, <1>5, <2>1, <2>2, <2>3
<1> QED
  BY <1>4, <1>5

\* A reply at the socket, not counted yet.
AtSocket == IF inbox.kind = "reply" THEN 1 ELSE 0

\* What may go wrong, and the replies that no request accounts for.
Faulty == {"send", "receive", "twice", "foreign"}
Extra  == pfaults.twice + pfaults.foreign

\* What the requests, the socket, the times and the alarm hold, and what is counted
\* together with the reply at the socket.
PacketsOK ==
    /\ pid \in Nat
    /\ pfaults \in [Faulty -> Nat]
    /\ IsFiniteSet(net) /\ \A p \in net : p.sent \in Nat
    /\ inbox.kind = "reply" => inbox.sent \in Nat
    /\ rtt.tv_sec \in Int /\ rtt.tv_usec \in Int /\ rtt.real \in Int
    /\ nreceived + Cardinality(net) + AtSocket <= nsend - pfaults.send + Extra

\* Where the loops are: all is sent, and something is waited for.
LoopOK ==
    /\ ping # "send" => nsend = MAX_NO_PACKETS
    /\ ping \in {"send", "ended"} => alarm = 0
    /\ ping \in {"receive", "unpack"} => nreceived < nsend

PingInv ==
    /\ PING!TypeOK /\ PING!ChecksumsVerify /\ PING!RttIsRight /\ PING!LossIsAllOrNone
    /\ PacketsOK /\ LoopOK

\* It holds at the start.
LEMMA PingStarts ==
  ASSUME PING!ConstantsOK, PING!Init
  PROVE  PingInv
<1> USE DEF PING!ConstantsOK, PING!Init
<1>1. net = {} /\ IsFiniteSet(net) /\ Cardinality(net) = 0
  BY FS_EmptySet
<1>2. rtt.tv_sec = 0 /\ rtt.tv_usec = 0 /\ rtt.real = 0 /\ inbox.kind = "none"
  BY DEF PING!NoTime, PING!Nothing
<1>3. pfaults \in [Faulty -> Nat] /\ pfaults.send = 0 /\ Extra = 0
  BY DEF Faulty, Extra
<1>4. PING!TypeOK
  BY <1>2 DEF PING!TypeOK
<1>5. PING!ChecksumsVerify /\ PING!RttIsRight /\ PING!LossIsAllOrNone
  BY <1>1, <1>2 DEF PING!ChecksumsVerify, PING!RttIsRight, PING!LossIsAllOrNone
<1>7. PacketsOK
  BY <1>1, <1>2, <1>3 DEF PacketsOK, AtSocket
<1>8. LoopOK
  BY DEF LoopOK
<1> QED
  BY <1>4, <1>5, <1>7, <1>8 DEF PingInv

\* A failure or a doubled reply is counted.
LEMMA FaultIs ==
  ASSUME NEW what \in Faulty, PacketsOK, PING!Fault(what)
  PROVE  /\ pfaults' \in [Faulty -> Nat]
         /\ pfaults'[what] = pfaults[what] + 1
         /\ \A other \in Faulty \ {what} : pfaults'[other] = pfaults[other]
         /\ Extra' = Extra + (IF what \in {"twice", "foreign"} THEN 1 ELSE 0)
<1>1. /\ pfaults' \in [Faulty -> Nat]
      /\ pfaults'[what] = pfaults[what] + 1
      /\ \A other \in Faulty \ {what} : pfaults'[other] = pfaults[other]
  BY DEF PacketsOK, PING!Fault, Faulty
<1>2. pfaults.twice \in Nat /\ pfaults.foreign \in Nat
  BY DEF PacketsOK, Faulty
<1> QED
  BY <1>1, <1>2 DEF Faulty, Extra

\* Every step of the program and of the network keeps it.
LEMMA PingGoesOn ==
  ASSUME PING!ConstantsOK, PingInv, [PING!Next]_pingVars
  PROVE  PingInv'
<1> USE DEF PING!ConstantsOK
<1>1. /\ PING!TypeOK /\ PING!ChecksumsVerify /\ PING!RttIsRight /\ PING!LossIsAllOrNone
      /\ PacketsOK /\ LoopOK
  BY DEF PingInv
<1>2. /\ Cardinality(net) \in Nat /\ nreceived \in Nat /\ nsend \in Nat
      /\ nsend <= MAX_NO_PACKETS /\ nreceived <= nsend
      /\ pfaults.send \in Nat /\ Extra \in Nat
      /\ nreceived + Cardinality(net) + AtSocket <= nsend - pfaults.send + Extra
      /\ AtSocket \in {0, 1}
  <2>1. Cardinality(net) \in Nat
    BY <1>1, FS_CardinalityType DEF PacketsOK
  <2>2. pfaults.send \in Nat /\ Extra \in Nat
    BY <1>1 DEF PacketsOK, Faulty, Extra
  <2>3. /\ nreceived \in Nat /\ nsend \in Nat /\ nsend <= MAX_NO_PACKETS /\ nreceived <= nsend
    BY <1>1 DEF PING!TypeOK, PacketsOK
  <2>4. nreceived + Cardinality(net) + AtSocket <= nsend - pfaults.send + Extra
    BY <1>1 DEF PacketsOK
  <2>5. AtSocket \in {0, 1}
    BY DEF AtSocket
  <2> QED
    BY <2>1, <2>2, <2>3, <2>4, <2>5
<1>a. UNCHANGED pfaults => Extra' = Extra
  BY DEF Extra
<1>3. CASE PING!SendPacket
  <2>1. /\ ping = "send" /\ nsend < MAX_NO_PACKETS /\ nsend' = nsend + 1
        /\ UNCHANGED <<pid, nreceived, ping, alarm, inbox, rtt, lost>>
    BY <1>3 DEF PING!SendPacket
  <2>2. PING!TypeOK' /\ PING!RttIsRight' /\ PING!LossIsAllOrNone' /\ LoopOK'
    BY <1>1, <1>2, <2>1 DEF PING!TypeOK, PING!RttIsRight, PING!LossIsAllOrNone, LoopOK
  <2>3. CASE \E t \in Stamps : net' = net \cup {PING!pack(nsend', t)} /\ UNCHANGED pfaults
    <3>1. PICK t \in Stamps : net' = net \cup {PING!pack(nsend', t)} /\ UNCHANGED pfaults
      BY <2>3
    <3>2. PING!WordSum(PING!pack(nsend', t).words) % (Word - 1) = 0
      <4>1. pid \in Nat /\ nsend' \in 0 .. MAX_NO_PACKETS
        BY <1>1, <1>2, <2>1 DEF PacketsOK
      <4> HIDE DEF PING!ConstantsOK
      <4> QED
        BY <4>1, ChecksumVerifies
    <3>3. PING!ChecksumsVerify'
      BY <1>1, <3>1, <3>2 DEF PING!ChecksumsVerify
    <3>4. PING!pack(nsend', t).sent = t
      BY DEF PING!pack
    <3>5. IsFiniteSet(net') /\ Cardinality(net') <= Cardinality(net) + 1 /\ Cardinality(net') \in Nat
      <4> DEFINE p == PING!pack(nsend', t)
      <4>1. /\ IsFiniteSet(net \cup {p})
            /\ Cardinality(net \cup {p}) = IF p \in net THEN Cardinality(net) ELSE Cardinality(net) + 1
        BY <1>1, FS_AddElement DEF PacketsOK
      <4> HIDE DEF p
      <4>2. net' = net \cup {p}
        BY <3>1 DEF p
      <4> QED
        BY <1>2, <4>1, <4>2
    <3>6. \A p \in net' : p.sent \in Nat
      BY <1>1, <3>1, <3>4 DEF PacketsOK
    <3>7. AtSocket' = AtSocket
      BY <2>1 DEF AtSocket
    <3>8. nreceived' + Cardinality(net') + AtSocket' <= nsend' - pfaults'.send + Extra'
      BY <1>2, <1>a, <2>1, <3>1, <3>5, <3>7
    <3>9. PacketsOK'
      BY <1>1, <2>1, <3>1, <3>5, <3>6, <3>8 DEF PacketsOK
    <3> QED
      BY <2>2, <3>3, <3>9 DEF PingInv
  <2>4. CASE PING!Fault("send") /\ UNCHANGED net
    <3>1. /\ pfaults' \in [Faulty -> Nat]
          /\ pfaults'.send = pfaults.send + 1 /\ Extra' = Extra
      BY <1>1, <1>2, <2>4, FaultIs DEF Faulty
    <3>2. AtSocket' = AtSocket
      BY <2>1 DEF AtSocket
    <3>3. nreceived' + Cardinality(net') + AtSocket' <= nsend' - pfaults'.send + Extra'
      BY <1>2, <2>1, <2>4, <3>1, <3>2
    <3>4. PacketsOK' /\ PING!ChecksumsVerify'
      BY <1>1, <2>1, <2>4, <3>1, <3>3 DEF PacketsOK, PING!ChecksumsVerify
    <3> QED
      BY <2>2, <3>4 DEF PingInv
  <2> QED
    BY <1>3, <2>3, <2>4 DEF PING!SendPacket
<1>4. CASE PING!SendDone
  BY <1>1, <1>4
  DEF PingInv, PING!SendDone, PING!TypeOK, PING!ChecksumsVerify, PING!RttIsRight, PING!LossIsAllOrNone,
      PacketsOK, LoopOK, AtSocket, Extra
<1>5. CASE PING!SetAlarm
  <2>1. /\ nreceived < nsend /\ ping = "loop" /\ ping' = "receive" /\ alarm' = MAX_WAIT_TIME
        /\ UNCHANGED <<pid, nsend, nreceived, net, inbox, lost, pfaults>>
        /\ rtt'.tv_sec = 0 /\ rtt'.tv_usec = 0 /\ rtt'.real = 0
    BY <1>5 DEF PING!SetAlarm, PING!More, PING!NoTime
  <2>2. PING!RttIsRight'
    BY <2>1 DEF PING!RttIsRight
  <2> QED
    BY <1>1, <2>1, <2>2
    DEF PingInv, PING!TypeOK, PING!ChecksumsVerify, PING!LossIsAllOrNone, PacketsOK, LoopOK, AtSocket, Extra
<1>6. ASSUME PING!statistics, ping # "send", ping # "ended"
      PROVE  PingInv'
  <2>1. /\ ping' = "ended" /\ alarm' = 0 /\ lost' = ((nsend - nreceived) \div nsend) * 100
        /\ UNCHANGED <<pid, nsend, nreceived, net, inbox, rtt, pfaults>>
    BY <1>6 DEF PING!statistics
  <2>2. nsend = MAX_NO_PACKETS /\ nsend \in Nat \ {0}
    BY <1>1, <1>6 DEF LoopOK
  <2>3. lost' = IF nreceived = 0 THEN 100 ELSE 0
    <3>1. CASE nreceived = 0
      <4>1. nsend = nsend * 1 + 0 /\ 0 \in 0 .. nsend - 1 /\ nsend \in Int
        BY <2>2
      <4>2. nsend \div nsend = 1
        BY <2>2, <4>1, DivModIs
      <4>3. nsend - nreceived = nsend
        BY <2>2, <3>1
      <4> QED
        BY <2>1, <3>1, <4>2, <4>3
    <3>2. CASE nreceived # 0
      <4> DEFINE a == nsend - nreceived
      <4>1. a \in 0 .. nsend - 1 /\ a = nsend * 0 + a /\ a \in Int
        BY <1>2, <2>2, <3>2
      <4> HIDE DEF a
      <4>2. a \div nsend = 0
        BY <2>2, <4>1, DivModIs
      <4>3. lost' = (a \div nsend) * 100
        BY <2>1 DEF a
      <4> QED
        BY <3>2, <4>2, <4>3
    <3> QED
      BY <3>1, <3>2
  <2>4. PING!TypeOK' /\ PING!LossIsAllOrNone'
    BY <1>1, <2>1, <2>3 DEF PING!TypeOK, PING!LossIsAllOrNone
  <2> QED
    BY <1>1, <2>1, <2>2, <2>4
    DEF PingInv, PING!ChecksumsVerify, PING!RttIsRight, PacketsOK, LoopOK, AtSocket, Extra
<1>7. CASE PING!LoopDone
  BY <1>6, <1>7 DEF PING!LoopDone
<1>8. CASE PING!RecvFrom
  BY <1>1, <1>8
  DEF PingInv, PING!RecvFrom, PING!TypeOK, PING!ChecksumsVerify, PING!RttIsRight, PING!LossIsAllOrNone,
      PacketsOK, LoopOK, AtSocket, Extra
<1>9. CASE PING!RecvFails
  <2>1. /\ ping = "receive" /\ ping' = "loop" /\ PING!Fault("receive")
        /\ UNCHANGED <<pid, nsend, nreceived, alarm, net, inbox, rtt, lost>>
    BY <1>9 DEF PING!RecvFails
  <2>2. /\ pfaults' \in [Faulty -> Nat]
        /\ pfaults'.send = pfaults.send /\ Extra' = Extra
    BY <1>1, <1>2, <2>1, FaultIs DEF Faulty
  <2> QED
    BY <1>1, <2>1, <2>2
    DEF PingInv, PING!TypeOK, PING!ChecksumsVerify, PING!RttIsRight, PING!LossIsAllOrNone,
        PacketsOK, LoopOK, AtSocket, Extra
<1>10. CASE PING!unpack
  <2>1. /\ ping = "unpack" /\ ping' = "loop" /\ inbox' = PING!Nothing /\ inbox'.kind = "none"
        /\ UNCHANGED <<pid, nsend, alarm, net, lost, pfaults>>
    BY <1>10 DEF PING!unpack, PING!Nothing
  <2>2. nreceived < nsend
    BY <1>1, <2>1 DEF LoopOK
  <2>3. CASE inbox.kind = "reply" /\ inbox.icmp_id = pid
    <3>1. nreceived' \in {nreceived, nreceived + 1}
      BY <1>10, <2>3 DEF PING!unpack
    <3>2. PICK t \in Stamps : rtt' = PING!tv_sub(t, inbox.sent)
      BY <1>10, <2>3 DEF PING!unpack
    <3>3. t \in Nat /\ inbox.sent \in Nat
      BY <1>1, <2>3 DEF PacketsOK
    <3>4. /\ rtt'.tv_sec \in Int /\ rtt'.tv_usec \in 0 .. Second - 1 /\ rtt'.real \in Int
          /\ (rtt'.tv_sec * Second) + rtt'.tv_usec = rtt'.real
      BY <3>2, <3>3, DifferenceIs
    <3>5. PING!RttIsRight'
      BY <3>4 DEF PING!RttIsRight
    <3>6. AtSocket = 1 /\ AtSocket' = 0
      BY <2>1, <2>3 DEF AtSocket
    <3>7. nreceived' + Cardinality(net') + AtSocket' <= nsend' - pfaults'.send + Extra'
      BY <1>2, <1>a, <2>1, <3>1, <3>6
    <3>8. PacketsOK'
      BY <1>1, <2>1, <3>4, <3>7 DEF PacketsOK
    <3>9. PING!TypeOK' /\ PING!LossIsAllOrNone' /\ LoopOK' /\ PING!ChecksumsVerify'
      BY <1>1, <1>2, <2>1, <2>2, <3>1
      DEF PING!TypeOK, PING!LossIsAllOrNone, LoopOK, PING!ChecksumsVerify
    <3> QED
      BY <3>5, <3>8, <3>9 DEF PingInv
  <2>4. CASE ~ (inbox.kind = "reply" /\ inbox.icmp_id = pid)
    <3>1. UNCHANGED <<nreceived, rtt>>
      BY <1>10, <2>4 DEF PING!unpack
    <3>2. AtSocket' = 0
      BY <2>1 DEF AtSocket
    <3>3. nreceived' + Cardinality(net') + AtSocket' <= nsend' - pfaults'.send + Extra'
      BY <1>2, <1>a, <2>1, <3>1, <3>2
    <3>4. PacketsOK'
      BY <1>1, <2>1, <3>1, <3>3 DEF PacketsOK
    <3> QED
      BY <1>1, <2>1, <3>1, <3>4
      DEF PingInv, PING!TypeOK, PING!ChecksumsVerify, PING!RttIsRight, PING!LossIsAllOrNone, LoopOK
  <2> QED
    BY <2>3, <2>4
<1>11. CASE PING!Tick
  <2>1. alarm > 0 /\ ping # "send" /\ ping # "ended"
    BY <1>1, <1>11 DEF PING!Tick, LoopOK, PING!TypeOK
  <2>2. CASE alarm = 1
    BY <1>6, <1>11, <2>1, <2>2 DEF PING!Tick
  <2>3. CASE alarm # 1
    <3>1. alarm' = alarm - 1 /\ UNCHANGED <<pid, nsend, nreceived, ping, net, inbox, rtt, lost, pfaults>>
      BY <1>11, <2>3 DEF PING!Tick
    <3> QED
      BY <1>1, <2>1, <2>3, <3>1
      DEF PingInv, PING!TypeOK, PING!ChecksumsVerify, PING!RttIsRight, PING!LossIsAllOrNone,
          PacketsOK, LoopOK, AtSocket, Extra
  <2> QED
    BY <2>2, <2>3
<1>12. CASE PING!Reply
  <2>1. /\ inbox = PING!Nothing /\ ping # "ended"
        /\ UNCHANGED <<pid, nsend, nreceived, ping, alarm, rtt, lost>>
    BY <1>12 DEF PING!Reply
  <2>2. PICK p \in net :
          /\ inbox' = [kind |-> "reply", icmp_id |-> p.words[3], sent |-> p.sent]
          /\ \/ net' = net \ {p} /\ UNCHANGED pfaults
             \/ PING!Fault("twice") /\ UNCHANGED net
    BY <1>12 DEF PING!Reply
  <2>3. inbox'.kind = "reply" /\ inbox'.sent = p.sent /\ AtSocket' = 1 /\ AtSocket = 0
    BY <2>1, <2>2 DEF AtSocket, PING!Nothing
  <2>4. /\ pfaults' \in [Faulty -> Nat] /\ pfaults'.send = pfaults.send
        /\ IsFiniteSet(net') /\ net' \subseteq net /\ Cardinality(net') \in Nat
        /\ Cardinality(net') + 1 - Extra' <= Cardinality(net) - Extra /\ Extra' \in Nat
    <3>1. CASE net' = net \ {p} /\ UNCHANGED pfaults
      <4>1. IsFiniteSet(net \ {p}) /\ Cardinality(net \ {p}) = Cardinality(net) - 1
        BY <1>1, FS_RemoveElement DEF PacketsOK
      <4>2. net' \subseteq net /\ IsFiniteSet(net') /\ Cardinality(net') = Cardinality(net) - 1
        BY <3>1, <4>1
      <4>3. Cardinality(net') \in Nat
        BY <4>2, FS_CardinalityType
      <4> QED
        BY <1>1, <1>2, <1>a, <3>1, <4>2, <4>3 DEF PacketsOK
    <3>2. CASE PING!Fault("twice") /\ UNCHANGED net
      <4>1. /\ pfaults' \in [Faulty -> Nat]
            /\ pfaults'.send = pfaults.send /\ Extra' = Extra + 1
        BY <1>1, <3>2, FaultIs DEF Faulty
      <4> QED
        BY <1>1, <1>2, <3>2, <4>1 DEF PacketsOK
    <3> QED
      BY <2>2, <3>1, <3>2
  <2>5. nreceived' + Cardinality(net') + AtSocket' <= nsend' - pfaults'.send + Extra'
    <3> QED
      BY <1>2, <2>1, <2>3, <2>4
  <2>6. PacketsOK'
    BY <1>1, <2>1, <2>2, <2>3, <2>4, <2>5 DEF PacketsOK
  <2> QED
    BY <1>1, <2>1, <2>3, <2>4, <2>6
    DEF PingInv, PING!TypeOK, PING!ChecksumsVerify, PING!RttIsRight, PING!LossIsAllOrNone, LoopOK
<1>13. CASE PING!Other
  <2>1. /\ inbox.kind = "none" /\ ping # "ended"
        /\ UNCHANGED <<pid, nsend, nreceived, ping, alarm, net, rtt, lost>>
    BY <1>13 DEF PING!Other, PING!Nothing
  <2>2. CASE inbox' = [kind |-> "other"] /\ UNCHANGED pfaults
    <3>1. inbox'.kind = "other"
      BY <2>2
    <3> QED
      BY <1>1, <2>1, <2>2, <3>1
      DEF PingInv, PING!TypeOK, PING!ChecksumsVerify, PING!RttIsRight, PING!LossIsAllOrNone,
          PacketsOK, LoopOK, AtSocket, Extra
  <2>3. ASSUME PING!Fault("foreign"), NEW t \in Stamps,
               inbox' = [kind |-> "reply", icmp_id |-> pid, sent |-> t]
        PROVE  PingInv'
    <3>1. /\ pfaults' \in [Faulty -> Nat]
          /\ pfaults'.send = pfaults.send /\ Extra' = Extra + 1
      BY <1>1, <2>3, FaultIs DEF Faulty
    <3>2. inbox'.kind = "reply" /\ inbox'.sent \in Nat /\ AtSocket = 0 /\ AtSocket' = 1
      BY <2>1, <2>3 DEF AtSocket
    <3>3. nreceived' + Cardinality(net') + AtSocket' <= nsend' - pfaults'.send + Extra'
      BY <1>2, <2>1, <3>1, <3>2
    <3>4. PacketsOK'
      BY <1>1, <2>1, <3>1, <3>2, <3>3 DEF PacketsOK
    <3> QED
      BY <1>1, <2>1, <3>2, <3>4
      DEF PingInv, PING!TypeOK, PING!ChecksumsVerify, PING!RttIsRight, PING!LossIsAllOrNone, LoopOK
  <2> QED
    BY <1>13, <2>2, <2>3 DEF PING!Other
<1>14. CASE UNCHANGED pingVars
  BY <1>1, <1>14
  DEF PingInv, pingVars, PING!TypeOK, PING!ChecksumsVerify, PING!RttIsRight, PING!LossIsAllOrNone,
      PacketsOK, LoopOK, AtSocket, Extra
<1> QED
  BY <1>3, <1>4, <1>5, <1>7, <1>8, <1>9, <1>10, <1>11, <1>12, <1>13, <1>14
  DEF PING!Next, PING!Program

\* What is counted, without what is at the socket; and the rest.
LEMMA PingSoundIs == PingInv => PING!Sound
<1> SUFFICES ASSUME PingInv PROVE PING!Sound
  OBVIOUS
<1>1. PING!Cardinality(net) = Cardinality(net)
  BY DEF PING!Cardinality, Cardinality
<1>2. Cardinality(net) \in Nat /\ nreceived \in Int /\ nsend \in Int
      /\ pfaults.send \in Nat /\ pfaults.twice \in Nat /\ pfaults.foreign \in Nat
      /\ AtSocket \in {0, 1}
      /\ nreceived + Cardinality(net) + AtSocket <= nsend - pfaults.send + Extra
  BY FS_CardinalityType DEF PingInv, PacketsOK, AtSocket, PING!TypeOK, Faulty
<1>3. PING!CountsAreReal
  BY <1>1, <1>2 DEF PING!CountsAreReal, Extra
<1> QED
  BY <1>3 DEF PingInv, PING!Sound


-----------------------------------------------------------------------------
(* httpparse.cpp.                                                          *)

\* The first t bytes are parsed: they end a line, and nothing in them decides the answer.
Settled(s, t) ==
    /\ t \in 0 .. Len(s)
    /\ t > 0 => t - 1 \in HTTP!Breaks(s)
    /\ \A k \in HTTP!BadFrom(s) \cup HTTP!DoneAt(s) : k > t

\* No byte from place t up to c ends a line.
Clean(s, t, c) == \A k \in t + 1 .. c : s[k] \notin {HTTP!CR, HTTP!LF}

\* What is not parsed yet is in the buffer as it was received.
BufferOK ==
    /\ read_index = Len(received) /\ checked_index <= read_index
    /\ checkstate = "requestline" <=> start_line = 0
    /\ start_line > 0 => buffer[start_line - 1] = HTTP!Nul
    /\ \A k \in start_line .. read_index - 1 : buffer[k] = received[k + 1]
    /\ Clean(received, start_line, checked_index)
    /\ Settled(received, start_line)

Plainly == Seq(HTTP!Bytes \ {HTTP!Nul})

ParseInv ==
    /\ HTTP!TypeOK
    /\ wire \in Plainly /\ received \in Plainly
    /\ pc \in {"recv", "parse"} => answer = "none" /\ (wrapped \/ BufferOK)
    /\ HTTP!AnswerIsVerdict

\* The smallest of some numbers, when there is one.
LEMMA LeastIs ==
  ASSUME NEW S, S \subseteq Nat, S # {}
  PROVE  HTTP!Least(S) \in S /\ \A k \in S : HTTP!Least(S) <= k
<1> DEFINE R == OpToRel(<, Nat)
<1>1. IsWellFoundedOn(R, Nat)
  BY NatLessThanWellFounded
<1>2. R = {r \in Nat \X Nat : r[1] < r[2]}
  BY DEF OpToRel
<1> HIDE DEF R
<1>3. PICK m \in S : \A k \in S : ~ (<<k, m>> \in R)
  BY <1>1, WFMin
<1>4. ASSUME NEW k \in S PROVE m <= k
  <2>1. k \in Nat /\ m \in Nat /\ <<k, m>> \notin R
    BY <1>3
  <2>2. ~ (k < m)
    BY <1>2, <2>1
  <2> QED
    BY <2>1, <2>2
<1> QED
  BY <1>4 DEF HTTP!Least

\* What a part of a sequence is.
LEMMA PartIs ==
  ASSUME NEW S, NEW s \in Seq(S), NEW a \in Nat \ {0}, NEW b \in 0 .. Len(s), a <= b + 1
  PROVE  /\ SubSeq(s, a, b) \in Seq(S) /\ Len(SubSeq(s, a, b)) = (b - a) + 1
         /\ \A k \in 1 .. (b - a) + 1 : SubSeq(s, a, b)[k] = s[a + k - 1]
<1>1. \A k \in a .. b : s[k] \in S
  OBVIOUS
<1>2. a \in Int /\ b \in Int /\ (IF a <= b THEN b - a + 1 ELSE 0) = (b - a) + 1
  OBVIOUS
<1>3. \A k \in Int : a + k - 1 = (a + k) - 1
  OBVIOUS
<1>4. /\ SubSeq(s, a, b) \in Seq(S)
      /\ Len(SubSeq(s, a, b)) = IF a <= b THEN b - a + 1 ELSE 0
      /\ \A k \in 1 .. b - a + 1 : SubSeq(s, a, b)[k] = s[a + k - 1]
  BY <1>1, <1>2, SubSeqProperties
<1> QED
  BY <1>2, <1>4

\* A sequence of one.
LEMMA SingleIs ==
  ASSUME NEW S, NEW s \in Seq(S), NEW x
  PROVE  s = <<x>> <=> Len(s) = 1 /\ s[1] = x
<1>1. ASSUME Len(s) = 1, s[1] = x PROVE s = <<x>>
  BY <1>1
<1> QED
  BY <1>1

\* An address, and blanks only, at places of a line.
AddressAt(s, a, z) ==
    /\ a < z /\ \A k \in a .. z - 1 : s[k] # HTTP!Blank
    /\ \/ s[a] = HTTP!Slash
       \/ s[a] = HTTP!Http /\ \E k \in a + 1 .. z - 1 : s[k] \in HTTP!HasSlash
BlanksAt(s, a, z) == \A k \in a .. z : s[k] = HTTP!Blank

\* A request line with its address from a + 1 to z - 1: what both say of it.
Shape(s, a, z) ==
    /\ a \in 2 .. Len(s) /\ z \in 2 .. Len(s)
    /\ a < z /\ z < Len(s)
    /\ s[1] = HTTP!Get /\ BlanksAt(s, 2, a) /\ AddressAt(s, a + 1, z)
    /\ BlanksAt(s, z, Len(s) - 1) /\ s[Len(s)] = HTTP!Version

\* The words of a line are different from each other.
LEMMA WordsDiffer ==
    HTTP!Blank \notin {HTTP!Get, HTTP!Http, HTTP!Slash, HTTP!Version, HTTP!CR, HTTP!LF}
BY DEF HTTP!Blank, HTTP!Get, HTTP!Http, HTTP!Slash, HTTP!Version, HTTP!CR, HTTP!LF

\* What the parts of a line are, at its places.
LEMMA RequestParts ==
  ASSUME NEW S, NEW s \in Seq(S), NEW b \in 2 .. Len(s), NEW u \in 2 .. Len(s),
         NEW v \in 2 .. Len(s), b < u, u < v, NEW a \in b .. u - 1
  PROVE  /\ SubSeq(s, 1, b - 1) = <<HTTP!Get>> <=> b = 2 /\ s[1] = HTTP!Get
         /\ HTTP!BlankRun(SubSeq(s, b, a)) <=> BlanksAt(s, b, a)
         /\ HTTP!Address(SubSeq(s, a + 1, u - 1)) <=> AddressAt(s, a + 1, u)
         /\ HTTP!BlankRun(SubSeq(s, u, v - 1)) <=> BlanksAt(s, u, v - 1)
<1> DEFINE p == SubSeq(s, 1, b - 1)
           q == SubSeq(s, b, a)
           r == SubSeq(s, a + 1, u - 1)
           t == SubSeq(s, u, v - 1)
<1>1. p \in Seq(S) /\ Len(p) = b - 1 /\ \A k \in 1 .. b - 1 : p[k] = s[k]
  BY PartIs
<1>2. q \in Seq(S) /\ Len(q) = (a - b) + 1 /\ \A k \in 1 .. (a - b) + 1 : q[k] = s[b + k - 1]
  BY PartIs
<1>3. /\ r \in Seq(S) /\ Len(r) = (u - 1) - a
      /\ \A k \in 1 .. (u - 1) - a : r[k] = s[a + k]
  <2>1. /\ r \in Seq(S) /\ Len(r) = ((u - 1) - (a + 1)) + 1
        /\ \A k \in 1 .. ((u - 1) - (a + 1)) + 1 : r[k] = s[(a + 1) + k - 1]
    BY PartIs
  <2> QED
    BY <2>1
<1>4. t \in Seq(S) /\ Len(t) = v - u /\ \A k \in 1 .. v - u : t[k] = s[u + k - 1]
  <2>1. /\ t \in Seq(S) /\ Len(t) = ((v - 1) - u) + 1
        /\ \A k \in 1 .. ((v - 1) - u) + 1 : t[k] = s[u + k - 1]
    BY PartIs
  <2> QED
    BY <2>1
<1> HIDE DEF p, q, r, t
<1>5. p = <<HTTP!Get>> <=> b = 2 /\ s[1] = HTTP!Get
  <2>1. p[1] = s[1] /\ (Len(p) = 1 <=> b = 2)
    BY <1>1
  <2>2. p = <<HTTP!Get>> <=> Len(p) = 1 /\ p[1] = HTTP!Get
    BY <1>1, SingleIs
  <2> QED
    BY <2>1, <2>2
<1>6. HTTP!BlankRun(q) <=> BlanksAt(s, b, a)
  <2>1. q # <<>> /\ DOMAIN q = 1 .. (a - b) + 1
    BY <1>2
  <2>2. ASSUME NEW k \in b .. a, \A j \in DOMAIN q : q[j] = HTTP!Blank
        PROVE  s[k] = HTTP!Blank
    <3>1. (k - b) + 1 \in 1 .. (a - b) + 1 /\ b + ((k - b) + 1) - 1 = k
      OBVIOUS
    <3> QED
      BY <1>2, <2>1, <2>2, <3>1
  <2> QED
    BY <1>2, <2>1, <2>2, SMTT(30) DEF HTTP!BlankRun, BlanksAt
<1>7. HTTP!BlankRun(t) <=> BlanksAt(s, u, v - 1)
  <2>1. t # <<>> /\ DOMAIN t = 1 .. v - u
    BY <1>4
  <2>2. ASSUME NEW k \in u .. v - 1, \A j \in DOMAIN t : t[j] = HTTP!Blank
        PROVE  s[k] = HTTP!Blank
    <3>1. (k - u) + 1 \in 1 .. v - u /\ u + ((k - u) + 1) - 1 = k
      OBVIOUS
    <3> QED
      BY <1>4, <2>1, <2>2, <3>1
  <2>3. ASSUME NEW j \in DOMAIN t PROVE u + j - 1 \in u .. v - 1 /\ t[j] = s[u + j - 1]
    BY <1>4, <2>1
  <2> QED
    BY <2>1, <2>2, <2>3 DEF HTTP!BlankRun, BlanksAt
<1>8. HTTP!Address(r) <=> AddressAt(s, a + 1, u)
  <2>1. DOMAIN r = 1 .. (u - 1) - a /\ a \in Int /\ u \in Int
    BY <1>3
  <2>2. (\A j \in DOMAIN r : r[j] # HTTP!Blank) <=> \A k \in a + 1 .. u - 1 : s[k] # HTTP!Blank
    <3>1. ASSUME NEW k \in a + 1 .. u - 1 PROVE k - a \in DOMAIN r /\ r[k - a] = s[k]
      BY <1>3, <2>1
    <3>2. ASSUME NEW j \in DOMAIN r PROVE a + j \in a + 1 .. u - 1 /\ r[j] = s[a + j]
      BY <1>3, <2>1
    <3> QED
      BY <3>1, <3>2
  <2>3. Len(r) > 0 => r[1] = s[a + 1]
    BY <1>3, <2>1
  <2>4. Len(r) > 0 <=> a + 1 < u
    BY <1>3, <2>1
  <2>5. ({r[j] : j \in 2 .. Len(r)} \cap HTTP!HasSlash # {}) <=>
           \E k \in (a + 1) + 1 .. u - 1 : s[k] \in HTTP!HasSlash
    <3>1. ASSUME NEW k \in (a + 1) + 1 .. u - 1 PROVE k - a \in 2 .. Len(r) /\ r[k - a] = s[k]
      BY <1>3, <2>1, SMTT(30)
    <3>2. ASSUME NEW j \in 2 .. Len(r) PROVE a + j \in (a + 1) + 1 .. u - 1 /\ r[j] = s[a + j]
      BY <1>3, <2>1
    <3> QED
      BY <3>1, <3>2, SMTT(30)
  <2>6. (\E k \in (a + 1) + 1 .. u - 1 : s[k] \in HTTP!HasSlash) => Len(r) > 1
    BY <1>3, <2>1
  <2> QED
    BY <2>2, <2>3, <2>4, <2>5, <2>6, <1>3 DEF HTTP!Address, AddressAt
<1> QED
  BY <1>5, <1>6, <1>7, <1>8 DEF p, q, r, t

\* The definition of a request line on the bytes is its shape.
LEMMA RequestShape ==
  ASSUME NEW S, NEW s \in Seq(S)
  PROVE  HTTP!RequestLine(s) <=> \E a, z \in 2 .. Len(s) : Shape(s, a, z)
<1>1. ASSUME HTTP!RequestLine(s) PROVE \E a, z \in 2 .. Len(s) : Shape(s, a, z)
  <2>1. PICK b \in 2 .. Len(s), u \in 2 .. Len(s), v \in 2 .. Len(s) :
          /\ b < u /\ u < v /\ v = Len(s)
          /\ SubSeq(s, 1, b - 1) = <<HTTP!Get>>
          /\ \E a \in b .. (u - 1) : /\ HTTP!BlankRun(SubSeq(s, b, a))
                                     /\ HTTP!Address(SubSeq(s, a + 1, u - 1))
          /\ HTTP!BlankRun(SubSeq(s, u, v - 1)) /\ s[v] = HTTP!Version
    BY <1>1 DEF HTTP!RequestLine
  <2>2. PICK a \in b .. u - 1 : /\ HTTP!BlankRun(SubSeq(s, b, a))
                                /\ HTTP!Address(SubSeq(s, a + 1, u - 1))
    BY <2>1
  <2>3. b < u /\ u < v
    BY <2>1
  <2>4. /\ b = 2 /\ s[1] = HTTP!Get /\ BlanksAt(s, b, a) /\ AddressAt(s, a + 1, u)
        /\ BlanksAt(s, u, v - 1)
    BY <2>1, <2>2, <2>3, RequestParts
  <2>5. a \in 2 .. Len(s) /\ a < u /\ u < Len(s)
    BY <2>1, <2>4
  <2>6. Shape(s, a, u)
    BY <2>1, <2>4, <2>5 DEF Shape
  <2> QED
    BY <2>5, <2>6
<1>2. ASSUME NEW a \in 2 .. Len(s), NEW z \in 2 .. Len(s), Shape(s, a, z)
      PROVE  HTTP!RequestLine(s)
  <2> DEFINE b == 2
             v == Len(s)
  <2>1. /\ b \in 2 .. Len(s) /\ v \in 2 .. Len(s) /\ b < z /\ z < v /\ v = Len(s)
        /\ a \in b .. z - 1
    BY <1>2 DEF Shape
  <2>2. /\ b = 2 /\ s[1] = HTTP!Get /\ BlanksAt(s, b, a) /\ AddressAt(s, a + 1, z)
        /\ BlanksAt(s, z, v - 1) /\ s[v] = HTTP!Version
    BY <1>2 DEF Shape
  <2> HIDE DEF b, v
  <2>3. /\ SubSeq(s, 1, b - 1) = <<HTTP!Get>> /\ HTTP!BlankRun(SubSeq(s, b, a))
        /\ HTTP!Address(SubSeq(s, a + 1, z - 1)) /\ HTTP!BlankRun(SubSeq(s, z, v - 1))
    BY <2>1, <2>2, RequestParts
  <2> QED
    BY <2>1, <2>2, <2>3 DEF HTTP!RequestLine
<1> QED
  BY <1>1, <1>2

\* What is left of a sequence from a place on, and from a later one.
LEMMA FromIs ==
  ASSUME NEW S, NEW s \in Seq(S), NEW a \in 0 .. Len(s)
  PROVE  /\ HTTP!From(s, a + 1) \in Seq(S) /\ Len(HTTP!From(s, a + 1)) = Len(s) - a
         /\ \A k \in 1 .. Len(s) - a : HTTP!From(s, a + 1)[k] = s[a + k]
<1> DEFINE r == SubSeq(s, a + 1, Len(s))
<1>1. /\ r \in Seq(S) /\ Len(r) = (Len(s) - (a + 1)) + 1
      /\ \A k \in 1 .. (Len(s) - (a + 1)) + 1 : r[k] = s[(a + 1) + k - 1]
  BY PartIs
<1> HIDE DEF r
<1>2. (Len(s) - (a + 1)) + 1 = Len(s) - a
  OBVIOUS
<1>3. ASSUME NEW k \in 1 .. Len(s) - a PROVE r[k] = s[a + k]
  <2>1. (a + 1) + k - 1 = a + k
    OBVIOUS
  <2> QED
    BY <1>1, <1>2, <2>1
<1> QED
  BY <1>1, <1>2, <1>3 DEF HTTP!From, r

\* What is left of what is left is what is left after both.
LEMMA FromLater ==
  ASSUME NEW S, NEW s \in Seq(S), NEW a \in 0 .. Len(s), NEW v \in 0 .. Len(s) - a
  PROVE  HTTP!From(HTTP!From(s, a + 1), v + 1) = HTTP!From(s, (a + v) + 1)
<1> DEFINE r == HTTP!From(s, a + 1)
           g == HTTP!From(r, v + 1)
           h == HTTP!From(s, (a + v) + 1)
<1>1. r \in Seq(S) /\ Len(r) = Len(s) - a /\ \A k \in 1 .. Len(s) - a : r[k] = s[a + k]
  BY FromIs
<1>2. g \in Seq(S) /\ Len(g) = Len(r) - v /\ \A k \in 1 .. Len(r) - v : g[k] = r[v + k]
  <2> HIDE DEF r
  <2>1. v \in 0 .. Len(r)
    BY <1>1
  <2> QED
    BY <1>1, <2>1, FromIs, ZenonT(40)
<1>3. a + v \in 0 .. Len(s)
  OBVIOUS
<1>4. /\ h \in Seq(S) /\ Len(h) = Len(s) - (a + v)
      /\ \A k \in 1 .. Len(s) - (a + v) : h[k] = s[(a + v) + k]
  BY <1>3, FromIs
<1> HIDE DEF r, g, h
<1>5. Len(g) = Len(h) /\ \A k \in 1 .. Len(g) : g[k] = h[k]
  <2>1. Len(g) = Len(h)
    BY <1>1, <1>2, <1>4
  <2>2. ASSUME NEW k \in 1 .. Len(g) PROVE g[k] = h[k]
    <3>1. /\ k \in 1 .. Len(r) - v /\ v + k \in 1 .. Len(s) - a
          /\ k \in 1 .. Len(s) - (a + v) /\ a + (v + k) = (a + v) + k
      BY <1>1, <1>2
    <3> QED
      BY <1>1, <1>2, <1>4, <3>1
  <2> QED
    BY <2>1, <2>2
<1>6. g = h
  BY <1>2, <1>4, <1>5, SeqEqual
<1> QED
  BY <1>6 DEF g, h, r

\* It is one word when that is the last of the sequence.
LEMMA LastWord ==
  ASSUME NEW S, NEW s \in Seq(S), NEW a \in 0 .. Len(s), NEW x
  PROVE  HTTP!From(s, a + 1) = <<x>> <=> a + 1 = Len(s) /\ s[a + 1] = x
<1> DEFINE r == HTTP!From(s, a + 1)
<1>1. r \in Seq(S) /\ Len(r) = Len(s) - a /\ \A k \in 1 .. Len(s) - a : r[k] = s[a + k]
  BY FromIs
<1> HIDE DEF r
<1>2. r = <<x>> <=> Len(r) = 1 /\ r[1] = x
  BY <1>1, SingleIs
<1>3. Len(r) = 1 <=> a + 1 = Len(s)
  BY <1>1
<1>4. Len(r) = 1 => r[1] = s[a + 1]
  <2>1. ASSUME Len(r) = 1 PROVE Len(s) - a = 1
    BY <2>1, <1>1
  <2>2. ASSUME Len(s) - a = 1 PROVE r[1] = s[a + 1]
    <3>1. 1 \in 1 .. Len(s) - a
      BY <2>2
    <3> QED
      BY <1>1, <3>1
  <2> QED
    BY <2>1, <2>2
<1> QED
  BY <1>2, <1>3, <1>4 DEF r

\* Where strpbrk and strspn stop.
LEMMA FirstAt ==
  ASSUME NEW S, NEW s \in Seq(S), NEW a \in 0 .. Len(s), NEW p \in Nat \ {0}
  PROVE  /\ p \in HTTP!FirstBlank(HTTP!From(s, a + 1)) <=>
              /\ a + p <= Len(s) /\ s[a + p] = HTTP!Blank
              /\ \A k \in a + 1 .. (a + p) - 1 : s[k] # HTTP!Blank
         /\ p \in HTTP!FirstOther(HTTP!From(s, a + 1)) <=>
              /\ a + p <= Len(s) /\ s[a + p] # HTTP!Blank
              /\ BlanksAt(s, a + 1, (a + p) - 1)
<1> DEFINE r == HTTP!From(s, a + 1)
<1>1. r \in Seq(S) /\ Len(r) = Len(s) - a /\ \A k \in 1 .. Len(s) - a : r[k] = s[a + k]
  BY FromIs
<1> HIDE DEF r
<1>2. DOMAIN r = 1 .. Len(s) - a /\ (p \in DOMAIN r <=> a + p <= Len(s))
  BY <1>1
<1>3. ASSUME p \in DOMAIN r
      PROVE  /\ r[p] = s[a + p]
             /\ \A j \in 1 .. p - 1 : a + j \in a + 1 .. (a + p) - 1 /\ r[j] = s[a + j]
             /\ \A k \in a + 1 .. (a + p) - 1 : k - a \in 1 .. p - 1 /\ r[k - a] = s[k]
  <2>1. r[p] = s[a + p]
    BY <1>1, <1>2, <1>3
  <2>2. ASSUME NEW j \in 1 .. p - 1 PROVE a + j \in a + 1 .. (a + p) - 1 /\ r[j] = s[a + j]
    BY <1>1, <1>2, <1>3
  <2>3. ASSUME NEW k \in a + 1 .. (a + p) - 1 PROVE k - a \in 1 .. p - 1 /\ r[k - a] = s[k]
    BY <1>1, <1>2, <1>3
  <2> QED
    BY <2>1, <2>2, <2>3
<1>4. p \in HTTP!FirstBlank(r) <=>
        /\ a + p <= Len(s) /\ s[a + p] = HTTP!Blank
        /\ \A k \in a + 1 .. (a + p) - 1 : s[k] # HTTP!Blank
  <2>1. CASE p \in DOMAIN r
    <3>1. (\A j \in 1 .. p - 1 : r[j] # HTTP!Blank) <=>
             \A k \in a + 1 .. (a + p) - 1 : s[k] # HTTP!Blank
      BY <1>3, <2>1
    <3> QED
      BY <1>2, <1>3, <2>1, <3>1 DEF HTTP!FirstBlank
  <2>2. CASE p \notin DOMAIN r
    BY <1>2, <2>2 DEF HTTP!FirstBlank
  <2> QED
    BY <2>1, <2>2
<1>5. p \in HTTP!FirstOther(r) <=>
        /\ a + p <= Len(s) /\ s[a + p] # HTTP!Blank
        /\ BlanksAt(s, a + 1, (a + p) - 1)
  <2>1. CASE p \in DOMAIN r
    <3>1. (\A j \in 1 .. p - 1 : r[j] = HTTP!Blank) <=> BlanksAt(s, a + 1, (a + p) - 1)
      BY <1>3, <2>1 DEF BlanksAt
    <3> QED
      BY <1>2, <1>3, <2>1, <3>1 DEF HTTP!FirstOther
  <2>2. CASE p \notin DOMAIN r
    BY <1>2, <2>2 DEF HTTP!FirstOther
  <2> QED
    BY <2>1, <2>2
<1> QED
  BY <1>4, <1>5 DEF r

\* The address is the one between two places.
LEMMA UrlIs ==
  ASSUME NEW S, NEW s \in Seq(S), NEW a \in 0 .. Len(s), NEW v \in 1 .. Len(s) - a,
         \A k \in a + 1 .. (a + v) - 1 : s[k] # HTTP!Blank
  PROVE  HTTP!GoodURL(SubSeq(HTTP!From(s, a + 1), 1, v - 1)) <=> AddressAt(s, a + 1, a + v)
<1> DEFINE r == HTTP!From(s, a + 1)
           url == SubSeq(r, 1, v - 1)
<1>1. r \in Seq(S) /\ Len(r) = Len(s) - a /\ \A k \in 1 .. Len(s) - a : r[k] = s[a + k]
  BY FromIs
<1> HIDE DEF r
<1>2. url \in Seq(S) /\ Len(url) = v - 1 /\ \A k \in 1 .. v - 1 : url[k] = r[k]
  <2>1. 1 \in Nat \ {0} /\ v - 1 \in 0 .. Len(r) /\ 1 <= (v - 1) + 1
    BY <1>1
  <2>2. /\ url \in Seq(S) /\ Len(url) = ((v - 1) - 1) + 1
        /\ \A k \in 1 .. ((v - 1) - 1) + 1 : url[k] = r[1 + k - 1]
    BY <1>1, <2>1, PartIs
  <2> QED
    BY <2>2
<1> HIDE DEF url
<1>3. \A k \in 1 .. v - 1 : url[k] = s[a + k]
  BY <1>1, <1>2
<1>4. url # <<>> <=> a + 1 < a + v
  BY <1>2
<1>5. url # <<>> => url[1] = s[a + 1]
  BY <1>2, <1>3
<1>6. (\E j \in 2 .. Len(url) : url[j] \in HTTP!HasSlash) <=>
         \E k \in (a + 1) + 1 .. (a + v) - 1 : s[k] \in HTTP!HasSlash
  <2>1. ASSUME NEW j \in 2 .. Len(url)
        PROVE  a + j \in (a + 1) + 1 .. (a + v) - 1 /\ url[j] = s[a + j]
    BY <1>2, <1>3
  <2>2. ASSUME NEW k \in (a + 1) + 1 .. (a + v) - 1
        PROVE  k - a \in 2 .. Len(url) /\ url[k - a] = s[k]
    BY <1>2, <1>3
  <2> QED
    BY <2>1, <2>2
<1>7. HTTP!GoodURL(url) <=> AddressAt(s, a + 1, a + v)
  BY <1>4, <1>5, <1>6 DEF HTTP!GoodURL, AddressAt
<1> QED
  BY <1>7 DEF url, r

\* What parse_requestline takes for a request line is the same.
LEMMA ParserShape ==
  ASSUME NEW S, NEW s \in Seq(S)
  PROVE  HTTP!parse_requestline(s) <=> \E a, z \in 2 .. Len(s) : Shape(s, a, z)
<1>1. HTTP!From(s, 0 + 1) = s
  BY SubSeqFull DEF HTTP!From
<1>2. ASSUME NEW m \in Nat \ {0}
      PROVE  /\ m \in HTTP!FirstBlank(s) <=>
                  /\ m <= Len(s) /\ s[m] = HTTP!Blank /\ \A k \in 1 .. m - 1 : s[k] # HTTP!Blank
             /\ m <= Len(s) => (SubSeq(s, 1, m - 1) = <<HTTP!Get>> <=> m = 2 /\ s[1] = HTTP!Get)
  <2>1. 0 \in 0 .. Len(s)
    OBVIOUS
  <2>2. m \in HTTP!FirstBlank(HTTP!From(s, 0 + 1)) <=>
          /\ 0 + m <= Len(s) /\ s[0 + m] = HTTP!Blank
          /\ \A k \in 0 + 1 .. (0 + m) - 1 : s[k] # HTTP!Blank
    BY <2>1, FirstAt
  <2>3. 0 + m = m /\ 0 + 1 = 1
    OBVIOUS
  <2>4. ASSUME m <= Len(s)
        PROVE  SubSeq(s, 1, m - 1) = <<HTTP!Get>> <=> m = 2 /\ s[1] = HTTP!Get
    <3> DEFINE p == SubSeq(s, 1, m - 1)
    <3>1. 1 \in Nat \ {0} /\ m - 1 \in 0 .. Len(s) /\ 1 <= (m - 1) + 1
      BY <2>4
    <3>2. /\ p \in Seq(S) /\ Len(p) = ((m - 1) - 1) + 1
          /\ \A k \in 1 .. ((m - 1) - 1) + 1 : p[k] = s[1 + k - 1]
      BY <3>1, PartIs
    <3> HIDE DEF p
    <3>3. Len(p) = 1 <=> m = 2
      BY <3>2
    <3>4. m = 2 => p[1] = s[1]
      BY <3>2
    <3>5. p = <<HTTP!Get>> <=> Len(p) = 1 /\ p[1] = HTTP!Get
      BY <3>2, SingleIs
    <3> QED
      BY <3>3, <3>4, <3>5 DEF p
  <2> QED
    BY <1>1, <2>2, <2>3, <2>4
<1>3. ASSUME NEW a \in 2 .. Len(s), NEW z \in 2 .. Len(s), Shape(s, a, z)
      PROVE  HTTP!parse_requestline(s)
  <2> DEFINE u == a - 1
             v == z - a
             w == Len(s) - z
             rest == HTTP!From(s, a + 1)
  <2>1. /\ u \in Nat \ {0} /\ v \in Nat \ {0} /\ w \in Nat \ {0} /\ 2 + u = a + 1
        /\ a + v = z /\ z + w = Len(s) /\ 2 \in 0 .. Len(s) /\ a \in 0 .. Len(s)
        /\ z \in 0 .. Len(s) /\ v \in 1 .. Len(s) - a /\ v \in 0 .. Len(s) - a
        /\ v + w = ((v + w) - 1) + 1 /\ (v + w) - 1 \in 0 .. Len(s) - a
        /\ a + ((v + w) - 1) + 1 = Len(s) /\ a + ((v + w) - 1) \in 0 .. Len(s)
    BY <1>3 DEF Shape
  <2> HIDE DEF u, v, w
  <2>2. /\ s[1] = HTTP!Get /\ s[2] = HTTP!Blank /\ BlanksAt(s, 2 + 1, (2 + u) - 1)
        /\ s[2 + u] # HTTP!Blank /\ AddressAt(s, a + 1, a + v)
        /\ s[a + v] = HTTP!Blank /\ \A k \in a + 1 .. (a + v) - 1 : s[k] # HTTP!Blank
        /\ BlanksAt(s, z + 1, (z + w) - 1) /\ s[z + w] = HTTP!Version
    <3>1. s[1] = HTTP!Get /\ s[2] = HTTP!Blank
      BY <1>3 DEF Shape, BlanksAt
    <3>2. BlanksAt(s, 2 + 1, (2 + u) - 1)
      BY <1>3, <2>1 DEF Shape, BlanksAt
    <3>3. AddressAt(s, a + 1, z) /\ s[z + w] = HTTP!Version
      BY <1>3, <2>1 DEF Shape
    <3>4. BlanksAt(s, z + 1, (z + w) - 1) /\ s[z] = HTTP!Blank
      BY <1>3, <2>1 DEF Shape, BlanksAt
    <3>5. a + 1 \in a + 1 .. z - 1
      BY <2>1, <3>3 DEF AddressAt
    <3>6. s[a + 1] # HTTP!Blank /\ \A k \in a + 1 .. z - 1 : s[k] # HTTP!Blank
      BY <3>3, <3>5 DEF AddressAt
    <3> QED
      BY <2>1, <3>1, <3>2, <3>3, <3>4, <3>6
  <2>3. 2 \in HTTP!FirstBlank(s) /\ SubSeq(s, 1, 2 - 1) = <<HTTP!Get>>
    <3>1. \A k \in 1 .. 2 - 1 : k = 1
      OBVIOUS
    <3>2. s[1] # HTTP!Blank
      BY <2>2, WordsDiffer
    <3>3. 2 \in Nat \ {0} /\ 2 <= Len(s)
      OBVIOUS
    <3> QED
      BY <1>2, <2>2, <3>1, <3>2, <3>3
  <2>4. u \in HTTP!FirstOther(HTTP!From(s, 2 + 1))
    <3>1. 2 + u <= Len(s)
      BY <2>1
    <3> QED
      BY <2>1, <2>2, <3>1, FirstAt
  <2>5. v \in HTTP!FirstBlank(rest)
    <3>1. a + v <= Len(s)
      BY <2>1
    <3> QED
      BY <2>1, <2>2, <3>1, FirstAt
  <2>6. HTTP!GoodURL(SubSeq(rest, 1, v - 1))
    BY <2>1, <2>2, UrlIs
  <2>7. HTTP!From(rest, v + 1) = HTTP!From(s, z + 1)
    BY <2>1, FromLater
  <2>8. w \in HTTP!FirstOther(HTTP!From(rest, v + 1))
    <3>1. z + w <= Len(s) /\ s[z + w] # HTTP!Blank
      BY <2>1, <2>2, WordsDiffer
    <3> QED
      BY <2>1, <2>2, <2>7, <3>1, FirstAt, SMTT(30)
  <2>9. HTTP!From(rest, v + w) = <<HTTP!Version>>
    <3> DEFINE y == (v + w) - 1
    <3>1. y \in 0 .. Len(s) - a /\ y + 1 = v + w /\ (a + y) + 1 = Len(s) /\ a + y \in 0 .. Len(s)
      BY <2>1
    <3> HIDE DEF y
    <3>2. HTTP!From(rest, y + 1) = HTTP!From(s, (a + y) + 1)
      BY <2>1, <3>1, FromLater
    <3>3. s[(a + y) + 1] = HTTP!Version
      BY <2>1, <2>2, <3>1
    <3>4. HTTP!From(s, (a + y) + 1) = <<HTTP!Version>>
      BY <3>1, <3>3, LastWord
    <3> QED
      BY <3>1, <3>2, <3>4
  <2>10. HTTP!From(s, 2 + u) = rest
    BY <2>1
  <2> HIDE DEF rest
  <2> QED
    BY <2>3, <2>4, <2>5, <2>6, <2>8, <2>9, <2>10 DEF HTTP!parse_requestline
<1>4. ASSUME HTTP!parse_requestline(s) PROVE \E a, z \in 2 .. Len(s) : Shape(s, a, z)
  <2>1. PICK m \in HTTP!FirstBlank(s) :
          /\ SubSeq(s, 1, m - 1) = <<HTTP!Get>>
          /\ \E u \in HTTP!FirstOther(HTTP!From(s, m + 1)) :
               \E rest \in {HTTP!From(s, m + u)} : \E v \in HTTP!FirstBlank(rest) :
                 /\ HTTP!GoodURL(SubSeq(rest, 1, v - 1))
                 /\ \E w \in HTTP!FirstOther(HTTP!From(rest, v + 1)) :
                      HTTP!From(rest, v + w) = <<HTTP!Version>>
    BY <1>4 DEF HTTP!parse_requestline
  <2>2. m \in Nat \ {0}
    BY DEF HTTP!FirstBlank
  <2>3. m = 2 /\ 2 <= Len(s) /\ s[1] = HTTP!Get /\ s[2] = HTTP!Blank
    BY <1>2, <2>1, <2>2
  <2>4. PICK u \in HTTP!FirstOther(HTTP!From(s, 2 + 1)) :
          \E v \in HTTP!FirstBlank(HTTP!From(s, 2 + u)) :
            /\ HTTP!GoodURL(SubSeq(HTTP!From(s, 2 + u), 1, v - 1))
            /\ \E w \in HTTP!FirstOther(HTTP!From(HTTP!From(s, 2 + u), v + 1)) :
                 HTTP!From(HTTP!From(s, 2 + u), v + w) = <<HTTP!Version>>
    BY <2>1, <2>3
  <2>5. 2 \in 0 .. Len(s)
    BY <2>3
  <2>6. u \in Nat \ {0}
    <3>1. Len(HTTP!From(s, 2 + 1)) \in Nat /\ HTTP!From(s, 2 + 1) \in Seq(S)
      BY <2>5, FromIs
    <3> QED
      BY <3>1 DEF HTTP!FirstOther
  <2>7. 2 + u <= Len(s) /\ s[2 + u] # HTTP!Blank /\ BlanksAt(s, 2 + 1, (2 + u) - 1)
    BY <2>5, <2>6, FirstAt
  <2> DEFINE a == u + 1
             rest == HTTP!From(s, a + 1)
  <2>8. a + 1 = 2 + u /\ a \in 2 .. Len(s) /\ a \in 0 .. Len(s) /\ BlanksAt(s, 2, a)
    BY <2>3, <2>6, <2>7 DEF BlanksAt
  <2> HIDE DEF a
  <2>9. PICK v \in HTTP!FirstBlank(rest) :
          /\ HTTP!GoodURL(SubSeq(rest, 1, v - 1))
          /\ \E w \in HTTP!FirstOther(HTTP!From(rest, v + 1)) :
               HTTP!From(rest, v + w) = <<HTTP!Version>>
    BY <2>4, <2>8
  <2>10. rest \in Seq(S) /\ Len(rest) = Len(s) - a
    BY <2>8, FromIs
  <2>11. v \in Nat \ {0}
    BY <2>10 DEF HTTP!FirstBlank
  <2>12. /\ a + v <= Len(s) /\ s[a + v] = HTTP!Blank
         /\ \A k \in a + 1 .. (a + v) - 1 : s[k] # HTTP!Blank
    BY <2>8, <2>11, FirstAt
  <2> DEFINE z == a + v
  <2>13. z \in 2 .. Len(s) /\ z \in 0 .. Len(s) /\ v \in 1 .. Len(s) - a /\ v \in 0 .. Len(s) - a
    BY <2>8, <2>11, <2>12
  <2>14. AddressAt(s, a + 1, z)
    BY <2>8, <2>9, <2>12, <2>13, UrlIs
  <2>15. HTTP!From(rest, v + 1) = HTTP!From(s, z + 1)
    BY <2>8, <2>13, FromLater
  <2>16. PICK w \in HTTP!FirstOther(HTTP!From(s, z + 1)) :
           HTTP!From(rest, v + w) = <<HTTP!Version>>
    BY <2>9, <2>15
  <2>17. w \in Nat \ {0}
    <3> HIDE DEF z
    <3>1. Len(HTTP!From(s, z + 1)) \in Nat /\ HTTP!From(s, z + 1) \in Seq(S)
      BY <2>13, FromIs
    <3> QED
      BY <3>1 DEF HTTP!FirstOther
  <2>18. z + w <= Len(s) /\ BlanksAt(s, z + 1, (z + w) - 1)
    <3> HIDE DEF z
    <3> QED
      BY <2>13, <2>17, FirstAt
  <2>19. z + w = Len(s) /\ s[Len(s)] = HTTP!Version
    <3> DEFINE y == (v + w) - 1
    <3>1. /\ y \in 0 .. Len(s) - a /\ y + 1 = v + w /\ a + y \in 0 .. Len(s)
          /\ (a + y) + 1 = z + w
      BY <2>8, <2>11, <2>17, <2>18
    <3> HIDE DEF y, z
    <3>2. HTTP!From(rest, y + 1) = HTTP!From(s, (a + y) + 1)
      BY <2>8, <3>1, FromLater
    <3>3. HTTP!From(s, (a + y) + 1) = <<HTTP!Version>>
      BY <2>16, <3>1, <3>2
    <3>4. (a + y) + 1 = Len(s) /\ s[(a + y) + 1] = HTTP!Version
      BY <3>1, <3>3, LastWord
    <3> QED
      BY <3>1, <3>4
  <2>20. s[z] = HTTP!Blank
    BY <2>12
  <2> HIDE DEF z
  <2>21. BlanksAt(s, z, Len(s) - 1)
    BY <2>18, <2>19, <2>20, <2>13, <2>17 DEF BlanksAt
  <2>22. Shape(s, a, z)
    <3>1. a < z /\ z < Len(s)
      BY <2>13, <2>14, <2>17, <2>19, <2>8 DEF AddressAt
    <3> QED
      BY <2>3, <2>8, <2>13, <2>14, <2>19, <2>21, <3>1 DEF Shape
  <2> QED
    BY <2>8, <2>13, <2>22
<1> QED
  BY <1>3, <1>4

\* So the parser takes a line for a request line if it is one.
LEMMA ParserIsRight ==
  ASSUME NEW S, NEW s \in Seq(S)
  PROVE  HTTP!parse_requestline(s) <=> HTTP!RequestLine(s)
BY ParserShape, RequestShape

\* What decides the answer is at the end of a line.
LEMMA DecidedAtEnds ==
  ASSUME NEW S, NEW s \in Seq(S)
  PROVE  /\ \A k \in HTTP!Breaks(s) : /\ k \in 1 .. Len(s) /\ k + 1 \in 1 .. Len(s)
                                      /\ s[k] = HTTP!CR /\ s[k + 1] = HTTP!LF
         /\ \A k \in HTTP!BadFrom(s) \cup HTTP!DoneAt(s) :
               k \in 1 .. Len(s) /\ s[k] \in {HTTP!CR, HTTP!LF}
         /\ HTTP!DoneAt(s) \subseteq HTTP!Breaks(s) /\ HTTP!CR # HTTP!LF
<1>1. ASSUME NEW k \in HTTP!Breaks(s)
      PROVE  k \in 1 .. Len(s) /\ k + 1 \in 1 .. Len(s) /\ s[k] = HTTP!CR /\ s[k + 1] = HTTP!LF
  BY DEF HTTP!Breaks
<1>2. HTTP!DoneAt(s) \subseteq HTTP!Breaks(s)
  BY DEF HTTP!DoneAt
<1>3. ASSUME NEW k \in HTTP!Strays(s) PROVE k \in 1 .. Len(s) /\ s[k] \in {HTTP!CR, HTTP!LF}
  BY DEF HTTP!Strays
<1>4. \A k \in HTTP!BadFrom(s) : k \in HTTP!Strays(s) \cup HTTP!Breaks(s)
  BY DEF HTTP!BadFrom
<1>5. HTTP!CR # HTTP!LF
  BY DEF HTTP!CR, HTTP!LF
<1> QED
  BY <1>1, <1>2, <1>3, <1>4, <1>5

\* Nothing decides it before the next end of a line.
LEMMA NextEnd ==
  ASSUME NEW S, NEW s \in Seq(S), NEW t, Settled(s, t), NEW p \in 1 .. Len(s), t < p,
         Clean(s, t, p - 1)
  PROVE  \A k \in HTTP!BadFrom(s) \cup HTTP!DoneAt(s) : k >= p
<1>1. t \in Nat
  BY DEF Settled
<1> SUFFICES ASSUME NEW k \in HTTP!BadFrom(s) \cup HTTP!DoneAt(s), k < p
             PROVE  FALSE
  <2>1. \A k \in HTTP!BadFrom(s) \cup HTTP!DoneAt(s) : k \in Int
    BY DecidedAtEnds
  <2> QED
    BY <2>1
<1>2. k \in 1 .. Len(s) /\ s[k] \in {HTTP!CR, HTTP!LF} /\ k > t
  BY DecidedAtEnds DEF Settled
<1>3. k \in t + 1 .. p - 1
  BY <1>1, <1>2
<1> QED
  BY <1>2, <1>3 DEF Clean

\* More bytes leave what is parsed as it was.
LEMMA SettledGrows ==
  ASSUME NEW S, NEW s \in Seq(S), NEW w \in Seq(S), NEW t, Settled(s, t)
  PROVE  Settled(s \o w, t)
<1> DEFINE x == s \o w
<1>1. x \in Seq(S) /\ Len(x) = Len(s) + Len(w) /\ \A k \in 1 .. Len(s) : x[k] = s[k]
  BY ConcatProperties
<1>2. t \in 0 .. Len(s) /\ t \in 0 .. Len(x) /\ Len(w) \in Nat
  BY <1>1 DEF Settled
<1>3. t > 0 => t - 1 \in 1 .. Len(s) /\ s[t - 1] = HTTP!CR /\ s[t] = HTTP!LF /\ x[t] = HTTP!LF
  <2>1. t > 0 => (t - 1) + 1 = t /\ t \in 1 .. Len(s)
    BY <1>2
  <2> QED
    BY <1>1, <2>1, DecidedAtEnds DEF Settled
<1>5. \A k \in HTTP!Breaks(s) : k \in HTTP!Breaks(x)
  <2> SUFFICES ASSUME NEW k \in HTTP!Breaks(s) PROVE k \in HTTP!Breaks(x)
    OBVIOUS
  <2>1. k \in 1 .. Len(s) /\ k + 1 \in 1 .. Len(s) /\ s[k] = HTTP!CR /\ s[k + 1] = HTTP!LF
    BY DecidedAtEnds
  <2>2. x[k] = HTTP!CR /\ x[k + 1] = HTTP!LF /\ k \in 1 .. Len(x) - 1
    BY <1>1, <1>2, <2>1
  <2> QED
    BY <2>2 DEF HTTP!Breaks
<1>6. ASSUME NEW k \in HTTP!Breaks(x), k <= t PROVE k \in HTTP!Breaks(s) /\ k < t
  <2>1. k \in 1 .. Len(x) /\ x[k] = HTTP!CR /\ x[k + 1] = HTTP!LF
    BY <1>1, DecidedAtEnds
  <2>2. k # t
    BY <1>1, <1>2, <1>3, <2>1, DecidedAtEnds
  <2>3. k \in 1 .. Len(s) - 1 /\ k + 1 \in 1 .. Len(s) /\ k < t
    BY <1>2, <1>6, <2>1, <2>2
  <2>4. s[k] = HTTP!CR /\ s[k + 1] = HTTP!LF
    BY <1>1, <2>1, <2>3
  <2> QED
    BY <2>3, <2>4 DEF HTTP!Breaks
<1>7. ASSUME NEW k \in HTTP!Strays(x), k <= t PROVE k \in HTTP!Strays(s)
  <2>1. k \in 1 .. Len(x) /\ k \in Int
    BY <1>1 DEF HTTP!Strays
  <2>2. k \in 1 .. Len(s) /\ x[k] = s[k] /\ (k < t => k \in 1 .. Len(s) - 1)
    BY <1>1, <1>2, <1>7, <2>1
  <2>3. CASE x[k] = HTTP!CR
    <3>1. k # t
      BY <1>3, <2>1, <2>3, DecidedAtEnds
    <3>2. k < t /\ k + 1 \in 1 .. Len(s) /\ k \in 1 .. Len(s) - 1
      BY <1>2, <1>7, <2>1, <2>2, <3>1
    <3>3. x[k + 1] # HTTP!LF
      BY <2>3, DecidedAtEnds DEF HTTP!Strays
    <3>4. s[k] = HTTP!CR /\ s[k + 1] # HTTP!LF
      BY <1>1, <2>2, <2>3, <3>2, <3>3
    <3> QED
      BY <3>2, <3>4 DEF HTTP!Strays
  <2>4. CASE x[k] # HTTP!CR
    <3>1. x[k] = HTTP!LF /\ (k = 1 \/ x[k - 1] # HTTP!CR)
      BY <2>4 DEF HTTP!Strays
    <3>2. k # 1 => k - 1 \in 1 .. Len(s)
      BY <2>2
    <3>3. s[k] = HTTP!LF /\ (k = 1 \/ s[k - 1] # HTTP!CR)
      BY <1>1, <2>2, <3>1, <3>2
    <3> QED
      BY <2>2, <3>3 DEF HTTP!Strays
  <2> QED
    BY <2>3, <2>4
<1>8. ASSUME NEW k \in HTTP!BadFrom(x), k <= t PROVE FALSE
  <2>1. CASE k \in HTTP!Strays(x)
    BY <1>2, <1>7, <1>8, <2>1, SMTT(30) DEF Settled, HTTP!BadFrom, HTTP!Strays
  <2>2. CASE k \notin HTTP!Strays(x)
    <3>1. /\ k \in HTTP!Breaks(x) /\ \A j \in HTTP!Breaks(x) : k <= j
          /\ ~ HTTP!RequestLine(SubSeq(x, 1, k - 1))
      BY <2>2 DEF HTTP!BadFrom
    <3>2. k \in HTTP!Breaks(s) /\ \A j \in HTTP!Breaks(s) : k <= j
      BY <1>5, <1>6, <1>8, <3>1
    <3>3. k \in 1 .. Len(s)
      BY <3>2, DecidedAtEnds
    <3>4. SubSeq(x, 1, k - 1) = SubSeq(s, 1, k - 1)
      <4>1. CASE k = 1
        <5>1. k - 1 \in Int /\ k - 1 < 1 /\ 1 \in Int
          BY <4>1
        <5> QED
          BY <5>1, SubSeqEmpty
      <4>2. CASE k # 1
        <5>1. k - 1 \in 1 .. Len(s) /\ 1 \in 1 .. Len(s)
          BY <3>3, <4>2
        <5> QED
          BY <5>1, SubSeqOfConcat1
      <4> QED
        BY <4>1, <4>2
    <3>5. k \in HTTP!BadFrom(s)
      BY <3>1, <3>2, <3>4 DEF HTTP!BadFrom
    <3> QED
      BY <1>2, <1>8, <3>3, <3>5 DEF Settled
  <2> QED
    BY <2>1, <2>2
<1>9. ASSUME NEW k \in HTTP!DoneAt(x), k <= t PROVE FALSE
  <2>1. k \in HTTP!Breaks(x) /\ k - 2 \in HTTP!Breaks(x)
    BY DEF HTTP!DoneAt
  <2>2. k \in HTTP!Breaks(s) /\ k \in 1 .. Len(s)
    BY <1>6, <1>9, <2>1, DecidedAtEnds
  <2>3. k - 2 <= t
    BY <1>2, <1>9, <2>2
  <2>4. k - 2 \in HTTP!Breaks(s)
    BY <1>6, <2>1, <2>3
  <2>5. k \in HTTP!DoneAt(s)
    BY <2>2, <2>4 DEF HTTP!DoneAt
  <2> QED
    BY <1>2, <1>9, <2>2, <2>5 DEF Settled
<1>10. \A k \in HTTP!BadFrom(x) \cup HTTP!DoneAt(x) : k > t
  <2>1. \A k \in HTTP!BadFrom(x) \cup HTTP!DoneAt(x) : k \in Int
    <3> HIDE DEF x
    <3>1. \A k \in HTTP!BadFrom(x) \cup HTTP!DoneAt(x) : k \in 1 .. Len(x)
      BY <1>1, DecidedAtEnds
    <3> QED
      BY <3>1
  <2> QED
    BY <1>2, <1>8, <1>9, <2>1
<1>11. t > 0 => t - 1 \in HTTP!Breaks(x)
  BY <1>5 DEF Settled
<1> QED
  BY <1>2, <1>10, <1>11 DEF Settled

\* While no line ends after what is parsed, nothing is decided.
LEMMA OpenVerdict ==
  ASSUME NEW S, NEW s \in Seq(S), NEW t, Settled(s, t),
         \A k \in t + 1 .. Len(s) : s[k] # HTTP!LF /\ (k < Len(s) => s[k] # HTTP!CR)
  PROVE  HTTP!Verdict(s) = "none"
<1>1. t \in Nat
  BY DEF Settled
<1>2. ASSUME NEW k \in HTTP!Strays(s) \cup HTTP!Breaks(s), k > t PROVE FALSE
  <2>1. k \in t + 1 .. Len(s)
    BY <1>1, <1>2 DEF HTTP!Strays, HTTP!Breaks
  <2>2. s[k] = HTTP!CR /\ k < Len(s)
    BY <2>1 DEF HTTP!Strays, HTTP!Breaks
  <2> QED
    BY <2>1, <2>2
<1>3. HTTP!BadFrom(s) = {}
  BY <1>2 DEF Settled, HTTP!BadFrom
<1>4. HTTP!DoneAt(s) = {}
  BY <1>2, DecidedAtEnds DEF Settled
<1> QED
  BY <1>3, <1>4 DEF HTTP!Verdict

\* The request is bad from the next end of a line on.
LEMMA BadVerdict ==
  ASSUME NEW S, NEW s \in Seq(S), NEW t, Settled(s, t), NEW p \in 1 .. Len(s), t < p,
         Clean(s, t, p - 1), p \in HTTP!BadFrom(s), p \notin HTTP!DoneAt(s)
  PROVE  HTTP!Verdict(s) = "wrong"
<1>1. \A k \in HTTP!DoneAt(s) : k \in Int /\ k >= p /\ k # p
  BY NextEnd, DecidedAtEnds
<1>2. \A k \in HTTP!DoneAt(s) : p < k
  BY <1>1
<1> QED
  BY <1>2 DEF HTTP!Verdict

\* A CR or an LF alone is bad.
LEMMA StrayVerdict ==
  ASSUME NEW S, NEW s \in Seq(S), NEW t, Settled(s, t), NEW p \in 1 .. Len(s), t < p,
         Clean(s, t, p - 1), p \in HTTP!Strays(s)
  PROVE  HTTP!Verdict(s) = "wrong"
<1>1. p \in HTTP!BadFrom(s)
  BY DEF HTTP!BadFrom
<1>2. p \notin HTTP!DoneAt(s)
  <2>1. p \notin HTTP!Breaks(s)
    BY DecidedAtEnds DEF HTTP!Strays, HTTP!Breaks
  <2> QED
    BY <2>1, DecidedAtEnds
<1> QED
  BY <1>1, <1>2, BadVerdict

\* The first line decides by what it is.
LEMMA FirstLine ==
  ASSUME NEW S, NEW s \in Seq(S), Settled(s, 0), NEW p \in HTTP!Breaks(s), Clean(s, 0, p - 1)
  PROVE  /\ ~ HTTP!RequestLine(SubSeq(s, 1, p - 1)) => HTTP!Verdict(s) = "wrong"
         /\ HTTP!RequestLine(SubSeq(s, 1, p - 1)) => Settled(s, p + 1)
<1>1. p \in 1 .. Len(s) /\ p + 1 \in 1 .. Len(s) /\ s[p] = HTTP!CR /\ s[p + 1] = HTTP!LF
  BY DecidedAtEnds
<1>2. ASSUME NEW k \in HTTP!Breaks(s) PROVE p <= k
  <2>1. k \in 1 .. Len(s) /\ s[k] = HTTP!CR
    BY DecidedAtEnds
  <2>2. ~ (k \in 0 + 1 .. p - 1)
    BY <2>1 DEF Clean
  <2> QED
    BY <1>1, <2>1, <2>2
<1>3. p \notin HTTP!DoneAt(s)
  <2>1. p - 2 \in HTTP!Breaks(s) => p <= p - 2
    BY <1>2
  <2> QED
    BY <1>1, <2>1 DEF HTTP!DoneAt
<1>4. ASSUME ~ HTTP!RequestLine(SubSeq(s, 1, p - 1)) PROVE HTTP!Verdict(s) = "wrong"
  <2>1. p \in HTTP!BadFrom(s)
    BY <1>2, <1>4 DEF HTTP!BadFrom
  <2>2. 0 < p
    BY <1>1
  <2> QED
    BY <1>1, <1>3, <2>1, <2>2, BadVerdict
<1>5. ASSUME HTTP!RequestLine(SubSeq(s, 1, p - 1)) PROVE Settled(s, p + 1)
  <2>1. p \notin HTTP!BadFrom(s)
    BY <1>1, <1>5, DecidedAtEnds DEF HTTP!BadFrom, HTTP!Strays
  <2>2. p + 1 \notin HTTP!BadFrom(s) /\ p + 1 \notin HTTP!DoneAt(s)
    <3>1. (p + 1) - 1 = p /\ p + 1 # 1
      BY <1>1
    <3> QED
      BY <1>1, <3>1, DecidedAtEnds DEF HTTP!BadFrom, HTTP!Strays
  <2>3. 0 < p
    BY <1>1
  <2>4. \A k \in HTTP!BadFrom(s) \cup HTTP!DoneAt(s) :
           k >= p /\ k # p /\ k # p + 1 /\ k \in Int
    BY <1>1, <1>3, <2>1, <2>2, <2>3, NextEnd, DecidedAtEnds
  <2>5. \A k \in HTTP!BadFrom(s) \cup HTTP!DoneAt(s) : k > p + 1
    BY <1>1, <2>4
  <2>6. (p + 1) - 1 \in HTTP!Breaks(s)
    BY <1>1
  <2> QED
    BY <1>1, <2>5, <2>6 DEF Settled
<1> QED
  BY <1>4, <1>5

\* A line after it decides when it is empty.
LEMMA NextLine ==
  ASSUME NEW S, NEW s \in Seq(S), NEW t, t > 0, Settled(s, t), NEW p \in HTTP!Breaks(s),
         t < p, Clean(s, t, p - 1)
  PROVE  /\ p = t + 1 => HTTP!Verdict(s) = "correct"
         /\ p # t + 1 => Settled(s, p + 1)
<1>1. /\ p \in 1 .. Len(s) /\ p + 1 \in 1 .. Len(s) /\ s[p] = HTTP!CR /\ s[p + 1] = HTTP!LF
      /\ t \in Nat /\ t - 1 \in HTTP!Breaks(s)
      /\ s[(t - 1) + 1] = HTTP!LF /\ (t - 1) + 1 = t
  BY DecidedAtEnds DEF Settled
<1>2. \A k \in HTTP!BadFrom(s) \cup HTTP!DoneAt(s) : k \in Int /\ k >= p
  BY <1>1, NextEnd, DecidedAtEnds
<1>3. ASSUME p = t + 1 PROVE HTTP!Verdict(s) = "correct"
  <2>1. p - 2 = t - 1
    BY <1>1, <1>3
  <2>2. p \in HTTP!DoneAt(s)
    BY <1>1, <2>1 DEF HTTP!DoneAt
  <2>3. \A k \in HTTP!BadFrom(s) : ~ (k < p)
    BY <1>1, <1>2
  <2>4. ~ \E k \in HTTP!BadFrom(s) : \A j \in HTTP!DoneAt(s) : k < j
    BY <2>2, <2>3
  <2> QED
    BY <2>2, <2>4 DEF HTTP!Verdict
<1>4. ASSUME p # t + 1 PROVE Settled(s, p + 1)
  <2>1. p \notin HTTP!BadFrom(s)
    <3>1. ~ (p <= t - 1)
      BY <1>1
    <3> QED
      BY <1>1, <3>1, DecidedAtEnds DEF HTTP!BadFrom, HTTP!Strays
  <2>2. p \notin HTTP!DoneAt(s)
    <3>1. p - 2 \in t .. p - 1
      BY <1>1, <1>4
    <3>2. p - 2 = t \/ p - 2 \in t + 1 .. p - 1
      BY <1>1, <3>1
    <3>3. p - 2 \notin HTTP!Breaks(s)
      BY <1>1, <3>2, DecidedAtEnds DEF Clean
    <3> QED
      BY <3>3 DEF HTTP!DoneAt
  <2>3. p + 1 \notin HTTP!BadFrom(s) /\ p + 1 \notin HTTP!DoneAt(s)
    <3>1. (p + 1) - 1 = p /\ p + 1 # 1
      BY <1>1
    <3> QED
      BY <1>1, <3>1, DecidedAtEnds DEF HTTP!BadFrom, HTTP!Strays
  <2>4. \A k \in HTTP!BadFrom(s) \cup HTTP!DoneAt(s) :
           k >= p /\ k # p /\ k # p + 1 /\ k \in Int
    BY <1>2, <2>1, <2>2, <2>3
  <2>5. \A k \in HTTP!BadFrom(s) \cup HTTP!DoneAt(s) : k > p + 1
    BY <1>1, <2>4
  <2>6. (p + 1) - 1 \in HTTP!Breaks(s) /\ p + 1 \in 0 .. Len(s)
    BY <1>1
  <2> QED
    BY <2>5, <2>6 DEF Settled
<1> QED
  BY <1>3, <1>4

\* It holds at the start.
LEMMA ParseStarts ==
  ASSUME HTTP!ConstantsOK, HTTP!Init
  PROVE  ParseInv
<1> USE DEF HTTP!Init, HTTP!ConstantsOK
<1>1. HTTP!TypeOK
  BY DEF HTTP!TypeOK, HTTP!Bytes, HTTP!Index
<1>2. wire \in Plainly /\ received \in Plainly
  BY DEF Plainly
<1>3. HTTP!BadFrom(<<>>) = {} /\ HTTP!DoneAt(<<>>) = {}
  BY DEF HTTP!BadFrom, HTTP!DoneAt, HTTP!Strays, HTTP!Breaks
<1>4. Settled(received, 0)
  BY <1>3 DEF Settled
<1>5. BufferOK
  BY <1>4 DEF BufferOK, Clean
<1>6. HTTP!AnswerIsVerdict
  BY <1>3 DEF HTTP!AnswerIsVerdict, HTTP!Verdict
<1> QED
  BY <1>1, <1>2, <1>5, <1>6 DEF ParseInv

\* The next mark is the first end of a line that is not parsed.
LEMMA MarkIs ==
  ASSUME HTTP!TypeOK, HTTP!Marks # {}
  PROVE  /\ HTTP!Mark \in HTTP!Marks /\ HTTP!Mark \in Nat
         /\ checked_index <= HTTP!Mark /\ HTTP!Mark < read_index
         /\ buffer[HTTP!Mark] \in {HTTP!CR, HTTP!LF}
         /\ \A k \in checked_index .. HTTP!Mark - 1 : buffer[k] \notin {HTTP!CR, HTTP!LF}
<1>1. checked_index \in Nat /\ read_index \in Nat
  BY DEF HTTP!TypeOK
<1>2. HTTP!Marks \subseteq Nat
  BY <1>1 DEF HTTP!Marks
<1>3. HTTP!Mark \in HTTP!Marks /\ \A k \in HTTP!Marks : HTTP!Mark <= k
  BY <1>2, LeastIs DEF HTTP!Mark
<1>4. ASSUME NEW k \in checked_index .. HTTP!Mark - 1, buffer[k] \in {HTTP!CR, HTTP!LF}
      PROVE  FALSE
  <2>1. HTTP!Mark \in Nat /\ HTTP!Mark \in checked_index .. read_index - 1
    BY <1>2, <1>3 DEF HTTP!Marks
  <2>2. k \in checked_index .. read_index - 1 /\ k < HTTP!Mark /\ k \in Int
    BY <1>1, <2>1
  <2>3. k \in HTTP!Marks
    BY <1>4, <2>2 DEF HTTP!Marks
  <2> QED
    BY <1>3, <2>1, <2>2, <2>3
<1> QED
  BY <1>1, <1>2, <1>3, <1>4 DEF HTTP!Marks

\* As long as nothing was lost, it is that of the bytes received.
LEMMA MarkReceived ==
  ASSUME HTTP!TypeOK, received \in Plainly, BufferOK, HTTP!Marks # {}
  PROVE  LET p == HTTP!Mark + 1
         IN  /\ p \in 1 .. Len(received) /\ start_line < p /\ start_line \in Nat
             /\ Clean(received, start_line, p - 1)
             /\ buffer[HTTP!Mark] = received[p]
             /\ HTTP!Mark + 1 < read_index =>
                   buffer[HTTP!Mark + 1] = received[p + 1] /\ p + 1 \in 1 .. Len(received)
<1> DEFINE p == HTTP!Mark + 1
<1>1. /\ start_line \in Nat /\ checked_index \in Nat /\ read_index \in Nat
      /\ start_line <= checked_index /\ read_index = Len(received)
      /\ \A k \in start_line .. read_index - 1 : buffer[k] = received[k + 1]
      /\ Clean(received, start_line, checked_index)
  BY DEF HTTP!TypeOK, BufferOK
<1>2. /\ HTTP!Mark \in Nat /\ checked_index <= HTTP!Mark /\ HTTP!Mark < read_index
      /\ \A k \in checked_index .. HTTP!Mark - 1 : buffer[k] \notin {HTTP!CR, HTTP!LF}
  BY MarkIs
<1>3. p \in 1 .. Len(received) /\ start_line < p
  BY <1>1, <1>2
<1>4. ASSUME NEW k \in start_line + 1 .. p - 1 PROVE received[k] \notin {HTTP!CR, HTTP!LF}
  <2>1. CASE k <= checked_index
    <3>1. k \in start_line + 1 .. checked_index
      BY <1>1, <2>1
    <3> QED
      BY <1>1, <3>1 DEF Clean
  <2>2. CASE ~ (k <= checked_index)
    <3>1. /\ k - 1 \in checked_index .. HTTP!Mark - 1 /\ k - 1 \in start_line .. read_index - 1
          /\ (k - 1) + 1 = k
      BY <1>1, <1>2, <2>2
    <3>2. buffer[k - 1] = received[k]
      BY <1>1, <3>1
    <3> QED
      BY <1>2, <3>1, <3>2
  <2> QED
    BY <2>1, <2>2
<1>5. HTTP!Mark \in start_line .. read_index - 1
  BY <1>1, <1>2
<1>6. ASSUME HTTP!Mark + 1 < read_index
      PROVE  buffer[HTTP!Mark + 1] = received[p + 1] /\ p + 1 \in 1 .. Len(received)
  <2>1. HTTP!Mark + 1 \in start_line .. read_index - 1
    BY <1>1, <1>2, <1>6
  <2> QED
    BY <1>1, <1>2, <1>6, <2>1
<1> QED
  BY <1>1, <1>3, <1>4, <1>5, <1>6 DEF Clean

\* The mark is then a CR or an LF with no CR in front.
LEMMA LineFeedAlone ==
  ASSUME HTTP!TypeOK, received \in Plainly, BufferOK, HTTP!Marks # {}, ~ HTTP!AtCR
  PROVE  ~ HTTP!LineEnds /\ HTTP!Mark + 1 \in HTTP!Strays(received)
<1> DEFINE p == HTTP!Mark + 1
<1>1. /\ p \in 1 .. Len(received) /\ start_line < p /\ start_line \in Nat
      /\ Clean(received, start_line, p - 1) /\ buffer[HTTP!Mark] = received[p]
  BY MarkReceived
<1>2. HTTP!Mark \in Nat /\ buffer[HTTP!Mark] = HTTP!LF
  BY MarkIs DEF HTTP!AtCR
<1>3. p \in DOMAIN received /\ received[p] = HTTP!LF
  BY <1>1, <1>2 DEF Plainly
<1>4. CASE start_line = HTTP!Mark
  <2>1. HTTP!Mark > 0 => buffer[HTTP!Mark - 1] = HTTP!Nul /\ received[p - 1] = HTTP!LF
    <3>1. ASSUME HTTP!Mark > 0
          PROVE  start_line - 1 \in HTTP!Breaks(received) /\ (start_line - 1) + 1 = p - 1
      BY <1>2, <1>4, <3>1 DEF BufferOK, Settled
    <3>2. HTTP!Mark > 0 => received[p - 1] = HTTP!LF
      BY <3>1, DecidedAtEnds DEF Plainly
    <3> QED
      BY <1>4, <3>2 DEF BufferOK
  <2>2. HTTP!Nul # HTTP!CR /\ HTTP!LF # HTTP!CR
    BY DEF HTTP!Nul, HTTP!CR, HTTP!LF
  <2>3. ~ HTTP!LineEnds
    BY <1>2, <2>1, <2>2 DEF HTTP!LineEnds
  <2>4. p = 1 \/ received[p - 1] # HTTP!CR
    BY <1>2, <2>1, <2>2
  <2> QED
    BY <1>1, <1>2, <1>3, <2>3, <2>4 DEF HTTP!Strays
<1>5. CASE start_line # HTTP!Mark
  <2>1. p - 1 \in start_line + 1 .. p - 1 /\ HTTP!Mark - 1 \in start_line .. read_index - 1
    BY <1>1, <1>2, <1>5 DEF BufferOK
  <2>2. received[p - 1] # HTTP!CR
    BY <1>1, <2>1 DEF Clean
  <2>3. buffer[HTTP!Mark - 1] = received[p - 1]
    <3>1. (HTTP!Mark - 1) + 1 = p - 1
      BY <1>2
    <3> QED
      BY <2>1, <3>1 DEF BufferOK
  <2>4. ~ HTTP!LineEnds
    BY <2>2, <2>3 DEF HTTP!LineEnds
  <2> QED
    BY <1>1, <1>2, <1>3, <2>2, <2>4 DEF HTTP!Strays
<1> QED
  BY <1>4, <1>5

\* The line that ends there is what was received since the line before.
LEMMA LineIs ==
  ASSUME HTTP!ConstantsOK, HTTP!TypeOK, received \in Plainly, BufferOK, HTTP!Marks # {},
         HTTP!AtCR, HTTP!LineEnds
  PROVE  LET p == HTTP!Mark + 1
         IN  /\ p \in HTTP!Breaks(received) /\ HTTP!LineEnd = HTTP!Mark
             /\ HTTP!Line = SubSeq(received, start_line + 1, p - 1)
             /\ HTTP!Line \in Plainly /\ Len(HTTP!Line) = (p - 1) - start_line
<1> DEFINE p == HTTP!Mark + 1
           t == start_line
           D == {k \in start_line .. HTTP!LineEnd + 1 :
                   k >= HTTP!LineEnd \/ buffer[k] = HTTP!Nul}
           f == [k \in 1 .. BUFFER_SIZE |-> buffer[k - 1]]
           g == SubSeq(received, t + 1, p - 1)
           h == SubSeq(f, t + 1, p - 1)
           S == HTTP!Bytes \ {HTTP!Nul}
<1>1. /\ HTTP!Mark + 1 < read_index /\ buffer[HTTP!Mark + 1] = HTTP!LF
      /\ buffer[HTTP!Mark] = HTTP!CR /\ HTTP!LineEnd = HTTP!Mark
  BY DEF HTTP!LineEnds, HTTP!LineEnd, HTTP!AtCR
<1>2. /\ p \in 1 .. Len(received) /\ t < p /\ t \in Nat /\ buffer[HTTP!Mark] = received[p]
      /\ buffer[HTTP!Mark + 1] = received[p + 1] /\ p + 1 \in 1 .. Len(received)
  BY <1>1, MarkReceived
<1>3. /\ HTTP!Mark \in Nat /\ read_index \in Nat /\ read_index = Len(received)
      /\ read_index <= BUFFER_SIZE /\ BUFFER_SIZE \in Nat
      /\ \A k \in t .. read_index - 1 : buffer[k] = received[k + 1]
      /\ received \in Seq(S)
  BY MarkIs DEF HTTP!TypeOK, BufferOK, HTTP!ConstantsOK, Plainly
<1>4. p \in HTTP!Breaks(received)
  <2>1. p \in 1 .. Len(received) - 1 /\ received[p] = HTTP!CR /\ received[p + 1] = HTTP!LF
    BY <1>1, <1>2
  <2> QED
    BY <2>1 DEF HTTP!Breaks
<1>5. HTTP!Least(D) = p - 1
  <2>1. p - 1 \in D /\ D \subseteq Nat /\ p - 1 = HTTP!Mark
    BY <1>1, <1>2, <1>3
  <2>2. ASSUME NEW k \in D PROVE k >= p - 1
    <3>1. k >= HTTP!Mark \/ buffer[k] = HTTP!Nul
      BY <1>1
    <3>2. ASSUME ~ (k >= HTTP!Mark) PROVE FALSE
      <4>1. k \in t .. read_index - 1 /\ k + 1 \in 1 .. Len(received)
        BY <1>1, <1>2, <1>3, <2>1, <3>2
      <4>2. buffer[k] = received[k + 1] /\ received[k + 1] \in S
        BY <1>3, <4>1
      <4> QED
        BY <3>1, <3>2, <4>2
    <3> QED
      BY <1>3, <2>1, <3>2
  <2> HIDE DEF D
  <2>3. HTTP!Least(D) \in D /\ \A k \in D : HTTP!Least(D) <= k
    BY <2>1, LeastIs
  <2>4. HTTP!Least(D) \in Nat /\ p - 1 \in Nat /\ HTTP!Least(D) >= p - 1 /\ HTTP!Least(D) <= p - 1
    BY <2>1, <2>2, <2>3
  <2> QED
    BY <2>4
<1>6. HTTP!Line = h
  BY <1>5 DEF HTTP!Line
<1>7. g \in Seq(S) /\ Len(g) = (p - 1) - t /\ \A k \in 1 .. (p - 1) - t : g[k] = received[t + k]
  <2> DEFINE a == t + 1
             b == p - 1
  <2>1. /\ a \in Nat \ {0} /\ b \in 0 .. Len(received) /\ a <= b + 1
        /\ g = SubSeq(received, a, b) /\ (b - a) + 1 = (p - 1) - t
        /\ \A k \in 1 .. (p - 1) - t : a + k - 1 = t + k
    BY <1>2
  <2> HIDE DEF a, b, g
  <2>2. /\ SubSeq(received, a, b) \in Seq(S) /\ Len(SubSeq(received, a, b)) = (b - a) + 1
        /\ \A k \in 1 .. (b - a) + 1 : SubSeq(received, a, b)[k] = received[a + k - 1]
    BY <1>3, <2>1, PartIs
  <2> QED
    BY <2>1, <2>2
<1>8. \A k \in t + 1 .. p - 1 : f[k] = received[k] /\ received[k] \in S
  <2> SUFFICES ASSUME NEW k \in t + 1 .. p - 1 PROVE f[k] = received[k] /\ received[k] \in S
    OBVIOUS
  <2>1. /\ k \in 1 .. BUFFER_SIZE /\ k - 1 \in t .. read_index - 1 /\ (k - 1) + 1 = k
        /\ k \in 1 .. Len(received)
    BY <1>2, <1>3
  <2> QED
    BY <1>3, <2>1
<1>9. h \in Seq(S) /\ Len(h) = (p - 1) - t /\ \A k \in 1 .. (p - 1) - t : h[k] = received[t + k]
  <2> HIDE DEF f
  <2>1. /\ t + 1 \in Int /\ p - 1 \in Int
        /\ (IF t + 1 <= p - 1 THEN (p - 1) - (t + 1) + 1 ELSE 0) = (p - 1) - t
        /\ (p - 1) - (t + 1) + 1 = (p - 1) - t
    BY <1>2
  <2>2. /\ h \in Seq(S)
        /\ Len(h) = IF t + 1 <= p - 1 THEN (p - 1) - (t + 1) + 1 ELSE 0
        /\ \A k \in 1 .. (p - 1) - (t + 1) + 1 : h[k] = f[t + 1 + k - 1]
    BY <1>8, <2>1, SubSeqProperties
  <2> HIDE DEF h
  <2>3. ASSUME NEW k \in 1 .. (p - 1) - t PROVE h[k] = received[t + k]
    <3>1. t + 1 + k - 1 = t + k /\ t + k \in t + 1 .. p - 1
      BY <1>2
    <3> QED
      BY <1>8, <2>1, <2>2, <3>1
  <2> QED
    BY <2>1, <2>2, <2>3
<1>10. g = h
  <2> HIDE DEF f, g, h
  <2>1. Len(g) = Len(h) /\ \A k \in 1 .. Len(g) : g[k] = h[k]
    BY <1>7, <1>9
  <2> QED
    BY <1>7, <1>9, <2>1, SeqEqual
<1> QED
  BY <1>1, <1>4, <1>6, <1>7, <1>10 DEF Plainly

\* Every step keeps the types ...
LEMMA ParseTypes ==
  ASSUME HTTP!ConstantsOK, HTTP!TypeOK, wire \in Plainly, [HTTP!Next]_httpVars
  PROVE  HTTP!TypeOK'
<1> USE DEF HTTP!TypeOK
<1>1. BUFFER_SIZE \in Nat \ {0} /\ HTTP!Index = 0 .. BUFFER_SIZE - 1 /\ HTTP!Nul \in HTTP!Bytes
  BY DEF HTTP!ConstantsOK, HTTP!Index, HTTP!Bytes
<1>2. CASE HTTP!ParseLine
  <2>1. HTTP!LineEnd \in Nat /\ HTTP!LineEnd + 2 \in 0 .. BUFFER_SIZE
    <3>1. HTTP!Mark \in Nat /\ HTTP!Mark < read_index
      BY <1>2, MarkIs DEF HTTP!ParseLine
    <3>2. HTTP!LineEnds
      BY <1>2 DEF HTTP!ParseLine
    <3>3. CASE HTTP!AtCR
      BY <1>1, <3>1, <3>2, <3>3 DEF HTTP!LineEnds, HTTP!LineEnd
    <3>4. CASE ~ HTTP!AtCR
      BY <1>1, <3>1, <3>2, <3>4 DEF HTTP!LineEnds, HTTP!LineEnd
    <3> QED
      BY <3>3, <3>4
  <2>2. PICK line : HTTP!ParseText(line)
    BY <1>2 DEF HTTP!ParseLine
  <2>3. /\ pc' \in {"recv", "parse", "closed", "failed"}
        /\ checkstate' \in {"requestline", "header"} /\ answer' \in {"none", "correct", "wrong"}
    BY <2>2 DEF HTTP!ParseText, HTTP!Reply
  <2>4. buffer' \in [HTTP!Index -> HTTP!Bytes]
    BY <1>1, <1>2 DEF HTTP!ParseLine
  <2>5. start_line' \in 0 .. checked_index' /\ checked_index' \in 0 .. BUFFER_SIZE
    BY <1>1, <1>2, <2>1 DEF HTTP!ParseLine
  <2> QED
    BY <1>2, <2>3, <2>4, <2>5 DEF HTTP!ParseLine
<1>3. CASE HTTP!ParseBad
  <2>1. HTTP!Mark \in Nat /\ checked_index <= HTTP!Mark /\ HTTP!Mark < read_index
    BY <1>3, MarkIs DEF HTTP!ParseBad
  <2> QED
    BY <1>1, <1>3, <2>1 DEF HTTP!ParseBad, HTTP!Reply
<1>4. CASE HTTP!ParseOpen
  BY <1>1, <1>4 DEF HTTP!ParseOpen
<1>5. CASE HTTP!ParseCut
  <2>1. HTTP!Mark \in Nat /\ checked_index <= HTTP!Mark /\ HTTP!Mark < read_index
    BY <1>5, MarkIs DEF HTTP!ParseCut
  <2> QED
    BY <1>1, <1>5, <2>1 DEF HTTP!ParseCut
<1>6. ASSUME NEW n \in 1 .. Len(wire), HTTP!Recv(n) PROVE HTTP!TypeOK'
  <2>1. n \in Nat /\ n + read_index <= BUFFER_SIZE
    BY <1>1, <1>6 DEF HTTP!Recv, HTTP!Room, Plainly
  <2>2. ASSUME NEW k \in HTTP!Index PROVE buffer'[k] \in HTTP!Bytes
    <3>1. k \in read_index .. read_index + n - 1 => k - read_index + 1 \in 1 .. Len(wire)
      BY <1>1, <1>6, <2>1
    <3>2. k \in read_index .. read_index + n - 1 => wire[k - read_index + 1] \in HTTP!Bytes
      BY <3>1 DEF Plainly
    <3> QED
      BY <1>6, <3>2 DEF HTTP!Recv
  <2>3. buffer' \in [HTTP!Index -> HTTP!Bytes]
    BY <1>6, <2>2 DEF HTTP!Recv
  <2> QED
    BY <1>1, <1>6, <2>1, <2>3 DEF HTTP!Recv
<1>7. CASE HTTP!RecvNothing
  BY <1>7 DEF HTTP!RecvNothing
<1>8. CASE HTTP!RecvFails
  BY <1>8 DEF HTTP!RecvFails
<1>9. CASE UNCHANGED httpVars
  BY <1>9 DEF httpVars
<1> QED
  BY <1>2, <1>3, <1>4, <1>5, <1>6, <1>7, <1>8, <1>9 DEF HTTP!Next, HTTP!Server

\* What recv returns goes to the end of the buffer.
LEMMA RecvKeeps ==
  ASSUME HTTP!ConstantsOK, HTTP!TypeOK, wire \in Plainly, received \in Plainly,
         NEW n \in 1 .. Len(wire), HTTP!Recv(n)
  PROVE  wire' \in Plainly /\ received' \in Plainly /\ (BufferOK => BufferOK')
<1> DEFINE S == HTTP!Bytes \ {HTTP!Nul}
           q == SubSeq(wire, 1, n)
<1>1. wire \in Seq(S) /\ received \in Seq(S) /\ n \in Nat /\ Plainly = Seq(S)
  BY DEF Plainly
<1> HIDE DEF S
<1>2. q \in Seq(S) /\ Len(q) = n /\ \A k \in 1 .. n : q[k] = wire[k]
  <2>1. 1 \in Nat \ {0} /\ n \in 0 .. Len(wire) /\ 1 <= n + 1
    OBVIOUS
  <2>2. /\ q \in Seq(S) /\ Len(q) = (n - 1) + 1
        /\ \A k \in 1 .. (n - 1) + 1 : q[k] = wire[1 + k - 1]
    BY <1>1, <2>1, PartIs
  <2> HIDE DEF q
  <2> QED
    BY <1>1, <2>2
<1>3. wire' \in Seq(S)
  <2>1. n \in 0 .. Len(wire)
    BY <1>1
  <2>2. HTTP!From(wire, n + 1) \in Seq(S)
    BY <1>1, <2>1, FromIs
  <2> QED
    BY <2>2 DEF HTTP!Recv
<1>4. received' = received \o q /\ read_index' = read_index + n
  BY DEF HTTP!Recv
<1> HIDE DEF q
<1>5. /\ received' \in Seq(S) /\ Len(received') = Len(received) + n
      /\ \A k \in 1 .. Len(received) : received'[k] = received[k]
      /\ \A k \in 1 .. Len(received) + n : k > Len(received) =>
            received'[k] = q[k - Len(received)]
  <2>1. received \o q \in Seq(S) /\ Len(received \o q) = Len(received) + Len(q)
    BY <1>1, <1>2, ConcatProperties
  <2>2. \A k \in 1 .. Len(received) + Len(q) : (received \o q)[k] =
           IF k <= Len(received) THEN received[k] ELSE q[k - Len(received)]
    BY <1>1, <1>2, ConcatProperties
  <2> QED
    BY <1>1, <1>2, <1>4, <2>1, <2>2
<1>6. ASSUME BufferOK PROVE BufferOK'
  <2>1. /\ read_index \in Nat /\ read_index = Len(received) /\ checked_index \in Nat
        /\ start_line \in Nat /\ start_line <= checked_index /\ checked_index <= read_index
        /\ BUFFER_SIZE \in Nat /\ HTTP!Index = 0 .. BUFFER_SIZE - 1
        /\ read_index + n <= BUFFER_SIZE
    BY <1>1, <1>6 DEF HTTP!TypeOK, BufferOK, HTTP!Recv, HTTP!Room, HTTP!ConstantsOK, HTTP!Index
  <2>2. checked_index' = checked_index /\ start_line' = start_line /\ checkstate' = checkstate
    BY DEF HTTP!Recv
  <2>3. ASSUME NEW k \in HTTP!Index
        PROVE  buffer'[k] = IF k \in read_index .. read_index + n - 1
                            THEN wire[k - read_index + 1] ELSE buffer[k]
    BY DEF HTTP!Recv
  <2>4. start_line > 0 => buffer'[start_line - 1] = HTTP!Nul
    <3> SUFFICES ASSUME start_line > 0 PROVE buffer'[start_line - 1] = HTTP!Nul
      OBVIOUS
    <3>1. start_line - 1 \in HTTP!Index /\ ~ (start_line - 1 \in read_index .. read_index + n - 1)
      BY <1>1, <2>1
    <3> QED
      BY <1>6, <2>3, <3>1 DEF BufferOK
  <2>5. ASSUME NEW k \in start_line .. read_index' - 1 PROVE buffer'[k] = received'[k + 1]
    <3>1. k \in HTTP!Index /\ k + 1 \in 1 .. Len(received) + n /\ k \in Int
      BY <1>1, <1>4, <2>1
    <3>2. CASE k < read_index
      <4>1. k \in start_line .. read_index - 1 /\ k + 1 \in 1 .. Len(received)
            /\ ~ (k \in read_index .. read_index + n - 1)
        BY <2>1, <3>1, <3>2
      <4> QED
        BY <1>5, <1>6, <2>3, <3>1, <4>1 DEF BufferOK
    <3>3. CASE ~ (k < read_index)
      <4>1. /\ k \in read_index .. read_index + n - 1 /\ k + 1 > Len(received)
            /\ k - read_index + 1 \in 1 .. n /\ (k + 1) - Len(received) = k - read_index + 1
        BY <1>1, <1>4, <2>1, <3>1, <3>3
      <4> QED
        BY <1>2, <1>5, <2>3, <3>1, <4>1
    <3> QED
      BY <3>2, <3>3
  <2>6. Clean(received', start_line, checked_index)
    <3> SUFFICES ASSUME NEW k \in start_line + 1 .. checked_index
                 PROVE  received'[k] \notin {HTTP!CR, HTTP!LF}
      BY DEF Clean
    <3>1. k \in 1 .. Len(received)
      BY <2>1
    <3> QED
      BY <1>5, <1>6, <3>1 DEF BufferOK, Clean
  <2>7. Settled(received', start_line)
    BY <1>1, <1>2, <1>4, <1>6, SettledGrows DEF BufferOK
  <2>8. read_index' = Len(received') /\ checked_index' <= read_index'
    BY <1>1, <1>4, <1>5, <2>1, <2>2
  <2>9. (checkstate = "requestline" <=> start_line = 0)'
    BY <1>6, <2>2 DEF BufferOK
  <2> QED
    BY <2>2, <2>4, <2>5, <2>6, <2>7, <2>8, <2>9 DEF BufferOK
<1> QED
  BY <1>1, <1>3, <1>5, <1>6

\* A complete line is answered when it decides, and else it is parsed.
LEMMA LineKeeps ==
  ASSUME HTTP!ConstantsOK, HTTP!TypeOK, received \in Plainly, BufferOK, answer = "none",
         HTTP!ParseLine
  PROVE  /\ pc' = "parse" => answer' = "none" /\ BufferOK'
         /\ pc' # "parse" => pc' = "closed" /\ answer' = HTTP!Verdict(received)
<1> DEFINE p == HTTP!Mark + 1
           t == start_line
           line == HTTP!Line
<1>1. /\ HTTP!Marks # {} /\ HTTP!LineEnds /\ HTTP!ParseText(line) /\ pc = "parse"
      /\ buffer' = [buffer EXCEPT ![HTTP!LineEnd] = HTTP!Nul, ![HTTP!LineEnd + 1] = HTTP!Nul]
      /\ checked_index' = HTTP!LineEnd + 2 /\ start_line' = HTTP!LineEnd + 2
      /\ read_index' = read_index /\ received' = received
  BY DEF HTTP!ParseLine
<1>2. HTTP!AtCR
  BY <1>1, LineFeedAlone
<1>3. /\ p \in HTTP!Breaks(received) /\ HTTP!LineEnd = HTTP!Mark
      /\ line = SubSeq(received, t + 1, p - 1)
      /\ line \in Plainly /\ Len(line) = (p - 1) - t
  BY <1>1, <1>2, LineIs
<1>4. /\ p \in 1 .. Len(received) /\ t < p /\ t \in Nat /\ Clean(received, t, p - 1)
      /\ HTTP!Mark \in Nat /\ HTTP!Mark < read_index
  BY <1>1, MarkReceived, MarkIs
<1>5. p + 1 \in 1 .. Len(received) /\ received \in Seq(HTTP!Bytes \ {HTTP!Nul})
  BY <1>3, DecidedAtEnds DEF Plainly
<1>6. Settled(received, t) /\ (checkstate = "requestline" <=> t = 0)
  BY DEF BufferOK
<1>7. ASSUME Settled(received, p + 1), checkstate' = "header" PROVE BufferOK'
  <2>1. /\ start_line' = p + 1 /\ checked_index' = p + 1 /\ p + 1 > 0 /\ read_index = Len(received)
        /\ read_index \in Nat /\ read_index <= BUFFER_SIZE /\ BUFFER_SIZE \in Nat
        /\ HTTP!Index = 0 .. BUFFER_SIZE - 1
    BY <1>1, <1>3, <1>4 DEF BufferOK, HTTP!TypeOK, HTTP!ConstantsOK, HTTP!Index
  <2>2. buffer'[(p + 1) - 1] = HTTP!Nul
    <3>1. (p + 1) - 1 = HTTP!LineEnd + 1 /\ HTTP!LineEnd + 1 \in HTTP!Index
      BY <1>3, <1>4, <1>5, <2>1
    <3> QED
      BY <1>1, <3>1 DEF HTTP!TypeOK
  <2>3. ASSUME NEW k \in p + 1 .. read_index - 1 PROVE buffer'[k] = received[k + 1]
    <3>1. /\ k \in HTTP!Index /\ k # HTTP!LineEnd /\ k # HTTP!LineEnd + 1
          /\ k \in t .. read_index - 1
      BY <1>3, <1>4, <2>1
    <3>2. buffer'[k] = buffer[k]
      BY <1>1, <3>1 DEF HTTP!TypeOK
    <3> QED
      BY <3>1, <3>2 DEF BufferOK
  <2>4. Clean(received, p + 1, p + 1)
    BY <1>4 DEF Clean
  <2>5. p + 1 <= read_index /\ p + 1 # 0
    BY <1>4, <1>5, <2>1
  <2> HIDE DEF p
  <2>6. (read_index = Len(received) /\ checked_index <= read_index)'
    BY <1>1, <2>1, <2>5
  <2>7. (checkstate = "requestline" <=> start_line = 0)'
    BY <1>7, <2>1, <2>5
  <2>8. (start_line > 0 => buffer[start_line - 1] = HTTP!Nul)'
    BY <2>1, <2>2
  <2>9. (\A k \in start_line .. read_index - 1 : buffer[k] = received[k + 1])'
    BY <1>1, <2>1, <2>3
  <2>10. Clean(received, start_line, checked_index)' /\ Settled(received, start_line)'
    BY <1>1, <1>7, <2>1, <2>4
  <2> QED
    BY <2>6, <2>7, <2>8, <2>9, <2>10 DEF BufferOK
<1>8. CASE checkstate = "requestline"
  <2>1. t = 0 /\ t + 1 = 1 /\ line = SubSeq(received, 1, p - 1)
    <3>1. t = 0 /\ t + 1 = 1
      BY <1>6, <1>8
    <3> HIDE DEF t, p, line
    <3> QED
      BY <1>3, <3>1
  <2>2. Settled(received, 0) /\ Clean(received, 0, p - 1)
    BY <1>4, <1>6, <2>1
  <2>3. HTTP!parse_requestline(line) <=> HTTP!RequestLine(line)
    BY <1>3, ParserIsRight DEF Plainly
  <2> HIDE DEF p, line
  <2>4. CASE HTTP!parse_requestline(line)
    <3>1. Settled(received, p + 1)
      BY <1>3, <1>5, <2>1, <2>2, <2>3, <2>4, FirstLine
    <3>2. checkstate' = "header" /\ answer' = answer /\ pc' = pc
      BY <1>1, <1>8, <2>4 DEF HTTP!ParseText
    <3> QED
      BY <1>1, <1>7, <3>1, <3>2
  <2>5. CASE ~ HTTP!parse_requestline(line)
    <3>1. HTTP!Verdict(received) = "wrong"
      BY <1>3, <1>5, <2>1, <2>2, <2>3, <2>5, FirstLine
    <3>2. answer' = "wrong" /\ pc' = "closed"
      BY <1>1, <1>8, <2>5 DEF HTTP!ParseText, HTTP!Reply
    <3> QED
      BY <3>1, <3>2
  <2> QED
    BY <2>4, <2>5
<1>9. CASE checkstate # "requestline"
  <2>1. t > 0 /\ checkstate = "header"
    BY <1>4, <1>6, <1>9 DEF HTTP!TypeOK
  <2>2. line = <<>> <=> p = t + 1
    BY <1>3, <1>4 DEF Plainly
  <2> HIDE DEF p, line
  <2>3. CASE p = t + 1
    <3>1. HTTP!Verdict(received) = "correct"
      BY <1>3, <1>4, <1>5, <1>6, <2>1, <2>3, NextLine
    <3>2. answer' = "correct" /\ pc' = "closed"
      BY <1>1, <2>1, <2>2, <2>3 DEF HTTP!ParseText, HTTP!Reply
    <3> QED
      BY <3>1, <3>2
  <2>4. CASE p # t + 1
    <3>1. Settled(received, p + 1)
      BY <1>3, <1>4, <1>5, <1>6, <2>1, <2>4, NextLine
    <3>2. checkstate' = "header" /\ answer' = answer /\ pc' = pc
      BY <1>1, <2>1, <2>2, <2>4 DEF HTTP!ParseText
    <3> QED
      BY <1>1, <1>7, <3>1, <3>2
  <2> QED
    BY <2>3, <2>4
<1> QED
  BY <1>8, <1>9

\* A CR or an LF alone is answered as bad.
LEMMA BadKeeps ==
  ASSUME HTTP!ConstantsOK, HTTP!TypeOK, received \in Plainly, BufferOK, HTTP!ParseBad
  PROVE  pc' = "closed" /\ answer' = HTTP!Verdict(received)
<1> DEFINE p == HTTP!Mark + 1
<1>1. HTTP!Marks # {} /\ ~ HTTP!CutAtCR /\ ~ HTTP!LineEnds /\ answer' = "wrong" /\ pc' = "closed"
  BY DEF HTTP!ParseBad, HTTP!Reply
<1>2. /\ p \in 1 .. Len(received) /\ start_line < p /\ Clean(received, start_line, p - 1)
      /\ buffer[HTTP!Mark] = received[p]
      /\ HTTP!Mark + 1 < read_index =>
            buffer[HTTP!Mark + 1] = received[p + 1] /\ p + 1 \in 1 .. Len(received)
      /\ HTTP!Mark \in Nat /\ HTTP!Mark < read_index /\ read_index \in Nat
  BY <1>1, MarkReceived, MarkIs DEF HTTP!TypeOK
<1>3. p \in HTTP!Strays(received)
  <2>1. CASE HTTP!AtCR
    <3>1. HTTP!Mark + 1 < read_index /\ received[p] = HTTP!CR
      BY <1>1, <1>2, <2>1 DEF HTTP!CutAtCR, HTTP!AtCR
    <3>2. received[p + 1] # HTTP!LF
      BY <1>1, <1>2, <2>1, <3>1 DEF HTTP!LineEnds
    <3>3. p \in 1 .. Len(received) - 1
      BY <1>2, <3>1
    <3> QED
      BY <3>1, <3>2, <3>3 DEF HTTP!Strays
  <2>2. CASE ~ HTTP!AtCR
    BY <1>1, <2>2, LineFeedAlone
  <2> QED
    BY <2>1, <2>2
<1>4. Settled(received, start_line) /\ received \in Seq(HTTP!Bytes \ {HTTP!Nul})
  BY DEF BufferOK, Plainly
<1> HIDE DEF p
<1> QED
  BY <1>1, <1>2, <1>3, <1>4, StrayVerdict

\* While no line ends there is nothing to answer.
LEMMA OpenKeeps ==
  ASSUME HTTP!ConstantsOK, HTTP!TypeOK, received \in Plainly, BufferOK,
         HTTP!ParseOpen \/ HTTP!ParseCut
  PROVE  wrapped' \/ (BufferOK' /\ HTTP!Verdict(received) = "none")
<1> DEFINE t == start_line
           S == HTTP!Bytes \ {HTTP!Nul}
<1>1. /\ t \in Nat /\ checked_index \in Nat /\ read_index \in Nat /\ read_index = Len(received)
      /\ t <= checked_index /\ checked_index <= read_index /\ Settled(received, t)
      /\ received \in Seq(S) /\ Clean(received, t, checked_index)
      /\ \A k \in t .. read_index - 1 : buffer[k] = received[k + 1]
  BY DEF HTTP!TypeOK, BufferOK, Plainly
<1>2. CASE HTTP!ParseOpen
  <2>1. /\ HTTP!Marks = {} /\ checked_index' = read_index /\ received' = received
        /\ start_line' = t /\ read_index' = read_index /\ buffer' = buffer
        /\ checkstate' = checkstate
    BY <1>1, <1>2 DEF HTTP!ParseOpen
  <2>2. ASSUME NEW k \in t + 1 .. read_index PROVE received[k] \notin {HTTP!CR, HTTP!LF}
    <3>1. CASE k <= checked_index
      BY <1>1, <3>1 DEF Clean
    <3>2. CASE ~ (k <= checked_index)
      <4>1. /\ k - 1 \in checked_index .. read_index - 1 /\ k - 1 \in t .. read_index - 1
            /\ (k - 1) + 1 = k
        BY <1>1, <3>2
      <4>2. buffer[k - 1] \notin {HTTP!CR, HTTP!LF}
        BY <2>1, <4>1 DEF HTTP!Marks
      <4> QED
        BY <1>1, <4>1, <4>2
    <3> QED
      BY <3>1, <3>2
  <2>3. Clean(received, t, read_index)
    BY <2>2 DEF Clean
  <2>4. BufferOK'
    BY <1>1, <2>1, <2>3 DEF BufferOK
  <2>5. HTTP!Verdict(received) = "none"
    <3>1. \A k \in t + 1 .. Len(received) :
             received[k] # HTTP!LF /\ (k < Len(received) => received[k] # HTTP!CR)
      BY <1>1, <2>2
    <3> QED
      BY <1>1, <3>1, OpenVerdict
  <2> QED
    BY <2>4, <2>5
<1>3. CASE HTTP!ParseCut
  <2> DEFINE p == HTTP!Mark + 1
  <2>1. /\ HTTP!Marks # {} /\ HTTP!CutAtCR /\ checked_index' = HTTP!Mark
        /\ received' = received /\ start_line' = t /\ buffer' = buffer
        /\ checkstate' = checkstate
        /\ wrapped' \/ read_index' = read_index
    BY <1>3 DEF HTTP!ParseCut
  <2>2. /\ p \in 1 .. Len(received) /\ t < p /\ Clean(received, t, p - 1) /\ p = Len(received)
        /\ received[p] = HTTP!CR /\ p - 1 = HTTP!Mark /\ HTTP!Mark <= read_index
    <3>1. /\ p \in 1 .. Len(received) /\ t < p /\ Clean(received, t, p - 1)
          /\ buffer[HTTP!Mark] = received[p]
      BY <2>1, MarkReceived
    <3>2. HTTP!Mark \in Nat /\ HTTP!Mark < read_index
      BY <2>1, MarkIs
    <3>3. p = read_index /\ buffer[HTTP!Mark] = HTTP!CR
      BY <2>1 DEF HTTP!CutAtCR, HTTP!AtCR
    <3> QED
      BY <1>1, <3>1, <3>2, <3>3
  <2>3. wrapped' \/ BufferOK'
    BY <1>1, <2>1, <2>2 DEF BufferOK
  <2>4. \A k \in t + 1 .. Len(received) :
           received[k] # HTTP!LF /\ (k < Len(received) => received[k] # HTTP!CR)
    <3> SUFFICES ASSUME NEW k \in t + 1 .. Len(received)
                 PROVE  received[k] # HTTP!LF /\ (k < Len(received) => received[k] # HTTP!CR)
      OBVIOUS
    <3>1. k = p \/ k \in t + 1 .. p - 1
      BY <1>1, <2>2
    <3>2. k \in t + 1 .. p - 1 => received[k] \notin {HTTP!CR, HTTP!LF}
      BY <2>2 DEF Clean
    <3> HIDE DEF p
    <3> QED
      BY <1>1, <2>2, <3>1, <3>2, DecidedAtEnds
  <2>5. HTTP!Verdict(received) = "none"
    BY <1>1, <2>4, OpenVerdict
  <2> QED
    BY <2>3, <2>5
<1> QED
  BY <1>2, <1>3

\* Every step of the HTTP server keeps the invariant.
LEMMA ParseGoesOn ==
  ASSUME HTTP!ConstantsOK, ParseInv, [HTTP!Next]_httpVars
  PROVE  ParseInv'
<1>1. /\ HTTP!TypeOK /\ wire \in Plainly /\ received \in Plainly /\ HTTP!AnswerIsVerdict
      /\ pc \in {"recv", "parse"} => answer = "none" /\ (wrapped \/ BufferOK)
  BY DEF ParseInv
<1>2. HTTP!TypeOK'
  BY <1>1, ParseTypes
<1>3. CASE HTTP!ParseLine
  <2>1. /\ pc = "parse" /\ wire' = wire /\ received' = received /\ wrapped' = wrapped
        /\ \E line : HTTP!ParseText(line)
    BY <1>3 DEF HTTP!ParseLine
  <2>2. (pc' = "parse" /\ answer' = answer) \/ pc' = "closed"
    BY <2>1 DEF HTTP!ParseText, HTTP!Reply
  <2>3. wrapped \/ BufferOK
    BY <1>1, <2>1
  <2>4. CASE wrapped
    BY <1>1, <1>2, <2>1, <2>2, <2>4 DEF ParseInv, HTTP!AnswerIsVerdict
  <2>5. CASE BufferOK
    <3>1. /\ pc' = "parse" => answer' = "none" /\ BufferOK'
          /\ pc' # "parse" => pc' = "closed" /\ answer' = HTTP!Verdict(received)
      BY <1>1, <1>3, <2>1, <2>5, LineKeeps
    <3> QED
      BY <1>1, <1>2, <2>1, <3>1 DEF ParseInv, HTTP!AnswerIsVerdict
  <2> QED
    BY <2>3, <2>4, <2>5
<1>4. CASE HTTP!ParseBad
  <2>1. /\ pc = "parse" /\ wire' = wire /\ received' = received /\ wrapped' = wrapped
        /\ pc' = "closed"
    BY <1>4 DEF HTTP!ParseBad, HTTP!Reply
  <2>2. wrapped \/ answer' = HTTP!Verdict(received)
    BY <1>1, <1>4, <2>1, BadKeeps
  <2> QED
    BY <1>1, <1>2, <2>1, <2>2 DEF ParseInv, HTTP!AnswerIsVerdict
<1>5. CASE HTTP!ParseOpen \/ HTTP!ParseCut
  <2>1. /\ pc = "parse" /\ wire' = wire /\ received' = received /\ (wrapped => wrapped')
        /\ pc' = "recv" /\ answer' = answer
    BY <1>1, <1>5 DEF HTTP!ParseOpen, HTTP!ParseCut, HTTP!TypeOK
  <2>2. wrapped' \/ (BufferOK' /\ HTTP!Verdict(received) = "none")
    BY <1>1, <1>5, <2>1, OpenKeeps
  <2> QED
    BY <1>1, <1>2, <2>1, <2>2 DEF ParseInv, HTTP!AnswerIsVerdict
<1>6. ASSUME NEW n \in 1 .. Len(wire), HTTP!Recv(n) PROVE ParseInv'
  <2>1. pc = "recv" /\ pc' = "parse" /\ answer' = answer /\ wrapped' = wrapped
    BY <1>6 DEF HTTP!Recv
  <2>2. wire' \in Plainly /\ received' \in Plainly /\ (BufferOK => BufferOK')
    BY <1>1, <1>6, RecvKeeps
  <2> QED
    BY <1>1, <1>2, <2>1, <2>2 DEF ParseInv, HTTP!AnswerIsVerdict
<1>7. CASE HTTP!RecvNothing \/ HTTP!RecvFails
  <2>1. /\ pc = "recv" /\ pc' \in {"closed", "failed"} /\ answer' = answer /\ wire' = wire
        /\ received' = received /\ wrapped' = wrapped
    BY <1>7 DEF HTTP!RecvNothing, HTTP!RecvFails
  <2> QED
    BY <1>1, <1>2, <2>1 DEF ParseInv, HTTP!AnswerIsVerdict
<1>8. CASE UNCHANGED httpVars
  BY <1>1, <1>2, <1>8 DEF ParseInv, HTTP!AnswerIsVerdict, BufferOK, httpVars
<1> QED
  BY <1>3, <1>4, <1>5, <1>6, <1>7, <1>8 DEF HTTP!Next, HTTP!Server

-----------------------------------------------------------------------------
(* chatserver.c.  What is proved of it for whatever it is told, taken for    *)
(* its instance here: the two have the same definitions.                     *)

CP == INSTANCE ChatServerProofs WITH
    Client <- Chatter,
    ppc <- c_ppc, idx <- c_idx, fds <- c_fds, files <- c_files, cpc <- c_cpc,
    cfiles <- c_cfiles, buf <- c_buf, i <- c_i, backlog <- c_backlog,
    fresh <- c_fresh, wrote <- c_wrote, read <- c_read, peer <- c_peer,
    got <- c_got, who <- c_who, faults <- c_faults

\* The constants are the same, and so is the start.
LEMMA ChatSame ==
  ASSUME C!ConstantsOK, C!Init
  PROVE  CP!ConstantsOK /\ CP!Init
BY DEF C!IsFiniteSet, CP!IsFiniteSet, C!ConstantsOK, C!Init, C!Place, C!Num,
       C!NoFiles, C!Fd, C!Cardinality, CP!ConstantsOK, CP!Init, CP!Place, CP!Num,
       CP!NoFiles, CP!Fd, CP!Cardinality

\* So are the steps ...
LEMMA ChatStepsSame ==
  ASSUME [C!Next]_chatVars
  PROVE  [CP!Next]_(CP!vars)
BY DEF chatVars, C!Next, C!Parent, C!Accept, C!Fd, C!Num, C!IsLowest, C!childVars,
       C!Fork, C!Inherited, C!AfterFork, C!netVars, C!Place, C!ChildOf, C!Receive,
       C!Own, C!Behind, C!parentVars, C!ReceiveEnd, C!Leave, C!Cleared, C!Test,
       C!NextPlace, C!SendNowhere, C!Sending, C!SendTo, C!SendKills, C!Environment,
       C!AcceptFails, C!Fault, C!ForkFails, C!Connect, C!Write, C!Made, C!Close,
       C!Becomes, C!ResetArrives, C!Break, C!Crash, C!vars, C!Cardinality, CP!Next,
       CP!Parent, CP!Accept, CP!Fd, CP!Num, CP!IsLowest, CP!childVars, CP!Fork,
       CP!Inherited, CP!AfterFork, CP!netVars, CP!Place, CP!ChildOf, CP!Receive,
       CP!Own, CP!Behind, CP!parentVars, CP!ReceiveEnd, CP!Leave, CP!Cleared, CP!Test,
       CP!NextPlace, CP!SendNowhere, CP!Sending, CP!SendTo, CP!SendKills,
       CP!Environment, CP!AcceptFails, CP!Fault, CP!ForkFails, CP!Connect, CP!Write,
       CP!Made, CP!Close, CP!Becomes, CP!ResetArrives, CP!Break, CP!Crash, CP!vars,
       CP!Cardinality

\* ... and what is promised.
LEMMA ChatPromisesSame ==
  /\ CP!TypeOK /\ CP!NumbersAgree => NumbersAgree
  /\ CP!HeardByThoseBefore => HeardByThoseBefore
BY DEF NumbersAgree, HeardByThoseBefore, C!TypeOK, C!Place, C!Num, C!Fd, C!Files,
       C!Message, C!NumbersAgree, C!Lives, C!Behind, C!HeardByThoseBefore,
       C!InOrder, C!EarlierHear, C!Cardinality,
       CP!TypeOK, CP!Place, CP!Num, CP!Fd, CP!Files, CP!Message, CP!NumbersAgree,
       CP!Lives, CP!Behind, CP!HeardByThoseBefore,
       CP!InOrder, CP!EarlierHear, CP!Cardinality

\* A run of all the programs is one of the chat server.
LEMMA ChatRuns == MCSpec => CP!Spec
<1>1. MCInit => CP!Init
  BY ChatConstants, ChatSame DEF MCInit
<1>2. [MCNext]_all => [CP!Next]_(CP!vars)
  BY OneRuns, ChatStepsSame
<1> QED
  BY <1>1, <1>2, PTL DEF MCSpec, CP!Spec

-----------------------------------------------------------------------------
(* fileserver.c and fileclient.c, in the same way.                          *)

FP == INSTANCE FileTransferProofs WITH
    cpc <- f_cpc, off <- f_off, src <- f_src, wire <- f_wire, conn <- f_conn,
    spc <- f_spc, exists <- f_exists, samehost <- f_samehost, target <- f_target,
    dst <- f_dst, faults <- f_faults

\* The constants are the same, and so is the start.
LEMMA FileSame ==
  ASSUME F!ConstantsOK, F!Init
  PROVE  FP!ConstantsOK /\ FP!Init
BY DEF F!ConstantsOK, F!Init, F!Whole, FP!ConstantsOK, FP!Init, FP!Whole

\* So are the steps ...
LEMMA FileStepsSame ==
  ASSUME [F!Next]_fileVars
  PROVE  [FP!Next]_(FP!vars)
BY DEF fileVars, F!Next, F!ClientStep, F!SendItem, F!Item, F!serverVars, F!ReadPiece,
       F!More, F!CloseFile, F!SendFails, F!Kinds, F!ServerStep, F!ReceiveName,
       F!Arrives, F!clientVars, F!NameFails, F!Fails, F!AtEnd, F!OpenTarget,
       F!ReceiveLen, F!LenEnds, F!AfterEnd, F!LenFails, F!ReceiveData, F!Write,
       F!Written, F!WriteTo, F!TornData, F!DataFails, F!KillClient, F!BreakConnection, F!vars, FP!Next, FP!ClientStep,
       FP!SendItem, FP!Item, FP!serverVars, FP!ReadPiece, FP!More, FP!CloseFile,
       FP!SendFails, FP!Kinds, FP!ServerStep, FP!ReceiveName, FP!Arrives,
       FP!clientVars, FP!NameFails, FP!Fails, FP!AtEnd, FP!OpenTarget, FP!ReceiveLen,
       FP!LenEnds, FP!AfterEnd, FP!LenFails, FP!ReceiveData, FP!Write,
       FP!Written, FP!WriteTo, FP!TornData, FP!DataFails,
       FP!KillClient, FP!BreakConnection, FP!vars

\* ... and what is promised.
LEMMA FilePromisesSame ==
  ASSUME FP!TypeOK, FP!CopyIsSound
  PROVE  CopyIsSound
BY DEF CopyIsSound, F!TypeOK, F!Items, F!Kinds, F!CopyIsSound, F!CopyIsWhole,
       F!DamageIsLast, FP!TypeOK, FP!Items, FP!Kinds, FP!CopyIsSound, FP!CopyIsWhole,
       FP!DamageIsLast

\* A run of all the programs is one of the client and the server of files.
LEMMA FileRuns == MCSpec => FP!Spec
<1>1. MCInit => FP!Init
  BY FileConstants, FileSame DEF MCInit
<1>2. [MCNext]_all => [FP!Next]_(FP!vars)
  BY OneRuns, FileStepsSame
<1> QED
  BY <1>1, <1>2, PTL DEF MCSpec, FP!Spec
-----------------------------------------------------------------------------
(* Together.                                                               *)

PairsInv == ForkInv /\ ClientInv /\ SemInv /\ UdpInv

\* The invariant of all four pairs holds throughout.
LEMMA PairsInvariant == MCSpec => []PairsInv
<1>1. MCInit => PairsInv
  BY ForkConstants, ForkStarts, ClientStarts, SemStarts, UdpStarts DEF MCInit, PairsInv
<1>2. PairsInv /\ [MCNext]_all => PairsInv'
  BY ForkConstants, OneRuns, ForkGoesOn, ClientGoesOn, SemGoesOn, UdpGoesOn DEF PairsInv
<1> QED
  BY <1>1, <1>2, PTL DEF MCSpec

\* echoserver.cpp: children are noticed and descriptors handed over; chatclient.c: it
\* ends after its receiver; sem.cpp: what is taken is there and comes in order;
\* udpechoclient.c: no answer is printed before its line or more often than it came.
THEOREM PairsAlwaysSound == MCSpec => []PairsAreSound
<1>1. PairsInv => PairsAreSound
  BY DEF PairsInv, PairsAreSound, ForkInv, ClientInv, SemInv, UdpInv
<1> QED
  BY <1>1, PairsInvariant, PTL

HelpersInv == StreamInv /\ ConnectInv

\* The invariant of the helpers holds throughout.
LEMMA HelpersInvariant == MCSpec => []HelpersInv
<1>1. MCInit => HelpersInv
  BY StreamConstants, StreamStarts, ConnectStarts DEF MCInit, HelpersInv
<1>2. HelpersInv /\ [MCNext]_all => HelpersInv'
  BY StreamConstants, OneRuns, StreamGoesOn, ConnectGoesOn DEF HelpersInv
<1> QED
  BY <1>1, <1>2, PTL DEF MCSpec

\* readn.cpp, writen.cpp, readline.cpp, readline_bufcache.cpp and connect_nb.c: however
\* the kernel cuts and interrupts what is asked of it, a transfer without errors is
\* whole, a line is exact, the cache loses nothing, and what is said of a connection is so.
THEOREM HelpersAlwaysSound == MCSpec => []HelpersAreSound
<1>1. HelpersInv => HelpersAreSound
  BY DEF HelpersInv, HelpersAreSound, StreamInv, ConnectInv
<1> QED
  BY <1>1, HelpersInvariant, PTL

\* The invariant of ping holds throughout.
LEMMA PingInvariant == MCSpec => []PingInv
<1>1. MCInit => PingInv
  BY PingConstants, PingStarts DEF MCInit
<1>2. PingInv /\ [MCNext]_all => PingInv'
  BY PingConstants, OneRuns, PingGoesOn
<1> QED
  BY <1>1, <1>2, PTL DEF MCSpec

\* ping.c: every checksum verifies, the times are right, no more replies are counted than
\* came, and the percentage is all or none.
THEOREM PingAlwaysSound == MCSpec => []PingIsSound
<1>1. PingInv => PingIsSound
  BY PingSoundIs DEF PingIsSound
<1> QED
  BY <1>1, PingInvariant, PTL

\* chatserver.c: a number in the shared table means the same in every process that still
\* has it open, whoever came, left, failed or was killed since it was forked.
THEOREM ChatNumbersAlwaysAgree == MCSpec => []NumbersAgree
<1>1. MCInit => CP!ConstantsOK
  BY ChatConstants, ChatSame DEF MCInit
<1>2. CP!ConstantsOK => (CP!Spec => []CP!TypeOK)
  BY CP!TypeCorrect
<1>3. CP!ConstantsOK => (CP!Spec => []CP!NumbersAgree)
  BY CP!NumbersAlwaysAgree
<1> QED
  BY <1>1, <1>2, <1>3, ChatRuns, ChatPromisesSame, PTL DEF MCSpec

\* chatserver.c: a message is heard by its sender and those who came before, by all of
\* them that are there, once each and in order.
THEOREM ChatAlwaysHeard == MCSpec => []HeardByThoseBefore
<1>1. MCInit => CP!ConstantsOK
  BY ChatConstants, ChatSame DEF MCInit
<1>2. CP!ConstantsOK => (CP!Spec => []CP!HeardByThoseBefore)
  BY CP!AlwaysHeardByThoseBefore
<1> QED
  BY <1>1, <1>2, ChatRuns, ChatPromisesSame, PTL DEF MCSpec

\* fileserver.c, fileclient.c: a copy that ended without failure is the whole file, and a
\* failure spoils at most the last thing written.
THEOREM CopyAlwaysSound == MCSpec => []CopyIsSound
<1>1. MCInit => FP!ConstantsOK
  BY FileConstants, FileSame DEF MCInit
<1>2. FP!ConstantsOK => (FP!Spec => []FP!TypeOK)
  BY FP!TypeCorrect
<1>3. FP!ConstantsOK => (FP!Spec => []FP!CopyIsSound)
  BY FP!CopyAlwaysSound
<1> QED
  BY <1>1, <1>2, <1>3, FileRuns, FilePromisesSame, PTL DEF MCSpec

\* The invariant of the HTTP parser holds throughout.
LEMMA ParseInvariant == MCSpec => []ParseInv
<1>1. MCInit => ParseInv
  BY HttpConstants, ParseStarts DEF MCInit
<1>2. ParseInv /\ [MCNext]_all => ParseInv'
  BY HttpConstants, OneRuns, ParseGoesOn
<1> QED
  BY <1>1, <1>2, PTL DEF MCSpec

\* httpparse.cpp: whatever pieces recv returns, the answer is given as soon as the bytes
\* received decide it, and is the one they decide.
THEOREM AnswerAlwaysVerdict == MCSpec => []AnswerIsVerdict
<1>1. ParseInv => AnswerIsVerdict
  BY DEF ParseInv, AnswerIsVerdict
<1> QED
  BY <1>1, ParseInvariant, PTL
=============================================================================
