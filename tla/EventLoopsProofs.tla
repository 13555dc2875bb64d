--------------------------- MODULE EventLoopsProofs ---------------------------
(***************************************************************************)
(* Theorems about EventLoops, for any number of descriptors and of clients *)
(* and any number of failures, and about EpollEcho, for any of its own.     *)
(***************************************************************************)
EXTENDS MCEventLoops, FiniteSetTheorems, WellFoundedInduction, TLAPS

-----------------------------------------------------------------------------
(* The inductive invariant.                                                *)

\* Every connection is behind one number, or in the queue once, or yet to be made.
OwnersOnce ==
    /\ \A f, g \in Client : owner[f] # NoConn /\ owner[f] = owner[g] => f = g
    /\ \A f \in Client : owner[f] \notin fresh
    /\ \A j \in DOMAIN backlog :
          /\ backlog[j] \notin fresh
          /\ \A f \in Client : owner[f] # backlog[j]
          /\ \A k \in DOMAIN backlog : backlog[k] = backlog[j] => k = j

\* The table holds the numbers that are open, each in its place, and the set the same
\* ones; maxfd and maxi are beyond them.
NumbersOK ==
    /\ prog = "polltest.c" => clientfd[0] = listenfd /\ maxi >= 0
    /\ \A j \in Index : j >= First => clientfd[j] \in {Free, j + Base}
    /\ \A f \in Client : owner[f] # NoConn <=> clientfd[f - Base] = f
    /\ Selects =>
          /\ listenfd \in allfds
          /\ \A f \in Client : f \in allfds <=> owner[f] # NoConn
          /\ \A f \in Client : owner[f] # NoConn => f <= maxfd
    /\ prog # "select.c" =>
          \A j \in Index : j >= First /\ clientfd[j] # Free => j <= maxi

\* While a round lasts, count is how many of those reported nobody has looked at, and
\* these are still there and have something to read; the walk has left none behind.
RoundOK ==
    /\ next >= First
    /\ Listening =>
          /\ backlog # <<>> /\ listenfd \in left /\ left = ready /\ next = First
          /\ \A f \in ready \cap Client : owner[f] # NoConn
    /\ pc \in {"accept", "scan"} =>
          /\ count = Cardinality(left) /\ left \subseteq ready
          /\ \A j \in Index : j >= First =>
                IF j < next THEN clientfd[j] \notin left
                ELSE clientfd[j] \in ready =>
                        clientfd[j] \in left /\ HasInput(owner[clientfd[j]])

LoopInv == TypeOK /\ OwnersOnce /\ NumbersOK /\ RoundOK /\ RoundIsComplete

-----------------------------------------------------------------------------
(* Numbers, sets and sequences.                                            *)

\* A set of numbers that is not empty has a smallest one.
LEMMA SmallestOf ==
    ASSUME NEW S, S \subseteq Nat, S # {}
    PROVE  \E m \in S : \A n \in S : m <= n
<1> DEFINE R == OpToRel(<, Nat)
<1>1. IsWellFoundedOn(R, Nat)
  BY NatLessThanWellFounded
<1>2. R = {ss \in Nat \X Nat : ss[1] < ss[2]}
  BY DEF OpToRel
<1> HIDE DEF R
<1>3. PICK m \in S : \A n \in S : ~ (<<n, m>> \in R)
  BY <1>1, WFMin
<1>4. ASSUME NEW n \in S PROVE m <= n
  <2>1. n \in Nat /\ m \in Nat
    OBVIOUS
  <2>2. <<n, m>> \notin R
    BY <1>3
  <2>3. ~ (n < m)
    BY <1>2, <2>1, <2>2
  <2> QED
    BY <2>1, <2>3
<1> QED
  BY <1>4

\* What Append gives.
LEMMA AppendSeq ==
    ASSUME NEW S, NEW s \in Seq(S), NEW e \in S
    PROVE  /\ Append(s, e) \in Seq(S) /\ Append(s, e) # <<>>
           /\ Len(s) \in Nat /\ DOMAIN s = 1 .. Len(s)
           /\ DOMAIN Append(s, e) = 1 .. Len(s) + 1
           /\ Append(s, e)[Len(s) + 1] = e
           /\ \A j \in 1 .. Len(s) : Append(s, e)[j] = s[j]
OBVIOUS

\* What Tail gives.
LEMMA TailSeq ==
    ASSUME NEW S, NEW s \in Seq(S), s # <<>>
    PROVE  /\ Tail(s) \in Seq(S)
           /\ Len(s) \in Nat \ {0} /\ DOMAIN s = 1 .. Len(s)
           /\ DOMAIN Tail(s) = 1 .. Len(s) - 1
           /\ Head(s) = s[1] /\ Head(s) \in S
           /\ \A j \in 1 .. Len(s) - 1 : Tail(s)[j] = s[j + 1]
OBVIOUS

\* Places and numbers.
LEMMA Places ==
    /\ Limit \in Nat /\ First \in {0, 1} /\ Base = 4 - First
    /\ \A f \in Client : /\ f \in Int /\ f >= 4 /\ f - Base \in Index
                         /\ f - Base >= First /\ (f - Base) + Base = f
    /\ \A j \in Index : /\ j \in Nat /\ j < Limit
                        /\ (j + Base) - Base = j
BY LimitAssumption DEF First, Base, Client, Index

\* What a round may report: so many that count fits the table.
LEMMA FewReported ==
    ASSUME NEW S, S \subseteq Client \cup {Stdin, listenfd}
    PROVE  /\ IsFiniteSet(S) /\ Cardinality(S) \in 0 .. Limit
           /\ Cardinality(S) = 0 <=> S = {}
<1>1. 0 .. Limit - 1 \in SUBSET Int /\ IsFiniteSet(0 .. Limit - 1)
      /\ Cardinality(0 .. Limit - 1) = Limit
  <2>1. 0 \in Int /\ Limit - 1 \in Int /\ ~ (0 > Limit - 1) /\ (Limit - 1) - 0 + 1 = Limit
    BY LimitAssumption
  <2> QED
    BY <2>1, FS_Interval
<1>2. S \in SUBSET (0 .. Limit - 1)
  BY LimitAssumption DEF Client, Stdin, listenfd
<1>3. IsFiniteSet(S) /\ Cardinality(S) <= Limit
  BY <1>1, <1>2, FS_Subset
<1>4. Cardinality(S) \in Nat
  BY <1>3, FS_CardinalityType
<1> QED
  BY <1>3, <1>4, FS_EmptySet, LimitAssumption

\* A step that looks at a descriptor that was reported and not looked at: the count
\* ends the round if it was the last one.
LEMMA LookedAt ==
    ASSUME TypeOK, NEW f \in left, count = Cardinality(left), NEW n, Looked(f, n)
    PROVE  /\ left' = left \ {f} /\ count' = Cardinality(left')
           /\ count' \in 0 .. Limit
           /\ IF left' = {} THEN pc' = "wait" /\ next' = StartOfWalk /\ ready' = {}
                            ELSE pc' = "scan" /\ next' = n /\ ready' = ready
<1>1. left' = left \ {f} /\ count' = count - 1
  BY DEF Looked
<1>2. left \subseteq Client \cup {Stdin, listenfd} /\ left' \subseteq Client \cup {Stdin, listenfd}
  BY <1>1 DEF TypeOK
<1>3. IsFiniteSet(left) /\ Cardinality(left) \in Nat /\ Cardinality(left') \in 0 .. Limit
      /\ (Cardinality(left') = 0 <=> left' = {})
  BY <1>2, FewReported
<1>4. Cardinality(left') = Cardinality(left) - 1
  BY <1>1, <1>3, FS_RemoveElement
<1>5. Enough(count - 1) <=> left' = {}
  BY <1>3, <1>4, LimitAssumption DEF Enough
<1> QED
  BY <1>1, <1>3, <1>4, <1>5 DEF Looked

\* The program is the same at every step.
LEMMA SameProgram ==
    ASSUME prog' = prog
    PROVE  /\ First' = First /\ Base' = Base /\ StartOfWalk' = First
           /\ StartOfWalk = First /\ (Selects' <=> Selects)
BY DEF First, Base, StartOfWalk, Selects

-----------------------------------------------------------------------------
(* What the handlers find.                                                 *)

\* An entry that is not empty holds the number of its place, which is open.
LEMMA EntryIs ==
    ASSUME TypeOK, NumbersOK, NEW j \in Index, j >= First, clientfd[j] # Free
    PROVE  /\ clientfd[j] = j + Base /\ j + Base \in Client
           /\ owner[j + Base] \in Conn /\ owner[j + Base] # NoConn
<1>1. clientfd[j] = j + Base
  BY DEF NumbersOK
<1>2. j + Base \in Client
  BY <1>1, Places DEF TypeOK, listenfd
<1>3. owner[j + Base] # NoConn
  BY <1>1, <1>2, Places DEF NumbersOK
<1> QED
  BY <1>1, <1>2, <1>3 DEF TypeOK

\* accept returns the number of the place it is entered in.
LEMMA AcceptPlace ==
    ASSUME TypeOK, NumbersOK, NEW f \in Client, NEW k \in Index, Accept(f, k)
    PROVE  /\ f = k + Base /\ k = f - Base /\ k >= First /\ owner[f] = NoConn
           /\ clientfd[k] = Free
           /\ backlog # <<>> /\ Head(backlog) \in Conn /\ Head(backlog) # NoConn
           /\ owner' = [owner EXCEPT ![f] = Head(backlog)]
           /\ backlog' = Tail(backlog)
           /\ clientfd' = [clientfd EXCEPT ![k] = f]
           /\ prog' = prog /\ Looked(listenfd, StartOfWalk)
<1>1. /\ IsLowest(f) /\ IsFirstFree(k) /\ backlog # <<>>
      /\ owner[f] = NoConn /\ clientfd[k] = Free /\ k >= First
  BY DEF Accept, IsLowest, IsFirstFree
<1>2. Head(backlog) \in Conn /\ Head(backlog) # NoConn
  BY <1>1, TailSeq, ConnAssumption DEF TypeOK
<1>3. f \in Int /\ k \in Int /\ Base \in Int /\ First \in Int /\ f - Base \in Index
      /\ f - Base >= First /\ Limit \in Int
  BY Places
<1>4. ~ (f - Base < k)
  <2>1. clientfd[f - Base] # f
    BY <1>1 DEF NumbersOK
  <2>2. clientfd[f - Base] = Free
    BY <1>3, <2>1 DEF NumbersOK
  <2>3. f - Base < k => f - Base \in First .. k - 1
    BY <1>3
  <2> QED
    BY <1>1, <2>2, <2>3 DEF IsFirstFree
<1>5. ~ (k < f - Base)
  <2> SUFFICES ASSUME k < f - Base PROVE FALSE
    OBVIOUS
  <2>1. k + Base \in 4 .. f - 1 /\ k + Base \in Client /\ (k + Base) - Base = k
    BY <1>1, <1>3, Places DEF Client
  <2>2. owner[k + Base] # NoConn
    BY <1>1, <2>1 DEF IsLowest
  <2>3. clientfd[k] = k + Base
    BY <2>1, <2>2 DEF NumbersOK
  <2> QED
    BY <1>1, <1>3, <2>1, <2>3 DEF Free, Client
<1>6. f = k + Base /\ k = f - Base
  BY <1>3, <1>4, <1>5
<1> QED
  BY <1>1, <1>2, <1>6 DEF Accept

\* Accepting keeps the types.
LEMMA AcceptTypes ==
    ASSUME TypeOK, NumbersOK, NEW f \in Client, NEW k \in Index, Accept(f, k)
    PROVE  /\ clientfd' \in [Index -> Client \cup {Free, listenfd}]
           /\ owner' \in [Client -> Conn \cup {NoConn}] /\ backlog' \in Seq(Conn)
<1>1. /\ backlog # <<>> /\ Head(backlog) \in Conn
      /\ owner' = [owner EXCEPT ![f] = Head(backlog)]
      /\ backlog' = Tail(backlog)
      /\ clientfd' = [clientfd EXCEPT ![k] = f]
  BY AcceptPlace
<1> QED
  BY <1>1, TailSeq DEF TypeOK

\* Only what is open can be reported.
LEMMA WatchedType ==
    ASSUME TypeOK
    PROVE  Watched \subseteq Client \cup {Stdin, listenfd}
<1>1. CASE Selects
  BY <1>1 DEF Watched, TypeOK
<1>2. CASE ~ Selects
  <2>1. \A j \in 0 .. maxi : j \in Index
    BY <1>2, LimitAssumption DEF TypeOK, Index, Selects
  <2>2. \A j \in Index : clientfd[j] \in Client \cup {Free, listenfd}
    BY DEF TypeOK
  <2> QED
    BY <1>2, <2>1, <2>2 DEF Watched
<1> QED
  BY <1>1, <1>2

\* What the walk comes to is a client's number that was reported, is still open and
\* can be read.
LEMMA NextIs ==
    ASSUME TypeOK, NumbersOK, RoundOK, NEW j \in Index, pc = "scan", IsNext(j)
    PROVE  /\ j >= First /\ clientfd[j] = j + Base /\ j + Base \in Client
           /\ owner[j + Base] \in Conn /\ owner[j + Base] # NoConn
           /\ j + Base \in left /\ HasInput(owner[j + Base])
           /\ count = Cardinality(left) /\ left \subseteq ready
<1>1. j \in Int /\ next \in Int /\ First \in Int
  BY Places, LimitAssumption DEF TypeOK
<1>2. j >= next /\ j >= First /\ ~ (j < next) /\ clientfd[j] \in ready
  BY <1>1 DEF RoundOK, IsNext
<1>3. clientfd[j] # Free
  BY <1>2 DEF TypeOK, Free, Client, Stdin, listenfd
<1>4. clientfd[j] \in left /\ HasInput(owner[clientfd[j]])
  BY <1>2 DEF RoundOK
<1> QED
  BY <1>2, <1>3, <1>4, EntryIs DEF RoundOK

-----------------------------------------------------------------------------
(* The initial states.                                                     *)

\* The invariant holds at the start.
LEMMA InitLoopInv == Init => LoopInv
<1> SUFFICES ASSUME Init PROVE LoopInv
  OBVIOUS
<1>1. Limit \in Nat /\ Limit > 4 /\ MaxFault \in Nat /\ StartOfWalk = First
  BY LimitAssumption, FaultAssumption DEF StartOfWalk
<1>2. TypeOK
  <2>1. clientfd \in [Index -> Client \cup {Free, listenfd}]
    BY DEF Init
  <2>2. maxi \in -1 .. Limit + 1 /\ (prog # "selecttest.c" => maxi < Limit)
    <3>1. CASE prog = "selecttest.c"
      BY <3>1, GarbageAssumption DEF Init
    <3>2. CASE prog # "selecttest.c"
      <4>1. maxi = 0
        BY <3>2 DEF Init
      <4> QED
        BY <1>1, <4>1
    <3> QED
      BY <3>1, <3>2
  <2>3. next \in 0 .. Limit /\ count \in 0 .. Limit /\ faults \in 0 .. MaxFault
    BY <1>1, Places DEF Init
  <2>4. backlog \in Seq(Conn)
    BY DEF Init
  <2> QED
    BY <2>1, <2>2, <2>3, <2>4 DEF Init, TypeOK
<1>3. OwnersOnce
  BY ConnAssumption DEF Init, OwnersOnce
<1>4. NumbersOK
  <2>1. \A j \in Index : j >= First => clientfd[j] = Free
    BY <1>1 DEF Init, First, Index
  <2>2. \A f \in Client : clientfd[f - Base] # f /\ owner[f] = NoConn
    BY <2>1, Places DEF Init, Free
  <2>3. prog = "polltest.c" => clientfd[0] = listenfd /\ maxi >= 0
    BY <1>1 DEF Init, Index
  <2>4. Selects => listenfd \in allfds /\ \A f \in Client : f \notin allfds
    BY DEF Init, Selects, Client, Stdin, listenfd
  <2> QED
    BY <2>1, <2>2, <2>3, <2>4 DEF NumbersOK
<1>5. RoundOK
  BY <1>1, Places DEF Init, RoundOK, Listening
<1>6. RoundIsComplete
  BY DEF Init, RoundIsComplete
<1> QED
  BY <1>2, <1>3, <1>4, <1>5, <1>6 DEF LoopInv

-----------------------------------------------------------------------------
(* What each step keeps of the invariant.                                  *)

\* What is counted fits the table, and the walk stays in it.
LEMMA TypeStep ==
    ASSUME LoopInv, [Next]_vars
    PROVE  TypeOK'
<1> USE DEF LoopInv, tableVars, loopVars, netVars, vars
<1>1. CASE Wait
  <2>1. ready' \subseteq Client \cup {Stdin, listenfd}
    BY <1>1, WatchedType DEF Wait
  <2>2. count' \in 0 .. Limit /\ next' \in 0 .. Limit
    BY <1>1, <2>1, FewReported, Places DEF Wait, StartOfWalk
  <2> QED
    BY <1>1, <2>1, <2>2 DEF Wait, TypeOK
<1>2. ASSUME NEW f \in Client, NEW k \in Index, SelectAccept(f, k) PROVE TypeOK'
  <2>1. /\ clientfd' \in [Index -> Client \cup {Free, listenfd}]
        /\ owner' \in [Client -> Conn \cup {NoConn}] /\ backlog' \in Seq(Conn)
    BY <1>2, AcceptTypes DEF SelectAccept
  <2>2. Looked(listenfd, StartOfWalk) /\ listenfd \in left /\ count = Cardinality(left)
    BY <1>2 DEF SelectAccept, Accept, Listening, RoundOK
  <2>3. /\ count' \in 0 .. Limit /\ next' \in 0 .. Limit
        /\ pc' \in {"wait", "scan"} /\ ready' \subseteq ready /\ left' \subseteq left
    BY <2>2, LookedAt, Places, SameProgram, LimitAssumption DEF StartOfWalk
  <2>4. maxfd' \in Client \cup {listenfd}
    BY <1>2 DEF SelectAccept, Accept, Larger, TypeOK
  <2>5. maxi' \in -1 .. Limit + 1 /\ (prog' # "selecttest.c" => maxi' < Limit)
    <3>1. maxi' \in {k, maxi} /\ prog' = prog
      BY <1>2 DEF SelectAccept, Accept, NewMaxi, Larger
    <3>2. k \in Nat /\ k < Limit /\ Limit \in Nat
      BY Places
    <3> QED
      BY <3>1, <3>2 DEF TypeOK
  <2> QED
    BY <1>2, <2>1, <2>3, <2>4, <2>5 DEF SelectAccept, Accept, TypeOK
<1>3. ASSUME NEW f \in Client, NEW k \in Index, SelecttestAccept(f, k) PROVE TypeOK'
  <2>1. /\ clientfd' \in [Index -> Client \cup {Free, listenfd}]
        /\ owner' \in [Client -> Conn \cup {NoConn}] /\ backlog' \in Seq(Conn)
    BY <1>3, AcceptTypes DEF SelecttestAccept
  <2>2. Looked(listenfd, StartOfWalk) /\ listenfd \in left /\ count = Cardinality(left)
    BY <1>3 DEF SelecttestAccept, Accept, Listening, RoundOK
  <2>3. /\ count' \in 0 .. Limit /\ next' \in 0 .. Limit
        /\ pc' \in {"wait", "scan"} /\ ready' \subseteq ready /\ left' \subseteq left
    BY <2>2, LookedAt, Places, SameProgram, LimitAssumption DEF StartOfWalk
  <2>4. maxfd' \in Client \cup {listenfd}
    BY <1>3 DEF SelecttestAccept, Accept, Larger, TypeOK
  <2>5. maxi' \in -1 .. Limit + 1 /\ (prog' # "selecttest.c" => maxi' < Limit)
    <3>1. maxi' \in {k, maxi} /\ prog' = prog
      BY <1>3 DEF SelecttestAccept, Accept, NewMaxi, Larger
    <3>2. k \in Nat /\ k < Limit /\ Limit \in Nat
      BY Places
    <3> QED
      BY <3>1, <3>2 DEF TypeOK
  <2> QED
    BY <1>3, <2>1, <2>3, <2>4, <2>5 DEF SelecttestAccept, Accept, TypeOK
<1>4. ASSUME NEW f \in Client, NEW k \in Index, PollAccept(f, k) PROVE TypeOK'
  <2>1. /\ clientfd' \in [Index -> Client \cup {Free, listenfd}]
        /\ owner' \in [Client -> Conn \cup {NoConn}] /\ backlog' \in Seq(Conn)
    BY <1>4, AcceptTypes DEF PollAccept
  <2>2. Looked(listenfd, StartOfWalk) /\ listenfd \in left /\ count = Cardinality(left)
    BY <1>4 DEF PollAccept, Accept, Listening, RoundOK
  <2>3. /\ count' \in 0 .. Limit /\ next' \in 0 .. Limit
        /\ pc' \in {"wait", "scan"} /\ ready' \subseteq ready /\ left' \subseteq left
    BY <2>2, LookedAt, Places, SameProgram, LimitAssumption DEF StartOfWalk
  <2>4. maxfd' \in Client \cup {listenfd}
    BY <1>4 DEF PollAccept, TypeOK
  <2>5. maxi' \in -1 .. Limit + 1 /\ (prog' # "selecttest.c" => maxi' < Limit)
    <3>1. maxi' \in {k, maxi} /\ prog' = prog
      BY <1>4 DEF PollAccept, Accept, NewMaxi, Larger
    <3>2. k \in Nat /\ k < Limit /\ Limit \in Nat
      BY Places
    <3> QED
      BY <3>1, <3>2 DEF TypeOK
  <2>6. /\ UNCHANGED <<prog, fresh, hot, peer, faults, allfds>>
        /\ pc' \in {"wait", "accept", "scan", "exited", "undefined"}
    BY <1>4, <2>3 DEF PollAccept, Accept
  <2>7. /\ ready' \subseteq Client \cup {Stdin, listenfd}
        /\ left' \subseteq Client \cup {Stdin, listenfd}
    BY <2>3 DEF TypeOK
  <2> QED
    BY <2>1, <2>3, <2>4, <2>5, <2>6, <2>7 DEF TypeOK
<1>5. CASE SelectRefuse
  <2>1. faults' \in 0 .. MaxFault
    BY <1>5, FaultAssumption DEF SelectRefuse, Refuse, TypeOK
  <2> QED
    BY <1>5, <2>1 DEF SelectRefuse, Refuse, TypeOK
<1>6. CASE SelecttestRefuse
  <2>1. faults' \in 0 .. MaxFault
    BY <1>6, FaultAssumption DEF SelecttestRefuse, Refuse, TypeOK
  <2> QED
    BY <1>6, <2>1 DEF SelecttestRefuse, Refuse, TypeOK
<1>7. CASE PollRefuse
  <2>1. faults' \in 0 .. MaxFault
    BY <1>7, FaultAssumption DEF PollRefuse, Refuse, TypeOK
  <2>2. Looked(listenfd, StartOfWalk) /\ listenfd \in left /\ count = Cardinality(left)
    BY <1>7 DEF PollRefuse, Refuse, Listening, RoundOK
  <2>3. /\ count' \in 0 .. Limit /\ next' \in 0 .. Limit
        /\ pc' \in {"wait", "scan"} /\ ready' \subseteq ready /\ left' \subseteq left
    BY <2>2, LookedAt, Places, LimitAssumption DEF StartOfWalk
  <2>4. maxi' \in -1 .. Limit + 1 /\ (prog' # "selecttest.c" => maxi' < Limit)
    BY <1>7, Places, LimitAssumption DEF PollRefuse, Refuse, NewMaxi, Larger, TypeOK
  <2> QED
    BY <1>7, <2>1, <2>3, <2>4 DEF PollRefuse, Refuse, TypeOK
<1>8. ASSUME NEW j \in Index, pc = "scan", ReadData(j) PROVE TypeOK'
  <2>1. /\ clientfd[j] \in left /\ count = Cardinality(left) /\ clientfd[j] \in Client
    BY <1>8, NextIs DEF ReadData
  <2>2. Looked(clientfd[j], j + 1) /\ j + 1 \in 0 .. Limit /\ StartOfWalk \in 0 .. Limit
    BY <1>8, Places DEF ReadData, Seen, StartOfWalk
  <2>3. /\ count' \in 0 .. Limit /\ next' \in 0 .. Limit
        /\ pc' \in {"wait", "scan"} /\ ready' \subseteq ready /\ left' \subseteq left
    BY <2>1, <2>2, LookedAt
  <2> QED
    BY <1>8, <2>1, <2>3 DEF ReadData, Emptied, FdClr, TypeOK
<1>9. ASSUME NEW j \in Index, pc = "scan", ReadEnd(j) PROVE TypeOK'
  <2>1. /\ clientfd[j] \in left /\ count = Cardinality(left) /\ clientfd[j] \in Client
    BY <1>9, NextIs DEF ReadEnd, Close
  <2>2. Looked(clientfd[j], j + 1) /\ j + 1 \in 0 .. Limit /\ StartOfWalk \in 0 .. Limit
    BY <1>9, Places DEF ReadEnd, Close, Seen, StartOfWalk
  <2>3. /\ count' \in 0 .. Limit /\ next' \in 0 .. Limit
        /\ pc' \in {"wait", "scan"} /\ ready' \subseteq ready /\ left' \subseteq left
    BY <2>1, <2>2, LookedAt
  <2> QED
    BY <1>9, <2>1, <2>3 DEF ReadEnd, Close, Emptied, FdClr, TypeOK
<1>10. ASSUME NEW j \in Index, pc = "scan", SelectReadError(j) PROVE TypeOK'
  <2>1. /\ clientfd[j] \in left /\ count = Cardinality(left) /\ clientfd[j] \in Client
    BY <1>10, NextIs DEF SelectReadError
  <2>2. Looked(clientfd[j], j + 1) /\ j + 1 \in 0 .. Limit /\ StartOfWalk \in 0 .. Limit
    BY <1>10, Places DEF SelectReadError, Seen, StartOfWalk
  <2>3. /\ count' \in 0 .. Limit /\ next' \in 0 .. Limit
        /\ pc' \in {"wait", "scan"} /\ ready' \subseteq ready /\ left' \subseteq left
    BY <2>1, <2>2, LookedAt
  <2> QED
    BY <1>10, <2>1, <2>3 DEF SelectReadError, Emptied, FdClr, TypeOK
<1>11. ASSUME NEW j \in Index, pc = "scan", PollReadReset(j) PROVE TypeOK'
  <2>1. /\ clientfd[j] \in left /\ count = Cardinality(left) /\ clientfd[j] \in Client
    BY <1>11, NextIs DEF PollReadReset, Close
  <2>2. Looked(clientfd[j], j + 1) /\ j + 1 \in 0 .. Limit /\ StartOfWalk \in 0 .. Limit
    BY <1>11, Places DEF PollReadReset, Close, Seen, StartOfWalk
  <2>3. /\ count' \in 0 .. Limit /\ next' \in 0 .. Limit
        /\ pc' \in {"wait", "scan"} /\ ready' \subseteq ready /\ left' \subseteq left
    BY <2>1, <2>2, LookedAt
  <2> QED
    BY <1>11, <2>1, <2>3 DEF PollReadReset, Close, Emptied, FdClr, TypeOK
<1>12. ASSUME NEW j \in Index, pc = "scan", PollReadError(j) PROVE TypeOK'
  BY <1>12 DEF PollReadError, TypeOK
<1>13. CASE ScanDone
  <2>1. next' \in 0 .. Limit
    BY <1>13, Places, LimitAssumption DEF ScanDone, WalkEnds, StartOfWalk
  <2> QED
    BY <1>13, <2>1 DEF ScanDone, WalkEnds, TypeOK
<1>14. ASSUME NEW c \in Conn, Connect(c) PROVE TypeOK'
  <2>1. backlog' \in Seq(Conn)
    BY <1>14, AppendSeq DEF Connect, TypeOK
  <2> QED
    BY <1>14, <2>1 DEF Connect, TypeOK
<1>15. ASSUME NEW c \in Conn, Send(c) PROVE TypeOK'
  BY <1>15 DEF Send, TypeOK
<1>16. ASSUME NEW c \in Conn, Leave(c) PROVE TypeOK'
  BY <1>16 DEF Leave, TypeOK
<1>17. ASSUME NEW c \in Conn, NEW how \in {"reset", "failed"}, Break(c, how) PROVE TypeOK'
  <2>1. faults' \in 0 .. MaxFault
    BY <1>17, FaultAssumption DEF Break, TypeOK
  <2> QED
    BY <1>17, <2>1 DEF Break, TypeOK
<1>18. CASE UNCHANGED vars
  BY <1>18 DEF TypeOK
<1>19. CASE LeaveTable
  BY <1>19 DEF LeaveTable, TypeOK
<1> QED
  BY <1>1, <1>2, <1>3, <1>4, <1>5, <1>6, <1>7, <1>8, <1>9, <1>10, <1>11,
     <1>12, <1>13, <1>14, <1>15, <1>16, <1>17, <1>18, <1>19
     DEF Next, Server, AcceptStep, RefuseStep, ReadStep, Clients

\* The connection at the head of the queue is behind no other number.
LEMMA AcceptOwners ==
    ASSUME TypeOK, OwnersOnce, NumbersOK,
           NEW f \in Client, NEW k \in Index, Accept(f, k)
    PROVE  OwnersOnce'
<1> DEFINE n == Len(backlog)
           h == Head(backlog)
<1>1. /\ n \in Nat \ {0} /\ DOMAIN backlog = 1 .. n /\ DOMAIN backlog' = 1 .. n - 1
      /\ h = backlog[1] /\ h \in Conn /\ h # NoConn
      /\ \A j \in 1 .. n - 1 : backlog'[j] = backlog[j + 1]
  <2>1. backlog # <<>> /\ backlog \in Seq(Conn) /\ backlog' = Tail(backlog) /\ h # NoConn
    BY AcceptPlace DEF TypeOK
  <2> QED
    BY <2>1, TailSeq
<1>2. owner[f] = NoConn /\ \A g \in Client : owner'[g] = IF g = f THEN h ELSE owner[g]
  BY AcceptPlace DEF TypeOK
<1>3. fresh' = fresh
  BY DEF Accept
<1>4. h \notin fresh /\ \A g \in Client : owner[g] # h
  BY <1>1 DEF OwnersOnce
<1>5. \A g, e \in Client : owner'[g] # NoConn /\ owner'[g] = owner'[e] => g = e
  BY <1>2, <1>4 DEF OwnersOnce
<1>6. \A g \in Client : owner'[g] \notin fresh'
  BY <1>2, <1>3, <1>4 DEF OwnersOnce
<1>7. ASSUME NEW j \in DOMAIN backlog'
      PROVE  /\ backlog'[j] \notin fresh'
             /\ \A g \in Client : owner'[g] # backlog'[j]
             /\ \A m \in DOMAIN backlog' : backlog'[m] = backlog'[j] => m = j
  <2>1. /\ j + 1 \in DOMAIN backlog /\ backlog'[j] = backlog[j + 1] /\ 1 \in DOMAIN backlog
        /\ j + 1 # 1 /\ j \in Int
    BY <1>1, <1>7
  <2>2. backlog[j + 1] # h
    BY <1>1, <2>1 DEF OwnersOnce
  <2>3. ASSUME NEW m \in DOMAIN backlog', backlog'[m] = backlog'[j]
        PROVE  m = j
    <3>1. m + 1 \in DOMAIN backlog /\ backlog'[m] = backlog[m + 1] /\ m \in Int
      BY <1>1, <2>3
    <3>2. m + 1 = j + 1
      BY <2>1, <2>3, <3>1 DEF OwnersOnce
    <3> QED
      BY <2>1, <3>1, <3>2
  <2> QED
    BY <1>2, <1>3, <2>1, <2>2, <2>3 DEF OwnersOnce
<1> QED
  BY <1>5, <1>6, <1>7 DEF OwnersOnce

\* A connection goes from those to come into the queue and from there behind one
\* number, until that is closed.
LEMMA OwnersStep ==
    ASSUME LoopInv, [Next]_vars
    PROVE  OwnersOnce'
<1> USE DEF LoopInv, tableVars, loopVars, netVars, vars
<1>1. CASE Wait
  BY <1>1 DEF Wait, OwnersOnce
<1>2. ASSUME NEW f \in Client, NEW k \in Index, SelectAccept(f, k) PROVE OwnersOnce'
  BY <1>2, AcceptOwners DEF SelectAccept
<1>3. ASSUME NEW f \in Client, NEW k \in Index, SelecttestAccept(f, k) PROVE OwnersOnce'
  BY <1>3, AcceptOwners DEF SelecttestAccept
<1>4. ASSUME NEW f \in Client, NEW k \in Index, PollAccept(f, k) PROVE OwnersOnce'
  BY <1>4, AcceptOwners DEF PollAccept
<1>5. CASE SelectRefuse
  BY <1>5 DEF SelectRefuse, Refuse, OwnersOnce
<1>6. CASE SelecttestRefuse
  BY <1>6 DEF SelecttestRefuse, Refuse, OwnersOnce
<1>7. CASE PollRefuse
  BY <1>7 DEF PollRefuse, Refuse, OwnersOnce
<1>8. ASSUME NEW j \in Index, pc = "scan", ReadData(j) PROVE OwnersOnce'
  BY <1>8 DEF ReadData, OwnersOnce
<1>9. ASSUME NEW j \in Index, pc = "scan", ReadEnd(j) PROVE OwnersOnce'
  <2>1. \A g \in Client : owner'[g] \in {owner[g], NoConn}
    BY <1>9 DEF ReadEnd, Close, TypeOK
  <2>2. NoConn \notin fresh /\ \A m \in DOMAIN backlog : backlog[m] # NoConn
    BY ConnAssumption DEF TypeOK
  <2>3. fresh' = fresh /\ backlog' = backlog
    BY <1>9 DEF ReadEnd, Close
  <2> QED
    BY <2>1, <2>2, <2>3 DEF OwnersOnce
<1>10. ASSUME NEW j \in Index, pc = "scan", SelectReadError(j) PROVE OwnersOnce'
  BY <1>10 DEF SelectReadError, OwnersOnce
<1>11. ASSUME NEW j \in Index, pc = "scan", PollReadReset(j) PROVE OwnersOnce'
  <2>1. \A g \in Client : owner'[g] \in {owner[g], NoConn}
    BY <1>11 DEF PollReadReset, Close, TypeOK
  <2>2. NoConn \notin fresh /\ \A m \in DOMAIN backlog : backlog[m] # NoConn
    BY ConnAssumption DEF TypeOK
  <2>3. fresh' = fresh /\ backlog' = backlog
    BY <1>11 DEF PollReadReset, Close
  <2> QED
    BY <2>1, <2>2, <2>3 DEF OwnersOnce
<1>12. ASSUME NEW j \in Index, pc = "scan", PollReadError(j) PROVE OwnersOnce'
  BY <1>12 DEF PollReadError, OwnersOnce
<1>13. CASE ScanDone
  BY <1>13 DEF ScanDone, WalkEnds, OwnersOnce
<1>14. ASSUME NEW c \in Conn, Connect(c) PROVE OwnersOnce'
  <2> DEFINE n == Len(backlog)
  <2>1. /\ n \in Nat /\ DOMAIN backlog = 1 .. n /\ DOMAIN backlog' = 1 .. n + 1
        /\ backlog'[n + 1] = c /\ \A j \in 1 .. n : backlog'[j] = backlog[j]
    BY <1>14, AppendSeq DEF Connect, TypeOK
  <2>2. c \in fresh /\ fresh' = fresh \ {c} /\ owner' = owner
    BY <1>14 DEF Connect
  <2>3. \A j \in DOMAIN backlog' : j \in DOMAIN backlog \/ j = n + 1
    BY <2>1
  <2> QED
    BY <2>1, <2>2, <2>3 DEF OwnersOnce
<1>15. ASSUME NEW c \in Conn, Send(c) PROVE OwnersOnce'
  BY <1>15 DEF Send, OwnersOnce
<1>16. ASSUME NEW c \in Conn, Leave(c) PROVE OwnersOnce'
  BY <1>16 DEF Leave, OwnersOnce
<1>17. ASSUME NEW c \in Conn, NEW how \in {"reset", "failed"}, Break(c, how) PROVE OwnersOnce'
  BY <1>17 DEF Break, OwnersOnce
<1>18. CASE UNCHANGED vars
  BY <1>18 DEF OwnersOnce
<1>19. CASE LeaveTable
  BY <1>19 DEF LeaveTable, OwnersOnce
<1> QED
  BY <1>1, <1>2, <1>3, <1>4, <1>5, <1>6, <1>7, <1>8, <1>9, <1>10, <1>11,
     <1>12, <1>13, <1>14, <1>15, <1>16, <1>17, <1>18, <1>19
     DEF Next, Server, AcceptStep, RefuseStep, ReadStep, Clients

\* Entering a number in the table, and taking one out, keeps the table and the numbers
\* in agreement.
LEMMA AcceptTable ==
    ASSUME TypeOK, NumbersOK, NEW f \in Client, NEW k \in Index, Accept(f, k)
    PROVE  /\ \A j \in Index : j >= First => clientfd'[j] \in {Free, j + Base}
           /\ \A g \in Client : owner'[g] # NoConn <=> clientfd'[g - Base] = g
           /\ \A j \in Index : j # k => clientfd'[j] = clientfd[j]
           /\ \A g \in Client : owner'[g] # NoConn <=> g = f \/ owner[g] # NoConn
           /\ prog = "polltest.c" => clientfd'[0] = clientfd[0]
           /\ prog' = prog
<1>1. /\ f = k + Base /\ k = f - Base /\ k >= First
      /\ Head(backlog) \in Conn /\ Head(backlog) # NoConn
      /\ owner' = [owner EXCEPT ![f] = Head(backlog)]
      /\ clientfd' = [clientfd EXCEPT ![k] = f] /\ prog' = prog
  BY AcceptPlace
<1>2. \A j \in Index : clientfd'[j] = IF j = k THEN f ELSE clientfd[j]
  BY <1>1 DEF TypeOK
<1>3. \A g \in Client : owner'[g] = IF g = f THEN Head(backlog) ELSE owner[g]
  BY <1>1 DEF TypeOK
<1>4. \A g \in Client : g - Base \in Index /\ (g - Base = k <=> g = f)
  BY <1>1, Places
<1>5. ASSUME NEW g \in Client
      PROVE  owner'[g] # NoConn <=> clientfd'[g - Base] = g
  <2>1. owner[g] # NoConn <=> clientfd[g - Base] = g
    BY DEF NumbersOK
  <2> QED
    BY <1>1, <1>2, <1>3, <1>4, <2>1
<1>6. prog = "polltest.c" => 0 # k /\ 0 \in Index
  BY <1>1, Places, LimitAssumption DEF First, Index
<1> QED
  BY <1>1, <1>2, <1>3, <1>5, <1>6 DEF NumbersOK

\* Closing takes one number out of the table and the set.
LEMMA CloseTable ==
    ASSUME TypeOK, NumbersOK, NEW j \in Index, j >= First, clientfd[j] = j + Base,
           j + Base \in Client, Close(j)
    PROVE  /\ \A m \in Index : m >= First => clientfd'[m] \in {Free, m + Base}
           /\ \A g \in Client : owner'[g] # NoConn <=> clientfd'[g - Base] = g
           /\ \A m \in Index : clientfd'[m] = IF m = j THEN Free ELSE clientfd[m]
           /\ \A g \in Client : owner'[g] = IF g = j + Base THEN NoConn ELSE owner[g]
           /\ prog = "polltest.c" => clientfd'[0] = clientfd[0]
           /\ allfds' = allfds \ {j + Base}
<1>1. /\ owner' = [owner EXCEPT ![j + Base] = NoConn]
      /\ clientfd' = [clientfd EXCEPT ![j] = Free]
      /\ allfds' = allfds \ {j + Base}
  BY DEF Close, Emptied, FdClr
<1>2. \A m \in Index : clientfd'[m] = IF m = j THEN Free ELSE clientfd[m]
  BY <1>1 DEF TypeOK
<1>3. \A g \in Client : owner'[g] = IF g = j + Base THEN NoConn ELSE owner[g]
  BY <1>1 DEF TypeOK
<1>4. \A g \in Client : g - Base \in Index /\ (g - Base = j <=> g = j + Base) /\ g # Free
  BY Places DEF Free
<1>5. \A g \in Client : owner'[g] # NoConn <=> clientfd'[g - Base] = g
  BY <1>2, <1>3, <1>4 DEF NumbersOK
<1>6. prog = "polltest.c" => 0 # j /\ 0 \in Index
  BY Places, LimitAssumption DEF First, Index
<1> QED
  BY <1>1, <1>2, <1>3, <1>5, <1>6 DEF NumbersOK

\* A step that changes neither the table nor the numbers keeps them matched.
LEMMA NumbersKept ==
    ASSUME NumbersOK, UNCHANGED <<prog, clientfd, allfds, maxfd, maxi, owner>>
    PROVE  NumbersOK'
BY DEF NumbersOK, First, Base, Selects

\* Every accept and every close keeps the table, the numbers and the set in agreement.
LEMMA NumbersStep ==
    ASSUME LoopInv, [Next]_vars
    PROVE  NumbersOK'
<1> USE DEF LoopInv, tableVars, loopVars, netVars, vars
<1>1. CASE Wait
  BY <1>1, NumbersKept DEF Wait
<1>2. ASSUME NEW f \in Client, NEW k \in Index, SelectAccept(f, k) PROVE NumbersOK'
  <2>1. /\ \A j \in Index : j >= First => clientfd'[j] \in {Free, j + Base}
        /\ \A g \in Client : owner'[g] # NoConn <=> clientfd'[g - Base] = g
        /\ \A j \in Index : j # k => clientfd'[j] = clientfd[j]
        /\ \A g \in Client : owner'[g] # NoConn <=> g = f \/ owner[g] # NoConn
        /\ prog = "polltest.c" => clientfd'[0] = clientfd[0]
        /\ prog' = prog
    BY <1>2, AcceptTable DEF SelectAccept
  <2>2. First' = First /\ Base' = Base /\ (Selects' <=> Selects)
    BY <2>1, SameProgram
  <2>3. listenfd \in allfds' /\ \A g \in Client : g \in allfds' <=> owner'[g] # NoConn
    BY <1>2, <2>1 DEF SelectAccept, Accept, Selects, NumbersOK
  <2>4. \A g \in Client : owner'[g] # NoConn => g <= maxfd'
    <3>1. maxfd \in Int /\ \A g \in Client : g \in Int
      BY Places, SMTT(30) DEF TypeOK, listenfd
    <3>2. \A g \in Client : owner[g] # NoConn => g <= maxfd
      BY <1>2 DEF SelectAccept, Accept, Selects, NumbersOK
    <3>3. maxfd' = IF f > maxfd THEN f ELSE maxfd
      BY <1>2 DEF SelectAccept, Accept, Larger
    <3> QED
      BY <2>1, <3>1, <3>2, <3>3
  <2> QED
    BY <1>2, <2>1, <2>2, <2>3, <2>4 DEF SelectAccept, Accept, NumbersOK
<1>3. ASSUME NEW f \in Client, NEW k \in Index, SelecttestAccept(f, k) PROVE NumbersOK'
  <2>1. /\ \A j \in Index : j >= First => clientfd'[j] \in {Free, j + Base}
        /\ \A g \in Client : owner'[g] # NoConn <=> clientfd'[g - Base] = g
        /\ \A j \in Index : j # k => clientfd'[j] = clientfd[j]
        /\ \A g \in Client : owner'[g] # NoConn <=> g = f \/ owner[g] # NoConn
        /\ prog = "polltest.c" => clientfd'[0] = clientfd[0]
        /\ prog' = prog
    BY <1>3, AcceptTable DEF SelecttestAccept
  <2>2. First' = First /\ Base' = Base /\ (Selects' <=> Selects)
    BY <2>1, SameProgram
  <2>3. listenfd \in allfds' /\ \A g \in Client : g \in allfds' <=> owner'[g] # NoConn
    BY <1>3, <2>1 DEF SelecttestAccept, Accept, Selects, NumbersOK
  <2>4. \A g \in Client : owner'[g] # NoConn => g <= maxfd'
    <3>1. maxfd \in Int /\ \A g \in Client : g \in Int
      BY Places, SMTT(30) DEF TypeOK, listenfd
    <3>2. \A g \in Client : owner[g] # NoConn => g <= maxfd
      BY <1>3 DEF SelecttestAccept, Accept, Selects, NumbersOK
    <3>3. maxfd' = IF f > maxfd THEN f ELSE maxfd
      BY <1>3 DEF SelecttestAccept, Accept, Larger
    <3> QED
      BY <2>1, <3>1, <3>2, <3>3
  <2>5. \A j \in Index : j >= First /\ clientfd'[j] # Free => j <= maxi'
    <3>1. maxi \in Int /\ \A j \in Index : j \in Int
      BY Places DEF TypeOK
    <3>2. \A j \in Index : j >= First /\ clientfd[j] # Free => j <= maxi
      BY <1>3 DEF SelecttestAccept, Accept, NumbersOK
    <3>3. maxi' = IF k > maxi THEN k ELSE maxi
      BY <1>3 DEF SelecttestAccept, Accept, NewMaxi, Larger
    <3> QED
      BY <2>1, <3>1, <3>2, <3>3
  <2> QED
    BY <1>3, <2>1, <2>2, <2>3, <2>4, <2>5 DEF SelecttestAccept, Accept, NumbersOK
<1>4. ASSUME NEW f \in Client, NEW k \in Index, PollAccept(f, k) PROVE NumbersOK'
  <2>1. /\ \A j \in Index : j >= First => clientfd'[j] \in {Free, j + Base}
        /\ \A g \in Client : owner'[g] # NoConn <=> clientfd'[g - Base] = g
        /\ \A j \in Index : j # k => clientfd'[j] = clientfd[j]
        /\ \A g \in Client : owner'[g] # NoConn <=> g = f \/ owner[g] # NoConn
        /\ prog = "polltest.c" => clientfd'[0] = clientfd[0]
        /\ prog' = prog
    BY <1>4, AcceptTable DEF PollAccept
  <2>2. First' = First /\ Base' = Base /\ (Selects' <=> Selects)
    BY <2>1, SameProgram
  <2>5. \A j \in Index : j >= First /\ clientfd'[j] # Free => j <= maxi'
    <3>1. maxi \in Int /\ \A j \in Index : j \in Int
      BY Places DEF TypeOK
    <3>2. \A j \in Index : j >= First /\ clientfd[j] # Free => j <= maxi
      BY <1>4 DEF PollAccept, Accept, NumbersOK
    <3>3. maxi' = IF k > maxi THEN k ELSE maxi
      BY <1>4 DEF PollAccept, Accept, NewMaxi, Larger
    <3> QED
      BY <2>1, <3>1, <3>2, <3>3
  <2>6. maxi' >= 0 /\ clientfd'[0] = listenfd
    BY <1>4, <2>1, Places DEF PollAccept, Accept, NewMaxi, Larger, NumbersOK, TypeOK
  <2>7. ~ Selects
    BY <1>4 DEF PollAccept, Accept, Selects
  <2> QED
    BY <1>4, <2>1, <2>2, <2>5, <2>6, <2>7 DEF PollAccept, Accept, NumbersOK
<1>5. CASE SelectRefuse
  <2>1. UNCHANGED <<prog, clientfd, allfds, maxfd, maxi, owner>>
    BY <1>5 DEF SelectRefuse, Refuse
  <2> QED
    BY <2>1, NumbersKept
<1>6. CASE SelecttestRefuse
  BY <1>6, NumbersKept DEF SelecttestRefuse, Refuse
<1>7. CASE PollRefuse
  <2>1. /\ UNCHANGED <<prog, clientfd, allfds, maxfd, owner>>
        /\ prog = "polltest.c" /\ \E k \in Index : maxi' = Larger(k, maxi)
    BY <1>7 DEF PollRefuse, Refuse, NewMaxi
  <2>2. maxi' >= maxi /\ maxi \in Int /\ maxi' \in Int
    BY <2>1, Places DEF Larger, TypeOK
  <2>3. First' = First /\ Base' = Base /\ (Selects' <=> Selects) /\ ~ Selects
    BY <2>1, SameProgram DEF Selects
  <2>4. \A j \in Index : j >= First /\ clientfd'[j] # Free => j <= maxi'
    BY <2>1, <2>2, Places DEF NumbersOK
  <2> QED
    BY <2>1, <2>2, <2>3, <2>4 DEF NumbersOK
<1>8. ASSUME NEW j \in Index, pc = "scan", ReadData(j) PROVE NumbersOK'
  BY <1>8, NumbersKept DEF ReadData
<1>9. ASSUME NEW j \in Index, pc = "scan", ReadEnd(j) PROVE NumbersOK'
  <2>1. /\ clientfd[j] = j + Base /\ j + Base \in Client /\ j >= First
        /\ Close(j) /\ prog' = prog /\ maxfd' = maxfd /\ maxi' = maxi
    BY <1>9, NextIs DEF ReadEnd, Close
  <2>2. /\ \A m \in Index : m >= First => clientfd'[m] \in {Free, m + Base}
        /\ \A g \in Client : owner'[g] # NoConn <=> clientfd'[g - Base] = g
        /\ \A m \in Index : clientfd'[m] = IF m = j THEN Free ELSE clientfd[m]
        /\ \A g \in Client : owner'[g] = IF g = j + Base THEN NoConn ELSE owner[g]
        /\ prog = "polltest.c" => clientfd'[0] = clientfd[0]
        /\ allfds' = allfds \ {j + Base}
    BY <2>1, CloseTable
  <2>3. First' = First /\ Base' = Base /\ (Selects' <=> Selects)
    BY <2>1, SameProgram
  <2>4. listenfd # j + Base
    BY <2>1 DEF Client, listenfd
  <2>5. Selects => /\ listenfd \in allfds'
                   /\ \A g \in Client : g \in allfds' <=> owner'[g] # NoConn
                   /\ \A g \in Client : owner'[g] # NoConn => g <= maxfd'
    BY <2>1, <2>2, <2>4 DEF NumbersOK
  <2> QED
    BY <2>1, <2>2, <2>3, <2>5 DEF NumbersOK
<1>10. ASSUME NEW j \in Index, pc = "scan", SelectReadError(j) PROVE NumbersOK'
  BY <1>10, NumbersKept DEF SelectReadError
<1>11. ASSUME NEW j \in Index, pc = "scan", PollReadReset(j) PROVE NumbersOK'
  <2>1. /\ clientfd[j] = j + Base /\ j + Base \in Client /\ j >= First
        /\ Close(j) /\ prog' = prog /\ maxfd' = maxfd /\ maxi' = maxi
    BY <1>11, NextIs DEF PollReadReset, Close
  <2>2. /\ \A m \in Index : m >= First => clientfd'[m] \in {Free, m + Base}
        /\ \A g \in Client : owner'[g] # NoConn <=> clientfd'[g - Base] = g
        /\ \A m \in Index : clientfd'[m] = IF m = j THEN Free ELSE clientfd[m]
        /\ \A g \in Client : owner'[g] = IF g = j + Base THEN NoConn ELSE owner[g]
        /\ prog = "polltest.c" => clientfd'[0] = clientfd[0]
        /\ allfds' = allfds \ {j + Base}
    BY <2>1, CloseTable
  <2>3. First' = First /\ Base' = Base /\ (Selects' <=> Selects)
    BY <2>1, SameProgram
  <2>4. listenfd # j + Base
    BY <2>1 DEF Client, listenfd
  <2>5. Selects => /\ listenfd \in allfds'
                   /\ \A g \in Client : g \in allfds' <=> owner'[g] # NoConn
                   /\ \A g \in Client : owner'[g] # NoConn => g <= maxfd'
    BY <2>1, <2>2, <2>4 DEF NumbersOK
  <2> QED
    BY <2>1, <2>2, <2>3, <2>5 DEF NumbersOK
<1>12. ASSUME NEW j \in Index, pc = "scan", PollReadError(j) PROVE NumbersOK'
  BY <1>12, NumbersKept DEF PollReadError
<1>13. CASE ScanDone
  BY <1>13, NumbersKept DEF ScanDone
<1>14. ASSUME NEW c \in Conn, Connect(c) PROVE NumbersOK'
  BY <1>14, NumbersKept DEF Connect
<1>15. ASSUME NEW c \in Conn, Send(c) PROVE NumbersOK'
  BY <1>15, NumbersKept DEF Send
<1>16. ASSUME NEW c \in Conn, Leave(c) PROVE NumbersOK'
  BY <1>16, NumbersKept DEF Leave
<1>17. ASSUME NEW c \in Conn, NEW how \in {"reset", "failed"}, Break(c, how) PROVE NumbersOK'
  BY <1>17, NumbersKept DEF Break
<1>18. CASE UNCHANGED vars
  BY <1>18, NumbersKept
<1>19. CASE LeaveTable
  BY <1>19, NumbersKept DEF LeaveTable
<1> QED
  BY <1>1, <1>2, <1>3, <1>4, <1>5, <1>6, <1>7, <1>8, <1>9, <1>10, <1>11,
     <1>12, <1>13, <1>14, <1>15, <1>16, <1>17, <1>18, <1>19
     DEF Next, Server, AcceptStep, RefuseStep, ReadStep, Clients

\* A step that looks at f, with the walk to go on at n: the round is over with nobody
\* left, or the others are where the walk will come to them.
LEMMA LookedRound ==
    ASSUME LoopInv, NEW f \in left, count = Cardinality(left), left \subseteq ready,
           NEW n \in Int, n >= First, Looked(f, n), prog' = prog,
           \A j \in Index : j >= First =>
              IF j < n THEN clientfd'[j] \notin left \ {f}
              ELSE clientfd'[j] \in ready =>
                      /\ clientfd'[j] \in left /\ clientfd'[j] # f
                      /\ \/ owner'[clientfd'[j]] \in hot'
                         \/ peer'[owner'[clientfd'[j]]] # "open"
    PROVE  RoundOK' /\ RoundIsComplete'
<1>1. /\ left' = left \ {f} /\ count' = Cardinality(left')
      /\ IF left' = {} THEN pc' = "wait" /\ next' = StartOfWalk /\ ready' = {}
                       ELSE pc' = "scan" /\ next' = n /\ ready' = ready
  BY LookedAt DEF LoopInv
<1>2. First' = First /\ StartOfWalk = First /\ First \in Int
  BY SameProgram, Places
<1>3. CASE left' = {}
  BY <1>1, <1>2, <1>3 DEF RoundOK, RoundIsComplete, Listening
<1>4. CASE left' # {}
  <2>1. \A j \in Index : j >= First' =>
           IF j < next' THEN clientfd'[j] \notin left'
           ELSE clientfd'[j] \in ready' =>
                   clientfd'[j] \in left' /\ HasInput(owner[clientfd[j]])'
    BY <1>1, <1>2, <1>4 DEF HasInput
  <2>2. left' \subseteq ready'
    BY <1>1, <1>4
  <2> QED
    BY <1>1, <1>2, <1>4, <2>1, <2>2 DEF RoundOK, RoundIsComplete, Listening
<1> QED
  BY <1>3, <1>4

\* Whoever is let in, or turned away: those who were reported keep their places, and
\* the new one was not reported.
LEMMA ListenRound ==
    ASSUME LoopInv, Listening, Looked(listenfd, StartOfWalk), prog' = prog,
           UNCHANGED <<hot, peer>>,
           \A j \in Index : j >= First /\ clientfd'[j] \in ready =>
              clientfd'[j] = clientfd[j] /\ owner'[clientfd[j]] = owner[clientfd[j]]
    PROVE  RoundOK' /\ RoundIsComplete'
<1> USE DEF LoopInv
<1>1. /\ listenfd \in left /\ left = ready /\ next = First /\ count = Cardinality(left)
  BY DEF RoundOK, Listening
<1>2. StartOfWalk = First /\ First \in Int /\ First >= First
  BY SameProgram, Places
<1>3. ASSUME NEW j \in Index, j >= First, clientfd'[j] \in ready
      PROVE  /\ clientfd'[j] \in left /\ clientfd'[j] # listenfd
             /\ \/ owner'[clientfd'[j]] \in hot' \/ peer'[owner'[clientfd'[j]]] # "open"
  <2>1. clientfd'[j] = clientfd[j] /\ owner'[clientfd[j]] = owner[clientfd[j]]
    BY <1>3
  <2>2. clientfd[j] # Free
    BY <1>3, <2>1 DEF TypeOK, Free, Client, Stdin, listenfd
  <2>3. clientfd[j] \in Client /\ clientfd[j] # listenfd
    BY <1>3, <2>2, EntryIs DEF Client, listenfd
  <2>4. HasInput(owner[clientfd[j]])
    <3>1. ~ (j < next)
      BY <1>1, <1>2, <1>3, Places
    <3> QED
      BY <1>3, <2>1, <3>1 DEF RoundOK, Listening
  <2> QED
    BY <1>1, <1>3, <2>1, <2>3, <2>4 DEF HasInput
<1>4. \A j \in Index : j >= First => ~ (j < First)
  BY Places
<1> QED
  BY <1>1, <1>2, <1>3, <1>4, LookedRound

\* The connection that is let in has a number that was not open when the call
\* returned, so it was not reported.
LEMMA AcceptRound ==
    ASSUME LoopInv, NEW f \in Client, NEW k \in Index, Accept(f, k)
    PROVE  RoundOK' /\ RoundIsComplete'
<1> USE DEF LoopInv
<1>1. /\ f = k + Base /\ owner[f] = NoConn
      /\ clientfd' = [clientfd EXCEPT ![k] = f]
      /\ owner' = [owner EXCEPT ![f] = Head(backlog)]
      /\ prog' = prog /\ Looked(listenfd, StartOfWalk)
  BY AcceptPlace
<1>2. Listening /\ hot' = hot /\ peer' = peer
  BY DEF Accept
<1>3. f \notin ready
  BY <1>1, <1>2 DEF RoundOK
<1>4. ASSUME NEW j \in Index, j >= First, clientfd'[j] \in ready
      PROVE  clientfd'[j] = clientfd[j] /\ owner'[clientfd[j]] = owner[clientfd[j]]
  <2>1. j # k /\ clientfd'[j] = clientfd[j] /\ clientfd[j] # f
    BY <1>1, <1>3, <1>4 DEF TypeOK
  <2> QED
    BY <1>1, <2>1 DEF TypeOK
<1> QED
  BY <1>1, <1>2, <1>4, ListenRound

\* The walk reads from one, perhaps empties its place, and goes on.
LEMMA WalkRound ==
    ASSUME LoopInv, NEW j \in Index, pc = "scan", IsNext(j), Seen(j), prog' = prog,
           clientfd'[j] \in {clientfd[j], Free},
           \A m \in Index : m # j => clientfd'[m] = clientfd[m],
           \A g \in Client : g # j + Base => owner'[g] = owner[g],
           \A c \in Conn : c # owner[j + Base] /\ HasInput(c) =>
              c \in hot' \/ peer'[c] # "open"
    PROVE  RoundOK' /\ RoundIsComplete'
<1> USE DEF LoopInv
<1>1. /\ j >= First /\ clientfd[j] = j + Base /\ j + Base \in Client
      /\ j + Base \in left /\ owner[j + Base] # NoConn
      /\ count = Cardinality(left) /\ left \subseteq ready
  BY NextIs
<1>2. Looked(j + Base, j + 1) /\ j \in Int /\ First \in Int /\ j + 1 >= First
      /\ Base \in Int /\ next \in Int /\ \A m \in Index : m \in Int
  <2>1. Looked(j + Base, j + 1)
    BY <1>1 DEF Seen
  <2>2. next \in Int
    BY LimitAssumption DEF TypeOK
  <2> QED
    BY <1>1, <2>1, <2>2, Places
<1>3. ASSUME NEW m \in Index, m >= First, m < j + 1
      PROVE  clientfd'[m] \notin left \ {j + Base}
  <2>1. CASE m = j
    BY <1>1, <2>1 DEF TypeOK, Free, Client, Stdin, listenfd
  <2>2. CASE m # j /\ m < next
    BY <1>3, <2>2 DEF RoundOK
  <2>3. CASE m # j /\ ~ (m < next)
    <3>1. m \in Int /\ j \in Int /\ next \in Int
      BY <1>2
    <3>2. m \in next .. j - 1
      BY <3>1, <1>3, <2>3
    <3> QED
      BY <1>1, <2>3, <3>2 DEF IsNext
  <2> QED
    BY <2>1, <2>2, <2>3
<1>4. ASSUME NEW m \in Index, m >= First, ~ (m < j + 1), clientfd'[m] \in ready
      PROVE  /\ clientfd'[m] \in left /\ clientfd'[m] # j + Base
             /\ \/ owner'[clientfd'[m]] \in hot' \/ peer'[owner'[clientfd'[m]]] # "open"
  <2>0. m \in Int /\ m > j /\ m # j
    BY <1>2, <1>4
  <2>1. clientfd'[m] = clientfd[m]
    BY <2>0
  <2>2. clientfd[m] # Free
    BY <1>4, <2>1 DEF TypeOK, Free, Client, Stdin, listenfd
  <2>3. /\ clientfd[m] = m + Base /\ m + Base \in Client
        /\ owner[m + Base] \in Conn /\ owner[m + Base] # NoConn
    BY <1>4, <2>2, EntryIs
  <2>4. m + Base # j + Base
    BY <1>2, <2>0
  <2>5. owner[m + Base] # owner[j + Base] /\ owner'[m + Base] = owner[m + Base]
    BY <1>1, <2>3, <2>4 DEF OwnersOnce
  <2>6. ~ (m < next)
    BY <1>2, <2>0 DEF IsNext
  <2>7. clientfd[m] \in left /\ HasInput(owner[clientfd[m]])
    BY <1>4, <2>1, <2>6 DEF RoundOK
  <2> QED
    BY <2>1, <2>3, <2>4, <2>5, <2>7
<1>5. j + 1 \in Int
  BY <1>2
<1> QED
  BY <1>1, <1>2, <1>3, <1>4, <1>5, LookedRound

\* What clients do takes away nothing that was to be read.
LEMMA ClientsRound ==
    ASSUME LoopInv, UNCHANGED <<prog, pc, tableVars, loopVars, owner>>,
           backlog # <<>> => backlog' # <<>>,
           \A c \in Conn : HasInput(c) => c \in hot' \/ peer'[c] # "open"
    PROVE  RoundOK' /\ RoundIsComplete'
<1> USE DEF LoopInv, tableVars, loopVars
<1>1. First' = First /\ Bound' = Bound
  BY SameProgram DEF Bound
<1>2. RoundIsComplete'
  BY <1>1 DEF RoundIsComplete
<1>3. ASSUME NEW j \in Index, j >= First, clientfd[j] \in ready, pc \in {"accept", "scan"},
             ~ (j < next)
      PROVE  owner[clientfd[j]] \in hot' \/ peer'[owner[clientfd[j]]] # "open"
  <2>1. clientfd[j] # Free
    BY <1>3 DEF TypeOK, Free, Client, Stdin, listenfd
  <2>2. owner[clientfd[j]] \in Conn
    BY <1>3, <2>1, EntryIs
  <2> QED
    BY <1>3, <2>2 DEF RoundOK
<1>4. \A j \in Index : j >= First /\ pc \in {"accept", "scan"} =>
         IF j < next THEN clientfd[j] \notin left
         ELSE clientfd[j] \in ready => clientfd[j] \in left
  BY DEF RoundOK
<1>5. RoundOK'
  BY <1>1, <1>3, <1>4 DEF RoundOK, Listening, HasInput
<1> QED
  BY <1>2, <1>5

\* When the walk finds nothing more it has left nobody behind.
LEMMA DoneRound ==
    ASSUME LoopInv, ScanDone
    PROVE  \A j \in Index : j >= First /\ j < Bound => clientfd[j] \notin left
<1> USE DEF LoopInv
<1> SUFFICES ASSUME NEW j \in Index, j >= First, j < Bound, clientfd[j] \in left
             PROVE  FALSE
  OBVIOUS
<1>1. ~ (j < next) /\ clientfd[j] \in ready
  BY DEF ScanDone, WalkEnds, RoundOK
<1> DEFINE S == {m \in Index : m >= next /\ clientfd[m] \in ready}
<1>2. \A m \in Index : m \in Nat
  BY Places
<1>3. next \in Int
  BY LimitAssumption DEF TypeOK
<1>4. j \in S /\ S \subseteq Nat
  BY <1>1, <1>2, <1>3
<1> HIDE DEF S
<1>5. PICK m \in S : \A n \in S : m <= n
  BY <1>4, SmallestOf
<1> USE DEF S
<1>6. m \in Index /\ m >= next /\ clientfd[m] \in ready /\ m \in Int /\ m <= j
  BY <1>2, <1>4, <1>5
<1>7. Bound \in Int
  BY LimitAssumption DEF Bound, TypeOK, Index, Client, listenfd
<1>8. m < Bound
  BY <1>2, <1>6, <1>7
<1>9. ASSUME NEW n \in next .. m - 1
      PROVE  clientfd[n] \notin ready
  <2>1. n \in Index /\ ~ (m <= n) /\ n >= next
    BY <1>3, <1>6, LimitAssumption DEF TypeOK, Index
  <2> QED
    BY <1>5, <2>1
<1> QED
  BY <1>6, <1>8, <1>9 DEF ScanDone, WalkEnds, IsNext

\* Whoever was reported is looked at, and is there to be looked at.
LEMMA RoundStep ==
    ASSUME LoopInv, [Next]_vars
    PROVE  RoundOK' /\ RoundIsComplete'
<1> USE DEF LoopInv, tableVars, loopVars, netVars, vars
<1>1. CASE Wait
  <2>1. /\ ready' \subseteq Watched /\ left' = ready' /\ count' = Cardinality(ready')
        /\ \A f \in ready' : f = Stdin \/ Readable(f)
        /\ pc' = IF listenfd \in ready' THEN "accept" ELSE "scan"
        /\ next' = First /\ prog' = prog /\ clientfd' = clientfd
        /\ owner' = owner /\ hot' = hot /\ peer' = peer /\ backlog' = backlog
    BY <1>1 DEF Wait, StartOfWalk
  <2>2. First' = First /\ First \in Int
    BY <2>1, SameProgram, Places
  <2>3. \A f \in ready' \cap Client : owner[f] # NoConn /\ HasInput(owner[f])
    BY <2>1 DEF Readable, Client, Stdin, listenfd
  <2>4. listenfd \in ready' => backlog # <<>>
    BY <2>1 DEF Readable, Client, Stdin, listenfd
  <2>5. \A m \in Index : m >= First /\ clientfd[m] \in ready' =>
            HasInput(owner[clientfd[m]])
    <3> SUFFICES ASSUME NEW m \in Index, m >= First, clientfd[m] \in ready'
                 PROVE  HasInput(owner[clientfd[m]])
      OBVIOUS
    <3>1. clientfd[m] # Free
      BY <2>1, WatchedType DEF Free, Client, Stdin, listenfd
    <3>2. clientfd[m] \in Client
      BY <3>1, EntryIs
    <3> QED
      BY <2>3, <3>2
  <2>6. \A m \in Index : m >= First => ~ (m < First)
    BY Places
  <2>7. RoundOK'
    BY <2>1, <2>2, <2>3, <2>4, <2>5, <2>6 DEF RoundOK, Listening, HasInput
  <2> QED
    BY <2>1, <2>7 DEF RoundIsComplete
<1>2. ASSUME NEW f \in Client, NEW k \in Index, SelectAccept(f, k) PROVE RoundOK' /\ RoundIsComplete'
  BY <1>2, AcceptRound DEF SelectAccept
<1>3. ASSUME NEW f \in Client, NEW k \in Index, SelecttestAccept(f, k) PROVE RoundOK' /\ RoundIsComplete'
  BY <1>3, AcceptRound DEF SelecttestAccept
<1>4. ASSUME NEW f \in Client, NEW k \in Index, PollAccept(f, k) PROVE RoundOK' /\ RoundIsComplete'
  BY <1>4, AcceptRound DEF PollAccept
<1>5. CASE SelectRefuse
  <2>1. /\ pc' = "wait" /\ prog' = prog /\ next' = next /\ left' = left
        /\ listenfd \in left
    BY <1>5 DEF SelectRefuse, Refuse, RoundOK
  <2>2. First' = First
    BY <2>1, SameProgram
  <2> QED
    BY <2>1, <2>2 DEF RoundOK, RoundIsComplete, Listening
<1>6. CASE SelecttestRefuse
  <2>1. pc' = "undefined" /\ prog' = prog /\ next' = next
    BY <1>6 DEF SelecttestRefuse, Refuse
  <2>2. First' = First
    BY <2>1, SameProgram
  <2> QED
    BY <2>1, <2>2 DEF RoundOK, RoundIsComplete, Listening
<1>7. CASE PollRefuse
  <2>1. /\ Listening /\ Looked(listenfd, StartOfWalk) /\ prog' = prog
        /\ UNCHANGED <<hot, peer, clientfd, owner>>
    BY <1>7 DEF PollRefuse, Refuse
  <2> QED
    BY <2>1, ListenRound
<1>8. ASSUME NEW j \in Index, pc = "scan", ReadData(j) PROVE RoundOK' /\ RoundIsComplete'
  <2>1. /\ IsNext(j) /\ Seen(j) /\ prog' = prog
        /\ clientfd[j] = j + Base /\ j + Base \in Client
    BY <1>8, NextIs DEF ReadData
  <2>2. /\ clientfd'[j] \in {clientfd[j], Free}
        /\ \A m \in Index : m # j => clientfd'[m] = clientfd[m]
        /\ \A g \in Client : g # j + Base => owner'[g] = owner[g]
        /\ \A c \in Conn : c # owner[j + Base] /\ HasInput(c) =>
              c \in hot' \/ peer'[c] # "open"
    BY <1>8, <2>1 DEF ReadData, Emptied, HasInput, TypeOK
  <2> QED
    BY <1>8, <2>1, <2>2, WalkRound
<1>9. ASSUME NEW j \in Index, pc = "scan", ReadEnd(j) PROVE RoundOK' /\ RoundIsComplete'
  <2>1. /\ IsNext(j) /\ Seen(j) /\ prog' = prog
        /\ clientfd[j] = j + Base /\ j + Base \in Client
    BY <1>9, NextIs DEF ReadEnd, Close
  <2>2. /\ clientfd'[j] \in {clientfd[j], Free}
        /\ \A m \in Index : m # j => clientfd'[m] = clientfd[m]
        /\ \A g \in Client : g # j + Base => owner'[g] = owner[g]
        /\ \A c \in Conn : c # owner[j + Base] /\ HasInput(c) =>
              c \in hot' \/ peer'[c] # "open"
    BY <1>9, <2>1 DEF ReadEnd, Close, Emptied, HasInput, TypeOK
  <2> QED
    BY <1>9, <2>1, <2>2, WalkRound
<1>10. ASSUME NEW j \in Index, pc = "scan", SelectReadError(j) PROVE RoundOK' /\ RoundIsComplete'
  <2>1. /\ IsNext(j) /\ Seen(j) /\ prog' = prog
        /\ clientfd[j] = j + Base /\ j + Base \in Client
    BY <1>10, NextIs DEF SelectReadError
  <2>2. /\ clientfd'[j] \in {clientfd[j], Free}
        /\ \A m \in Index : m # j => clientfd'[m] = clientfd[m]
        /\ \A g \in Client : g # j + Base => owner'[g] = owner[g]
        /\ \A c \in Conn : c # owner[j + Base] /\ HasInput(c) =>
              c \in hot' \/ peer'[c] # "open"
    BY <1>10, <2>1 DEF SelectReadError, Emptied, HasInput, TypeOK
  <2> QED
    BY <1>10, <2>1, <2>2, WalkRound
<1>11. ASSUME NEW j \in Index, pc = "scan", PollReadReset(j) PROVE RoundOK' /\ RoundIsComplete'
  <2>1. /\ IsNext(j) /\ Seen(j) /\ prog' = prog
        /\ clientfd[j] = j + Base /\ j + Base \in Client
    BY <1>11, NextIs DEF PollReadReset, Close
  <2>2. /\ clientfd'[j] \in {clientfd[j], Free}
        /\ \A m \in Index : m # j => clientfd'[m] = clientfd[m]
        /\ \A g \in Client : g # j + Base => owner'[g] = owner[g]
        /\ \A c \in Conn : c # owner[j + Base] /\ HasInput(c) =>
              c \in hot' \/ peer'[c] # "open"
    BY <1>11, <2>1 DEF PollReadReset, Close, Emptied, HasInput, TypeOK
  <2> QED
    BY <1>11, <2>1, <2>2, WalkRound
<1>12. ASSUME NEW j \in Index, pc = "scan", PollReadError(j) PROVE RoundOK' /\ RoundIsComplete'
  <2>1. pc' = "exited" /\ prog' = prog /\ next' = next
    BY <1>12 DEF PollReadError
  <2>2. First' = First
    BY <2>1, SameProgram
  <2> QED
    BY <2>1, <2>2 DEF RoundOK, RoundIsComplete, Listening
<1>13. CASE ScanDone
  <2>1. \A j \in Index : j >= First /\ j < Bound => clientfd[j] \notin left
    BY <1>13, DoneRound
  <2>2. /\ pc' = "wait" /\ prog' = prog /\ next' = StartOfWalk
        /\ clientfd' = clientfd /\ left' = left /\ maxfd' = maxfd /\ maxi' = maxi
    BY <1>13 DEF ScanDone
  <2>3. First' = First /\ next' = First /\ Bound' = Bound /\ First \in Int
    BY <2>2, SameProgram, Places DEF Bound
  <2> QED
    BY <2>1, <2>2, <2>3 DEF RoundOK, RoundIsComplete, Listening
<1>14. ASSUME NEW c \in Conn, Connect(c) PROVE RoundOK' /\ RoundIsComplete'
  <2>1. backlog' # <<>>
    BY <1>14, AppendSeq DEF Connect, TypeOK
  <2> QED
    BY <1>14, <2>1, ClientsRound DEF Connect, HasInput
<1>15. ASSUME NEW c \in Conn, Send(c) PROVE RoundOK' /\ RoundIsComplete'
  BY <1>15, ClientsRound DEF Send, HasInput
<1>16. ASSUME NEW c \in Conn, Leave(c) PROVE RoundOK' /\ RoundIsComplete'
  <2>1. \A d \in Conn : HasInput(d) => d \in hot' \/ peer'[d] # "open"
    BY <1>16 DEF Leave, HasInput, TypeOK
  <2> QED
    BY <1>16, <2>1, ClientsRound DEF Leave
<1>17. ASSUME NEW c \in Conn, NEW how \in {"reset", "failed"}, Break(c, how) PROVE RoundOK' /\ RoundIsComplete'
  <2>1. \A d \in Conn : HasInput(d) => d \in hot' \/ peer'[d] # "open"
    BY <1>17 DEF Break, HasInput, TypeOK
  <2> QED
    BY <1>17, <2>1, ClientsRound DEF Break
<1>18. CASE UNCHANGED vars
  BY <1>18, ClientsRound DEF HasInput
<1>19. CASE LeaveTable
  <2>1. pc' = "undefined" /\ prog' = prog /\ next' = next
    BY <1>19 DEF LeaveTable
  <2>2. First' = First
    BY <2>1, SameProgram
  <2> QED
    BY <2>1, <2>2 DEF RoundOK, RoundIsComplete, Listening
<1> QED
  BY <1>1, <1>2, <1>3, <1>4, <1>5, <1>6, <1>7, <1>8, <1>9, <1>10, <1>11,
     <1>12, <1>13, <1>14, <1>15, <1>16, <1>17, <1>18, <1>19
     DEF Next, Server, AcceptStep, RefuseStep, ReadStep, Clients

-----------------------------------------------------------------------------
(* The theorems.                                                           *)

\* The invariant holds throughout.
LEMMA LoopInvariant == Spec => []LoopInv
<1>1. Init => LoopInv
  BY InitLoopInv
<1>2. LoopInv /\ [Next]_vars => LoopInv'
  BY TypeStep, OwnersStep, NumbersStep, RoundStep DEF LoopInv
<1> QED
  BY <1>1, <1>2, PTL DEF Spec

\* select.c, selecttest.c and polltest.c: what select or poll is given is what is open,
\* and the table holds each number in the place it is found by.
THEOREM TableAlwaysMatches == Spec => []TableMatchesNumbers
<1>1. ASSUME LoopInv PROVE TableMatchesNumbers
  <2> USE <1>1 DEF LoopInv
  <2>1. \A f \in Client : owner[f] # NoConn <=> f \in Watched
    <3>1. CASE Selects
      BY <3>1 DEF Watched, NumbersOK
    <3>2. CASE ~ Selects
      <4>1. prog = "polltest.c" /\ prog # "select.c" /\ prog # "selecttest.c"
        BY <3>2, ProgramAssumption DEF TypeOK, Selects
      <4>2. ASSUME NEW f \in Client, owner[f] # NoConn PROVE f \in Watched
        <5>1. clientfd[f - Base] = f /\ f - Base \in Index /\ f - Base >= First /\ f # Free
          BY <4>2, Places DEF NumbersOK, Free
        <5>2. f - Base <= maxi
          BY <4>1, <5>1 DEF NumbersOK
        <5>3. f - Base \in 0 .. maxi
          BY <5>1, <5>2, Places DEF TypeOK
        <5> QED
          BY <3>2, <5>1, <5>3 DEF Watched
      <4>3. ASSUME NEW f \in Client, f \in Watched PROVE owner[f] # NoConn
        <5>1. PICK j \in 0 .. maxi : clientfd[j] = f
          BY <3>2, <4>3 DEF Watched
        <5>2. j \in Index /\ f # Free /\ f # listenfd
          BY <4>1, LimitAssumption DEF TypeOK, Index, Client, Free, listenfd
        <5>3. j >= First
          BY <4>1, <5>1, <5>2 DEF NumbersOK, First, Index
        <5> QED
          BY <5>1, <5>2, <5>3, EntryIs
      <4> QED
        BY <4>2, <4>3
    <3> QED
      BY <3>1, <3>2
  <2> QED
    BY <2>1 DEF TableMatchesNumbers, NumbersOK
<1>2. LoopInv => TableMatchesNumbers
  BY <1>1
<1> QED
  BY <1>2, LoopInvariant, PTL

\* They call accept and read only on what can be accepted from or read at that moment,
\* so their one thread is not held up by one client.
THEOREM NeverBlocked == Spec => []NeverBlocks
<1>1. ASSUME LoopInv PROVE NeverBlocks
  <2> USE <1>1 DEF LoopInv
  <2>1. Listening => Readable(listenfd)
    BY DEF RoundOK, Readable
  <2>2. ASSUME NEW j \in Index, pc = "scan", IsNext(j) PROVE Readable(clientfd[j])
    BY <2>2, NextIs DEF Readable
  <2> QED
    BY <2>1, <2>2 DEF NeverBlocks
<1>2. LoopInv => NeverBlocks
  BY <1>1
<1> QED
  BY <1>2, LoopInvariant, PTL

\* Neither maxfd and maxi nor the count ends a walk before it has come to every client
\* that was reported below the bound.
THEOREM WalkAlwaysReaches == Spec => []WalkReaches
<1>1. ASSUME LoopInv PROVE WithinBound
  <2> USE <1>1 DEF LoopInv
  <2> SUFFICES ASSUME NEW j \in Index, j >= First, clientfd[j] # Free
               PROVE  IF prog = "select.c" THEN j < Bound ELSE j <= Bound
    BY DEF WithinBound
  <2>1. j + Base \in Client /\ owner[j + Base] # NoConn
    BY EntryIs
  <2>2. CASE prog = "select.c"
    <3>1. j + Base <= maxfd /\ First = 0 /\ Base = 4
      BY <2>1, <2>2, Places DEF NumbersOK, Selects, First
    <3>2. maxfd \in Int /\ j \in Int
      BY Places DEF TypeOK, listenfd
    <3> QED
      BY <2>2, <3>1, <3>2 DEF Bound
  <2>3. CASE prog # "select.c"
    BY <2>3 DEF NumbersOK, Bound
  <2> QED
    BY <2>2, <2>3
<1>2. LoopInv => WalkReaches
  BY <1>1 DEF WalkReaches, LoopInv
<1> QED
  BY <1>2, LoopInvariant, PTL

-----------------------------------------------------------------------------
(* The edge-triggered server, epoll.cpp, for any clients and pieces.        *)

EpollType ==
    /\ E!TypeOK
    /\ e_taken \in [EpollConn -> Nat]

\* Events are of descriptors that are open; a connection waits to be accepted once, and
\* until then nothing has been read from it or written to it.
EventsOK == e_batch \cup e_armed \subseteq e_open \cup {"listen"}
QueueOK ==
    \A j \in DOMAIN e_backlog :
       /\ e_backlog[j] \notin e_fresh \cup e_open
       /\ \A k \in DOMAIN e_backlog : e_backlog[k] = e_backlog[j] => k = j
Coming(c) == c \in e_fresh \/ \E j \in DOMAIN e_backlog : e_backlog[j] = c
NewOK == \A c \in EpollConn : Coming(c) => e_taken[c] = 0 /\ e_echoed[c] = <<>>

\* Who is alone has been sent all that was read from it, or the last piece of it is in
\* the buffer and comes next.
Alone == "open" \notin e_together => \A c, d \in e_open : c = d
EchoStands(c) ==
    IF e_mode[c] = "in"
    THEN Len(e_echoed[c]) = e_taken[c]
    ELSE /\ e_n = "data" /\ e_line = <<c, e_taken[c]>>
         /\ Len(e_echoed[c]) + 1 = e_taken[c]
BufferIsOwn ==
    "open" \notin e_together => \A c \in e_open : e_peer[c] = "open" => EchoStands(c)

EpollInv == EpollType /\ EventsOK /\ QueueOK /\ NewOK /\ Alone /\ BufferIsOwn /\ E!EchoIsOwn

\* It holds at the start.
LEMMA EpollStarts ==
  ASSUME E!ConstantsOK, E!Init
  PROVE  EpollInv
<1> USE DEF E!ConstantsOK, E!Init
<1>1. EpollType
  BY DEF EpollType, E!TypeOK, E!Pieces, E!NoLine, E!Peers
<1>2. EventsOK /\ QueueOK /\ NewOK /\ Alone
  BY DEF EventsOK, QueueOK, NewOK, Alone
<1>3. BufferIsOwn /\ E!EchoIsOwn
  BY DEF BufferIsOwn, E!EchoIsOwn
<1> QED
  BY <1>1, <1>2, <1>3 DEF EpollInv

\* The head of a queue is in it and its tail is what is left.
LEMMA HeadAndTail ==
  ASSUME NEW S, NEW s \in Seq(S), s # <<>>
  PROVE  /\ Head(s) = s[1] /\ 1 \in DOMAIN s /\ Head(s) \in S
         /\ Tail(s) \in Seq(S)
         /\ \A j \in DOMAIN Tail(s) : j + 1 \in DOMAIN s /\ j + 1 # 1 /\ Tail(s)[j] = s[j + 1]
         /\ \A j, k \in DOMAIN Tail(s) : j + 1 = k + 1 => j = k
OBVIOUS

\* What is appended comes after everything else.
LEMMA LastAndRest ==
  ASSUME NEW S, NEW s \in Seq(S), NEW x \in S
  PROVE  /\ Append(s, x) \in Seq(S) /\ Len(Append(s, x)) = Len(s) + 1
         /\ DOMAIN Append(s, x) = DOMAIN s \cup {Len(s) + 1} /\ Len(s) + 1 \notin DOMAIN s
         /\ \A j \in DOMAIN s : Append(s, x)[j] = s[j]
         /\ Append(s, x)[Len(s) + 1] = x
OBVIOUS

\* Every step keeps the types.
LEMMA EpollTypeStep ==
  ASSUME E!ConstantsOK, EpollType, QueueOK, [E!Next]_epollVars
  PROVE  EpollType'
<1> USE DEF EpollType, E!ConstantsOK, E!TypeOK, E!Pieces, E!NoLine, E!Peers,
            E!serverVars, E!netVars, E!vars, epollVars
<1>1. CASE E!Wait
  BY <1>1
  DEF E!Wait, E!Readable
<1>2. CASE E!Accept
  <2> DEFINE h == Head(e_backlog)
             t == Tail(e_backlog)
  <2>1. /\ h = e_backlog[1] /\ 1 \in DOMAIN e_backlog /\ h \in EpollConn /\ t \in Seq(EpollConn)
        /\ \A j \in DOMAIN t : j + 1 \in DOMAIN e_backlog /\ j + 1 # 1 /\ t[j] = e_backlog[j + 1]
        /\ \A j, k \in DOMAIN t : j + 1 = k + 1 => j = k
    BY <1>2, HeadAndTail DEF E!Accept
  <2>2. h \notin e_fresh \cup e_open /\ \A j \in DOMAIN t : t[j] # h
    BY <2>1 DEF QueueOK
  <2>3. e_backlog' = t /\ e_open' = e_open \cup {h} /\ e_fresh' = e_fresh
    BY <1>2 DEF E!Accept, E!Handled, E!Registered, E!Together
  <2> HIDE DEF h, t
  <2>4. t \in Seq(EpollConn) /\ e_open' \subseteq EpollConn \ e_fresh'
    BY <2>1, <2>2, <2>3
  <2> QED
    BY <1>2, <2>1, <2>3, <2>4
    DEF E!Accept, E!Handled, E!Registered, E!Together
<1>3. CASE E!AcceptFails
  BY <1>3
  DEF E!AcceptFails
<1>4. ASSUME NEW c \in EpollConn, E!ReadData(c) PROVE EpollType'
  BY <1>4, SMTT(30)
  DEF E!ReadData, E!Reads, E!Handled, E!ForWrite, E!Registered, E!HasData
<1>5. ASSUME NEW c \in EpollConn, E!ReadEnd(c) PROVE EpollType'
  BY <1>5
  DEF E!ReadEnd, E!Reads, E!Handled, E!HasData, E!Closed
<1>6. ASSUME NEW c \in EpollConn, E!ReadError(c) PROVE EpollType'
  BY <1>6
  DEF E!ReadError, E!Reads, E!Handled, E!ForWrite, E!Registered, E!HasData
<1>7. ASSUME NEW c \in EpollConn, E!WriteNothing(c) PROVE EpollType'
  BY <1>7
  DEF E!WriteNothing, E!Writes, E!Handled, E!Registered, E!AfterWrite
<1>8. ASSUME NEW c \in EpollConn, E!WriteLine(c) PROVE EpollType'
  BY <1>8
  DEF E!WriteLine, E!Writes, E!Handled, E!Registered, E!AfterWrite
<1>9. ASSUME NEW c \in EpollConn, E!WriteError(c) PROVE EpollType'
  BY <1>9
  DEF E!WriteError, E!Writes, E!Handled, E!Registered, E!AfterWrite
<1>10. ASSUME NEW c \in EpollConn, E!WriteKills(c) PROVE EpollType'
  BY <1>10
  DEF E!WriteKills
<1>11. ASSUME NEW c \in EpollConn, E!Connect(c) PROVE EpollType'
  BY <1>11, SMTT(30)
  DEF E!Connect, E!Arm, E!Together
<1>12. ASSUME NEW c \in EpollConn, E!Send(c) PROVE EpollType'
  BY <1>12
  DEF E!Send, E!Made, E!Arm
<1>13. ASSUME NEW c \in EpollConn, E!Leave(c) PROVE EpollType'
  BY <1>13
  DEF E!Leave, E!Made, E!Becomes, E!Arm
<1>14. ASSUME NEW c \in EpollConn, E!ResetArrives(c) PROVE EpollType'
  BY <1>14
  DEF E!ResetArrives, E!Becomes, E!Arm
<1>15. ASSUME NEW c \in EpollConn, NEW how \in {"reset", "timedout"}, E!Break(c, how) PROVE EpollType'
  BY <1>15
  DEF E!Break, E!Made, E!Becomes, E!Arm
<1>16. CASE UNCHANGED epollVars
  BY <1>16
<1> HIDE DEF EpollType, E!ConstantsOK, E!TypeOK, E!Pieces, E!NoLine, E!Peers
<1> QED
  BY <1>1, <1>2, <1>3, <1>4, <1>5, <1>6, <1>7, <1>8, <1>9, <1>10, <1>11, <1>12,
     <1>13, <1>14, <1>15, <1>16
  DEF E!Next, E!Server, E!Serve, E!Clients

\* Every step keeps events to what is open.
LEMMA EventsStep ==
  ASSUME EpollType, EventsOK, [E!Next]_epollVars
  PROVE  EventsOK'
<1> USE DEF EventsOK, EpollType, E!TypeOK, E!serverVars, E!netVars, E!vars,
            epollVars
<1>1. CASE E!Wait
  BY <1>1
  DEF E!Wait, E!Readable
<1>2. CASE E!Accept
  BY <1>2
  DEF E!Accept, E!Handled, E!Registered, E!Together
<1>3. CASE E!AcceptFails
  BY <1>3
  DEF E!AcceptFails
<1>4. ASSUME NEW c \in EpollConn, E!ReadData(c) PROVE EventsOK'
  BY <1>4
  DEF E!ReadData, E!Reads, E!Handled, E!ForWrite, E!Registered, E!HasData
<1>5. ASSUME NEW c \in EpollConn, E!ReadEnd(c) PROVE EventsOK'
  BY <1>5
  DEF E!ReadEnd, E!Reads, E!Handled, E!HasData, E!Closed
<1>6. ASSUME NEW c \in EpollConn, E!ReadError(c) PROVE EventsOK'
  BY <1>6
  DEF E!ReadError, E!Reads, E!Handled, E!ForWrite, E!Registered, E!HasData
<1>7. ASSUME NEW c \in EpollConn, E!WriteNothing(c) PROVE EventsOK'
  BY <1>7
  DEF E!WriteNothing, E!Writes, E!Handled, E!Registered, E!AfterWrite
<1>8. ASSUME NEW c \in EpollConn, E!WriteLine(c) PROVE EventsOK'
  BY <1>8
  DEF E!WriteLine, E!Writes, E!Handled, E!Registered, E!AfterWrite
<1>9. ASSUME NEW c \in EpollConn, E!WriteError(c) PROVE EventsOK'
  BY <1>9
  DEF E!WriteError, E!Writes, E!Handled, E!Registered, E!AfterWrite
<1>10. ASSUME NEW c \in EpollConn, E!WriteKills(c) PROVE EventsOK'
  BY <1>10
  DEF E!WriteKills
<1>11. ASSUME NEW c \in EpollConn, E!Connect(c) PROVE EventsOK'
  BY <1>11
  DEF E!Connect, E!Arm, E!Together
<1>12. ASSUME NEW c \in EpollConn, E!Send(c) PROVE EventsOK'
  BY <1>12
  DEF E!Send, E!Made, E!Arm
<1>13. ASSUME NEW c \in EpollConn, E!Leave(c) PROVE EventsOK'
  BY <1>13
  DEF E!Leave, E!Made, E!Becomes, E!Arm
<1>14. ASSUME NEW c \in EpollConn, E!ResetArrives(c) PROVE EventsOK'
  BY <1>14
  DEF E!ResetArrives, E!Becomes, E!Arm
<1>15. ASSUME NEW c \in EpollConn, NEW how \in {"reset", "timedout"}, E!Break(c, how) PROVE EventsOK'
  BY <1>15
  DEF E!Break, E!Made, E!Becomes, E!Arm
<1>16. CASE UNCHANGED epollVars
  BY <1>16
<1> HIDE DEF EventsOK, EpollType, E!TypeOK
<1> QED
  BY <1>1, <1>2, <1>3, <1>4, <1>5, <1>6, <1>7, <1>8, <1>9, <1>10, <1>11, <1>12,
     <1>13, <1>14, <1>15, <1>16
  DEF E!Next, E!Server, E!Serve, E!Clients

\* Every step keeps the queue to what nobody has seen.
LEMMA QueueStep ==
  ASSUME EpollType, EventsOK, QueueOK, [E!Next]_epollVars
  PROVE  QueueOK'
<1> USE DEF QueueOK, EventsOK, EpollType, E!TypeOK, E!serverVars, E!netVars,
            E!vars, epollVars
<1>1. CASE E!Wait
  BY <1>1
  DEF E!Wait, E!Readable
<1>2. CASE E!Accept
  <2> DEFINE h == Head(e_backlog)
             t == Tail(e_backlog)
  <2>1. /\ h = e_backlog[1] /\ 1 \in DOMAIN e_backlog /\ h \in EpollConn /\ t \in Seq(EpollConn)
        /\ \A j \in DOMAIN t : j + 1 \in DOMAIN e_backlog /\ j + 1 # 1 /\ t[j] = e_backlog[j + 1]
        /\ \A j, k \in DOMAIN t : j + 1 = k + 1 => j = k
    BY <1>2, HeadAndTail DEF E!Accept
  <2>2. h \notin e_fresh \cup e_open /\ \A j \in DOMAIN t : t[j] # h
    BY <2>1 DEF QueueOK
  <2>3. e_backlog' = t /\ e_open' = e_open \cup {h} /\ e_fresh' = e_fresh
    BY <1>2 DEF E!Accept, E!Handled, E!Registered, E!Together
  <2> HIDE DEF h, t
  <2> QED
    BY <2>1, <2>2, <2>3
<1>3. CASE E!AcceptFails
  BY <1>3
  DEF E!AcceptFails
<1>4. ASSUME NEW c \in EpollConn, E!ReadData(c) PROVE QueueOK'
  BY <1>4
  DEF E!ReadData, E!Reads, E!Handled, E!ForWrite, E!Registered, E!HasData
<1>5. ASSUME NEW c \in EpollConn, E!ReadEnd(c) PROVE QueueOK'
  BY <1>5
  DEF E!ReadEnd, E!Reads, E!Handled, E!HasData, E!Closed
<1>6. ASSUME NEW c \in EpollConn, E!ReadError(c) PROVE QueueOK'
  BY <1>6
  DEF E!ReadError, E!Reads, E!Handled, E!ForWrite, E!Registered, E!HasData
<1>7. ASSUME NEW c \in EpollConn, E!WriteNothing(c) PROVE QueueOK'
  BY <1>7
  DEF E!WriteNothing, E!Writes, E!Handled, E!Registered, E!AfterWrite
<1>8. ASSUME NEW c \in EpollConn, E!WriteLine(c) PROVE QueueOK'
  BY <1>8
  DEF E!WriteLine, E!Writes, E!Handled, E!Registered, E!AfterWrite
<1>9. ASSUME NEW c \in EpollConn, E!WriteError(c) PROVE QueueOK'
  BY <1>9
  DEF E!WriteError, E!Writes, E!Handled, E!Registered, E!AfterWrite
<1>10. ASSUME NEW c \in EpollConn, E!WriteKills(c) PROVE QueueOK'
  BY <1>10
  DEF E!WriteKills
<1>11. ASSUME NEW c \in EpollConn, E!Connect(c) PROVE QueueOK'
  <2> DEFINE l == Len(e_backlog) + 1
  <2>1. /\ DOMAIN e_backlog' = DOMAIN e_backlog \cup {l} /\ e_backlog'[l] = c /\ l \notin DOMAIN e_backlog
        /\ \A j \in DOMAIN e_backlog : e_backlog'[j] = e_backlog[j]
    BY <1>11, LastAndRest DEF E!Connect
  <2> HIDE DEF l
  <2>2. e_open' = e_open /\ c \in e_fresh /\ e_fresh' = e_fresh \ {c} /\ c \notin e_open
    BY <1>11 DEF E!Connect, E!Arm, E!Together
  <2> QED
    BY <2>1, <2>2
<1>12. ASSUME NEW c \in EpollConn, E!Send(c) PROVE QueueOK'
  BY <1>12
  DEF E!Send, E!Made, E!Arm
<1>13. ASSUME NEW c \in EpollConn, E!Leave(c) PROVE QueueOK'
  BY <1>13
  DEF E!Leave, E!Made, E!Becomes, E!Arm
<1>14. ASSUME NEW c \in EpollConn, E!ResetArrives(c) PROVE QueueOK'
  BY <1>14
  DEF E!ResetArrives, E!Becomes, E!Arm
<1>15. ASSUME NEW c \in EpollConn, NEW how \in {"reset", "timedout"}, E!Break(c, how) PROVE QueueOK'
  BY <1>15
  DEF E!Break, E!Made, E!Becomes, E!Arm
<1>16. CASE UNCHANGED epollVars
  BY <1>16
<1> HIDE DEF QueueOK, EventsOK, EpollType, E!TypeOK
<1> QED
  BY <1>1, <1>2, <1>3, <1>4, <1>5, <1>6, <1>7, <1>8, <1>9, <1>10, <1>11, <1>12,
     <1>13, <1>14, <1>15, <1>16
  DEF E!Next, E!Server, E!Serve, E!Clients

\* Nothing is read from what is not accepted.
LEMMA NewStep ==
  ASSUME E!ConstantsOK, EpollType, EventsOK, QueueOK, NewOK, [E!Next]_epollVars
  PROVE  NewOK'
<1> USE DEF NewOK, Coming, QueueOK, EventsOK, EpollType, E!TypeOK, E!ConstantsOK,
            E!serverVars, E!netVars, E!vars, epollVars
<1>1. CASE E!Wait
  BY <1>1
  DEF E!Wait, E!Readable
<1>2. CASE E!Accept
  <2> DEFINE h == Head(e_backlog)
             t == Tail(e_backlog)
  <2>1. /\ h = e_backlog[1] /\ 1 \in DOMAIN e_backlog /\ h \in EpollConn /\ t \in Seq(EpollConn)
        /\ \A j \in DOMAIN t : j + 1 \in DOMAIN e_backlog /\ j + 1 # 1 /\ t[j] = e_backlog[j + 1]
        /\ \A j, k \in DOMAIN t : j + 1 = k + 1 => j = k
    BY <1>2, HeadAndTail DEF E!Accept
  <2>2. h \notin e_fresh \cup e_open /\ \A j \in DOMAIN t : t[j] # h
    BY <2>1 DEF QueueOK
  <2>3. e_backlog' = t /\ e_open' = e_open \cup {h} /\ e_fresh' = e_fresh
    BY <1>2 DEF E!Accept, E!Handled, E!Registered, E!Together
  <2> HIDE DEF h, t
  <2>4. e_taken' = e_taken /\ e_echoed' = e_echoed
    BY <1>2 DEF E!Accept, E!Handled, E!Registered, E!Together
  <2> QED
    BY <2>1, <2>3, <2>4
<1>3. CASE E!AcceptFails
  BY <1>3
  DEF E!AcceptFails
<1>4. ASSUME NEW c \in EpollConn, E!ReadData(c) PROVE NewOK'
  <2>1. /\ e_fresh' = e_fresh /\ e_backlog' = e_backlog /\ e_echoed' = e_echoed
        /\ c \in e_open
    BY <1>4 DEF E!ReadData, E!Reads, E!Handled, E!ForWrite, E!Registered, E!HasData
  <2>2. ~ Coming(c)
    BY <2>1
  <2>3. \A d \in EpollConn : d # c => e_taken'[d] = e_taken[d]
    BY <1>4 DEF E!ReadData, E!Reads, E!Handled, E!ForWrite, E!Registered, E!HasData
  <2> QED
    BY <2>1, <2>2, <2>3
<1>5. ASSUME NEW c \in EpollConn, E!ReadEnd(c) PROVE NewOK'
  <2>1. /\ e_fresh' = e_fresh /\ e_backlog' = e_backlog /\ e_echoed' = e_echoed
        /\ c \in e_open
    BY <1>5 DEF E!ReadEnd, E!Reads, E!Handled, E!HasData, E!Closed
  <2>2. ~ Coming(c)
    BY <2>1
  <2>3. \A d \in EpollConn : d # c => e_taken'[d] = e_taken[d]
    BY <1>5 DEF E!ReadEnd, E!Reads, E!Handled, E!HasData, E!Closed
  <2> QED
    BY <2>1, <2>2, <2>3
<1>6. ASSUME NEW c \in EpollConn, E!ReadError(c) PROVE NewOK'
  <2>1. /\ e_fresh' = e_fresh /\ e_backlog' = e_backlog /\ e_echoed' = e_echoed
        /\ c \in e_open
    BY <1>6 DEF E!ReadError, E!Reads, E!Handled, E!ForWrite, E!Registered, E!HasData
  <2>2. ~ Coming(c)
    BY <2>1
  <2>3. \A d \in EpollConn : d # c => e_taken'[d] = e_taken[d]
    BY <1>6 DEF E!ReadError, E!Reads, E!Handled, E!ForWrite, E!Registered, E!HasData
  <2> QED
    BY <2>1, <2>2, <2>3
<1>7. ASSUME NEW c \in EpollConn, E!WriteNothing(c) PROVE NewOK'
  BY <1>7
  DEF E!WriteNothing, E!Writes, E!Handled, E!Registered, E!AfterWrite
<1>8. ASSUME NEW c \in EpollConn, E!WriteLine(c) PROVE NewOK'
  BY <1>8, SMTT(30)
  DEF E!WriteLine, E!Writes, E!Handled, E!Registered, E!AfterWrite
<1>9. ASSUME NEW c \in EpollConn, E!WriteError(c) PROVE NewOK'
  BY <1>9
  DEF E!WriteError, E!Writes, E!Handled, E!Registered, E!AfterWrite
<1>10. ASSUME NEW c \in EpollConn, E!WriteKills(c) PROVE NewOK'
  BY <1>10
  DEF E!WriteKills
<1>11. ASSUME NEW c \in EpollConn, E!Connect(c) PROVE NewOK'
  <2> DEFINE l == Len(e_backlog) + 1
  <2>1. /\ DOMAIN e_backlog' = DOMAIN e_backlog \cup {l} /\ e_backlog'[l] = c /\ l \notin DOMAIN e_backlog
        /\ \A j \in DOMAIN e_backlog : e_backlog'[j] = e_backlog[j]
    BY <1>11, LastAndRest DEF E!Connect
  <2> HIDE DEF l
  <2>2. e_open' = e_open /\ c \in e_fresh /\ e_fresh' = e_fresh \ {c} /\ c \notin e_open
    BY <1>11 DEF E!Connect, E!Arm, E!Together
  <2>3. e_taken' = e_taken /\ e_echoed' = e_echoed
    BY <1>11 DEF E!Connect, E!Arm, E!Together
  <2>4. \A d \in EpollConn : Coming(d)' => Coming(d)
    BY <2>1, <2>2
  <2> QED
    BY <2>3, <2>4
<1>12. ASSUME NEW c \in EpollConn, E!Send(c) PROVE NewOK'
  BY <1>12
  DEF E!Send, E!Made, E!Arm
<1>13. ASSUME NEW c \in EpollConn, E!Leave(c) PROVE NewOK'
  BY <1>13
  DEF E!Leave, E!Made, E!Becomes, E!Arm
<1>14. ASSUME NEW c \in EpollConn, E!ResetArrives(c) PROVE NewOK'
  BY <1>14
  DEF E!ResetArrives, E!Becomes, E!Arm
<1>15. ASSUME NEW c \in EpollConn, NEW how \in {"reset", "timedout"}, E!Break(c, how) PROVE NewOK'
  BY <1>15
  DEF E!Break, E!Made, E!Becomes, E!Arm
<1>16. CASE UNCHANGED epollVars
  BY <1>16
<1> HIDE DEF NewOK, Coming, QueueOK, EventsOK, EpollType, E!TypeOK, E!ConstantsOK
<1> QED
  BY <1>1, <1>2, <1>3, <1>4, <1>5, <1>6, <1>7, <1>8, <1>9, <1>10, <1>11, <1>12,
     <1>13, <1>14, <1>15, <1>16
  DEF E!Next, E!Server, E!Serve, E!Clients

\* Who was never together with another is alone.
LEMMA AloneStep ==
  ASSUME EpollType, Alone, [E!Next]_epollVars
  PROVE  Alone'
<1> USE DEF Alone, EpollType, E!TypeOK, E!serverVars, E!netVars, E!vars, epollVars
<1>1. CASE E!Wait
  BY <1>1
  DEF E!Wait, E!Readable
<1>2. CASE E!Accept
  BY <1>2
  DEF E!Accept, E!Handled, E!Registered, E!Together
<1>3. CASE E!AcceptFails
  BY <1>3
  DEF E!AcceptFails
<1>4. ASSUME NEW c \in EpollConn, E!ReadData(c) PROVE Alone'
  BY <1>4
  DEF E!ReadData, E!Reads, E!Handled, E!ForWrite, E!Registered, E!HasData
<1>5. ASSUME NEW c \in EpollConn, E!ReadEnd(c) PROVE Alone'
  BY <1>5
  DEF E!ReadEnd, E!Reads, E!Handled, E!HasData, E!Closed
<1>6. ASSUME NEW c \in EpollConn, E!ReadError(c) PROVE Alone'
  BY <1>6
  DEF E!ReadError, E!Reads, E!Handled, E!ForWrite, E!Registered, E!HasData
<1>7. ASSUME NEW c \in EpollConn, E!WriteNothing(c) PROVE Alone'
  BY <1>7
  DEF E!WriteNothing, E!Writes, E!Handled, E!Registered, E!AfterWrite
<1>8. ASSUME NEW c \in EpollConn, E!WriteLine(c) PROVE Alone'
  BY <1>8
  DEF E!WriteLine, E!Writes, E!Handled, E!Registered, E!AfterWrite
<1>9. ASSUME NEW c \in EpollConn, E!WriteError(c) PROVE Alone'
  BY <1>9
  DEF E!WriteError, E!Writes, E!Handled, E!Registered, E!AfterWrite
<1>10. ASSUME NEW c \in EpollConn, E!WriteKills(c) PROVE Alone'
  BY <1>10
  DEF E!WriteKills
<1>11. ASSUME NEW c \in EpollConn, E!Connect(c) PROVE Alone'
  BY <1>11
  DEF E!Connect, E!Arm, E!Together
<1>12. ASSUME NEW c \in EpollConn, E!Send(c) PROVE Alone'
  BY <1>12
  DEF E!Send, E!Made, E!Arm
<1>13. ASSUME NEW c \in EpollConn, E!Leave(c) PROVE Alone'
  BY <1>13
  DEF E!Leave, E!Made, E!Becomes, E!Arm
<1>14. ASSUME NEW c \in EpollConn, E!ResetArrives(c) PROVE Alone'
  BY <1>14
  DEF E!ResetArrives, E!Becomes, E!Arm
<1>15. ASSUME NEW c \in EpollConn, NEW how \in {"reset", "timedout"}, E!Break(c, how) PROVE Alone'
  BY <1>15
  DEF E!Break, E!Made, E!Becomes, E!Arm
<1>16. CASE UNCHANGED epollVars
  BY <1>16
<1> HIDE DEF Alone, EpollType, E!TypeOK
<1> QED
  BY <1>1, <1>2, <1>3, <1>4, <1>5, <1>6, <1>7, <1>8, <1>9, <1>10, <1>11, <1>12,
     <1>13, <1>14, <1>15, <1>16
  DEF E!Next, E!Server, E!Serve, E!Clients

\* Nothing of another client comes into the buffer of one that is alone.
LEMMA BufferStep ==
  ASSUME E!ConstantsOK, EpollType, EventsOK, QueueOK, NewOK, Alone, BufferIsOwn, [E!Next]_epollVars
  PROVE  BufferIsOwn'
<1> USE DEF BufferIsOwn, EchoStands, E!ConstantsOK, EpollType, EventsOK, Alone,
            E!TypeOK, E!serverVars, E!netVars, E!vars, epollVars
<1>1. CASE E!Wait
  BY <1>1
  DEF E!Wait, E!Readable
<1>2. CASE E!Accept
  <2> DEFINE h == Head(e_backlog)
             t == Tail(e_backlog)
  <2>1. /\ h = e_backlog[1] /\ 1 \in DOMAIN e_backlog /\ h \in EpollConn /\ t \in Seq(EpollConn)
        /\ \A j \in DOMAIN t : j + 1 \in DOMAIN e_backlog /\ j + 1 # 1 /\ t[j] = e_backlog[j + 1]
        /\ \A j, k \in DOMAIN t : j + 1 = k + 1 => j = k
    BY <1>2, HeadAndTail DEF E!Accept
  <2>2. h \notin e_fresh \cup e_open /\ \A j \in DOMAIN t : t[j] # h
    BY <2>1 DEF QueueOK
  <2>3. e_backlog' = t /\ e_open' = e_open \cup {h} /\ e_fresh' = e_fresh
    BY <1>2 DEF E!Accept, E!Handled, E!Registered, E!Together
  <2> HIDE DEF h, t
  <2>4. e_taken[h] = 0 /\ e_echoed[h] = <<>>
    BY <2>1 DEF NewOK, Coming
  <2>5. "open" \notin e_together' => e_open' = {h}
    BY <1>2, <2>3 DEF E!Accept, E!Handled, E!Registered, E!Together
  <2>6. /\ e_mode' = [e_mode EXCEPT ![h] = "in"]
        /\ e_taken' = e_taken /\ e_echoed' = e_echoed
    BY <1>2 DEF E!Accept, E!Handled, E!Registered, E!Together, h
  <2>7. "open" \notin e_together' => \A c \in e_open' : e_mode'[c] = "in" /\ Len(e_echoed'[c]) = e_taken'[c]
    BY <2>1, <2>4, <2>5, <2>6
  <2> QED
    BY <2>7
<1>3. CASE E!AcceptFails
  BY <1>3
  DEF E!AcceptFails
<1>4. ASSUME NEW c \in EpollConn, E!ReadData(c) PROVE BufferIsOwn'
  <2>1. /\ e_open' = e_open /\ e_together' = e_together /\ e_echoed' = e_echoed
        /\ e_peer' = e_peer /\ c \in e_open /\ e_mode[c] = "in"
    BY <1>4 DEF E!ReadData, E!Reads, E!Handled, E!ForWrite, E!Registered, E!HasData
  <2>2. /\ e_mode'[c] = "out" /\ e_n' = "data" /\ e_line' = <<c, e_taken[c] + 1>>
        /\ e_taken'[c] = e_taken[c] + 1
    BY <1>4 DEF E!ReadData, E!Reads, E!Handled, E!ForWrite, E!Registered, E!HasData
  <2> SUFFICES ASSUME "open" \notin e_together, NEW d \in e_open, e_peer[d] = "open"
               PROVE  EchoStands(d)'
    BY <2>1
  <2>3. d = c /\ Len(e_echoed[c]) = e_taken[c]
    BY <2>1
  <2> QED
    BY <2>1, <2>2, <2>3
<1>5. ASSUME NEW c \in EpollConn, E!ReadEnd(c) PROVE BufferIsOwn'
  <2>1. /\ e_open' = e_open \ {c} /\ e_together' = e_together /\ c \in e_open
    BY <1>5 DEF E!ReadEnd, E!Reads, E!Handled, E!HasData, E!Closed
  <2>2. "open" \notin e_together' => e_open' = {}
    BY <2>1
  <2> QED
    BY <2>2
<1>6. ASSUME NEW c \in EpollConn, E!ReadError(c) PROVE BufferIsOwn'
  <2>1. /\ e_open' = e_open /\ e_together' = e_together /\ c \in e_open
        /\ e_peer'[c] # "open"
    BY <1>6 DEF E!ReadError, E!Reads, E!Handled, E!ForWrite, E!Registered, E!HasData
  <2>2. "open" \notin e_together' => e_open' = {c}
    BY <2>1
  <2> QED
    BY <2>1, <2>2
<1>7. ASSUME NEW c \in EpollConn, E!WriteNothing(c) PROVE BufferIsOwn'
  BY <1>7
  DEF E!WriteNothing, E!Writes, E!Handled, E!Registered, E!AfterWrite
<1>8. ASSUME NEW c \in EpollConn, E!WriteLine(c) PROVE BufferIsOwn'
  BY <1>8
  DEF E!WriteLine, E!Writes, E!Handled, E!Registered, E!AfterWrite
<1>9. ASSUME NEW c \in EpollConn, E!WriteError(c) PROVE BufferIsOwn'
  BY <1>9
  DEF E!WriteError, E!Writes, E!Handled, E!Registered, E!AfterWrite
<1>10. ASSUME NEW c \in EpollConn, E!WriteKills(c) PROVE BufferIsOwn'
  BY <1>10
  DEF E!WriteKills
<1>11. ASSUME NEW c \in EpollConn, E!Connect(c) PROVE BufferIsOwn'
  BY <1>11
  DEF E!Connect, E!Arm, E!Together
<1>12. ASSUME NEW c \in EpollConn, E!Send(c) PROVE BufferIsOwn'
  BY <1>12
  DEF E!Send, E!Made, E!Arm
<1>13. ASSUME NEW c \in EpollConn, E!Leave(c) PROVE BufferIsOwn'
  BY <1>13
  DEF E!Leave, E!Made, E!Becomes, E!Arm
<1>14. ASSUME NEW c \in EpollConn, E!ResetArrives(c) PROVE BufferIsOwn'
  BY <1>14
  DEF E!ResetArrives, E!Becomes, E!Arm
<1>15. ASSUME NEW c \in EpollConn, NEW how \in {"reset", "timedout"}, E!Break(c, how) PROVE BufferIsOwn'
  BY <1>15
  DEF E!Break, E!Made, E!Becomes, E!Arm
<1>16. CASE UNCHANGED epollVars
  BY <1>16
<1> HIDE DEF BufferIsOwn, EchoStands, E!ConstantsOK, EpollType, EventsOK, Alone,
             E!TypeOK
<1> QED
  BY <1>1, <1>2, <1>3, <1>4, <1>5, <1>6, <1>7, <1>8, <1>9, <1>10, <1>11, <1>12,
     <1>13, <1>14, <1>15, <1>16
  DEF E!Next, E!Server, E!Serve, E!Clients

\* So what is written to it is its own, and the next in order.
LEMMA EchoStep ==
  ASSUME E!ConstantsOK, EpollType, EventsOK, Alone, BufferIsOwn, E!EchoIsOwn, [E!Next]_epollVars
  PROVE  E!EchoIsOwn'
<1> USE DEF E!EchoIsOwn, BufferIsOwn, EchoStands, E!ConstantsOK, EpollType,
            EventsOK, Alone, E!TypeOK, E!serverVars, E!netVars, E!vars, epollVars
<1>1. CASE E!Wait
  BY <1>1
  DEF E!Wait, E!Readable
<1>2. CASE E!Accept
  BY <1>2
  DEF E!Accept, E!Handled, E!Registered, E!Together
<1>3. CASE E!AcceptFails
  BY <1>3
  DEF E!AcceptFails
<1>4. ASSUME NEW c \in EpollConn, E!ReadData(c) PROVE E!EchoIsOwn'
  BY <1>4
  DEF E!ReadData, E!Reads, E!Handled, E!ForWrite, E!Registered, E!HasData
<1>5. ASSUME NEW c \in EpollConn, E!ReadEnd(c) PROVE E!EchoIsOwn'
  BY <1>5
  DEF E!ReadEnd, E!Reads, E!Handled, E!HasData, E!Closed
<1>6. ASSUME NEW c \in EpollConn, E!ReadError(c) PROVE E!EchoIsOwn'
  BY <1>6
  DEF E!ReadError, E!Reads, E!Handled, E!ForWrite, E!Registered, E!HasData
<1>7. ASSUME NEW c \in EpollConn, E!WriteNothing(c) PROVE E!EchoIsOwn'
  BY <1>7
  DEF E!WriteNothing, E!Writes, E!Handled, E!Registered, E!AfterWrite
<1>8. ASSUME NEW c \in EpollConn, E!WriteLine(c) PROVE E!EchoIsOwn'
  <2>1. e_echoed' = IF e_peer[c] = "open" THEN [e_echoed EXCEPT ![c] = Append(@, e_line)] ELSE e_echoed
    BY <1>8 DEF E!WriteLine, E!Writes, E!Handled, E!Registered, E!AfterWrite
  <2>2. /\ e_together' = e_together /\ c \in e_open /\ e_mode[c] = "out" /\ e_n = "data"
    BY <1>8 DEF E!WriteLine, E!Writes, E!Handled, E!Registered, E!AfterWrite
  <2> SUFFICES ASSUME "open" \notin e_together, NEW d \in EpollConn,
                      NEW k \in 1 .. Len(e_echoed'[d])
               PROVE  e_echoed'[d][k] = <<d, k>>
    BY <2>2
  <2>3. CASE d # c \/ e_peer[c] # "open"
    BY <2>1, <2>3
  <2>4. CASE d = c /\ e_peer[c] = "open"
    <3>1. e_line = <<c, e_taken[c]>> /\ Len(e_echoed[c]) + 1 = e_taken[c]
      BY <2>2, <2>4
    <3>2. e_line \in E!Pieces /\ e_echoed[c] \in Seq(E!Pieces)
      OBVIOUS
    <3>3. e_echoed'[c] = Append(e_echoed[c], e_line)
      BY <2>1, <2>4
    <3>4. k \in 1 .. Len(e_echoed[c]) => e_echoed'[c][k] = e_echoed[c][k]
      BY <3>2, <3>3, LastAndRest
    <3>5. k \in 1 .. Len(e_echoed[c]) \/ k = e_taken[c]
      BY <2>4, <3>1, <3>2, <3>3, LastAndRest
    <3>6. k = e_taken[c] => e_echoed'[c][k] = e_line
      BY <3>1, <3>2, <3>3, LastAndRest
    <3> QED
      BY <2>4, <3>1, <3>4, <3>5, <3>6
  <2> QED
    BY <2>3, <2>4
<1>9. ASSUME NEW c \in EpollConn, E!WriteError(c) PROVE E!EchoIsOwn'
  BY <1>9
  DEF E!WriteError, E!Writes, E!Handled, E!Registered, E!AfterWrite
<1>10. ASSUME NEW c \in EpollConn, E!WriteKills(c) PROVE E!EchoIsOwn'
  BY <1>10
  DEF E!WriteKills
<1>11. ASSUME NEW c \in EpollConn, E!Connect(c) PROVE E!EchoIsOwn'
  BY <1>11
  DEF E!Connect, E!Arm, E!Together
<1>12. ASSUME NEW c \in EpollConn, E!Send(c) PROVE E!EchoIsOwn'
  BY <1>12
  DEF E!Send, E!Made, E!Arm
<1>13. ASSUME NEW c \in EpollConn, E!Leave(c) PROVE E!EchoIsOwn'
  BY <1>13
  DEF E!Leave, E!Made, E!Becomes, E!Arm
<1>14. ASSUME NEW c \in EpollConn, E!ResetArrives(c) PROVE E!EchoIsOwn'
  BY <1>14
  DEF E!ResetArrives, E!Becomes, E!Arm
<1>15. ASSUME NEW c \in EpollConn, NEW how \in {"reset", "timedout"}, E!Break(c, how) PROVE E!EchoIsOwn'
  BY <1>15
  DEF E!Break, E!Made, E!Becomes, E!Arm
<1>16. CASE UNCHANGED epollVars
  BY <1>16
<1> HIDE DEF E!EchoIsOwn, BufferIsOwn, EchoStands, E!ConstantsOK, EpollType,
             EventsOK, Alone, E!TypeOK
<1> QED
  BY <1>1, <1>2, <1>3, <1>4, <1>5, <1>6, <1>7, <1>8, <1>9, <1>10, <1>11, <1>12,
     <1>13, <1>14, <1>15, <1>16
  DEF E!Next, E!Server, E!Serve, E!Clients

\* Of a step of either server the edge-triggered one sees a step of its own or nothing.
LEMMA EpollSteps ==
  ASSUME [MCNext]_<<which, vars, epollVars>>
  PROVE  [E!Next]_epollVars
BY DEF MCNext, epollVars

\* The invariant holds throughout.
LEMMA EpollInvariant == MCSpec => []EpollInv
<1>1. MCInit => EpollInv
  BY EpollConstants, EpollStarts DEF MCInit
<1>2. EpollInv /\ [MCNext]_<<which, vars, epollVars>> => EpollInv'
  BY EpollConstants, EpollSteps, EpollTypeStep, EventsStep, QueueStep, NewStep, AloneStep,
     BufferStep, EchoStep DEF EpollInv
<1> QED
  BY <1>1, <1>2, PTL DEF MCSpec

\* epoll.cpp: clients that come one at a time get back what they sent, piece by piece in
\* order, however the events of the edge-triggered descriptors, ends and errors fall.
THEOREM OwnAlwaysEchoed == MCSpec => []EchoIsOwn
<1>1. EpollInv => EchoIsOwn
  BY DEF EpollInv, EpollType, EchoIsOwn
<1> QED
  BY <1>1, EpollInvariant, PTL
=============================================================================
