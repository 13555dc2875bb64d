------------------------ MODULE ChatShmServerProofs ------------------------
(***************************************************************************)
(* Theorems about ChatShmServer, for every set of process numbers and of   *)
(* connections, every USER_LIMIT, every capacity of the channels and any   *)
(* number of messages, SIGTERMs and faults.                                *)
(***************************************************************************)
EXTENDS ChatShmServer, TLAPS

-----------------------------------------------------------------------------
(* Sequences.                                                              *)

\* The empty sequence.
LEMMA EmptySeq == ASSUME NEW S PROVE <<>> \in Seq(S) /\ Len(<<>>) = 0
OBVIOUS

\* What Append gives.
LEMMA AppendSeq ==
    ASSUME NEW S, NEW s \in Seq(S), NEW e \in S
    PROVE  /\ Append(s, e) \in Seq(S)
           /\ Len(s) \in Nat
           /\ Len(Append(s, e)) = Len(s) + 1
           /\ Append(s, e)[Len(s) + 1] = e
           /\ \A i \in 1 .. Len(s) : Append(s, e)[i] = s[i]
OBVIOUS

\* What Tail gives.
LEMMA TailSeq ==
    ASSUME NEW S, NEW s \in Seq(S), s # <<>>
    PROVE  /\ Tail(s) \in Seq(S)
           /\ Len(s) \in Nat \ {0}
           /\ Len(Tail(s)) = Len(s) - 1
           /\ Head(s) = s[1] /\ Head(s) \in S
           /\ \A i \in 1 .. Len(s) - 1 : Tail(s)[i] = s[i + 1]
OBVIOUS

\* What a non-blocking send leaves in a channel.
LEMMA SentSeq ==
    ASSUME NEW s \in Seq(Slot), NEW e \in Slot
    PROVE  /\ Sent(s, e) \in Seq(Slot)
           /\ s # <<>> => Sent(s, e) # <<>>
BY AppendSeq DEF Sent

-----------------------------------------------------------------------------
(* Type correctness and the table.                                         *)

\* The table holds processes.
TableInv == TableOK /\ \A i \in 0 .. user_count - 1 : users[i] \in Pid

\* A child serves a connection, has events only while it handles a batch, and an
\* event of its channel stands for an int that is still there.
ChildOK ==
    \A p \in Pid :
        /\ Unreaped(p) => cconn[p] \in Conn
        /\ cbatch[p] # {} => cpc[p] \in {"batch", "zeroed"}
        /\ "pipe" \in cbatch[p] => toChild[p] # <<>>

ServerInv == TypeOK /\ TableInv /\ ChildOK

\* The invariant holds at the start.
LEMMA InitServerInv == Init => ServerInv
<1> SUFFICES ASSUME Init PROVE ServerInv
  OBVIOUS
<1> USE DEF Init
<1>1. /\ psigpipe \in Seq({"CHLD", "TERM"}) /\ Len(psigpipe) <= SigCap
      /\ sigbuf \in Seq({"CHLD", "TERM"}) /\ backlog \in Seq(Conn)
      /\ toParent \in [Pid -> Seq(Slot)] /\ toChild \in [Pid -> Seq(Slot)]
  BY EmptySeq, CapacityAssumption
<1>2. 0 \in Slot /\ 0 \in 0 .. USER_LIMIT /\ 0 \in 0 .. MaxMsg
  BY LimitAssumption, MsgAssumption DEF Slot
<1>3. TypeOK
  BY <1>1, <1>2 DEF TypeOK
<1>4. TableInv
  BY DEF TableInv, TableOK, Unreaped
<1>5. ChildOK
  BY DEF ChildOK, Unreaped
<1> QED
  BY <1>3, <1>4, <1>5 DEF ServerInv

\* A zombie is in the table where sub_process says, and the last entry is there
\* to take its place.
LEMMA ReapFacts ==
    ASSUME TypeOK, TableInv, NEW p \in Pid, ReapOne(p)
    PROVE  LET del  == sub_process[p]
               last == user_count - 1
           IN  /\ user_count \in 1 .. USER_LIMIT
               /\ del \in 0 .. last /\ del # NoUser /\ users[del] = p
               /\ last \in 0 .. USER_LIMIT - 1 /\ users[last] \in Pid
               /\ del \in Slot
               /\ users' = [users EXCEPT ![del] = users[last]]
               /\ sub_process' = [[sub_process EXCEPT ![p] = NoUser]
                                     EXCEPT ![users[last]] = del]
               /\ user_count' = last
               /\ moved' = (moved \/ del # last)
               /\ parmed' = parmed \ {p}
<1> DEFINE del  == sub_process[p]
           last == user_count - 1
<1>1. Unreaped(p)
  BY DEF ReapOne, Unreaped
<1>2. PICK i \in 0 .. user_count - 1 : users[i] = p
  BY <1>1 DEF TableInv, TableOK, InTable
<1>3. del = i
  BY <1>2 DEF TableInv, TableOK
<1>4. user_count \in 0 .. USER_LIMIT /\ USER_LIMIT \in Nat
  BY LimitAssumption DEF TypeOK
<1>5. /\ user_count \in 1 .. USER_LIMIT /\ del \in 0 .. last /\ del # NoUser
      /\ last \in 0 .. USER_LIMIT - 1 /\ del \in Slot
  BY <1>2, <1>3, <1>4 DEF NoUser, Slot
<1>6. users[last] \in Pid
  BY <1>5 DEF TableInv
<1>7. users \in [0 .. USER_LIMIT -> Pid \cup {Nobody}] /\ del \in 0 .. USER_LIMIT
  BY <1>5, <1>4 DEF TypeOK
<1>8. [users EXCEPT ![del] = users[last]][del] = users[last]
  BY <1>7
<1> QED
  BY <1>2, <1>3, <1>5, <1>6, <1>8 DEF ReapOne, SubAfterMove

\* The death of a process keeps the types of what it changes.
LEMMA DiesTypeOK ==
    ASSUME TypeOK, NEW p \in Pid, Dies(p)
    PROVE  /\ cpc' \in [Pid -> {"free", "forked", "closed", "test", "enter",
                                "wait", "batch", "zeroed", "zombie"}]
           /\ ppend' \subseteq {"CHLD", "TERM"}
           /\ parmed' \subseteq {"listen", "sig"} \cup Pid
           /\ stop_child' \in [Pid -> BOOLEAN]
           /\ cbatch' \in [Pid -> SUBSET {"conn", "pipe"}]
           /\ carmed' \in [Pid -> SUBSET {"conn", "pipe"}]
           /\ cterm' \in [Pid -> BOOLEAN]
           /\ toChild' \in [Pid -> Seq(Slot)]
           /\ inbox' \in [Conn -> SUBSET Msg]
           /\ peer' \in [Conn -> {"open", "closed", "reset"}]
<1>1. toChild' \in [Pid -> Seq(Slot)]
  BY EmptySeq DEF Dies, TypeOK
<1> QED
  BY <1>1 DEF Dies, TypeOK

\* A signal's byte.
LEMMA SigByteTypeOK ==
    ASSUME TypeOK, NEW s \in {"CHLD", "TERM"}, SigByte(s)
    PROVE  /\ psigpipe' \in Seq({"CHLD", "TERM"}) /\ Len(psigpipe') <= SigCap
           /\ parmed' \subseteq {"listen", "sig"} \cup Pid
<1>1. CASE Len(psigpipe) < SigCap
  <2>1. psigpipe' = Append(psigpipe, s) /\ parmed' = parmed \cup {"sig"}
    BY <1>1, CapacityAssumption DEF SigByte, TypeOK
  <2>2. psigpipe' \in Seq({"CHLD", "TERM"}) /\ Len(psigpipe') = Len(psigpipe) + 1
    BY <2>1, AppendSeq DEF TypeOK
  <2> QED
    BY <1>1, <2>1, <2>2, CapacityAssumption DEF TypeOK
<1>2. CASE ~ (Len(psigpipe) < SigCap)
  BY <1>2 DEF SigByte, TypeOK
<1> QED
  BY <1>1, <1>2

\* Every step keeps the types.  A reaped child was in the table, so the count does
\* not become negative; a child reads its channel only when there is an int.
LEMMA TypeOKStep ==
    ASSUME ServerInv, [Next]_vars
    PROVE  TypeOK'
<1> USE DEF ServerInv, TypeOK, parentVars, tableVars, childVars, chanVars, netVars, auxVars, vars
<1>1. CASE ParentWait
  BY <1>1 DEF ParentWait
<1>2. CASE Reject
  <2>1. backlog' \in Seq(Conn) /\ Head(backlog) \in Conn
    BY <1>2, TailSeq DEF Reject
  <2> QED
    BY <1>2, <2>1 DEF Reject
<1>3. ASSUME NEW p \in Pid, Accept(p) PROVE TypeOK'
  <2>1. backlog' \in Seq(Conn) /\ Head(backlog) \in Conn
    BY <1>3, TailSeq DEF Accept
  <2>2. user_count \in Slot /\ user_count \in 0 .. USER_LIMIT /\ user_count' \in 0 .. USER_LIMIT
    BY <1>3, LimitAssumption DEF Accept, Full, Slot
  <2>3. users' \in [0 .. USER_LIMIT -> Pid \cup {Nobody}]
    BY <1>3, <2>2 DEF Accept
  <2>4. sub_process' \in [Pid -> Slot \cup {NoUser}] /\ cidx' \in [Pid -> Slot]
    BY <1>3, <2>2 DEF Accept, NewIdx
  <2> QED
    BY <1>3, <2>1, <2>2, <2>3, <2>4 DEF Accept
<1>4. CASE RecvSignals
  BY <1>4, EmptySeq, CapacityAssumption DEF RecvSignals
<1>5. ASSUME NEW p \in Pid, ReapOne(p) PROVE TypeOK'
  <2> DEFINE del  == sub_process[p]
             last == user_count - 1
  <2>1. users' \in [0 .. USER_LIMIT -> Pid \cup {Nobody}]
    <3>1. del \in 0 .. USER_LIMIT /\ users[last] \in Pid
      BY <1>5, ReapFacts, LimitAssumption
    <3>2. users' = [users EXCEPT ![del] = users[last]]
      BY <1>5, ReapFacts
    <3> QED
      BY <3>1, <3>2
  <2>2. user_count' \in 0 .. USER_LIMIT
    <3>1. user_count' = last /\ last \in 0 .. USER_LIMIT - 1
      BY <1>5, ReapFacts
    <3> HIDE DEF last
    <3> QED
      BY <3>1, LimitAssumption
  <2>3. sub_process' \in [Pid -> Slot \cup {NoUser}]
    <3>1. /\ del \in Slot /\ users[last] \in Pid
          /\ sub_process' = [[sub_process EXCEPT ![p] = NoUser]
                                EXCEPT ![users[last]] = del]
      BY <1>5, ReapFacts
    <3> HIDE DEF del, last
    <3> QED
      BY <3>1
  <2>4. parmed' \subseteq {"listen", "sig"} \cup Pid /\ moved' \in BOOLEAN
    BY <1>5 DEF ReapOne
  <2>5. toParent' \in [Pid -> Seq(Slot)] /\ toChild' \in [Pid -> Seq(Slot)]
    BY <1>5, EmptySeq DEF ReapOne
  <2>6. cpc' \in [Pid -> {"free", "forked", "closed", "test", "enter", "wait",
                        "batch", "zeroed", "zombie"}]
    BY <1>5 DEF ReapOne
  <2> HIDE DEF del, last
  <2> QED
    BY <1>5, <2>1, <2>2, <2>3, <2>4, <2>5, <2>6 DEF ReapOne
<1>6. CASE ReapDone
  <2>1. sigbuf' \in Seq({"CHLD", "TERM"})
    BY <1>6, TailSeq DEF ReapDone, HandlingSig
  <2> QED
    BY <1>6, <2>1 DEF ReapDone, AllGone
<1>7. CASE HandleTerm
  <2>1. sigbuf' \in Seq({"CHLD", "TERM"})
    BY <1>7, TailSeq DEF HandleTerm, HandlingSig
  <2>2. cterm' \in [Pid -> BOOLEAN]
    BY <1>7 DEF HandleTerm, ToKill, InTable, Alive
  <2> QED
    BY <1>7, <2>1, <2>2 DEF HandleTerm
<1>8. ASSUME NEW p \in Pid, Relay(p) PROVE TypeOK'
  <2>1. CASE InTable(p) /\ toParent[p] # <<>>
    <3>1. Tail(toParent[p]) \in Seq(Slot) /\ Head(toParent[p]) \in Slot
      BY <2>1, TailSeq
    <3>a. /\ toParent' = [toParent EXCEPT ![p] = Tail(toParent[p])]
          /\ toChild' = [q \in Pid |->
                IF q \in Others(p) /\ Alive(q)
                THEN Sent(toChild[q], Head(toParent[p])) ELSE toChild[q]]
          /\ carmed' = [q \in Pid |->
                IF q \in Others(p) /\ Registered(q) /\ Fits(toChild[q])
                THEN carmed[q] \cup {"pipe"} ELSE carmed[q]]
      BY <1>8, <2>1 DEF Relay
    <3>2. toParent' \in [Pid -> Seq(Slot)]
      BY <3>a, <3>1
    <3>3. \A q \in Pid : Sent(toChild[q], Head(toParent[p])) \in Seq(Slot)
      BY <3>1, SentSeq
    <3>4. toChild' \in [Pid -> Seq(Slot)]
      BY <3>a, <3>3
    <3>5. carmed' \in [Pid -> SUBSET {"conn", "pipe"}]
      BY <3>a
    <3> QED
      BY <1>8, <3>2, <3>4, <3>5 DEF Relay
  <2>2. CASE ~ (InTable(p) /\ toParent[p] # <<>>)
    BY <1>8, <2>2 DEF Relay
  <2> QED
    BY <2>1, <2>2
<1>9. CASE ParentBatchDone
  BY <1>9 DEF ParentBatchDone
<1>10. ASSUME NEW p \in Pid, ChildCloses(p) PROVE TypeOK'
  BY <1>10 DEF ChildCloses
<1>11. ASSUME NEW p \in Pid, ChildSetup(p) PROVE TypeOK'
  BY <1>11 DEF ChildSetup
<1>12. ASSUME NEW p \in Pid, ChildTest(p) PROVE TypeOK'
  <2>1. CASE Dies(p)
    BY <1>12, <2>1, DiesTypeOK DEF ChildTest
  <2>2. CASE ~ stop_child[p]
    BY <1>12, <2>2 DEF ChildTest
  <2> QED
    BY <1>12, <2>1, <2>2 DEF ChildTest
<1>13. ASSUME NEW p \in Pid, ChildEnter(p) PROVE TypeOK'
  BY <1>13 DEF ChildEnter
<1>14. ASSUME NEW p \in Pid, ChildWait(p) PROVE TypeOK'
  BY <1>14 DEF ChildWait, ChildReady
<1>15. ASSUME NEW p \in Pid, ChildZero(p) PROVE TypeOK'
  BY <1>15 DEF ChildZero
<1>16. ASSUME NEW p \in Pid, ChildRecv(p) PROVE TypeOK'
  <2>1. cconn[p] \in Conn /\ cidx[p] \in Slot
    BY <1>16 DEF ChildRecv, ChildOK, Unreaped
  <2>2. share_mem' \in [Slot -> SUBSET Msg] /\ inbox' \in [Conn -> SUBSET Msg]
    <3>1. inbox[cconn[p]] \in SUBSET Msg
      BY <2>1
    <3>2. CASE inbox[cconn[p]] # {}
      BY <1>16, <2>1, <3>1, <3>2 DEF ChildRecv
    <3>3. CASE inbox[cconn[p]] = {}
      BY <1>16, <3>3 DEF ChildRecv
    <3> QED
      BY <3>2, <3>3
  <2>3. toParent' \in [Pid -> Seq(Slot)]
    <3>1. Sent(toParent[p], cidx[p]) \in Seq(Slot)
      BY <2>1, SentSeq
    <3>2. \/ toParent' = [toParent EXCEPT ![p] = Sent(toParent[p], cidx[p])]
          \/ toParent' = toParent
      BY <1>16 DEF ChildRecv
    <3>3. toParent \in [Pid -> Seq(Slot)]
      OBVIOUS
    <3>4. [toParent EXCEPT ![p] = Sent(toParent[p], cidx[p])] \in [Pid -> Seq(Slot)]
      BY <3>1, <3>3
    <3> QED
      BY <3>2, <3>3, <3>4
  <2>4. stop_child' \in [Pid -> BOOLEAN]
    BY <1>16 DEF ChildRecv
  <2>5. peer' \in [Conn -> {"open", "closed", "reset"}] /\ parmed' \subseteq {"listen", "sig"} \cup Pid
    BY <1>16, ZenonT(40) DEF ChildRecv
  <2> QED
    BY <1>16, <2>2, <2>3, <2>4, <2>5 DEF ChildRecv
<1>17. ASSUME NEW p \in Pid, ChildForward(p) PROVE TypeOK'
  <2>1. toChild[p] # <<>> /\ cconn[p] \in Conn
    BY <1>17 DEF ChildForward, ChildOK, Unreaped
  <2>2. toChild' \in [Pid -> Seq(Slot)] /\ Head(toChild[p]) \in Slot
    BY <1>17, <2>1, TailSeq DEF ChildForward
  <2>3. share_mem[Head(toChild[p])] \in SUBSET Msg
    BY <2>2
  <2>4. got' \in [Conn -> SUBSET Msg]
    BY <1>17, <2>1, <2>3 DEF ChildForward
  <2> QED
    BY <1>17, <2>2, <2>4 DEF ChildForward
<1>18. ASSUME NEW p \in Pid, ChildBatchDone(p) PROVE TypeOK'
  BY <1>18 DEF ChildBatchDone
<1>19. ASSUME NEW s \in {"CHLD", "TERM"}, DeliverParent(s) PROVE TypeOK'
  BY <1>19, SigByteTypeOK DEF DeliverParent
<1>20. ASSUME NEW p \in Pid, DeliverChild(p) PROVE TypeOK'
  <2>1. psigpipe' \in Seq({"CHLD", "TERM"}) /\ Len(psigpipe') <= SigCap
        /\ parmed' \subseteq {"listen", "sig"} \cup Pid
    BY <1>20, SigByteTypeOK DEF DeliverChild
  <2>2. cpc' \in [Pid -> {"free", "forked", "closed", "test", "enter", "wait",
                        "batch", "zeroed", "zombie"}]
    BY <1>20 DEF DeliverChild
  <2>3. stop_child' \in [Pid -> BOOLEAN] /\ cterm' \in [Pid -> BOOLEAN]
    BY <1>20 DEF DeliverChild
  <2>4. UNCHANGED <<ppc, pbatch, sigbuf, ppend, tableVars, cidx, cconn, cbatch,
                    carmed, chanVars, netVars, auxVars>>
    BY <1>20 DEF DeliverChild
  <2> QED
    BY <2>1, <2>2, <2>3, <2>4
<1>21. CASE AcceptFails
  <2>1. backlog' \in Seq(Conn)
    <3>1. backlog # <<>> /\ (backlog' = backlog \/ backlog' = Tail(backlog))
      BY <1>21 DEF AcceptFails
    <3>2. backlog \in Seq(Conn) /\ Tail(backlog) \in Seq(Conn)
      BY <3>1, TailSeq
    <3> QED
      BY <3>1, <3>2
  <2>2. peer' \in [Conn -> {"open", "closed", "reset"}]
    BY <1>21 DEF AcceptFails
  <2>3. faults' \in Nat
    BY <1>21 DEF AcceptFails
  <2> QED
    BY <1>21, <2>1, <2>2, <2>3 DEF AcceptFails
<1>22. CASE Terminate
  BY <1>22 DEF Terminate
<1>23. ASSUME NEW p \in Pid, Crash(p) PROVE TypeOK'
  <2>1. faults' \in Nat
    BY <1>23 DEF Crash
  <2> QED
    BY <1>23, <2>1, DiesTypeOK DEF Crash
<1>24. ASSUME NEW c \in Conn, Connect(c) PROVE TypeOK'
  <2>1. backlog' \in Seq(Conn)
    BY <1>24, AppendSeq DEF Connect
  <2> QED
    BY <1>24, <2>1 DEF Connect
<1>25. ASSUME NEW c \in Conn, ClientSends(c) PROVE TypeOK'
  <2>1. wrote[c] + 1 \in 1 .. MaxMsg
    BY <1>25, MsgAssumption DEF ClientSends
  <2>2. <<c, wrote[c] + 1>> \in Msg
    BY <2>1 DEF Msg
  <2>3. inbox' \in [Conn -> SUBSET Msg]
    BY <1>25, <2>2 DEF ClientSends
  <2>4. wrote' \in [Conn -> 0 .. MaxMsg]
    BY <1>25, <2>1, MsgAssumption DEF ClientSends
  <2>5. carmed' \in [Pid -> SUBSET {"conn", "pipe"}]
    BY <1>25 DEF ClientSends, ConnEdge
  <2> QED
    BY <1>25, <2>3, <2>4, <2>5 DEF ClientSends
<1>26. ASSUME NEW c \in Conn, ClientCloses(c) PROVE TypeOK'
  BY <1>26 DEF ClientCloses, ConnEdge
<1>27. ASSUME NEW c \in Conn, ClientResets(c) PROVE TypeOK'
  BY <1>27 DEF ClientResets, ConnEdge
<1>28. CASE UNCHANGED vars
  BY <1>28
<1> QED
  BY <1>1, <1>2, <1>3, <1>4, <1>5, <1>6, <1>7, <1>8, <1>9, <1>10,
     <1>11, <1>12, <1>13, <1>14, <1>15, <1>16, <1>17, <1>18, <1>19,
     <1>20, <1>21, <1>22, <1>23, <1>24, <1>25, <1>26, <1>27, <1>28
     DEF Next, ParentStep, ChildStep, Deliver, Environment

\* A step that leaves the table alone and neither makes nor collects a child.
LEMMA TableSame ==
    ASSUME TableInv, UNCHANGED <<users, user_count, sub_process>>,
           \A q \in Pid : Unreaped(q)' <=> Unreaped(q)
    PROVE  TableInv'
BY DEF TableInv, TableOK, InTable

\* Every step keeps table and inverse consistent; the two that change them are a
\* fork and the removal of a collected child.
LEMMA TableStep ==
    ASSUME ServerInv, [Next]_vars
    PROVE  TableInv'
<1> USE DEF parentVars, tableVars, childVars, chanVars, netVars, auxVars, vars
<1>1. CASE ParentWait
  <2>1. \A q \in Pid : Unreaped(q)' <=> Unreaped(q)
    BY <1>1 DEF ParentWait, Unreaped, ServerInv, TypeOK
  <2> QED
    BY <1>1, <2>1, TableSame DEF ParentWait, ServerInv
<1>2. CASE Reject
  <2>1. \A q \in Pid : Unreaped(q)' <=> Unreaped(q)
    BY <1>2 DEF Reject, Unreaped, ServerInv, TypeOK
  <2> QED
    BY <1>2, <2>1, TableSame DEF Reject, ServerInv
<1>3. ASSUME NEW p \in Pid, Accept(p) PROVE TableInv'
  <2> USE DEF ServerInv
  <2>1. user_count \in 0 .. USER_LIMIT /\ user_count' = user_count + 1
    BY <1>3 DEF Accept, TypeOK
  <2>2. \A i \in 0 .. user_count' - 1 : i \in 0 .. user_count - 1 \/ i = user_count
    BY <2>1
  <2>3. \A i \in 0 .. user_count - 1 :
            users[i] \in Pid /\ users[i] # p /\ i \in 0 .. USER_LIMIT /\ i # user_count
    <3>1. \A i \in 0 .. user_count - 1 : users[i] \in Pid /\ cpc[users[i]] # "free"
      BY DEF TableInv, TableOK, Unreaped
    <3>2. \A i \in 0 .. user_count - 1 : i \in 0 .. USER_LIMIT /\ i # user_count
      BY <2>1, LimitAssumption
    <3>3. cpc[p] = "free"
      BY <1>3 DEF Accept
    <3> QED
      BY <3>1, <3>2, <3>3
  <2>4. users'[user_count] = p /\ sub_process'[p] = user_count /\ cpc'[p] = "forked"
    BY <1>3, <2>1 DEF Accept, TypeOK
  <2>5. \A i \in 0 .. user_count - 1 : users'[i] = users[i]
    BY <1>3, <2>1, <2>3 DEF Accept, TypeOK
  <2>6. \A q \in Pid : q # p => cpc'[q] = cpc[q] /\ sub_process'[q] = sub_process[q]
    BY <1>3 DEF Accept, TypeOK
  <2>7. \A i \in 0 .. user_count' - 1 :
            users'[i] \in Pid /\ cpc'[users'[i]] # "free" /\ sub_process'[users'[i]] = i
    <3>1. ASSUME NEW i \in 0 .. user_count - 1
          PROVE  users'[i] \in Pid /\ cpc'[users'[i]] # "free" /\ sub_process'[users'[i]] = i
      <4>1. users'[i] = users[i] /\ users[i] \in Pid /\ users[i] # p
        BY <2>3, <2>5
      <4>2. cpc[users[i]] # "free" /\ sub_process[users[i]] = i
        BY DEF TableInv, TableOK, Unreaped
      <4> QED
        BY <2>6, <4>1, <4>2
    <3>2. users'[user_count] \in Pid /\ cpc'[users'[user_count]] # "free"
                                     /\ sub_process'[users'[user_count]] = user_count
      BY <2>1, <2>4 DEF Unreaped
    <3> QED
      BY <2>2, <2>1, <3>1, <3>2
  <2>8. ASSUME NEW q \in Pid, Unreaped(q)'
        PROVE  \E i \in 0 .. user_count' - 1 : users'[i] = q
    <3>1. CASE q = p
      BY <2>1, <2>4, <3>1
    <3>2. CASE q # p
      <4>1. Unreaped(q)
        BY <2>6, <2>8, <3>2 DEF Unreaped
      <4>2. PICK i \in 0 .. user_count - 1 : users[i] = q
        BY <4>1 DEF TableInv, TableOK, InTable
      <4>3. i \in 0 .. user_count' - 1
        BY <2>1
      <4> QED
        BY <2>5, <4>2, <4>3
    <3> QED
      BY <3>1, <3>2
  <2> QED
    BY <2>7, <2>8 DEF TableInv, TableOK, InTable, Unreaped
<1>4. CASE RecvSignals
  <2>1. \A q \in Pid : Unreaped(q)' <=> Unreaped(q)
    BY <1>4 DEF RecvSignals, Unreaped, ServerInv, TypeOK
  <2> QED
    BY <1>4, <2>1, TableSame DEF RecvSignals, ServerInv
<1>5. ASSUME NEW p \in Pid, ReapOne(p) PROVE TableInv'
  <2> USE DEF ServerInv
  <2> DEFINE del  == sub_process[p]
             last == user_count - 1
  <2>1. /\ del \in 0 .. last /\ users[del] = p
        /\ last \in 0 .. USER_LIMIT - 1 /\ users[last] \in Pid /\ del \in Slot
        /\ users' = [users EXCEPT ![del] = users[last]]
        /\ sub_process' = [[sub_process EXCEPT ![p] = NoUser]
                              EXCEPT ![users[last]] = del]
        /\ user_count' = last
    BY <1>5, ReapFacts
  <2>2. \A i \in 0 .. last : /\ users[i] \in Pid /\ Unreaped(users[i])
                             /\ sub_process[users[i]] = i
    BY DEF TableInv, TableOK
  <2>3. cpc' = [cpc EXCEPT ![p] = "free"]
    BY <1>5 DEF ReapOne
  <2> HIDE DEF del, last
  <2>4. \A i \in 0 .. last : i \in 0 .. USER_LIMIT
    BY <2>1, LimitAssumption
  <2>5. \A i \in 0 .. last - 1 : i \in 0 .. last /\ i # last
    BY <2>1, LimitAssumption
  <2>6. \A i \in 0 .. last : users'[i] = IF i = del THEN users[last] ELSE users[i]
    BY <2>1, <2>4 DEF TypeOK
  <2>7. \A i, j \in 0 .. last : users[i] = users[j] => i = j
    BY <2>2
  <2>8. last \in 0 .. last /\ del \in 0 .. last
    BY <2>1, LimitAssumption
  <2>9. \A q \in Pid : /\ cpc'[q] = IF q = p THEN "free" ELSE cpc[q]
                       /\ sub_process'[q] = IF q = users[last] THEN del
                                            ELSE IF q = p THEN NoUser ELSE sub_process[q]
    BY <2>1, <2>3 DEF TypeOK
  <2>10. ASSUME NEW i \in 0 .. last - 1
         PROVE  users'[i] \in Pid /\ cpc'[users'[i]] # "free" /\ sub_process'[users'[i]] = i
    <3>1. CASE i = del
      <4>1. users'[i] = users[last] /\ users[last] # p
        BY <2>1, <2>5, <2>6, <2>7, <2>8, <3>1
      <4>2. QED
        <5>1. cpc[users[last]] # "free"
          BY <2>2, <2>8 DEF Unreaped
        <5>2. cpc'[users[last]] = cpc[users[last]] /\ sub_process'[users[last]] = del
          BY <2>1, <2>9, <4>1
        <5> QED
          BY <2>1, <3>1, <4>1, <5>1, <5>2
    <3>2. CASE i # del
      <4>1. users'[i] = users[i] /\ users[i] # p /\ users[i] # users[last]
        BY <2>1, <2>5, <2>6, <2>7, <2>8, <3>2
      <4> QED
        BY <2>2, <2>5, <2>9, <4>1 DEF Unreaped
    <3> QED
      BY <3>1, <3>2
  <2>11. ASSUME NEW q \in Pid, Unreaped(q)'
         PROVE  \E i \in 0 .. last - 1 : users'[i] = q
    <3>1. Unreaped(q) /\ q # p
      BY <2>9, <2>11 DEF Unreaped
    <3>2. PICK i \in 0 .. last : users[i] = q
      BY <3>1 DEF TableInv, TableOK, InTable, last
    <3>3. i # del
      BY <2>1, <3>1, <3>2
    <3>4. CASE i = last
      <4>1. del \in 0 .. last - 1
        BY <2>1, <3>3, <3>4, LimitAssumption
      <4> QED
        BY <2>6, <2>8, <3>2, <3>4, <4>1
    <3>5. CASE i # last
      <4>1. i \in 0 .. last - 1
        BY <2>1, <3>5, LimitAssumption
      <4> QED
        BY <2>6, <3>2, <3>3, <4>1
    <3> QED
      BY <3>4, <3>5
  <2> QED
    BY <2>1, <2>10, <2>11 DEF TableInv, TableOK, InTable, Unreaped
<1>6. CASE ReapDone
  <2>1. \A q \in Pid : Unreaped(q)' <=> Unreaped(q)
    BY <1>6 DEF ReapDone, Unreaped, ServerInv, TypeOK
  <2> QED
    BY <1>6, <2>1, TableSame DEF ReapDone, ServerInv
<1>7. CASE HandleTerm
  <2>1. \A q \in Pid : Unreaped(q)' <=> Unreaped(q)
    BY <1>7 DEF HandleTerm, Unreaped, ServerInv, TypeOK
  <2> QED
    BY <1>7, <2>1, TableSame DEF HandleTerm, ServerInv
<1>8. ASSUME NEW p \in Pid, Relay(p) PROVE TableInv'
  <2>1. \A q \in Pid : Unreaped(q)' <=> Unreaped(q)
    BY <1>8 DEF Relay, Unreaped, ServerInv, TypeOK
  <2> QED
    BY <1>8, <2>1, TableSame DEF Relay, ServerInv
<1>9. CASE ParentBatchDone
  <2>1. \A q \in Pid : Unreaped(q)' <=> Unreaped(q)
    BY <1>9 DEF ParentBatchDone, Unreaped, ServerInv, TypeOK
  <2> QED
    BY <1>9, <2>1, TableSame DEF ParentBatchDone, ServerInv
<1>10. ASSUME NEW p \in Pid, ChildCloses(p) PROVE TableInv'
  <2>1. \A q \in Pid : Unreaped(q)' <=> Unreaped(q)
    BY <1>10 DEF ChildCloses, Unreaped, ServerInv, TypeOK
  <2> QED
    BY <1>10, <2>1, TableSame DEF ChildCloses, ServerInv
<1>11. ASSUME NEW p \in Pid, ChildSetup(p) PROVE TableInv'
  <2>1. \A q \in Pid : Unreaped(q)' <=> Unreaped(q)
    BY <1>11 DEF ChildSetup, Unreaped, ServerInv, TypeOK
  <2> QED
    BY <1>11, <2>1, TableSame DEF ChildSetup, ServerInv
<1>12. ASSUME NEW p \in Pid, ChildTest(p) PROVE TableInv'
  <2>1. \A q \in Pid : Unreaped(q)' <=> Unreaped(q)
    BY <1>12 DEF ChildTest, Dies, Unreaped, ServerInv, TypeOK
  <2> QED
    BY <1>12, <2>1, TableSame DEF ChildTest, ServerInv
<1>13. ASSUME NEW p \in Pid, ChildEnter(p) PROVE TableInv'
  <2>1. \A q \in Pid : Unreaped(q)' <=> Unreaped(q)
    BY <1>13 DEF ChildEnter, Unreaped, ServerInv, TypeOK
  <2> QED
    BY <1>13, <2>1, TableSame DEF ChildEnter, ServerInv
<1>14. ASSUME NEW p \in Pid, ChildWait(p) PROVE TableInv'
  <2>1. \A q \in Pid : Unreaped(q)' <=> Unreaped(q)
    BY <1>14 DEF ChildWait, Unreaped, ServerInv, TypeOK
  <2> QED
    BY <1>14, <2>1, TableSame DEF ChildWait, ServerInv
<1>15. ASSUME NEW p \in Pid, ChildZero(p) PROVE TableInv'
  <2>1. \A q \in Pid : Unreaped(q)' <=> Unreaped(q)
    BY <1>15 DEF ChildZero, Unreaped, ServerInv, TypeOK
  <2> QED
    BY <1>15, <2>1, TableSame DEF ChildZero, ServerInv
<1>16. ASSUME NEW p \in Pid, ChildRecv(p) PROVE TableInv'
  <2>1. \A q \in Pid : Unreaped(q)' <=> Unreaped(q)
    BY <1>16 DEF ChildRecv, Unreaped, ServerInv, TypeOK
  <2> QED
    BY <1>16, <2>1, TableSame DEF ChildRecv, ServerInv
<1>17. ASSUME NEW p \in Pid, ChildForward(p) PROVE TableInv'
  <2>1. \A q \in Pid : Unreaped(q)' <=> Unreaped(q)
    BY <1>17 DEF ChildForward, Unreaped, ServerInv, TypeOK
  <2> QED
    BY <1>17, <2>1, TableSame DEF ChildForward, ServerInv
<1>18. ASSUME NEW p \in Pid, ChildBatchDone(p) PROVE TableInv'
  <2>1. \A q \in Pid : Unreaped(q)' <=> Unreaped(q)
    BY <1>18 DEF ChildBatchDone, Unreaped, ServerInv, TypeOK
  <2> QED
    BY <1>18, <2>1, TableSame DEF ChildBatchDone, ServerInv
<1>19. ASSUME NEW s \in {"CHLD", "TERM"}, DeliverParent(s) PROVE TableInv'
  <2>1. \A q \in Pid : Unreaped(q)' <=> Unreaped(q)
    BY <1>19 DEF DeliverParent, Unreaped, ServerInv, TypeOK
  <2> QED
    BY <1>19, <2>1, TableSame DEF DeliverParent, ServerInv
<1>20. ASSUME NEW p \in Pid, DeliverChild(p) PROVE TableInv'
  <2>1. \A q \in Pid : Unreaped(q)' <=> Unreaped(q)
    BY <1>20 DEF DeliverChild, Registered, Unreaped, ServerInv, TypeOK
  <2> QED
    BY <1>20, <2>1, TableSame DEF DeliverChild, ServerInv
<1>21. CASE AcceptFails
  <2>1. \A q \in Pid : Unreaped(q)' <=> Unreaped(q)
    BY <1>21 DEF AcceptFails, Unreaped, ServerInv, TypeOK
  <2> QED
    BY <1>21, <2>1, TableSame DEF AcceptFails, ServerInv
<1>22. CASE Terminate
  <2>1. \A q \in Pid : Unreaped(q)' <=> Unreaped(q)
    BY <1>22 DEF Terminate, Unreaped, ServerInv, TypeOK
  <2> QED
    BY <1>22, <2>1, TableSame DEF Terminate, ServerInv
<1>23. ASSUME NEW p \in Pid, Crash(p) PROVE TableInv'
  <2>1. \A q \in Pid : Unreaped(q)' <=> Unreaped(q)
    BY <1>23 DEF Crash, Dies, Alive, Unreaped, ServerInv, TypeOK
  <2> QED
    BY <1>23, <2>1, TableSame DEF Crash, ServerInv
<1>24. ASSUME NEW c \in Conn, Connect(c) PROVE TableInv'
  <2>1. \A q \in Pid : Unreaped(q)' <=> Unreaped(q)
    BY <1>24 DEF Connect, Unreaped, ServerInv, TypeOK
  <2> QED
    BY <1>24, <2>1, TableSame DEF Connect, ServerInv
<1>25. ASSUME NEW c \in Conn, ClientSends(c) PROVE TableInv'
  <2>1. \A q \in Pid : Unreaped(q)' <=> Unreaped(q)
    BY <1>25 DEF ClientSends, Unreaped, ServerInv, TypeOK
  <2> QED
    BY <1>25, <2>1, TableSame DEF ClientSends, ServerInv
<1>26. ASSUME NEW c \in Conn, ClientCloses(c) PROVE TableInv'
  <2>1. \A q \in Pid : Unreaped(q)' <=> Unreaped(q)
    BY <1>26 DEF ClientCloses, Unreaped, ServerInv, TypeOK
  <2> QED
    BY <1>26, <2>1, TableSame DEF ClientCloses, ServerInv
<1>27. ASSUME NEW c \in Conn, ClientResets(c) PROVE TableInv'
  <2>1. \A q \in Pid : Unreaped(q)' <=> Unreaped(q)
    BY <1>27 DEF ClientResets, Unreaped, ServerInv, TypeOK
  <2> QED
    BY <1>27, <2>1, TableSame DEF ClientResets, ServerInv
<1>28. CASE UNCHANGED vars
  BY <1>28, TableSame DEF ServerInv, Unreaped
<1> QED
  BY <1>1, <1>2, <1>3, <1>4, <1>5, <1>6, <1>7, <1>8, <1>9, <1>10,
     <1>11, <1>12, <1>13, <1>14, <1>15, <1>16, <1>17, <1>18, <1>19,
     <1>20, <1>21, <1>22, <1>23, <1>24, <1>25, <1>26, <1>27, <1>28
     DEF Next, ParentStep, ChildStep, Deliver, Environment

\* Only the child itself takes ints out of its channel or drops its connection.
LEMMA ChildStepOK ==
    ASSUME ServerInv, [Next]_vars
    PROVE  ChildOK'
<1> USE DEF ServerInv, TypeOK, ChildOK, Unreaped, parentVars, tableVars, childVars, chanVars, netVars, auxVars, vars
<1>1. CASE ParentWait
  BY <1>1 DEF ParentWait
<1>2. CASE Reject
  BY <1>2 DEF Reject
<1>3. ASSUME NEW p \in Pid, Accept(p) PROVE ChildOK'
  <2>1. Head(backlog) \in Conn
    BY <1>3, TailSeq DEF Accept
  <2> QED
    BY <1>3, <2>1 DEF Accept
<1>4. CASE RecvSignals
  BY <1>4 DEF RecvSignals
<1>5. ASSUME NEW p \in Pid, ReapOne(p) PROVE ChildOK'
  BY <1>5 DEF ReapOne
<1>6. CASE ReapDone
  BY <1>6 DEF ReapDone
<1>7. CASE HandleTerm
  BY <1>7 DEF HandleTerm
<1>8. ASSUME NEW p \in Pid, Relay(p) PROVE ChildOK'
  <2>1. ASSUME NEW q \in Pid PROVE toChild[q] # <<>> => toChild'[q] # <<>>
    <3>1. CASE InTable(p) /\ toParent[p] # <<>>
      <4>1. Head(toParent[p]) \in Slot /\ toChild[q] \in Seq(Slot)
        BY <3>1, TailSeq
      <4>2. toChild'[q] \in {toChild[q], Sent(toChild[q], Head(toParent[p]))}
        BY <1>8, <3>1 DEF Relay
      <4> QED
        BY <4>1, <4>2, SentSeq
    <3>2. CASE ~ (InTable(p) /\ toParent[p] # <<>>)
      BY <1>8, <3>2 DEF Relay
    <3> QED
      BY <3>1, <3>2
  <2> QED
    BY <1>8, <2>1 DEF Relay
<1>9. CASE ParentBatchDone
  BY <1>9 DEF ParentBatchDone
<1>10. ASSUME NEW p \in Pid, ChildCloses(p) PROVE ChildOK'
  BY <1>10 DEF ChildCloses
<1>11. ASSUME NEW p \in Pid, ChildSetup(p) PROVE ChildOK'
  BY <1>11 DEF ChildSetup
<1>12. ASSUME NEW p \in Pid, ChildTest(p) PROVE ChildOK'
  <2>1. CASE Dies(p)
    BY <1>12, <2>1 DEF ChildTest, Dies
  <2>2. CASE ~ stop_child[p]
    BY <1>12, <2>2 DEF ChildTest
  <2> QED
    BY <1>12, <2>1, <2>2 DEF ChildTest
<1>13. ASSUME NEW p \in Pid, ChildEnter(p) PROVE ChildOK'
  BY <1>13 DEF ChildEnter
<1>14. ASSUME NEW p \in Pid, ChildWait(p) PROVE ChildOK'
  BY <1>14 DEF ChildWait, ChildReady
<1>15. ASSUME NEW p \in Pid, ChildZero(p) PROVE ChildOK'
  BY <1>15 DEF ChildZero
<1>16. ASSUME NEW p \in Pid, ChildRecv(p) PROVE ChildOK'
  BY <1>16 DEF ChildRecv
<1>17. ASSUME NEW p \in Pid, ChildForward(p) PROVE ChildOK'
  BY <1>17 DEF ChildForward
<1>18. ASSUME NEW p \in Pid, ChildBatchDone(p) PROVE ChildOK'
  BY <1>18 DEF ChildBatchDone
<1>19. ASSUME NEW s \in {"CHLD", "TERM"}, DeliverParent(s) PROVE ChildOK'
  BY <1>19 DEF DeliverParent
<1>20. ASSUME NEW p \in Pid, DeliverChild(p) PROVE ChildOK'
  BY <1>20 DEF DeliverChild, Registered
<1>21. CASE AcceptFails
  BY <1>21 DEF AcceptFails
<1>22. CASE Terminate
  BY <1>22 DEF Terminate
<1>23. ASSUME NEW p \in Pid, Crash(p) PROVE ChildOK'
  BY <1>23 DEF Crash, Dies, Alive
<1>24. ASSUME NEW c \in Conn, Connect(c) PROVE ChildOK'
  BY <1>24 DEF Connect
<1>25. ASSUME NEW c \in Conn, ClientSends(c) PROVE ChildOK'
  BY <1>25 DEF ClientSends
<1>26. ASSUME NEW c \in Conn, ClientCloses(c) PROVE ChildOK'
  BY <1>26 DEF ClientCloses
<1>27. ASSUME NEW c \in Conn, ClientResets(c) PROVE ChildOK'
  BY <1>27 DEF ClientResets
<1>28. CASE UNCHANGED vars
  BY <1>28
<1> QED
  BY <1>1, <1>2, <1>3, <1>4, <1>5, <1>6, <1>7, <1>8, <1>9, <1>10,
     <1>11, <1>12, <1>13, <1>14, <1>15, <1>16, <1>17, <1>18, <1>19,
     <1>20, <1>21, <1>22, <1>23, <1>24, <1>25, <1>26, <1>27, <1>28
     DEF Next, ParentStep, ChildStep, Deliver, Environment

\* ServerInv is inductive.
LEMMA ServerInvStep == ServerInv /\ [Next]_vars => ServerInv'
BY TypeOKStep, TableStep, ChildStepOK DEF ServerInv

\* The invariant holds throughout.
LEMMA ServerInvariant == Spec => []ServerInv
BY InitServerInv, ServerInvStep, PTL DEF Spec

\* Type correctness, for every size of the table and of the channels.
THEOREM TypeCorrect == Spec => []TypeOK
<1>1. ServerInv => TypeOK
  BY DEF ServerInv
<1> QED
  BY <1>1, ServerInvariant, PTL

\* The table of children and its inverse agree in every reachable state, so each
\* child that is collected removes its own entry.
THEOREM TableConsistent == Spec => []TableOK
<1>1. ServerInv => TableOK
  BY DEF ServerInv, TableInv
<1> QED
  BY <1>1, ServerInvariant, PTL

-----------------------------------------------------------------------------
(* Slots and shutdown.                                                     *)

\* The slot is chosen by the count, and so is the place in the table, which changes
\* only when another entry than the last is removed.
LEMMA SlotsStep ==
    ASSUME ServerInv, SlotsMatchTable, [Next]_vars
    PROVE  SlotsMatchTable'
<1> USE DEF SlotsMatchTable, parentVars, tableVars, childVars, chanVars, netVars, auxVars, vars
<1>1. CASE ParentWait
  BY <1>1 DEF ParentWait
<1>2. CASE Reject
  BY <1>2 DEF Reject
<1>3. ASSUME NEW p \in Pid, Accept(p) PROVE SlotsMatchTable'
  <2> USE DEF ServerInv
  <2> HIDE DEF SlotsMatchTable
  <2>1. user_count \in 0 .. USER_LIMIT /\ user_count' = user_count + 1 /\ moved' = moved
    BY <1>3 DEF Accept, TypeOK
  <2>2. \A i \in 0 .. user_count' - 1 : i \in 0 .. user_count - 1 \/ i = user_count
    BY <2>1
  <2>3. \A i \in 0 .. user_count - 1 : users[i] \in Pid /\ cpc[users[i]] # "free"
    BY DEF TableInv, TableOK, Unreaped
  <2>4. cpc[p] = "free"
    BY <1>3 DEF Accept
  <2>5. \A i \in 0 .. user_count - 1 : i \in 0 .. USER_LIMIT /\ i # user_count
    BY <2>1, LimitAssumption
  <2>6. \A i \in 0 .. user_count - 1 : users'[i] = users[i] /\ cidx'[users[i]] = cidx[users[i]]
    BY <1>3, <2>1, <2>3, <2>4, <2>5 DEF Accept, TypeOK
  <2>7. users'[user_count] = p /\ cidx'[p] = user_count
    BY <1>3, <2>1 DEF Accept, TypeOK, NewIdx
  <2> QED
    BY <2>1, <2>2, <2>6, <2>7 DEF SlotsMatchTable
<1>4. CASE RecvSignals
  BY <1>4 DEF RecvSignals
<1>5. ASSUME NEW p \in Pid, ReapOne(p) PROVE SlotsMatchTable'
  <2> USE DEF ServerInv
  <2> HIDE DEF SlotsMatchTable
  <2> SUFFICES ASSUME ~ moved'
               PROVE  \A i \in 0 .. user_count' - 1 : cidx'[users'[i]] = i
    BY DEF SlotsMatchTable
  <2> DEFINE del  == sub_process[p]
             last == user_count - 1
  <2>1. /\ del = last /\ ~ moved /\ last \in 0 .. USER_LIMIT - 1
        /\ users' = [users EXCEPT ![del] = users[last]]
        /\ user_count' = last
    BY <1>5, ReapFacts
  <2>2. cidx' = cidx
    BY <1>5 DEF ReapOne
  <2>3. \A i \in 0 .. last : cidx[users[i]] = i
    BY <2>1 DEF SlotsMatchTable
  <2> HIDE DEF del, last
  <2>4. \A i \in 0 .. last - 1 : i \in 0 .. last /\ i \in 0 .. USER_LIMIT /\ i # del
    BY <2>1, LimitAssumption
  <2>5. \A i \in 0 .. last - 1 : users'[i] = users[i]
    BY <2>1, <2>4 DEF TypeOK
  <2> QED
    BY <2>1, <2>2, <2>3, <2>4, <2>5
<1>6. CASE ReapDone
  BY <1>6 DEF ReapDone
<1>7. CASE HandleTerm
  BY <1>7 DEF HandleTerm
<1>8. ASSUME NEW p \in Pid, Relay(p) PROVE SlotsMatchTable'
  BY <1>8 DEF Relay
<1>9. CASE ParentBatchDone
  BY <1>9 DEF ParentBatchDone
<1>10. ASSUME NEW p \in Pid, ChildCloses(p) PROVE SlotsMatchTable'
  BY <1>10 DEF ChildCloses
<1>11. ASSUME NEW p \in Pid, ChildSetup(p) PROVE SlotsMatchTable'
  BY <1>11 DEF ChildSetup
<1>12. ASSUME NEW p \in Pid, ChildTest(p) PROVE SlotsMatchTable'
  BY <1>12 DEF ChildTest, Dies
<1>13. ASSUME NEW p \in Pid, ChildEnter(p) PROVE SlotsMatchTable'
  BY <1>13 DEF ChildEnter
<1>14. ASSUME NEW p \in Pid, ChildWait(p) PROVE SlotsMatchTable'
  BY <1>14 DEF ChildWait
<1>15. ASSUME NEW p \in Pid, ChildZero(p) PROVE SlotsMatchTable'
  BY <1>15 DEF ChildZero
<1>16. ASSUME NEW p \in Pid, ChildRecv(p) PROVE SlotsMatchTable'
  BY <1>16 DEF ChildRecv
<1>17. ASSUME NEW p \in Pid, ChildForward(p) PROVE SlotsMatchTable'
  BY <1>17 DEF ChildForward
<1>18. ASSUME NEW p \in Pid, ChildBatchDone(p) PROVE SlotsMatchTable'
  BY <1>18 DEF ChildBatchDone
<1>19. ASSUME NEW s \in {"CHLD", "TERM"}, DeliverParent(s) PROVE SlotsMatchTable'
  BY <1>19 DEF DeliverParent
<1>20. ASSUME NEW p \in Pid, DeliverChild(p) PROVE SlotsMatchTable'
  BY <1>20 DEF DeliverChild
<1>21. CASE AcceptFails
  BY <1>21 DEF AcceptFails
<1>22. CASE Terminate
  BY <1>22 DEF Terminate
<1>23. ASSUME NEW p \in Pid, Crash(p) PROVE SlotsMatchTable'
  BY <1>23 DEF Crash, Dies
<1>24. ASSUME NEW c \in Conn, Connect(c) PROVE SlotsMatchTable'
  BY <1>24 DEF Connect
<1>25. ASSUME NEW c \in Conn, ClientSends(c) PROVE SlotsMatchTable'
  BY <1>25 DEF ClientSends
<1>26. ASSUME NEW c \in Conn, ClientCloses(c) PROVE SlotsMatchTable'
  BY <1>26 DEF ClientCloses
<1>27. ASSUME NEW c \in Conn, ClientResets(c) PROVE SlotsMatchTable'
  BY <1>27 DEF ClientResets
<1>28. CASE UNCHANGED vars
  BY <1>28
<1> QED
  BY <1>1, <1>2, <1>3, <1>4, <1>5, <1>6, <1>7, <1>8, <1>9, <1>10,
     <1>11, <1>12, <1>13, <1>14, <1>15, <1>16, <1>17, <1>18, <1>19,
     <1>20, <1>21, <1>22, <1>23, <1>24, <1>25, <1>26, <1>27, <1>28
     DEF Next, ParentStep, ChildStep, Deliver, Environment

\* A client's slot is its child's own place in the table, as long as entries have
\* been removed from the end only, for every USER_LIMIT.
THEOREM SlotsAreOwn == Spec => []SlotsMatchTable
<1>1. Init => SlotsMatchTable
  BY DEF Init, SlotsMatchTable
<1>2. ServerInv /\ SlotsMatchTable /\ [Next]_vars => SlotsMatchTable'
  BY SlotsStep
<1> QED
  BY <1>1, <1>2, ServerInvariant, PTL DEF Spec

\* stop_server is set when the table is empty; children forked afterwards are late.
LEMMA StopStep ==
    ASSUME ServerInv, StopLeavesOnlyLate, [Next]_vars
    PROVE  StopLeavesOnlyLate'
<1> USE DEF ServerInv, TypeOK, StopLeavesOnlyLate, Unreaped, parentVars, tableVars, childVars, chanVars, netVars, auxVars, vars
<1>1. CASE ParentWait
  BY <1>1 DEF ParentWait
<1>2. CASE Reject
  BY <1>2 DEF Reject
<1>3. ASSUME NEW p \in Pid, Accept(p) PROVE StopLeavesOnlyLate'
  BY <1>3 DEF Accept
<1>4. CASE RecvSignals
  BY <1>4 DEF RecvSignals
<1>5. ASSUME NEW p \in Pid, ReapOne(p) PROVE StopLeavesOnlyLate'
  BY <1>5 DEF ReapOne
<1>6. CASE ReapDone
  <2>1. CASE stop_server' = stop_server
    BY <1>6, <2>1 DEF ReapDone
  <2>2. CASE user_count = 0
    <3>1. \A q \in Pid : ~ InTable(q)
      BY <2>2 DEF InTable
    <3>2. \A q \in Pid : cpc[q] = "free"
      BY <3>1 DEF TableInv, TableOK
    <3> QED
      BY <1>6, <3>2 DEF ReapDone
  <2> QED
    BY <1>6, <2>1, <2>2 DEF ReapDone, AllGone
<1>7. CASE HandleTerm
  <2>1. CASE user_count = 0
    <3>1. \A q \in Pid : ~ InTable(q)
      BY <2>1 DEF InTable
    <3>2. \A q \in Pid : cpc[q] = "free"
      BY <3>1 DEF TableInv, TableOK
    <3> QED
      BY <1>7, <3>2 DEF HandleTerm
  <2>2. CASE UNCHANGED stop_server
    BY <1>7, <2>2 DEF HandleTerm
  <2> QED
    BY <1>7, <2>1, <2>2 DEF HandleTerm
<1>8. ASSUME NEW p \in Pid, Relay(p) PROVE StopLeavesOnlyLate'
  BY <1>8 DEF Relay
<1>9. CASE ParentBatchDone
  BY <1>9 DEF ParentBatchDone
<1>10. ASSUME NEW p \in Pid, ChildCloses(p) PROVE StopLeavesOnlyLate'
  BY <1>10 DEF ChildCloses
<1>11. ASSUME NEW p \in Pid, ChildSetup(p) PROVE StopLeavesOnlyLate'
  BY <1>11 DEF ChildSetup
<1>12. ASSUME NEW p \in Pid, ChildTest(p) PROVE StopLeavesOnlyLate'
  BY <1>12 DEF ChildTest, Dies
<1>13. ASSUME NEW p \in Pid, ChildEnter(p) PROVE StopLeavesOnlyLate'
  BY <1>13 DEF ChildEnter
<1>14. ASSUME NEW p \in Pid, ChildWait(p) PROVE StopLeavesOnlyLate'
  BY <1>14 DEF ChildWait
<1>15. ASSUME NEW p \in Pid, ChildZero(p) PROVE StopLeavesOnlyLate'
  BY <1>15 DEF ChildZero
<1>16. ASSUME NEW p \in Pid, ChildRecv(p) PROVE StopLeavesOnlyLate'
  BY <1>16 DEF ChildRecv
<1>17. ASSUME NEW p \in Pid, ChildForward(p) PROVE StopLeavesOnlyLate'
  BY <1>17 DEF ChildForward
<1>18. ASSUME NEW p \in Pid, ChildBatchDone(p) PROVE StopLeavesOnlyLate'
  BY <1>18 DEF ChildBatchDone
<1>19. ASSUME NEW s \in {"CHLD", "TERM"}, DeliverParent(s) PROVE StopLeavesOnlyLate'
  BY <1>19 DEF DeliverParent
<1>20. ASSUME NEW p \in Pid, DeliverChild(p) PROVE StopLeavesOnlyLate'
  BY <1>20 DEF DeliverChild, Registered
<1>21. CASE AcceptFails
  BY <1>21 DEF AcceptFails
<1>22. CASE Terminate
  BY <1>22 DEF Terminate
<1>23. ASSUME NEW p \in Pid, Crash(p) PROVE StopLeavesOnlyLate'
  BY <1>23 DEF Crash, Dies, Alive
<1>24. ASSUME NEW c \in Conn, Connect(c) PROVE StopLeavesOnlyLate'
  BY <1>24 DEF Connect
<1>25. ASSUME NEW c \in Conn, ClientSends(c) PROVE StopLeavesOnlyLate'
  BY <1>25 DEF ClientSends
<1>26. ASSUME NEW c \in Conn, ClientCloses(c) PROVE StopLeavesOnlyLate'
  BY <1>26 DEF ClientCloses
<1>27. ASSUME NEW c \in Conn, ClientResets(c) PROVE StopLeavesOnlyLate'
  BY <1>27 DEF ClientResets
<1>28. CASE UNCHANGED vars
  BY <1>28
<1> QED
  BY <1>1, <1>2, <1>3, <1>4, <1>5, <1>6, <1>7, <1>8, <1>9, <1>10,
     <1>11, <1>12, <1>13, <1>14, <1>15, <1>16, <1>17, <1>18, <1>19,
     <1>20, <1>21, <1>22, <1>23, <1>24, <1>25, <1>26, <1>27, <1>28
     DEF Next, ParentStep, ChildStep, Deliver, Environment

\* When the server stops, every child it leaves behind was forked after it had
\* decided to stop.
THEOREM OnlyLateChildrenLeft == Spec => []StopLeavesOnlyLate
<1>1. Init => StopLeavesOnlyLate
  BY DEF Init, StopLeavesOnlyLate
<1>2. ServerInv /\ StopLeavesOnlyLate /\ [Next]_vars => StopLeavesOnlyLate'
  BY StopStep
<1> QED
  BY <1>1, <1>2, ServerInvariant, PTL DEF Spec

-----------------------------------------------------------------------------
(* Nobody is sent its own message.                                         *)

\* The connections that wait for accept.
Waiting == {backlog[i] : i \in 1 .. Len(backlog)}

BacklogOK == \A i, j \in 1 .. Len(backlog) : backlog[i] = backlog[j] => i = j

\* A connection is in one place: not made, waiting, or served by one child.
ConnsOK ==
    /\ Waiting \cap fresh = {}
    /\ \A p \in Pid : Unreaped(p) => cconn[p] \notin fresh \cup Waiting
    /\ \A p, q \in Pid :
          Unreaped(p) /\ Unreaped(q) /\ cconn[p] = cconn[q] => p = q

\* A message received is one its client wrote; a message in a slot is by a client
\* that has been served, and if it is still served, that is its child's slot.
OriginOK ==
    /\ \A c \in Conn : \A m \in inbox[c] : m[1] = c
    /\ \A x \in Slot : \A m \in share_mem[x] :
          /\ m[1] \notin fresh \cup Waiting
          /\ \A p \in Pid : Unreaped(p) /\ cconn[p] = m[1] => cidx[p] = x

\* A child sends its own slot's number, and is sent those of others.
ChannelsOK ==
    \A p \in Pid :
        /\ \A k \in 1 .. Len(toParent[p]) : toParent[p][k] = cidx[p]
        /\ ~ moved => \A k \in 1 .. Len(toChild[p]) : toChild[p][k] # cidx[p]
        /\ ~ Unreaped(p) => toParent[p] = <<>> /\ toChild[p] = <<>>

\* What a queue holds after a send.
LEMMA SentElements ==
    ASSUME NEW s \in Seq(Slot), NEW e \in Slot
    PROVE  \A k \in 1 .. Len(Sent(s, e)) :
              Sent(s, e)[k] = e \/ (k \in 1 .. Len(s) /\ Sent(s, e)[k] = s[k])
<1>1. CASE Len(s) < ChanCap
  <2>1. Sent(s, e) = Append(s, e)
    BY <1>1 DEF Sent, Fits
  <2>2. \A k \in 1 .. Len(s) + 1 : k = Len(s) + 1 \/ k \in 1 .. Len(s)
    BY AppendSeq
  <2> QED
    BY <2>1, <2>2, AppendSeq
<1>2. CASE ~ (Len(s) < ChanCap)
  BY <1>2 DEF Sent, Fits
<1> QED
  BY <1>1, <1>2

\* What is left after one has been taken from a channel.
LEMMA TailElements ==
    ASSUME NEW s \in Seq(Slot), s # <<>>
    PROVE  /\ \A k \in 1 .. Len(Tail(s)) :
                 k + 1 \in 1 .. Len(s) /\ Tail(s)[k] = s[k + 1]
           /\ 1 \in 1 .. Len(s) /\ Head(s) = s[1]
BY TailSeq

\* Taking the first connection out of the backlog.
LEMMA Dequeued ==
    ASSUME TypeOK, BacklogOK, backlog # <<>>, backlog' = Tail(backlog)
    PROVE  /\ BacklogOK'
           /\ Head(backlog) \in Waiting /\ Head(backlog) \in Conn
           /\ Waiting' \subseteq Waiting \ {Head(backlog)}
<1>1. backlog \in Seq(Conn)
  BY DEF TypeOK
<1>2. /\ Len(backlog) \in Nat \ {0} /\ Len(backlog') = Len(backlog) - 1
      /\ Head(backlog) = backlog[1] /\ Head(backlog) \in Conn
      /\ \A i \in 1 .. Len(backlog) - 1 : backlog'[i] = backlog[i + 1]
  BY <1>1, TailSeq
<1>3. \A i \in 1 .. Len(backlog') :
         i + 1 \in 1 .. Len(backlog) /\ i + 1 # 1 /\ backlog'[i] = backlog[i + 1]
  BY <1>2
<1>4. 1 \in 1 .. Len(backlog)
  BY <1>2
<1>5. BacklogOK'
  <2>1. SUFFICES ASSUME NEW i \in 1 .. Len(backlog'), NEW j \in 1 .. Len(backlog'),
                        backlog'[i] = backlog'[j]
                 PROVE  i = j
    BY DEF BacklogOK
  <2>2. i + 1 = j + 1
    BY <1>3, <2>1 DEF BacklogOK
  <2> QED
    BY <2>2, <1>2
<1>6. Waiting' \subseteq Waiting \ {Head(backlog)}
  BY <1>2, <1>3, <1>4 DEF Waiting, BacklogOK
<1> QED
  BY <1>2, <1>4, <1>5, <1>6 DEF Waiting

\* A connection that comes joins the backlog at its end.
LEMMA Enqueued ==
    ASSUME TypeOK, BacklogOK, NEW c \in Conn, c \notin Waiting,
           backlog' = Append(backlog, c)
    PROVE  BacklogOK' /\ Waiting' = Waiting \cup {c}
<1>1. backlog \in Seq(Conn)
  BY DEF TypeOK
<1>2. /\ Len(backlog) \in Nat /\ Len(backlog') = Len(backlog) + 1
      /\ backlog'[Len(backlog) + 1] = c
      /\ \A i \in 1 .. Len(backlog) : backlog'[i] = backlog[i]
  BY <1>1, AppendSeq
<1>3. \A i \in 1 .. Len(backlog') : i \in 1 .. Len(backlog) \/ i = Len(backlog) + 1
  BY <1>2
<1>4. \A i \in 1 .. Len(backlog) : backlog[i] # c
  BY DEF Waiting
<1>5. BacklogOK'
  BY <1>2, <1>3, <1>4 DEF BacklogOK
<1>6. \A i \in 1 .. Len(backlog) : i \in 1 .. Len(backlog')
  BY <1>2
<1>7. Len(backlog) + 1 \in 1 .. Len(backlog')
  BY <1>2
<1>8. Waiting' = Waiting \cup {c}
  BY <1>2, <1>3, <1>6, <1>7 DEF Waiting
<1> QED
  BY <1>5, <1>8

\* A step that moves no connection.
LEMMA ConnsSame ==
    ASSUME BacklogOK, ConnsOK, UNCHANGED <<backlog, fresh, cconn>>,
           \A q \in Pid : Unreaped(q)' <=> Unreaped(q)
    PROVE  BacklogOK' /\ ConnsOK'
BY DEF BacklogOK, ConnsOK, Waiting

\* A connection moves from the clients to the backlog and from there to one child.
LEMMA ConnsStep ==
    ASSUME ServerInv, BacklogOK, ConnsOK, [Next]_vars
    PROVE  (BacklogOK /\ ConnsOK)'
<1> USE DEF parentVars, tableVars, childVars, chanVars, netVars, auxVars, vars
<1>1. CASE ParentWait
  <2>1. \A q \in Pid : Unreaped(q)' <=> Unreaped(q)
    BY <1>1 DEF ParentWait, Unreaped, ServerInv, TypeOK
  <2> QED
    BY <1>1, <2>1, ConnsSame DEF ParentWait
<1>2. CASE Reject
  <2>1. BacklogOK' /\ Waiting' \subseteq Waiting
    BY <1>2, Dequeued DEF Reject, ServerInv
  <2> QED
    BY <1>2, <2>1 DEF Reject, ConnsOK, Unreaped
<1>3. ASSUME NEW p \in Pid, Accept(p) PROVE (BacklogOK /\ ConnsOK)'
  <2>1. /\ BacklogOK' /\ Waiting' \subseteq Waiting \ {Head(backlog)}
        /\ Head(backlog) \in Waiting
    BY <1>3, Dequeued DEF Accept, ServerInv
  <2>2. /\ cconn'[p] = Head(backlog) /\ fresh' = fresh
        /\ \A q \in Pid : q # p => cconn'[q] = cconn[q] /\ (Unreaped(q)' <=> Unreaped(q))
    BY <1>3 DEF Accept, Unreaped, ServerInv, TypeOK
  <2> QED
    BY <2>1, <2>2 DEF ConnsOK
<1>4. CASE RecvSignals
  <2>1. \A q \in Pid : Unreaped(q)' <=> Unreaped(q)
    BY <1>4 DEF RecvSignals, Unreaped, ServerInv, TypeOK
  <2> QED
    BY <1>4, <2>1, ConnsSame DEF RecvSignals
<1>5. ASSUME NEW p \in Pid, ReapOne(p) PROVE (BacklogOK /\ ConnsOK)'
  <2>1. \A q \in Pid : Unreaped(q)' => Unreaped(q)
    BY <1>5 DEF ReapOne, Unreaped, ServerInv, TypeOK
  <2>2. UNCHANGED <<backlog, fresh, cconn>>
    BY <1>5 DEF ReapOne
  <2> QED
    BY <2>1, <2>2 DEF ConnsOK, BacklogOK, Waiting
<1>6. CASE ReapDone
  <2>1. \A q \in Pid : Unreaped(q)' <=> Unreaped(q)
    BY <1>6 DEF ReapDone, Unreaped, ServerInv, TypeOK
  <2> QED
    BY <1>6, <2>1, ConnsSame DEF ReapDone
<1>7. CASE HandleTerm
  <2>1. \A q \in Pid : Unreaped(q)' <=> Unreaped(q)
    BY <1>7 DEF HandleTerm, Unreaped, ServerInv, TypeOK
  <2> QED
    BY <1>7, <2>1, ConnsSame DEF HandleTerm
<1>8. ASSUME NEW p \in Pid, Relay(p) PROVE (BacklogOK /\ ConnsOK)'
  <2>1. \A q \in Pid : Unreaped(q)' <=> Unreaped(q)
    BY <1>8 DEF Relay, Unreaped, ServerInv, TypeOK
  <2> QED
    BY <1>8, <2>1, ConnsSame DEF Relay
<1>9. CASE ParentBatchDone
  <2>1. \A q \in Pid : Unreaped(q)' <=> Unreaped(q)
    BY <1>9 DEF ParentBatchDone, Unreaped, ServerInv, TypeOK
  <2> QED
    BY <1>9, <2>1, ConnsSame DEF ParentBatchDone
<1>10. ASSUME NEW p \in Pid, ChildCloses(p) PROVE (BacklogOK /\ ConnsOK)'
  <2>1. \A q \in Pid : Unreaped(q)' <=> Unreaped(q)
    BY <1>10 DEF ChildCloses, Unreaped, ServerInv, TypeOK
  <2> QED
    BY <1>10, <2>1, ConnsSame DEF ChildCloses
<1>11. ASSUME NEW p \in Pid, ChildSetup(p) PROVE (BacklogOK /\ ConnsOK)'
  <2>1. \A q \in Pid : Unreaped(q)' <=> Unreaped(q)
    BY <1>11 DEF ChildSetup, Unreaped, ServerInv, TypeOK
  <2> QED
    BY <1>11, <2>1, ConnsSame DEF ChildSetup
<1>12. ASSUME NEW p \in Pid, ChildTest(p) PROVE (BacklogOK /\ ConnsOK)'
  <2>1. \A q \in Pid : Unreaped(q)' <=> Unreaped(q)
    BY <1>12 DEF ChildTest, Dies, Unreaped, ServerInv, TypeOK
  <2> QED
    BY <1>12, <2>1, ConnsSame DEF ChildTest
<1>13. ASSUME NEW p \in Pid, ChildEnter(p) PROVE (BacklogOK /\ ConnsOK)'
  <2>1. \A q \in Pid : Unreaped(q)' <=> Unreaped(q)
    BY <1>13 DEF ChildEnter, Unreaped, ServerInv, TypeOK
  <2> QED
    BY <1>13, <2>1, ConnsSame DEF ChildEnter
<1>14. ASSUME NEW p \in Pid, ChildWait(p) PROVE (BacklogOK /\ ConnsOK)'
  <2>1. \A q \in Pid : Unreaped(q)' <=> Unreaped(q)
    BY <1>14 DEF ChildWait, Unreaped, ServerInv, TypeOK
  <2> QED
    BY <1>14, <2>1, ConnsSame DEF ChildWait
<1>15. ASSUME NEW p \in Pid, ChildZero(p) PROVE (BacklogOK /\ ConnsOK)'
  <2>1. \A q \in Pid : Unreaped(q)' <=> Unreaped(q)
    BY <1>15 DEF ChildZero, Unreaped, ServerInv, TypeOK
  <2> QED
    BY <1>15, <2>1, ConnsSame DEF ChildZero
<1>16. ASSUME NEW p \in Pid, ChildRecv(p) PROVE (BacklogOK /\ ConnsOK)'
  <2>1. \A q \in Pid : Unreaped(q)' <=> Unreaped(q)
    BY <1>16 DEF ChildRecv, Unreaped, ServerInv, TypeOK
  <2> QED
    BY <1>16, <2>1, ConnsSame DEF ChildRecv
<1>17. ASSUME NEW p \in Pid, ChildForward(p) PROVE (BacklogOK /\ ConnsOK)'
  <2>1. \A q \in Pid : Unreaped(q)' <=> Unreaped(q)
    BY <1>17 DEF ChildForward, Unreaped, ServerInv, TypeOK
  <2> QED
    BY <1>17, <2>1, ConnsSame DEF ChildForward
<1>18. ASSUME NEW p \in Pid, ChildBatchDone(p) PROVE (BacklogOK /\ ConnsOK)'
  <2>1. \A q \in Pid : Unreaped(q)' <=> Unreaped(q)
    BY <1>18 DEF ChildBatchDone, Unreaped, ServerInv, TypeOK
  <2> QED
    BY <1>18, <2>1, ConnsSame DEF ChildBatchDone
<1>19. ASSUME NEW s \in {"CHLD", "TERM"}, DeliverParent(s) PROVE (BacklogOK /\ ConnsOK)'
  <2>1. \A q \in Pid : Unreaped(q)' <=> Unreaped(q)
    BY <1>19 DEF DeliverParent, Unreaped, ServerInv, TypeOK
  <2> QED
    BY <1>19, <2>1, ConnsSame DEF DeliverParent
<1>20. ASSUME NEW p \in Pid, DeliverChild(p) PROVE (BacklogOK /\ ConnsOK)'
  <2>1. \A q \in Pid : Unreaped(q)' <=> Unreaped(q)
    BY <1>20 DEF DeliverChild, Registered, Unreaped, ServerInv, TypeOK
  <2> QED
    BY <1>20, <2>1, ConnsSame DEF DeliverChild
<1>21. CASE AcceptFails
  <2>1. BacklogOK' /\ Waiting' \subseteq Waiting
    <3>1. CASE UNCHANGED backlog
      BY <3>1 DEF BacklogOK, Waiting
    <3>2. CASE backlog' = Tail(backlog)
      BY <1>21, <3>2, Dequeued DEF AcceptFails, ServerInv
    <3> QED
      BY <1>21, <3>1, <3>2 DEF AcceptFails
  <2> QED
    BY <1>21, <2>1 DEF AcceptFails, ConnsOK, Unreaped
<1>22. CASE Terminate
  <2>1. \A q \in Pid : Unreaped(q)' <=> Unreaped(q)
    BY <1>22 DEF Terminate, Unreaped, ServerInv, TypeOK
  <2> QED
    BY <1>22, <2>1, ConnsSame DEF Terminate
<1>23. ASSUME NEW p \in Pid, Crash(p) PROVE (BacklogOK /\ ConnsOK)'
  <2>1. \A q \in Pid : Unreaped(q)' <=> Unreaped(q)
    BY <1>23 DEF Crash, Dies, Alive, Unreaped, ServerInv, TypeOK
  <2> QED
    BY <1>23, <2>1, ConnsSame DEF Crash
<1>24. ASSUME NEW c \in Conn, Connect(c) PROVE (BacklogOK /\ ConnsOK)'
  <2>1. BacklogOK' /\ Waiting' = Waiting \cup {c}
    BY <1>24, Enqueued DEF Connect, ConnsOK, ServerInv
  <2> QED
    BY <1>24, <2>1 DEF Connect, ConnsOK, Unreaped
<1>25. ASSUME NEW c \in Conn, ClientSends(c) PROVE (BacklogOK /\ ConnsOK)'
  <2>1. \A q \in Pid : Unreaped(q)' <=> Unreaped(q)
    BY <1>25 DEF ClientSends, Unreaped, ServerInv, TypeOK
  <2> QED
    BY <1>25, <2>1, ConnsSame DEF ClientSends
<1>26. ASSUME NEW c \in Conn, ClientCloses(c) PROVE (BacklogOK /\ ConnsOK)'
  <2>1. \A q \in Pid : Unreaped(q)' <=> Unreaped(q)
    BY <1>26 DEF ClientCloses, Unreaped, ServerInv, TypeOK
  <2> QED
    BY <1>26, <2>1, ConnsSame DEF ClientCloses
<1>27. ASSUME NEW c \in Conn, ClientResets(c) PROVE (BacklogOK /\ ConnsOK)'
  <2>1. \A q \in Pid : Unreaped(q)' <=> Unreaped(q)
    BY <1>27 DEF ClientResets, Unreaped, ServerInv, TypeOK
  <2> QED
    BY <1>27, <2>1, ConnsSame DEF ClientResets
<1>28. CASE UNCHANGED vars
  BY <1>28, ConnsSame DEF Unreaped
<1> QED
  BY <1>1, <1>2, <1>3, <1>4, <1>5, <1>6, <1>7, <1>8, <1>9, <1>10,
     <1>11, <1>12, <1>13, <1>14, <1>15, <1>16, <1>17, <1>18, <1>19,
     <1>20, <1>21, <1>22, <1>23, <1>24, <1>25, <1>26, <1>27, <1>28
     DEF Next, ParentStep, ChildStep, Deliver, Environment

\* A step that adds no message and moves no connection.
LEMMA OriginSame ==
    ASSUME OriginOK, UNCHANGED <<cconn, cidx, fresh>>,
           UNCHANGED backlog \/ Waiting' \subseteq Waiting,
           UNCHANGED inbox \/ \A c \in Conn : inbox'[c] \subseteq inbox[c],
           UNCHANGED share_mem \/ \A x \in Slot : share_mem'[x] \subseteq share_mem[x],
           \A q \in Pid : Unreaped(q)' <=> Unreaped(q)
    PROVE  OriginOK'
<1>1. Waiting' \subseteq Waiting
  BY DEF Waiting
<1> QED
  BY <1>1 DEF OriginOK

\* A message gets into a slot by the one child that serves its author.
LEMMA OriginStep ==
    ASSUME ServerInv, BacklogOK, ConnsOK, OriginOK, [Next]_vars
    PROVE  OriginOK'
<1> USE DEF parentVars, tableVars, childVars, chanVars, netVars, auxVars, vars
<1>1. CASE ParentWait
  <2>1. \A q \in Pid : Unreaped(q)' <=> Unreaped(q)
    BY <1>1 DEF ParentWait, Unreaped, ServerInv, TypeOK
  <2> QED
    BY <1>1, <2>1, OriginSame DEF ParentWait
<1>2. CASE Reject
  <2>1. Waiting' \subseteq Waiting
    BY <1>2, Dequeued DEF Reject, ServerInv
  <2> QED
    BY <1>2, <2>1, OriginSame DEF Reject, Unreaped
<1>3. ASSUME NEW p \in Pid, Accept(p) PROVE OriginOK'
  <2>1. Waiting' \subseteq Waiting /\ Head(backlog) \in Waiting
    BY <1>3, Dequeued DEF Accept, ServerInv
  <2>2. /\ cconn'[p] = Head(backlog)
        /\ \A q \in Pid : q # p => /\ cconn'[q] = cconn[q] /\ cidx'[q] = cidx[q]
                                   /\ Unreaped(q)' <=> Unreaped(q)
    BY <1>3 DEF Accept, Unreaped, ServerInv, TypeOK
  <2>3. UNCHANGED <<fresh, inbox, share_mem>>
    BY <1>3 DEF Accept
  <2> QED
    BY <2>1, <2>2, <2>3 DEF OriginOK
<1>4. CASE RecvSignals
  <2>1. \A q \in Pid : Unreaped(q)' <=> Unreaped(q)
    BY <1>4 DEF RecvSignals, Unreaped, ServerInv, TypeOK
  <2> QED
    BY <1>4, <2>1, OriginSame DEF RecvSignals
<1>5. ASSUME NEW p \in Pid, ReapOne(p) PROVE OriginOK'
  <2>1. \A q \in Pid : Unreaped(q)' => Unreaped(q)
    BY <1>5 DEF ReapOne, Unreaped, ServerInv, TypeOK
  <2>2. UNCHANGED <<backlog, fresh, cconn, cidx, inbox, share_mem>>
    BY <1>5 DEF ReapOne
  <2> QED
    BY <2>1, <2>2 DEF OriginOK, Waiting
<1>6. CASE ReapDone
  <2>1. \A q \in Pid : Unreaped(q)' <=> Unreaped(q)
    BY <1>6 DEF ReapDone, Unreaped, ServerInv, TypeOK
  <2> QED
    BY <1>6, <2>1, OriginSame DEF ReapDone
<1>7. CASE HandleTerm
  <2>1. \A q \in Pid : Unreaped(q)' <=> Unreaped(q)
    BY <1>7 DEF HandleTerm, Unreaped, ServerInv, TypeOK
  <2> QED
    BY <1>7, <2>1, OriginSame DEF HandleTerm
<1>8. ASSUME NEW p \in Pid, Relay(p) PROVE OriginOK'
  <2>1. \A q \in Pid : Unreaped(q)' <=> Unreaped(q)
    BY <1>8 DEF Relay, Unreaped, ServerInv, TypeOK
  <2> QED
    BY <1>8, <2>1, OriginSame DEF Relay
<1>9. CASE ParentBatchDone
  <2>1. \A q \in Pid : Unreaped(q)' <=> Unreaped(q)
    BY <1>9 DEF ParentBatchDone, Unreaped, ServerInv, TypeOK
  <2> QED
    BY <1>9, <2>1, OriginSame DEF ParentBatchDone
<1>10. ASSUME NEW p \in Pid, ChildCloses(p) PROVE OriginOK'
  <2>1. \A q \in Pid : Unreaped(q)' <=> Unreaped(q)
    BY <1>10 DEF ChildCloses, Unreaped, ServerInv, TypeOK
  <2> QED
    BY <1>10, <2>1, OriginSame DEF ChildCloses
<1>11. ASSUME NEW p \in Pid, ChildSetup(p) PROVE OriginOK'
  <2>1. \A q \in Pid : Unreaped(q)' <=> Unreaped(q)
    BY <1>11 DEF ChildSetup, Unreaped, ServerInv, TypeOK
  <2> QED
    BY <1>11, <2>1, OriginSame DEF ChildSetup
<1>12. ASSUME NEW p \in Pid, ChildTest(p) PROVE OriginOK'
  <2>1. \A q \in Pid : Unreaped(q)' <=> Unreaped(q)
    BY <1>12 DEF ChildTest, Dies, Unreaped, ServerInv, TypeOK
  <2>2. \A d \in Conn : inbox'[d] \subseteq inbox[d]
    BY <1>12, ZenonT(40) DEF ChildTest, Dies, ServerInv, TypeOK
  <2> QED
    BY <1>12, <2>1, <2>2, OriginSame DEF ChildTest
<1>13. ASSUME NEW p \in Pid, ChildEnter(p) PROVE OriginOK'
  <2>1. \A q \in Pid : Unreaped(q)' <=> Unreaped(q)
    BY <1>13 DEF ChildEnter, Unreaped, ServerInv, TypeOK
  <2> QED
    BY <1>13, <2>1, OriginSame DEF ChildEnter
<1>14. ASSUME NEW p \in Pid, ChildWait(p) PROVE OriginOK'
  <2>1. \A q \in Pid : Unreaped(q)' <=> Unreaped(q)
    BY <1>14 DEF ChildWait, Unreaped, ServerInv, TypeOK
  <2> QED
    BY <1>14, <2>1, OriginSame DEF ChildWait
<1>15. ASSUME NEW p \in Pid, ChildZero(p) PROVE OriginOK'
  <2>1. \A x \in Slot : share_mem'[x] \subseteq share_mem[x]
    BY <1>15 DEF ChildZero, ServerInv, TypeOK
  <2>2. \A q \in Pid : Unreaped(q)' <=> Unreaped(q)
    BY <1>15 DEF ChildZero, Unreaped, ServerInv, TypeOK
  <2> QED
    BY <1>15, <2>1, <2>2, OriginSame DEF ChildZero
<1>16. ASSUME NEW p \in Pid, ChildRecv(p) PROVE OriginOK'
  <2>1. /\ cconn[p] \in Conn /\ cidx[p] \in Slot /\ Unreaped(p)
        /\ \A q \in Pid : Unreaped(q)' <=> Unreaped(q)
    BY <1>16 DEF ChildRecv, Unreaped, ServerInv, ChildOK, TypeOK
  <2>2. UNCHANGED <<backlog, fresh, cconn, cidx>>
    BY <1>16 DEF ChildRecv
  <2>3. Waiting' = Waiting
    BY <2>2 DEF Waiting
  <2>4. CASE inbox[cconn[p]] # {}
    <3>1. /\ share_mem' = [share_mem EXCEPT ![cidx[p]] = inbox[cconn[p]]]
          /\ inbox' = [inbox EXCEPT ![cconn[p]] = {}]
      BY <1>16, <2>4 DEF ChildRecv
    <3>2. \A c \in Conn : inbox'[c] \subseteq inbox[c]
      BY <3>1 DEF ServerInv, TypeOK
    <3>3. \A m \in inbox[cconn[p]] :
             /\ m[1] \notin fresh \cup Waiting
             /\ \A q \in Pid : Unreaped(q) /\ cconn[q] = m[1] => q = p
      BY <2>1 DEF OriginOK, ConnsOK
    <3>4. \A x \in Slot : share_mem'[x] = IF x = cidx[p] THEN inbox[cconn[p]] ELSE share_mem[x]
      BY <3>1 DEF ServerInv, TypeOK
    <3> QED
      BY <2>1, <2>2, <2>3, <3>2, <3>3, <3>4 DEF OriginOK
  <2>5. CASE inbox[cconn[p]] = {}
    <3>1. UNCHANGED <<share_mem, inbox>>
      BY <1>16, <2>5 DEF ChildRecv
    <3> QED
      BY <2>1, <2>2, <2>3, <3>1, OriginSame
  <2> QED
    BY <2>4, <2>5
<1>17. ASSUME NEW p \in Pid, ChildForward(p) PROVE OriginOK'
  <2>1. \A q \in Pid : Unreaped(q)' <=> Unreaped(q)
    BY <1>17 DEF ChildForward, Unreaped, ServerInv, TypeOK
  <2> QED
    BY <1>17, <2>1, OriginSame DEF ChildForward
<1>18. ASSUME NEW p \in Pid, ChildBatchDone(p) PROVE OriginOK'
  <2>1. \A q \in Pid : Unreaped(q)' <=> Unreaped(q)
    BY <1>18 DEF ChildBatchDone, Unreaped, ServerInv, TypeOK
  <2> QED
    BY <1>18, <2>1, OriginSame DEF ChildBatchDone
<1>19. ASSUME NEW s \in {"CHLD", "TERM"}, DeliverParent(s) PROVE OriginOK'
  <2>1. \A q \in Pid : Unreaped(q)' <=> Unreaped(q)
    BY <1>19 DEF DeliverParent, Unreaped, ServerInv, TypeOK
  <2> QED
    BY <1>19, <2>1, OriginSame DEF DeliverParent
<1>20. ASSUME NEW p \in Pid, DeliverChild(p) PROVE OriginOK'
  <2>1. \A q \in Pid : Unreaped(q)' <=> Unreaped(q)
    BY <1>20 DEF DeliverChild, Registered, Unreaped, ServerInv, TypeOK
  <2> QED
    BY <1>20, <2>1, OriginSame DEF DeliverChild
<1>21. CASE AcceptFails
  <2>1. Waiting' \subseteq Waiting
    <3>1. CASE UNCHANGED backlog
      BY <3>1 DEF Waiting
    <3>2. CASE backlog' = Tail(backlog)
      BY <1>21, <3>2, Dequeued DEF AcceptFails, ServerInv
    <3> QED
      BY <1>21, <3>1, <3>2 DEF AcceptFails
  <2> QED
    BY <1>21, <2>1, OriginSame DEF AcceptFails, Unreaped
<1>22. CASE Terminate
  <2>1. \A q \in Pid : Unreaped(q)' <=> Unreaped(q)
    BY <1>22 DEF Terminate, Unreaped, ServerInv, TypeOK
  <2> QED
    BY <1>22, <2>1, OriginSame DEF Terminate
<1>23. ASSUME NEW p \in Pid, Crash(p) PROVE OriginOK'
  <2>1. \A q \in Pid : Unreaped(q)' <=> Unreaped(q)
    BY <1>23 DEF Crash, Dies, Alive, Unreaped, ServerInv, TypeOK
  <2>2. \A d \in Conn : inbox'[d] \subseteq inbox[d]
    BY <1>23 DEF Crash, Dies, Alive, ServerInv, TypeOK
  <2> QED
    BY <1>23, <2>1, <2>2, OriginSame DEF Crash
<1>24. ASSUME NEW c \in Conn, Connect(c) PROVE OriginOK'
  <2>1. Waiting' = Waiting \cup {c}
    BY <1>24, Enqueued DEF Connect, ConnsOK, ServerInv
  <2>2. fresh' = fresh \ {c} /\ c \in fresh
    BY <1>24 DEF Connect
  <2> QED
    BY <1>24, <2>1, <2>2 DEF Connect, OriginOK, Unreaped
<1>25. ASSUME NEW c \in Conn, ClientSends(c) PROVE OriginOK'
  <2>1. UNCHANGED <<backlog, fresh, cconn, cidx, share_mem, cpc>>
    BY <1>25 DEF ClientSends
  <2>2. \A d \in Conn : \A m \in inbox'[d] : m \in inbox[d] \/ (d = c /\ m = <<c, wrote[c] + 1>>)
    BY <1>25 DEF ClientSends, ServerInv, TypeOK
  <2> QED
    BY <2>1, <2>2 DEF OriginOK, Unreaped, Waiting
<1>26. ASSUME NEW c \in Conn, ClientCloses(c) PROVE OriginOK'
  <2>1. \A q \in Pid : Unreaped(q)' <=> Unreaped(q)
    BY <1>26 DEF ClientCloses, Unreaped, ServerInv, TypeOK
  <2> QED
    BY <1>26, <2>1, OriginSame DEF ClientCloses
<1>27. ASSUME NEW c \in Conn, ClientResets(c) PROVE OriginOK'
  <2>1. \A q \in Pid : Unreaped(q)' <=> Unreaped(q)
    BY <1>27 DEF ClientResets, Unreaped, ServerInv, TypeOK
  <2> QED
    BY <1>27, <2>1, OriginSame DEF ClientResets
<1>28. CASE UNCHANGED vars
  BY <1>28, OriginSame DEF Unreaped
<1> QED
  BY <1>1, <1>2, <1>3, <1>4, <1>5, <1>6, <1>7, <1>8, <1>9, <1>10,
     <1>11, <1>12, <1>13, <1>14, <1>15, <1>16, <1>17, <1>18, <1>19,
     <1>20, <1>21, <1>22, <1>23, <1>24, <1>25, <1>26, <1>27, <1>28
     DEF Next, ParentStep, ChildStep, Deliver, Environment

\* A number is relayed to children that have another slot, as long as slots match
\* the table.
LEMMA ChannelsStep ==
    ASSUME ServerInv, SlotsMatchTable, ChannelsOK, [Next]_vars
    PROVE  ChannelsOK'
<1> USE DEF ServerInv, TypeOK, TableInv, TableOK, ChannelsOK,
           Unreaped, parentVars, tableVars, childVars, chanVars, netVars, auxVars, vars
<1>1. CASE ParentWait
  BY <1>1 DEF ParentWait
<1>2. CASE Reject
  BY <1>2 DEF Reject
<1>3. ASSUME NEW p \in Pid, Accept(p) PROVE ChannelsOK'
  <2>1. toParent[p] = <<>> /\ toChild[p] = <<>> /\ Len(<<>>) = 0
    BY <1>3, EmptySeq DEF Accept
  <2>2. /\ UNCHANGED <<toParent, toChild, moved>> /\ cpc'[p] = "forked"
        /\ \A q \in Pid : q # p => cidx'[q] = cidx[q] /\ cpc'[q] = cpc[q]
    BY <1>3 DEF Accept
  <2> QED
    BY <2>1, <2>2
<1>4. CASE RecvSignals
  BY <1>4 DEF RecvSignals
<1>5. ASSUME NEW p \in Pid, ReapOne(p) PROVE ChannelsOK'
  <2>1. /\ toParent'[p] = <<>> /\ toChild'[p] = <<>>
        /\ \A q \in Pid : q # p => /\ toParent'[q] = toParent[q]
                                   /\ toChild'[q] = toChild[q]
                                   /\ Unreaped(q)' <=> Unreaped(q)
    BY <1>5 DEF ReapOne
  <2>2. cidx' = cidx /\ (moved => moved')
    BY <1>5 DEF ReapOne
  <2> QED
    BY <2>1, <2>2, EmptySeq
<1>6. CASE ReapDone
  BY <1>6 DEF ReapDone
<1>7. CASE HandleTerm
  BY <1>7 DEF HandleTerm
<1>8. ASSUME NEW p \in Pid, Relay(p) PROVE ChannelsOK'
  <2>1. CASE ~ (InTable(p) /\ toParent[p] # <<>>)
    BY <1>8, <2>1 DEF Relay
  <2>2. CASE InTable(p) /\ toParent[p] # <<>>
    <3> DEFINE e == Head(toParent[p])
    <3>1. /\ toParent' = [toParent EXCEPT ![p] = Tail(toParent[p])]
          /\ toChild' = [q \in Pid |-> IF q \in Others(p) /\ Alive(q)
                                       THEN Sent(toChild[q], e) ELSE toChild[q]]
          /\ UNCHANGED <<cidx, cpc, moved>>
      BY <1>8, <2>2 DEF Relay
    <3>2. toParent[p] \in Seq(Slot) /\ e \in Slot
      BY <2>2, TailSeq
    <3>3. e = cidx[p] /\ \A k \in 1 .. Len(Tail(toParent[p])) : Tail(toParent[p])[k] = cidx[p]
      BY <2>2, <3>2, TailElements
    <3>4. ASSUME ~ moved, NEW q \in Others(p) PROVE cidx[q] # e
      <4>1. PICK i \in 0 .. user_count - 1 : users[i] = p
        BY <2>2 DEF InTable
      <4>2. PICK j \in 0 .. user_count - 1 : users[j] = q
        BY DEF Others, InTable
      <4>3. cidx[p] = i /\ cidx[q] = j
        BY <3>4, <4>1, <4>2 DEF SlotsMatchTable
      <4>4. p # q
        BY DEF Others
      <4> QED
        BY <3>3, <4>1, <4>2, <4>3, <4>4
    <3> HIDE DEF e
    <3>5. ASSUME NEW q \in Pid
          PROVE  /\ \A k \in 1 .. Len(toParent'[q]) : toParent'[q][k] = cidx[q]
                 /\ ~ Unreaped(q) => toParent'[q] = <<>> /\ toChild'[q] = <<>>
      <4>1. CASE q = p
        <5>1. Unreaped(p)
          BY <2>2
        <5> QED
          BY <3>1, <3>3, <4>1, <5>1
      <4>2. CASE q # p
        <5>1. toParent'[q] = toParent[q]
          BY <3>1, <4>2
        <5>2. ~ Unreaped(q) => toChild'[q] = toChild[q]
          BY <3>1 DEF Alive
        <5> QED
          BY <5>1, <5>2
      <4> QED
        BY <4>1, <4>2
    <3>6. ASSUME ~ moved, NEW q \in Pid
          PROVE  \A k \in 1 .. Len(toChild'[q]) : toChild'[q][k] # cidx[q]
      <4>1. CASE q \in Others(p) /\ Alive(q)
        <5>1. toChild'[q] = Sent(toChild[q], e) /\ toChild[q] \in Seq(Slot)
          BY <3>1, <4>1
        <5>2. cidx[q] # e
          BY <3>4, <3>6, <4>1
        <5>3. \A k \in 1 .. Len(toChild[q]) : toChild[q][k] # cidx[q]
          BY <3>6
        <5> QED
          BY <3>2, <5>1, <5>2, <5>3, SentElements
      <4>2. CASE ~ (q \in Others(p) /\ Alive(q))
        BY <3>1, <3>6, <4>2
      <4> QED
        BY <4>1, <4>2
    <3> QED
      BY <3>1, <3>5, <3>6
  <2> QED
    BY <2>1, <2>2
<1>9. CASE ParentBatchDone
  BY <1>9 DEF ParentBatchDone
<1>10. ASSUME NEW p \in Pid, ChildCloses(p) PROVE ChannelsOK'
  BY <1>10 DEF ChildCloses
<1>11. ASSUME NEW p \in Pid, ChildSetup(p) PROVE ChannelsOK'
  BY <1>11 DEF ChildSetup
<1>12. ASSUME NEW p \in Pid, ChildTest(p) PROVE ChannelsOK'
  <2>1. CASE Dies(p)
    <3>1. toChild'[p] = <<>> /\ \A q \in Pid : q # p => toChild'[q] = toChild[q]
      BY <1>12, <2>1 DEF ChildTest, Dies
    <3>2. \A q \in Pid : Unreaped(q)' <=> Unreaped(q)
      BY <1>12, <2>1 DEF ChildTest, Dies
    <3> QED
      BY <1>12, <3>1, <3>2, EmptySeq DEF ChildTest
  <2>2. CASE ~ stop_child[p]
    BY <1>12, <2>2 DEF ChildTest
  <2> QED
    BY <1>12, <2>1, <2>2 DEF ChildTest
<1>13. ASSUME NEW p \in Pid, ChildEnter(p) PROVE ChannelsOK'
  BY <1>13 DEF ChildEnter
<1>14. ASSUME NEW p \in Pid, ChildWait(p) PROVE ChannelsOK'
  BY <1>14 DEF ChildWait
<1>15. ASSUME NEW p \in Pid, ChildZero(p) PROVE ChannelsOK'
  BY <1>15 DEF ChildZero
<1>16. ASSUME NEW p \in Pid, ChildRecv(p) PROVE ChannelsOK'
  <2>1. /\ Unreaped(p) /\ cidx[p] \in Slot /\ toParent[p] \in Seq(Slot)
        /\ UNCHANGED <<cidx, toChild, moved>>
        /\ \A q \in Pid : Unreaped(q)' <=> Unreaped(q)
    BY <1>16 DEF ChildRecv
  <2>2. CASE toParent' = [toParent EXCEPT ![p] = Sent(toParent[p], cidx[p])]
    <3>1. \A k \in 1 .. Len(toParent'[p]) : toParent'[p][k] = cidx[p]
      <4>1. toParent'[p] = Sent(toParent[p], cidx[p])
        BY <2>1, <2>2
      <4>2. \A k \in 1 .. Len(toParent[p]) : toParent[p][k] = cidx[p]
        OBVIOUS
      <4> QED
        BY <2>1, <4>1, <4>2, SentElements
    <3>2. \A q \in Pid : q # p => toParent'[q] = toParent[q]
      BY <2>2
    <3> QED
      BY <2>1, <3>1, <3>2
  <2>3. CASE toParent' = toParent
    BY <2>1, <2>3
  <2> QED
    BY <1>16, <2>2, <2>3 DEF ChildRecv
<1>17. ASSUME NEW p \in Pid, ChildForward(p) PROVE ChannelsOK'
  <2>1. toChild[p] # <<>> /\ toChild[p] \in Seq(Slot) /\ Unreaped(p)
    BY <1>17 DEF ChildForward, ChildOK
  <2>2. /\ toChild' = [toChild EXCEPT ![p] = Tail(toChild[p])]
        /\ UNCHANGED <<toParent, cidx, moved, cpc>>
    BY <1>17 DEF ChildForward
  <2>3. toChild'[p] = Tail(toChild[p]) /\ \A q \in Pid : q # p => toChild'[q] = toChild[q]
    BY <2>2
  <2>4. ~ moved => \A k \in 1 .. Len(toChild'[p]) : toChild'[p][k] # cidx[p]
    BY <2>1, <2>3, TailElements
  <2> QED
    BY <2>1, <2>2, <2>3, <2>4
<1>18. ASSUME NEW p \in Pid, ChildBatchDone(p) PROVE ChannelsOK'
  BY <1>18 DEF ChildBatchDone
<1>19. ASSUME NEW s \in {"CHLD", "TERM"}, DeliverParent(s) PROVE ChannelsOK'
  BY <1>19 DEF DeliverParent
<1>20. ASSUME NEW p \in Pid, DeliverChild(p) PROVE ChannelsOK'
  BY <1>20 DEF DeliverChild, Registered
<1>21. CASE AcceptFails
  BY <1>21 DEF AcceptFails
<1>22. CASE Terminate
  BY <1>22 DEF Terminate
<1>23. ASSUME NEW p \in Pid, Crash(p) PROVE ChannelsOK'
  <2>1. toChild'[p] = <<>> /\ \A q \in Pid : q # p => toChild'[q] = toChild[q]
    BY <1>23 DEF Crash, Dies
  <2>2. \A q \in Pid : Unreaped(q)' <=> Unreaped(q)
    BY <1>23 DEF Crash, Dies, Alive
  <2> QED
    BY <1>23, <2>1, <2>2, EmptySeq, SMTT(30) DEF Crash
<1>24. ASSUME NEW c \in Conn, Connect(c) PROVE ChannelsOK'
  BY <1>24 DEF Connect
<1>25. ASSUME NEW c \in Conn, ClientSends(c) PROVE ChannelsOK'
  BY <1>25 DEF ClientSends
<1>26. ASSUME NEW c \in Conn, ClientCloses(c) PROVE ChannelsOK'
  BY <1>26 DEF ClientCloses
<1>27. ASSUME NEW c \in Conn, ClientResets(c) PROVE ChannelsOK'
  BY <1>27 DEF ClientResets
<1>28. CASE UNCHANGED vars
  BY <1>28
<1> QED
  BY <1>1, <1>2, <1>3, <1>4, <1>5, <1>6, <1>7, <1>8, <1>9, <1>10,
     <1>11, <1>12, <1>13, <1>14, <1>15, <1>16, <1>17, <1>18, <1>19,
     <1>20, <1>21, <1>22, <1>23, <1>24, <1>25, <1>26, <1>27, <1>28
     DEF Next, ParentStep, ChildStep, Deliver, Environment

\* What a client is sent comes from another slot than its own.
LEMMA EchoStep ==
    ASSUME ServerInv, OriginOK, ChannelsOK, NoEcho, [Next]_vars
    PROVE  NoEcho'
<1> USE DEF NoEcho, parentVars, tableVars, childVars, chanVars, netVars, auxVars, vars
<1>1. CASE ParentWait
  BY <1>1 DEF ParentWait
<1>2. CASE Reject
  BY <1>2 DEF Reject
<1>3. ASSUME NEW p \in Pid, Accept(p) PROVE NoEcho'
  BY <1>3 DEF Accept
<1>4. CASE RecvSignals
  BY <1>4 DEF RecvSignals
<1>5. ASSUME NEW p \in Pid, ReapOne(p) PROVE NoEcho'
  <2>1. got' = got /\ (moved => moved')
    BY <1>5 DEF ReapOne, ServerInv, TypeOK
  <2> QED
    BY <2>1
<1>6. CASE ReapDone
  BY <1>6 DEF ReapDone
<1>7. CASE HandleTerm
  BY <1>7 DEF HandleTerm
<1>8. ASSUME NEW p \in Pid, Relay(p) PROVE NoEcho'
  BY <1>8 DEF Relay
<1>9. CASE ParentBatchDone
  BY <1>9 DEF ParentBatchDone
<1>10. ASSUME NEW p \in Pid, ChildCloses(p) PROVE NoEcho'
  BY <1>10 DEF ChildCloses
<1>11. ASSUME NEW p \in Pid, ChildSetup(p) PROVE NoEcho'
  BY <1>11 DEF ChildSetup
<1>12. ASSUME NEW p \in Pid, ChildTest(p) PROVE NoEcho'
  BY <1>12 DEF ChildTest
<1>13. ASSUME NEW p \in Pid, ChildEnter(p) PROVE NoEcho'
  BY <1>13 DEF ChildEnter
<1>14. ASSUME NEW p \in Pid, ChildWait(p) PROVE NoEcho'
  BY <1>14 DEF ChildWait
<1>15. ASSUME NEW p \in Pid, ChildZero(p) PROVE NoEcho'
  BY <1>15 DEF ChildZero
<1>16. ASSUME NEW p \in Pid, ChildRecv(p) PROVE NoEcho'
  BY <1>16 DEF ChildRecv
<1>17. ASSUME NEW p \in Pid, ChildForward(p) PROVE NoEcho'
  <2> DEFINE x == Head(toChild[p])
  <2>1. /\ toChild[p] # <<>> /\ toChild[p] \in Seq(Slot) /\ Unreaped(p)
        /\ cconn[p] \in Conn
    BY <1>17 DEF ChildForward, ServerInv, ChildOK, TypeOK, Unreaped
  <2>2. x \in Slot /\ (~ moved => x # cidx[p])
    BY <2>1, TailSeq, TailElements DEF ChannelsOK
  <2>3. moved' = moved /\ got' = [got EXCEPT ![cconn[p]] =
                  IF peer[cconn[p]] = "open"
                  THEN got[cconn[p]] \cup share_mem[x] ELSE got[cconn[p]]]
    BY <1>17 DEF ChildForward
  <2>4. ~ moved => \A m \in share_mem[x] : m[1] # cconn[p]
    BY <2>1, <2>2 DEF OriginOK
  <2> HIDE DEF x
  <2>5. \A c \in Conn : \A m \in got'[c] :
            m \in got[c] \/ (c = cconn[p] /\ m \in share_mem[x])
    BY <2>1, <2>3 DEF ServerInv, TypeOK
  <2> QED
    BY <2>3, <2>4, <2>5
<1>18. ASSUME NEW p \in Pid, ChildBatchDone(p) PROVE NoEcho'
  BY <1>18 DEF ChildBatchDone
<1>19. ASSUME NEW s \in {"CHLD", "TERM"}, DeliverParent(s) PROVE NoEcho'
  BY <1>19 DEF DeliverParent
<1>20. ASSUME NEW p \in Pid, DeliverChild(p) PROVE NoEcho'
  BY <1>20 DEF DeliverChild
<1>21. CASE AcceptFails
  BY <1>21 DEF AcceptFails
<1>22. CASE Terminate
  BY <1>22 DEF Terminate
<1>23. ASSUME NEW p \in Pid, Crash(p) PROVE NoEcho'
  BY <1>23 DEF Crash
<1>24. ASSUME NEW c \in Conn, Connect(c) PROVE NoEcho'
  BY <1>24 DEF Connect
<1>25. ASSUME NEW c \in Conn, ClientSends(c) PROVE NoEcho'
  BY <1>25 DEF ClientSends
<1>26. ASSUME NEW c \in Conn, ClientCloses(c) PROVE NoEcho'
  BY <1>26 DEF ClientCloses
<1>27. ASSUME NEW c \in Conn, ClientResets(c) PROVE NoEcho'
  BY <1>27 DEF ClientResets
<1>28. CASE UNCHANGED vars
  BY <1>28
<1> QED
  BY <1>1, <1>2, <1>3, <1>4, <1>5, <1>6, <1>7, <1>8, <1>9, <1>10,
     <1>11, <1>12, <1>13, <1>14, <1>15, <1>16, <1>17, <1>18, <1>19,
     <1>20, <1>21, <1>22, <1>23, <1>24, <1>25, <1>26, <1>27, <1>28
     DEF Next, ParentStep, ChildStep, Deliver, Environment

EchoInv ==
    /\ ServerInv /\ SlotsMatchTable /\ BacklogOK /\ ConnsOK /\ OriginOK
    /\ ChannelsOK /\ NoEcho

\* The invariant of the numbers under way holds at the start.
LEMMA InitEchoInv == Init => EchoInv
<1> SUFFICES ASSUME Init PROVE EchoInv
  OBVIOUS
<1>1. Len(backlog) = 0 /\ \A p \in Pid : Len(toParent[p]) = 0 /\ Len(toChild[p]) = 0
  BY EmptySeq DEF Init
<1>2. BacklogOK /\ ConnsOK
  BY <1>1 DEF Init, BacklogOK, ConnsOK, Waiting, Unreaped
<1>3. OriginOK
  BY DEF Init, OriginOK
<1>4. ChannelsOK
  BY <1>1 DEF Init, ChannelsOK
<1>5. SlotsMatchTable /\ NoEcho
  BY DEF Init, SlotsMatchTable, NoEcho
<1> QED
  BY <1>2, <1>3, <1>4, <1>5, InitServerInv DEF EchoInv

\* As long as entries have been removed from the end of the table only, no client
\* is sent a message of its own: for any number of clients and messages, however
\* late the numbers in the channels are used and whatever the slots hold by then.
THEOREM NobodyHearsItself == Spec => []NoEcho
<1>1. EchoInv /\ [Next]_vars => EchoInv'
  BY ServerInvStep, SlotsStep, ConnsStep, OriginStep, ChannelsStep, EchoStep
     DEF EchoInv
<1>2. EchoInv => NoEcho
  BY DEF EchoInv
<1> QED
  BY <1>1, <1>2, InitEchoInv, PTL DEF Spec

=============================================================================
