------------------------- MODULE ProcessPoolProofs -------------------------
(***************************************************************************)
(* Theorems about ProcessPool, for every number of children, every set of  *)
(* connections, every capacity of the pipes and any number of faults.      *)
(***************************************************************************)
EXTENDS ProcessPool, FiniteSetTheorems, TLAPS

\* The counter of line 340 stays an index.
LEMMA AdvanceIdx ==
    ASSUME NEW i \in Idx
    PROVE  /\ Advance(i) \in Idx
           /\ Advance(i) = IF i = N - 1 THEN 0 ELSE i + 1
<1>1. CASE i = N - 1
  BY <1>1, NAssumption DEF Advance, Idx
<1>2. CASE i # N - 1
  <2>1. i + 1 \in 0 .. N - 1
    BY <1>2, NAssumption DEF Idx
  <2>2. (i + 1) % N = i + 1
    BY <2>1, NAssumption
  <2> QED
    BY <1>2, <2>1, <2>2 DEF Advance, Idx
<1> QED
  BY <1>1, <1>2

-----------------------------------------------------------------------------
(* Type correctness.                                                       *)

\* The empty sequence.
LEMMA EmptyPipe == ASSUME NEW S PROVE <<>> \in Seq(S) /\ Len(<<>>) = 0
OBVIOUS

\* What Append gives.
LEMMA AppendType ==
    ASSUME NEW S, NEW s \in Seq(S), NEW e \in S
    PROVE  Append(s, e) \in Seq(S) /\ Len(Append(s, e)) = Len(s) + 1
OBVIOUS

\* An event of the channel in a child's batch finds an int there: only the
\* child itself reads, so what epoll saw is still true when it is handled.
EventInChannel == \A i \in Idx : "pipe" \in cbatch[i] => pipe[i] > 0

\* The types hold at the start.
LEMMA InitTypeOK == Init => TypeOK
<1> SUFFICES ASSUME Init PROVE TypeOK
  OBVIOUS
<1> USE DEF Init
<1>1. /\ psigpipe \in Seq({"CHLD", "TERM"}) /\ Len(psigpipe) <= SigCap
      /\ sigbuf \in Seq({"CHLD", "TERM"})
      /\ backlog \in Seq(Conn)
  BY EmptyPipe, CapAssumption
<1>2. 0 \in Idx /\ 0 \in 0 .. PipeCap /\ NoPid \in Pids
  BY NAssumption, CapAssumption DEF Idx, Pids
<1> QED
  BY <1>1, <1>2 DEF TypeOK

\* The death of a child keeps the types of what it changes.
LEMMA DiesTypeOK ==
    ASSUME TypeOK, NEW i \in Idx, Dies(i)
    PROVE  /\ cpc' \in [Idx -> {"none", "start", "wait", "batch", "recvd",
                                "zombie", "reaped"}]
           /\ ppend' \subseteq {"CHLD", "TERM"}
           /\ missed' \subseteq Idx
           /\ cbatch' \in [Idx -> SUBSET ({"pipe", "sig"} \cup Conn)]
           /\ carmed' \in [Idx -> SUBSET ({"pipe", "sig"} \cup Conn)]
           /\ csig' \in [Idx -> BOOLEAN]
           /\ cpend' \in [Idx -> BOOLEAN]
           /\ pipe' \in [Idx -> 0 .. PipeCap]
           /\ conns' \in [Idx -> SUBSET Conn]
BY CapAssumption DEF Dies, TypeOK

\* The parent's steps keep the types.
LEMMA ParentTypeOK == TypeOK /\ ParentStep => TypeOK'
<1> SUFFICES ASSUME TypeOK, ParentStep PROVE TypeOK'
  OBVIOUS
<1> USE DEF TypeOK, parentVars, childVars, netVars, auxVars
<1>1. ASSUME NEW i \in Idx, Fork(i) PROVE TypeOK'
  BY <1>1 DEF Fork, Pids
<1>2. CASE ParentSetup
  BY <1>2 DEF ParentSetup
<1>3. CASE ParentWait
  BY <1>3 DEF ParentWait, AfterReport
<1>4. CASE HandleListen
  <2>1. ASSUME NEW i \in Idx, SendToChild(i), 
               sub_process_counter' = Advance(i),
               sent' = [sent EXCEPT ![i] = @ + 1],
               pbatch' = pbatch \ {"listen"}, UNCHANGED m_stop
        PROVE  TypeOK'
    <3>1. pipe' \in [Idx -> 0 .. PipeCap]
      BY <2>1, CapAssumption DEF SendToChild
    <3>2. carmed' \in [Idx -> SUBSET ({"pipe", "sig"} \cup Conn)]
      BY <2>1 DEF SendToChild, PipeEdge
    <3>3. sub_process_counter' \in Idx
      BY <2>1, AdvanceIdx
    <3>4. sent' \in [Idx -> Nat]
      BY <2>1
    <3> QED
      BY <1>4, <2>1, <3>1, <3>2, <3>3, <3>4 DEF HandleListen
  <2>2. ASSUME m_stop' = TRUE, pbatch' = {},
               UNCHANGED <<sub_process_counter, pipe, carmed, sent>>
        PROVE  TypeOK'
    BY <1>4, <2>2 DEF HandleListen
  <2> QED
    BY <1>4, <2>1, <2>2 DEF HandleListen
<1>5. CASE RecvSignals
  BY <1>5, EmptyPipe, CapAssumption DEF RecvSignals
<1>6. CASE HandleChld
  BY <1>6 DEF HandleChld, Pids, AllJoined
<1>7. CASE HandleTerm
  BY <1>7 DEF HandleTerm, Killed, Alive, Running
<1>8. CASE ParentBatchDone
  BY <1>8 DEF ParentBatchDone
<1> QED
  BY <1>1, <1>2, <1>3, <1>4, <1>5, <1>6, <1>7, <1>8 DEF ParentStep

\* A child's steps keep the types.
LEMMA ChildTypeOK ==
    ASSUME TypeOK, EventInChannel, NEW i \in Idx, ChildStep(i)
    PROVE  TypeOK'
<1> USE DEF TypeOK, parentVars, childVars, netVars, auxVars
<1>1. CASE ChildSetup(i)
  BY <1>1 DEF ChildSetup
<1>2. CASE ChildWait(i)
  BY <1>2 DEF ChildWait, ChildReady, AfterReport
<1>3. CASE ChildRecv(i)
  <2>1. pipe[i] \in 1 .. PipeCap
    BY <1>3 DEF ChildRecv, EventInChannel
  <2>2. pipe' \in [Idx -> 0 .. PipeCap]
    BY <1>3, <2>1, CapAssumption DEF ChildRecv
  <2> QED
    BY <1>3, <2>2 DEF ChildRecv
<1>4. CASE ChildAccept(i)
  BY <1>4 DEF ChildAccept
<1>5. CASE ChildSig(i)
  BY <1>5 DEF ChildSig
<1>6. ASSUME NEW k \in Conn, ChildProcess(i, k) PROVE TypeOK'
  <2>1. conns' \in [Idx -> SUBSET Conn]
    <3>1. conns \in [Idx -> SUBSET Conn] /\ conns[i] \ {k} \in SUBSET Conn
      OBVIOUS
    <3>2. [conns EXCEPT ![i] = conns[i] \ {k}] \in [Idx -> SUBSET Conn]
      BY <3>1
    <3> QED
      BY <1>6, <3>1, <3>2 DEF ChildProcess
  <2>2. cbatch' \in [Idx -> SUBSET ({"pipe", "sig"} \cup Conn)]
    BY <1>6 DEF ChildProcess
  <2> QED
    BY <1>6, <2>1, <2>2 DEF ChildProcess
<1>7. CASE ChildBatchDone(i)
  BY <1>7, DiesTypeOK DEF ChildBatchDone
<1> QED
  BY <1>1, <1>2, <1>3, <1>4, <1>5, <1>6, <1>7 DEF ChildStep

\* The delivery of a signal keeps the types.
LEMMA DeliverTypeOK == TypeOK /\ Deliver => TypeOK'
<1> SUFFICES ASSUME TypeOK, Deliver PROVE TypeOK'
  OBVIOUS
<1> USE DEF TypeOK, parentVars, childVars, netVars, auxVars
<1>1. ASSUME NEW s \in {"CHLD", "TERM"}, DeliverParent(s) PROVE TypeOK'
  <2>1. /\ psigpipe' \in Seq({"CHLD", "TERM"})
        /\ Len(psigpipe') <= SigCap
    <3>1. \/ psigpipe' = psigpipe
          \/ psigpipe' = Append(psigpipe, s) /\ Len(psigpipe) < SigCap
      BY <1>1 DEF DeliverParent
    <3>2. /\ Append(psigpipe, s) \in Seq({"CHLD", "TERM"})
          /\ Len(Append(psigpipe, s)) = Len(psigpipe) + 1
          /\ Len(psigpipe) \in Nat
      BY AppendType
    <3>3. CASE psigpipe' = psigpipe
      BY <3>3
    <3>4. CASE psigpipe' = Append(psigpipe, s) /\ Len(psigpipe) < SigCap
      BY <3>2, <3>4, CapAssumption
    <3> QED
      BY <3>1, <3>3, <3>4
  <2>2. missed' \subseteq Idx
    BY <1>1 DEF DeliverParent, Zombies
  <2> QED
    BY <1>1, <2>1, <2>2 DEF DeliverParent, ParentDies
<1>2. ASSUME NEW i \in Idx, DeliverChild(i) PROVE TypeOK'
  <2>1. CASE cpc[i] = "start" /\ Dies(i)
    BY <1>2, <2>1, DiesTypeOK DEF DeliverChild
  <2>2. CASE /\ cpend' = [cpend EXCEPT ![i] = FALSE]
             /\ csig' = [csig EXCEPT ![i] = TRUE]
             /\ carmed' = [carmed EXCEPT ![i] = @ \cup {"sig"}]
             /\ UNCHANGED <<cpc, ppend, missed, cbatch, pipe, conns>>
    <3>1. carmed[i] \cup {"sig"} \in SUBSET ({"pipe", "sig"} \cup Conn)
      OBVIOUS
    <3>2. carmed' \in [Idx -> SUBSET ({"pipe", "sig"} \cup Conn)]
      BY <1>2, <2>2, <3>1 DEF DeliverChild
    <3> QED
      BY <1>2, <2>2, <3>2 DEF DeliverChild
  <2> QED
    BY <1>2, <2>1, <2>2 DEF DeliverChild
<1> QED
  BY <1>1, <1>2 DEF Deliver

\* The steps of clients, faults and signals keep the types.
LEMMA EnvironmentTypeOK == TypeOK /\ Environment => TypeOK'
<1> SUFFICES ASSUME TypeOK, Environment PROVE TypeOK'
  OBVIOUS
<1> USE DEF TypeOK, parentVars, childVars, netVars, auxVars
<1>1. CASE ForkFails
  BY <1>1 DEF ForkFails, ParentDies
<1>2. CASE TermParent
  BY <1>2 DEF TermParent
<1>3. ASSUME NEW i \in Idx, AcceptFails(i) PROVE TypeOK'
  BY <1>3 DEF AcceptFails, RestOfBatch
<1>4. ASSUME NEW i \in Idx, Crash(i) PROVE TypeOK'
  BY <1>4, DiesTypeOK DEF Crash
<1>5. ASSUME NEW i \in Idx, TermChild(i) PROVE TypeOK'
  BY <1>5 DEF TermChild
<1>6. ASSUME NEW k \in Conn, Arrive(k) PROVE TypeOK'
  BY <1>6 DEF Arrive, ListenEdge
<1>7. ASSUME NEW k \in Conn, ClientSends(k) PROVE TypeOK'
  BY <1>7 DEF ClientSends
<1> QED
  BY <1>1, <1>2, <1>3, <1>4, <1>5, <1>6, <1>7 DEF Environment

\* Every step keeps the types.
LEMMA NextTypeOK ==
    ASSUME TypeOK, EventInChannel, [Next]_vars
    PROVE  TypeOK'
<1>1. CASE Next
  BY <1>1, ParentTypeOK, ChildTypeOK, DeliverTypeOK, EnvironmentTypeOK DEF Next
<1>2. CASE UNCHANGED vars
  BY <1>2 DEF vars, parentVars, childVars, netVars, auxVars, TypeOK
<1> QED
  BY <1>1, <1>2

\* Every step keeps events tied to what they stand for.
LEMMA EventInChannelStep ==
    ASSUME TypeOK, EventInChannel, [Next]_vars
    PROVE  EventInChannel'
<1> USE DEF TypeOK, EventInChannel, parentVars, childVars, netVars, auxVars, vars
<1>1. ASSUME NEW i \in Idx, Fork(i) PROVE EventInChannel'
  BY <1>1 DEF Fork
<1>2. CASE ParentSetup
  BY <1>2 DEF ParentSetup
<1>3. CASE ParentWait
  BY <1>3 DEF ParentWait
<1>4. CASE HandleListen
  <2>1. cbatch' = cbatch
    BY <1>4 DEF HandleListen
  <2>2. \A j \in Idx : pipe'[j] \in Nat /\ pipe'[j] >= pipe[j]
    <3>1. ASSUME NEW i \in Idx, SendToChild(i), NEW j \in Idx
          PROVE  pipe'[j] \in Nat /\ pipe'[j] >= pipe[j]
      <4>1. pipe[i] \in Nat /\ pipe[j] \in Nat
        BY CapAssumption
      <4>2. pipe'[j] = IF j = i /\ Alive(i) THEN pipe[i] + 1 ELSE pipe[j]
        BY <3>1 DEF SendToChild
      <4> QED
        BY <4>1, <4>2
    <3>2. ASSUME pipe' = pipe, NEW j \in Idx
          PROVE  pipe'[j] \in Nat /\ pipe'[j] >= pipe[j]
      BY <3>2
    <3> QED
      BY <1>4, <3>1, <3>2 DEF HandleListen
  <2>3. ASSUME NEW j \in Idx, "pipe" \in cbatch'[j] PROVE pipe'[j] > 0
    <3>1. pipe[j] > 0
      BY <2>1, <2>3
    <3> QED
      BY <2>2, <3>1
  <2> QED
    BY <2>3
<1>5. CASE RecvSignals
  BY <1>5 DEF RecvSignals
<1>6. CASE HandleChld
  BY <1>6 DEF HandleChld
<1>7. CASE HandleTerm
  BY <1>7 DEF HandleTerm
<1>8. CASE ParentBatchDone
  BY <1>8 DEF ParentBatchDone
<1>9. ASSUME NEW i \in Idx, ChildSetup(i) PROVE EventInChannel'
  BY <1>9 DEF ChildSetup
<1>10. ASSUME NEW i \in Idx, ChildWait(i) PROVE EventInChannel'
  BY <1>10, ConnAssumption DEF ChildWait, ChildReady
<1>11. ASSUME NEW i \in Idx, ChildRecv(i) PROVE EventInChannel'
  BY <1>11 DEF ChildRecv
<1>12. ASSUME NEW i \in Idx, ChildAccept(i) PROVE EventInChannel'
  BY <1>12 DEF ChildAccept
<1>13. ASSUME NEW i \in Idx, ChildSig(i) PROVE EventInChannel'
  BY <1>13 DEF ChildSig
<1>14. ASSUME NEW i \in Idx, NEW k \in Conn, ChildProcess(i, k) PROVE EventInChannel'
  BY <1>14 DEF ChildProcess
<1>15. ASSUME NEW i \in Idx, ChildBatchDone(i) PROVE EventInChannel'
  BY <1>15 DEF ChildBatchDone, Dies
<1>16. ASSUME NEW s \in {"CHLD", "TERM"}, DeliverParent(s) PROVE EventInChannel'
  BY <1>16 DEF DeliverParent
<1>17. ASSUME NEW i \in Idx, DeliverChild(i) PROVE EventInChannel'
  BY <1>17 DEF DeliverChild, Dies
<1>18. CASE ForkFails
  BY <1>18 DEF ForkFails
<1>19. CASE TermParent
  BY <1>19 DEF TermParent
<1>20. ASSUME NEW i \in Idx, AcceptFails(i) PROVE EventInChannel'
  BY <1>20 DEF AcceptFails, RestOfBatch
<1>21. ASSUME NEW i \in Idx, Crash(i) PROVE EventInChannel'
  BY <1>21 DEF Crash, Dies
<1>22. ASSUME NEW i \in Idx, TermChild(i) PROVE EventInChannel'
  BY <1>22 DEF TermChild
<1>23. ASSUME NEW k \in Conn, Arrive(k) PROVE EventInChannel'
  BY <1>23 DEF Arrive, ListenEdge
<1>24. ASSUME NEW k \in Conn, ClientSends(k) PROVE EventInChannel'
  BY <1>24 DEF ClientSends
<1>25. CASE UNCHANGED vars
  BY <1>25
<1> QED
  BY <1>1, <1>2, <1>3, <1>4, <1>5, <1>6, <1>7, <1>8, <1>9, <1>10,
     <1>11, <1>12, <1>13, <1>14, <1>15, <1>16, <1>17, <1>18, <1>19,
     <1>20, <1>21, <1>22, <1>23, <1>24, <1>25
     DEF Next, ParentStep, ChildStep, Deliver, Environment

\* TypeOK holds in every reachable state of processpool.h: the counter indexes
\* m_sub_process, m_pid holds a child's pid or -1, the signal pipe and the
\* channels stay within their capacities, and a child takes an int from its
\* channel only when there is one.
THEOREM TypeCorrect == Spec => [](TypeOK /\ EventInChannel)
<1>1. Init => TypeOK /\ EventInChannel
  BY InitTypeOK DEF Init, EventInChannel
<1>2. TypeOK /\ EventInChannel /\ [Next]_vars => (TypeOK /\ EventInChannel)'
  BY NextTypeOK, EventInChannelStep
<1> QED
  BY <1>1, <1>2, PTL DEF Spec

-----------------------------------------------------------------------------
(* The parent outlives its children.                                       *)

\* What m_pid says of the children: in the constructor it is set for exactly
\* those that have been forked; in the loop it is cleared only for a child that
\* waitpid has returned; and m_stop says that all are cleared.
PidsKnown ==
    /\ ppc = "fork" =>
        /\ ~ m_stop
        /\ \A i \in Idx : cpc[i] = "none" \/ m_pid[i] = i
    /\ ppc \in {"wait", "batch", "exited"} =>
        \A i \in Idx : /\ cpc[i] # "none"
                       /\ \/ m_pid[i] = i
                          \/ m_pid[i] = NoPid /\ cpc[i] = "reaped"
    /\ ppc \in {"wait", "batch"} /\ m_stop => \A i \in Idx : m_pid[i] = NoPid
    /\ ppc = "exited" => \A i \in Idx : m_pid[i] = NoPid

\* Every step keeps m_pid set for those forked and not reaped.
LEMMA PidsKnownStep ==
    ASSUME TypeOK, PidsKnown, [Next]_vars
    PROVE  PidsKnown'
<1> USE DEF TypeOK, PidsKnown, NoPid, parentVars, childVars, netVars, auxVars, vars
<1>1. ASSUME NEW i \in Idx, Fork(i) PROVE PidsKnown'
  BY <1>1 DEF Fork
<1>2. CASE ParentSetup
  BY <1>2 DEF ParentSetup
<1>3. CASE ParentWait
  BY <1>3 DEF ParentWait
<1>4. CASE HandleListen
  BY <1>4 DEF HandleListen
<1>5. CASE RecvSignals
  BY <1>5 DEF RecvSignals
<1>6. CASE HandleChld
  BY <1>6 DEF HandleChld, AllJoined, Collected, Zombies, Idx
<1>7. CASE HandleTerm
  BY <1>7 DEF HandleTerm
<1>8. CASE ParentBatchDone
  BY <1>8 DEF ParentBatchDone
<1>9. ASSUME NEW i \in Idx, ChildSetup(i) PROVE PidsKnown'
  BY <1>9 DEF ChildSetup
<1>10. ASSUME NEW i \in Idx, ChildWait(i) PROVE PidsKnown'
  BY <1>10 DEF ChildWait
<1>11. ASSUME NEW i \in Idx, ChildRecv(i) PROVE PidsKnown'
  BY <1>11 DEF ChildRecv
<1>12. ASSUME NEW i \in Idx, ChildAccept(i) PROVE PidsKnown'
  BY <1>12 DEF ChildAccept
<1>13. ASSUME NEW i \in Idx, ChildSig(i) PROVE PidsKnown'
  BY <1>13 DEF ChildSig
<1>14. ASSUME NEW i \in Idx, NEW k \in Conn, ChildProcess(i, k) PROVE PidsKnown'
  BY <1>14 DEF ChildProcess
<1>15. ASSUME NEW i \in Idx, ChildBatchDone(i) PROVE PidsKnown'
  BY <1>15 DEF ChildBatchDone, Dies
<1>16. ASSUME NEW s \in {"CHLD", "TERM"}, DeliverParent(s) PROVE PidsKnown'
  BY <1>16 DEF DeliverParent, ParentDies, InLoop
<1>17. ASSUME NEW i \in Idx, DeliverChild(i) PROVE PidsKnown'
  BY <1>17 DEF DeliverChild, Running, Dies
<1>18. CASE ForkFails
  BY <1>18 DEF ForkFails, ParentDies
<1>19. CASE TermParent
  BY <1>19 DEF TermParent
<1>20. ASSUME NEW i \in Idx, AcceptFails(i) PROVE PidsKnown'
  BY <1>20 DEF AcceptFails
<1>21. ASSUME NEW i \in Idx, Crash(i) PROVE PidsKnown'
  BY <1>21 DEF Crash, Alive, Running, Dies
<1>22. ASSUME NEW i \in Idx, TermChild(i) PROVE PidsKnown'
  BY <1>22 DEF TermChild
<1>23. ASSUME NEW k \in Conn, Arrive(k) PROVE PidsKnown'
  BY <1>23 DEF Arrive, ListenEdge
<1>24. ASSUME NEW k \in Conn, ClientSends(k) PROVE PidsKnown'
  BY <1>24 DEF ClientSends
<1>25. CASE UNCHANGED vars
  BY <1>25
<1> QED
  BY <1>1, <1>2, <1>3, <1>4, <1>5, <1>6, <1>7, <1>8, <1>9, <1>10,
     <1>11, <1>12, <1>13, <1>14, <1>15, <1>16, <1>17, <1>18, <1>19,
     <1>20, <1>21, <1>22, <1>23, <1>24, <1>25
     DEF Next, ParentStep, ChildStep, Deliver, Environment

\* The parent of the pool exits only when every child has been collected: no
\* order of SIGCHLDs, SIGTERMs and connections leaves m_stop true with a child
\* that runs or is a zombie.
THEOREM ParentIsLast == Spec => []ParentLeavesNoChild
<1>1. Init => PidsKnown
  BY DEF Init, PidsKnown
<1>2. TypeOK /\ PidsKnown /\ [Next]_vars => PidsKnown'
  BY PidsKnownStep
<1>3. PidsKnown => ParentLeavesNoChild
  BY NAssumption DEF PidsKnown, ParentLeavesNoChild, NoPid, Idx
<1> QED
  BY <1>1, <1>2, <1>3, TypeCorrect, PTL DEF Spec

-----------------------------------------------------------------------------
(* The parent's blocking send.                                             *)

\* A child that waits in epoll_wait has handled its last batch.
BatchHandled == \A i \in Idx : cpc[i] \in {"none", "start", "wait"} => cbatch[i] = {}

\* Every step keeps that a child's batch is over before it waits.
LEMMA BatchHandledStep ==
    ASSUME TypeOK, BatchHandled, [Next]_vars
    PROVE  BatchHandled'
<1> USE DEF TypeOK, BatchHandled, parentVars, childVars, netVars, auxVars, vars
<1>1. ASSUME NEW i \in Idx, Fork(i) PROVE BatchHandled'
  BY <1>1 DEF Fork
<1>2. CASE ParentSetup
  BY <1>2 DEF ParentSetup
<1>3. CASE ParentWait
  BY <1>3 DEF ParentWait
<1>4. CASE HandleListen
  BY <1>4 DEF HandleListen
<1>5. CASE RecvSignals
  BY <1>5 DEF RecvSignals
<1>6. CASE HandleChld
  BY <1>6 DEF HandleChld
<1>7. CASE HandleTerm
  BY <1>7 DEF HandleTerm
<1>8. CASE ParentBatchDone
  BY <1>8 DEF ParentBatchDone
<1>9. ASSUME NEW i \in Idx, ChildSetup(i) PROVE BatchHandled'
  BY <1>9 DEF ChildSetup
<1>10. ASSUME NEW i \in Idx, ChildWait(i) PROVE BatchHandled'
  BY <1>10 DEF ChildWait
<1>11. ASSUME NEW i \in Idx, ChildRecv(i) PROVE BatchHandled'
  BY <1>11 DEF ChildRecv
<1>12. ASSUME NEW i \in Idx, ChildAccept(i) PROVE BatchHandled'
  BY <1>12 DEF ChildAccept
<1>13. ASSUME NEW i \in Idx, ChildSig(i) PROVE BatchHandled'
  BY <1>13 DEF ChildSig
<1>14. ASSUME NEW i \in Idx, NEW k \in Conn, ChildProcess(i, k) PROVE BatchHandled'
  BY <1>14 DEF ChildProcess
<1>15. ASSUME NEW i \in Idx, ChildBatchDone(i) PROVE BatchHandled'
  BY <1>15 DEF ChildBatchDone, Dies
<1>16. ASSUME NEW s \in {"CHLD", "TERM"}, DeliverParent(s) PROVE BatchHandled'
  BY <1>16 DEF DeliverParent, ParentDies
<1>17. ASSUME NEW i \in Idx, DeliverChild(i) PROVE BatchHandled'
  BY <1>17 DEF DeliverChild, Dies, Running
<1>18. CASE ForkFails
  BY <1>18 DEF ForkFails, ParentDies
<1>19. CASE TermParent
  BY <1>19 DEF TermParent
<1>20. ASSUME NEW i \in Idx, AcceptFails(i) PROVE BatchHandled'
  BY <1>20 DEF AcceptFails, RestOfBatch
<1>21. ASSUME NEW i \in Idx, Crash(i) PROVE BatchHandled'
  BY <1>21 DEF Crash, Dies
<1>22. ASSUME NEW i \in Idx, TermChild(i) PROVE BatchHandled'
  BY <1>22 DEF TermChild
<1>23. ASSUME NEW k \in Conn, Arrive(k) PROVE BatchHandled'
  BY <1>23 DEF Arrive, ListenEdge
<1>24. ASSUME NEW k \in Conn, ClientSends(k) PROVE BatchHandled'
  BY <1>24 DEF ClientSends
<1>25. CASE UNCHANGED vars
  BY <1>25
<1> QED
  BY <1>1, <1>2, <1>3, <1>4, <1>5, <1>6, <1>7, <1>8, <1>9, <1>10,
     <1>11, <1>12, <1>13, <1>14, <1>15, <1>16, <1>17, <1>18, <1>19,
     <1>20, <1>21, <1>22, <1>23, <1>24, <1>25
     DEF Next, ParentStep, ChildStep, Deliver, Environment

\* Every step keeps that a full channel has an edge.
LEMMA FullChannelStep ==
    ASSUME TypeOK, EventInChannel, BatchHandled, FullChannelHasEdge, [Next]_vars
    PROVE  FullChannelHasEdge'
<1> USE DEF TypeOK, FullChannelHasEdge, BatchHandled, Running, parentVars, childVars, netVars, auxVars, vars
<1>1. ASSUME NEW i \in Idx, Fork(i) PROVE FullChannelHasEdge'
  BY <1>1 DEF Fork
<1>2. CASE ParentSetup
  BY <1>2 DEF ParentSetup
<1>3. CASE ParentWait
  BY <1>3 DEF ParentWait
<1>4. CASE HandleListen
  <2>1. ASSUME NEW i \in Idx, SendToChild(i) PROVE FullChannelHasEdge'
    <3>1. cpc' = cpc /\ cbatch' = cbatch
      BY <1>4 DEF HandleListen
    <3>2. Running(i) => "pipe" \in carmed'[i]
      BY <2>1 DEF SendToChild, PipeEdge
    <3>3. \A j \in Idx \ {i} : pipe'[j] = pipe[j] /\ carmed'[j] = carmed[j]
      BY <2>1 DEF SendToChild
    <3> QED
      BY <3>1, <3>2, <3>3
  <2>2. ASSUME UNCHANGED <<pipe, carmed, cpc, cbatch>>
        PROVE  FullChannelHasEdge'
    BY <2>2
  <2> QED
    BY <1>4, <2>1, <2>2 DEF HandleListen
<1>5. CASE RecvSignals
  BY <1>5 DEF RecvSignals
<1>6. CASE HandleChld
  BY <1>6 DEF HandleChld
<1>7. CASE HandleTerm
  BY <1>7 DEF HandleTerm
<1>8. CASE ParentBatchDone
  BY <1>8 DEF ParentBatchDone
<1>9. ASSUME NEW i \in Idx, ChildSetup(i) PROVE FullChannelHasEdge'
  BY <1>9, CapAssumption DEF ChildSetup
<1>10. ASSUME NEW i \in Idx, ChildWait(i) PROVE FullChannelHasEdge'
  <2>1. \A j \in Idx \ {i} : /\ cpc'[j] = cpc[j] /\ pipe'[j] = pipe[j]
                            /\ cbatch'[j] = cbatch[j] /\ carmed'[j] = carmed[j]
    BY <1>10 DEF ChildWait
  <2>2. pipe'[i] = PipeCap => "pipe" \in cbatch'[i]
    <3>1. pipe[i] = PipeCap => "pipe" \in carmed[i]
      BY <1>10 DEF ChildWait
    <3> QED
      BY <1>10, <3>1, CapAssumption DEF ChildWait, ChildReady
  <2> QED
    BY <2>1, <2>2
<1>11. ASSUME NEW i \in Idx, ChildRecv(i) PROVE FullChannelHasEdge'
  <2>1. pipe[i] \in 1 .. PipeCap
    BY <1>11 DEF ChildRecv, EventInChannel
  <2>2. pipe'[i] # PipeCap
    BY <1>11, <2>1, CapAssumption DEF ChildRecv
  <2>3. \A j \in Idx \ {i} : /\ cpc'[j] = cpc[j] /\ pipe'[j] = pipe[j]
                            /\ cbatch'[j] = cbatch[j] /\ carmed'[j] = carmed[j]
    BY <1>11 DEF ChildRecv
  <2> QED
    BY <2>2, <2>3
<1>12. ASSUME NEW i \in Idx, ChildAccept(i) PROVE FullChannelHasEdge'
  BY <1>12 DEF ChildAccept
<1>13. ASSUME NEW i \in Idx, ChildSig(i) PROVE FullChannelHasEdge'
  BY <1>13 DEF ChildSig
<1>14. ASSUME NEW i \in Idx, NEW k \in Conn, ChildProcess(i, k) PROVE FullChannelHasEdge'
  BY <1>14, ConnAssumption DEF ChildProcess
<1>15. ASSUME NEW i \in Idx, ChildBatchDone(i) PROVE FullChannelHasEdge'
  BY <1>15 DEF ChildBatchDone, Dies
<1>16. ASSUME NEW s \in {"CHLD", "TERM"}, DeliverParent(s) PROVE FullChannelHasEdge'
  BY <1>16 DEF DeliverParent, ParentDies
<1>17. ASSUME NEW i \in Idx, DeliverChild(i) PROVE FullChannelHasEdge'
  <2>1. \A j \in Idx \ {i} : /\ cpc'[j] = cpc[j] /\ pipe'[j] = pipe[j]
                            /\ cbatch'[j] = cbatch[j] /\ carmed'[j] = carmed[j]
    BY <1>17 DEF DeliverChild, Dies
  <2>2. FullChannelHasEdge'
    <3>1. CASE cpc[i] = "start" /\ Dies(i)
      <4>1. cpc'[i] \in {"zombie", "reaped"}
        BY <3>1 DEF Dies
      <4> QED
        BY <2>1, <4>1
    <3>2. CASE /\ carmed' = [carmed EXCEPT ![i] = @ \cup {"sig"}]
               /\ UNCHANGED <<cpc, cbatch, pipe>>
      BY <3>2
    <3> QED
      BY <1>17, <3>1, <3>2 DEF DeliverChild
  <2> QED
    BY <2>2
<1>18. CASE ForkFails
  BY <1>18 DEF ForkFails, ParentDies
<1>19. CASE TermParent
  BY <1>19 DEF TermParent
<1>20. ASSUME NEW i \in Idx, AcceptFails(i) PROVE FullChannelHasEdge'
  BY <1>20 DEF AcceptFails, RestOfBatch
<1>21. ASSUME NEW i \in Idx, Crash(i) PROVE FullChannelHasEdge'
  BY <1>21 DEF Crash, Dies
<1>22. ASSUME NEW i \in Idx, TermChild(i) PROVE FullChannelHasEdge'
  BY <1>22 DEF TermChild
<1>23. ASSUME NEW k \in Conn, Arrive(k) PROVE FullChannelHasEdge'
  BY <1>23 DEF Arrive, ListenEdge
<1>24. ASSUME NEW k \in Conn, ClientSends(k) PROVE FullChannelHasEdge'
  BY <1>24 DEF ClientSends
<1>25. CASE UNCHANGED vars
  BY <1>25
<1> QED
  BY <1>1, <1>2, <1>3, <1>4, <1>5, <1>6, <1>7, <1>8, <1>9, <1>10,
     <1>11, <1>12, <1>13, <1>14, <1>15, <1>16, <1>17, <1>18, <1>19,
     <1>20, <1>21, <1>22, <1>23, <1>24, <1>25
     DEF Next, ParentStep, ChildStep, Deliver, Environment

\* The parent is never blocked by a channel nobody will read: whenever the
\* channel of a running child is full, an edge of it is armed or in the child's
\* batch, for every channel capacity and however many ints were left behind.
THEOREM FullChannelIsRead == Spec => []FullChannelHasEdge
<1>1. Init => BatchHandled /\ FullChannelHasEdge
  BY DEF Init, BatchHandled, FullChannelHasEdge, Running
<1>2. /\ TypeOK /\ EventInChannel /\ BatchHandled /\ FullChannelHasEdge
      /\ [Next]_vars
      => (BatchHandled /\ FullChannelHasEdge)'
  BY BatchHandledStep, FullChannelStep
<1> QED
  BY <1>1, <1>2, TypeCorrect, PTL DEF Spec

-----------------------------------------------------------------------------
(* Round robin.                                                            *)

\* Those before the counter have had one turn more than those at or after it.
Turns(b) ==
    \A i \in Idx : m_pid[i] # NoPid =>
                   sent[i] = IF i < sub_process_counter THEN b + 1 ELSE b

RoundInv ==
    /\ ppc = "fork" => sub_process_counter = 0 /\ \A i \in Idx : sent[i] = 0
    /\ \E b \in Nat : Turns(b)

\* One turn: the scan passes only children without a pid, so the chosen child
\* is the first one left in this round, or the first of the next round.
LEMMA TurnStep ==
    ASSUME TypeOK, NEW b \in Nat, Turns(b), NEW i \in Idx, IsNextChild(i),
           sub_process_counter' = Advance(i),
           sent' = [sent EXCEPT ![i] = @ + 1], m_pid' = m_pid
    PROVE  \E c \in Nat : Turns(c)'
<1> DEFINE ctr == sub_process_counter
<1>1. ctr \in 0 .. N - 1 /\ i \in 0 .. N - 1 /\ N \in Nat \ {0}
  BY NAssumption DEF TypeOK, Idx
<1>2. ctr' = IF i = N - 1 THEN 0 ELSE i + 1
  BY AdvanceIdx
<1>3. \A j \in Idx : sent'[j] = IF j = i THEN sent[i] + 1 ELSE sent[j]
  BY DEF TypeOK
<1>4. \A j \in Idx : m_pid[j] # NoPid =>
        (IF i >= ctr THEN i - ctr ELSE i + N - ctr)
            <= (IF j >= ctr THEN j - ctr ELSE j + N - ctr)
  BY DEF IsNextChild, Distance
<1>5. m_pid[i] # NoPid
  BY DEF IsNextChild
<1>6. CASE i >= ctr
  <2>1. \A j \in Idx : m_pid[j] # NoPid => j < ctr \/ j >= i
    BY <1>1, <1>4, <1>6 DEF Idx
  <2>2. CASE i = N - 1
    <3>1. ASSUME NEW j \in Idx, m_pid[j] # NoPid PROVE sent'[j] = b + 1
      BY <1>1, <1>3, <1>5, <1>6, <2>1, <2>2, <3>1 DEF Turns, Idx
    <3>2. Turns(b + 1)'
      BY <1>1, <1>2, <2>2, <3>1 DEF Turns, Idx
    <3> QED
      BY <3>2
  <2>3. CASE i # N - 1
    <3>1. ASSUME NEW j \in Idx, m_pid[j] # NoPid
          PROVE  sent'[j] = IF j < i + 1 THEN b + 1 ELSE b
      BY <1>1, <1>3, <1>5, <1>6, <2>1, <2>3, <3>1 DEF Turns, Idx
    <3>2. Turns(b)'
      BY <1>1, <1>2, <2>3, <3>1 DEF Turns, Idx
    <3> QED
      BY <3>2
  <2> QED
    BY <2>2, <2>3
<1>7. CASE i < ctr
  <2>1. \A j \in Idx : m_pid[j] # NoPid => j < ctr /\ j >= i
    BY <1>1, <1>4, <1>7 DEF Idx
  <2>2. ASSUME NEW j \in Idx, m_pid[j] # NoPid
        PROVE  sent'[j] = IF j < i + 1 THEN b + 2 ELSE b + 1
    BY <1>1, <1>3, <1>5, <1>7, <2>1, <2>2 DEF Turns, Idx
  <2>3. ctr' = i + 1
    BY <1>1, <1>2, <1>7
  <2>4. Turns(b + 1)'
    BY <1>1, <2>2, <2>3 DEF Turns, Idx
  <2> QED
    BY <2>4
<1> QED
  BY <1>1, <1>6, <1>7

\* Every step keeps the turns within one of each other.
LEMMA RoundStep ==
    ASSUME TypeOK, RoundInv, [Next]_vars
    PROVE  RoundInv'
<1> USE DEF RoundInv, parentVars, childVars, netVars, auxVars, vars
<1>1. ASSUME NEW i \in Idx, Fork(i) PROVE RoundInv'
  <2>1. Turns(0)'
    BY <1>1 DEF Fork, Turns, Idx
  <2> QED
    BY <1>1, <2>1 DEF Fork
<1>2. CASE ParentSetup
  BY <1>2 DEF ParentSetup, Turns
<1>3. CASE ParentWait
  BY <1>3 DEF ParentWait, Turns
<1>4. CASE HandleListen
  <2>1. ASSUME NEW i \in Idx, IsNextChild(i), sub_process_counter' = Advance(i),
               sent' = [sent EXCEPT ![i] = @ + 1]
        PROVE  \E c \in Nat : Turns(c)'
    BY <1>4, <2>1, TurnStep DEF HandleListen
  <2>2. ASSUME UNCHANGED <<sub_process_counter, sent, m_pid>>
        PROVE  \E c \in Nat : Turns(c)'
    BY <2>2 DEF Turns
  <2> QED
    BY <1>4, <2>1, <2>2 DEF HandleListen
<1>5. CASE RecvSignals
  BY <1>5 DEF RecvSignals, Turns
<1>6. CASE HandleChld
  <2>1. \A i \in Idx : m_pid'[i] # NoPid => m_pid[i] # NoPid
    BY <1>6 DEF HandleChld
  <2>2. UNCHANGED <<ppc, sub_process_counter, sent>>
    BY <1>6 DEF HandleChld
  <2>3. \A b \in Nat : Turns(b) => Turns(b)'
    BY <2>1, <2>2 DEF Turns
  <2> QED
    BY <2>2, <2>3
<1>7. CASE HandleTerm
  BY <1>7 DEF HandleTerm, Turns
<1>8. CASE ParentBatchDone
  BY <1>8 DEF ParentBatchDone, Turns
<1>9. ASSUME NEW i \in Idx, ChildSetup(i) PROVE RoundInv'
  BY <1>9 DEF ChildSetup, Turns
<1>10. ASSUME NEW i \in Idx, ChildWait(i) PROVE RoundInv'
  BY <1>10 DEF ChildWait, Turns
<1>11. ASSUME NEW i \in Idx, ChildRecv(i) PROVE RoundInv'
  BY <1>11 DEF ChildRecv, Turns
<1>12. ASSUME NEW i \in Idx, ChildAccept(i) PROVE RoundInv'
  BY <1>12 DEF ChildAccept, Turns
<1>13. ASSUME NEW i \in Idx, ChildSig(i) PROVE RoundInv'
  BY <1>13 DEF ChildSig, Turns
<1>14. ASSUME NEW i \in Idx, NEW k \in Conn, ChildProcess(i, k) PROVE RoundInv'
  BY <1>14 DEF ChildProcess, Turns
<1>15. ASSUME NEW i \in Idx, ChildBatchDone(i) PROVE RoundInv'
  BY <1>15 DEF ChildBatchDone, Dies, Turns
<1>16. ASSUME NEW s \in {"CHLD", "TERM"}, DeliverParent(s) PROVE RoundInv'
  BY <1>16 DEF DeliverParent, ParentDies, InLoop, Turns
<1>17. ASSUME NEW i \in Idx, DeliverChild(i) PROVE RoundInv'
  BY <1>17 DEF DeliverChild, Turns
<1>18. CASE ForkFails
  BY <1>18 DEF ForkFails, ParentDies, Turns
<1>19. CASE TermParent
  BY <1>19 DEF TermParent, Turns
<1>20. ASSUME NEW i \in Idx, AcceptFails(i) PROVE RoundInv'
  BY <1>20 DEF AcceptFails, Turns
<1>21. ASSUME NEW i \in Idx, Crash(i) PROVE RoundInv'
  BY <1>21 DEF Crash, Turns
<1>22. ASSUME NEW i \in Idx, TermChild(i) PROVE RoundInv'
  BY <1>22 DEF TermChild, Turns
<1>23. ASSUME NEW k \in Conn, Arrive(k) PROVE RoundInv'
  BY <1>23 DEF Arrive, ListenEdge, Turns
<1>24. ASSUME NEW k \in Conn, ClientSends(k) PROVE RoundInv'
  BY <1>24 DEF ClientSends, Turns
<1>25. CASE UNCHANGED vars
  BY <1>25 DEF Turns
<1> QED
  BY <1>1, <1>2, <1>3, <1>4, <1>5, <1>6, <1>7, <1>8, <1>9, <1>10,
     <1>11, <1>12, <1>13, <1>14, <1>15, <1>16, <1>17, <1>18, <1>19,
     <1>20, <1>21, <1>22, <1>23, <1>24, <1>25
     DEF Next, ParentStep, ChildStep, Deliver, Environment

\* Round robin (lines 324-340) is fair for every number of children: two that
\* still have a pid have been chosen equally often, give or take one, whichever
\* children died and were skipped.
THEOREM RoundRobin == Spec => []RoundRobinBalance
<1>1. Init => RoundInv
  <2> SUFFICES ASSUME Init PROVE RoundInv
    OBVIOUS
  <2>1. Turns(0)
    BY DEF Init, Turns, Idx
  <2> QED
    BY <2>1 DEF Init, RoundInv
<1>2. TypeOK /\ RoundInv /\ [Next]_vars => RoundInv'
  BY RoundStep
<1>3. RoundInv => RoundRobinBalance
  <2> SUFFICES ASSUME NEW b \in Nat, Turns(b) PROVE RoundRobinBalance
    BY DEF RoundInv
  <2> QED
    BY DEF Turns, RoundRobinBalance
<1> QED
  BY <1>1, <1>2, <1>3, TypeCorrect, PTL DEF Spec

-----------------------------------------------------------------------------
(* Notifications and the listening queue.                                  *)

\* The ints under way are finitely many.
LEMMA OutstandingFinite ==
    /\ IsFiniteSet(Outstanding) /\ Cardinality(Outstanding) \in Nat
    /\ IsFiniteSet(Outstanding') /\ Cardinality(Outstanding') \in Nat
<1>1. IsFiniteSet(Idx \X (1 .. PipeCap + 1))
  <2>1. IsFiniteSet(Idx) /\ IsFiniteSet(1 .. PipeCap + 1)
    BY FS_Interval, NAssumption, CapAssumption DEF Idx
  <2> QED
    BY <2>1, FS_Product
<1>2. Outstanding \in SUBSET (Idx \X (1 .. PipeCap + 1))
  BY DEF Outstanding
<1>3. Outstanding' \in SUBSET (Idx \X (1 .. PipeCap + 1))
  BY DEF Outstanding
<1>4. IsFiniteSet(Outstanding) /\ IsFiniteSet(Outstanding')
  BY <1>1, <1>2, <1>3, FS_Subset
<1> QED
  BY <1>4, FS_CardinalityType

\* How much a child holds is a number within bounds.
LEMMA HeldType ==
    /\ TypeOK => \A j \in Idx : Held(j) \in 0 .. PipeCap + 1
    /\ TypeOK' => \A j \in Idx : Held(j)' \in 0 .. PipeCap + 1
<1>1. ASSUME TypeOK, NEW j \in Idx PROVE Held(j) \in 0 .. PipeCap + 1
  <2>1. pipe[j] \in 0 .. PipeCap
    BY <1>1 DEF TypeOK
  <2> QED
    BY <2>1, CapAssumption DEF Held
<1>2. ASSUME TypeOK', NEW j \in Idx PROVE Held(j)' \in 0 .. PipeCap + 1
  <2>1. pipe'[j] \in 0 .. PipeCap
    BY <1>2 DEF TypeOK
  <2> QED
    BY <2>1, CapAssumption DEF Held
<1> QED
  BY <1>1, <1>2

\* The death of a child adds nothing to what is held.
LEMMA DiesHeld ==
    ASSUME TypeOK, NEW i \in Idx, Dies(i)
    PROVE  \A j \in Idx : Held(j)' <= Held(j)
<1>1. Held(i)' = 0
  <2>1. pipe'[i] = 0 /\ cpc'[i] # "recvd"
    BY DEF Dies, TypeOK
  <2> QED
    BY <2>1 DEF Held
<1>2. \A j \in Idx \ {i} : Held(j)' = Held(j)
  BY DEF Dies, Held, TypeOK
<1> QED
  BY <1>1, <1>2, HeldType, CapAssumption

\* No child holds more than before: there are no new notifications.
LEMMA OutstandingShrinks ==
    ASSUME TypeOK, TypeOK', \A j \in Idx : Held(j)' <= Held(j)
    PROVE  Cardinality(Outstanding') <= Cardinality(Outstanding)
<1>1. \A j \in Idx : Held(j) \in Int /\ Held(j)' \in Int
  BY HeldType, CapAssumption
<1>2. Outstanding' \in SUBSET Outstanding
  BY <1>1, CapAssumption DEF Outstanding
<1> QED
  BY <1>2, OutstandingFinite, FS_Subset

\* One child holds one more: there is one more notification.
LEMMA OutstandingGrows ==
    ASSUME TypeOK, TypeOK', NEW i \in Idx, Held(i)' = Held(i) + 1,
           \A j \in Idx \ {i} : Held(j)' = Held(j)
    PROVE  Cardinality(Outstanding') <= Cardinality(Outstanding) + 1
<1>1. \A j \in Idx : Held(j) \in Int /\ Held(j)' \in Int
  BY HeldType, CapAssumption
<1> DEFINE new == <<i, Held(i) + 1>>
<1>2. ASSUME NEW x \in Outstanding' PROVE x \in Outstanding \cup {new}
  <2>1. x \in Idx \X (1 .. PipeCap + 1) /\ x[2] <= Held(x[1])'
    BY <1>2 DEF Outstanding
  <2>2. CASE x[1] # i
    BY <2>1, <2>2 DEF Outstanding
  <2>3. CASE x[1] = i
    <3>1. x[2] <= Held(i) + 1 /\ x[2] \in Int
      BY <2>1, <2>3, CapAssumption
    <3>2. CASE x[2] = Held(i) + 1
      BY <2>1, <2>3, <3>2
    <3>3. CASE x[2] <= Held(i)
      BY <2>1, <2>3, <3>3 DEF Outstanding
    <3> QED
      BY <1>1, <3>1, <3>2, <3>3
  <2> QED
    BY <2>2, <2>3
<1> HIDE DEF new
<1>3. /\ IsFiniteSet(Outstanding \cup {new})
      /\ Cardinality(Outstanding \cup {new}) <= Cardinality(Outstanding) + 1
  <2>1. /\ IsFiniteSet(Outstanding \cup {new})
        /\ Cardinality(Outstanding \cup {new}) =
             IF new \in Outstanding THEN Cardinality(Outstanding)
                                    ELSE Cardinality(Outstanding) + 1
    BY OutstandingFinite, FS_AddElement
  <2> QED
    BY <2>1, OutstandingFinite
<1>4. Cardinality(Outstanding') <= Cardinality(Outstanding \cup {new})
  BY <1>2, <1>3, FS_Subset
<1>5. Cardinality(Outstanding \cup {new}) \in Nat
  BY <1>3, FS_CardinalityType
<1> QED
  BY <1>3, <1>4, <1>5, OutstandingFinite

\* One child holds one less: there is one notification less.
LEMMA OutstandingSpent ==
    ASSUME TypeOK, TypeOK', NEW i \in Idx, Held(i) > 0, Held(i)' = Held(i) - 1,
           \A j \in Idx \ {i} : Held(j)' = Held(j)
    PROVE  Cardinality(Outstanding') <= Cardinality(Outstanding) - 1
<1>1. \A j \in Idx : Held(j) \in 0 .. PipeCap + 1 /\ Held(j)' \in 0 .. PipeCap + 1
  BY HeldType
<1> DEFINE old == <<i, Held(i)>>
<1>2. old \in Outstanding
  BY <1>1, CapAssumption DEF Outstanding
<1>3. ASSUME NEW x \in Outstanding' PROVE x \in Outstanding \ {old}
  <2>1. x \in Idx \X (1 .. PipeCap + 1) /\ x[2] <= Held(x[1])'
    BY <1>3 DEF Outstanding
  <2>2. CASE x[1] # i
    BY <2>1, <2>2 DEF Outstanding
  <2>3. CASE x[1] = i
    <3>1. x[2] <= Held(i) - 1 /\ x[2] \in Int
      BY <2>1, <2>3, CapAssumption
    <3>2. x[2] <= Held(i) /\ x[2] # Held(i)
      BY <1>1, <3>1, CapAssumption
    <3> QED
      BY <2>1, <2>3, <3>2 DEF Outstanding
  <2> QED
    BY <2>2, <2>3
<1>4. /\ IsFiniteSet(Outstanding \ {old})
      /\ Cardinality(Outstanding \ {old}) = Cardinality(Outstanding) - 1
  BY <1>2, OutstandingFinite, FS_RemoveElement
<1>5. Cardinality(Outstanding') <= Cardinality(Outstanding \ {old})
  BY <1>3, <1>4, FS_Subset
<1> QED
  BY <1>4, <1>5, OutstandingFinite

\* Before the loop nothing has been sent; epoll_wait starts from a batch that
\* has been handled.
BeforeLoop ==
    /\ ppc = "fork" => /\ pbatch = {} /\ parmed = {}
                       /\ \A i \in Idx : Held(i) = 0
    /\ ppc = "wait" => pbatch = {}

BackedInv == NotificationBacked /\ BeforeLoop

\* Every step that neither sends a notification nor takes a connection.
LEMMA NoNewNotification ==
    ASSUME TypeOK, TypeOK', NotificationBacked,
           \A j \in Idx : Held(j)' <= Held(j),
           Edge(pbatch)' + Edge(parmed)' <= Edge(pbatch) + Edge(parmed),
           backlog' = backlog
    PROVE  NotificationBacked'
<1>1. /\ Edge(pbatch) \in Nat /\ Edge(parmed) \in Nat
      /\ Edge(pbatch)' \in Nat /\ Edge(parmed)' \in Nat /\ Len(backlog) \in Nat
  BY DEF Edge, TypeOK
<1> QED
  BY <1>1, OutstandingShrinks, OutstandingFinite DEF NotificationBacked

\* Every step keeps the ints backed by connections.
LEMMA BackedStep ==
    ASSUME TypeOK, TypeOK', EventInChannel, BackedInv, [Next]_vars
    PROVE  BackedInv'
<1> USE DEF BackedInv, parentVars, childVars, netVars, auxVars, vars
<1>0. /\ \A j \in Idx : /\ pipe[j] \in Int /\ pipe[j] >= 0
                          /\ Held(j) \in Nat /\ Held(j)' \in Nat
      /\ cpc \in [Idx -> {"none", "start", "wait", "batch", "recvd",
                          "zombie", "reaped"}]
      /\ pipe \in [Idx -> 0 .. PipeCap]
      /\ backlog \in Seq(Conn)
  <2>1. pipe \in [Idx -> 0 .. PipeCap]
    BY DEF TypeOK
  <2>2. \A j \in Idx : pipe[j] \in Int /\ pipe[j] >= 0
    BY <2>1, CapAssumption
  <2>3. \A j \in Idx : Held(j) \in Nat /\ Held(j)' \in Nat
    BY HeldType, CapAssumption
  <2> QED
    BY <2>1, <2>2, <2>3 DEF TypeOK
<1>1. ASSUME NEW i \in Idx, Fork(i) PROVE BackedInv'
  <2>1. \A j \in Idx : Held(j)' <= Held(j)
    BY <1>1, <1>0 DEF Held, Fork
  <2>2. /\ Edge(pbatch)' + Edge(parmed)' <= Edge(pbatch) + Edge(parmed)
        /\ backlog' = backlog
    BY <1>1, <1>0 DEF Edge, Fork
  <2>3. BeforeLoop'
    BY <1>1, <1>0, <2>1 DEF BeforeLoop, Fork
  <2> QED
    BY <2>1, <2>2, <2>3, NoNewNotification DEF BackedInv
<1>2. CASE ParentSetup
  <2>1. \A j \in Idx : Held(j)' = Held(j) /\ Held(j) = 0
    BY <1>2 DEF ParentSetup, Held, BeforeLoop
  <2>2. Cardinality(Outstanding) = 0 /\ Cardinality(Outstanding') = 0
    <3>1. Outstanding = {} /\ Outstanding' = {}
      BY <2>1 DEF Outstanding
    <3> QED
      BY <3>1, FS_EmptySet
  <2>3. Len(backlog) \in Nat /\ (backlog # <<>> => Len(backlog) > 0)
    BY <1>0
  <2>4. NotificationBacked'
    BY <1>2, <2>2, <2>3 DEF ParentSetup, NotificationBacked, Edge, BeforeLoop
  <2> QED
    BY <1>2, <2>4 DEF ParentSetup, BeforeLoop
<1>3. CASE ParentWait
  <2>1. \A j \in Idx : Held(j)' <= Held(j)
    BY <1>3, <1>0 DEF Held, ParentWait, AfterReport, BeforeLoop
  <2>2. /\ Edge(pbatch)' + Edge(parmed)' <= Edge(pbatch) + Edge(parmed)
        /\ backlog' = backlog
    BY <1>3, <1>0 DEF Edge, ParentWait, AfterReport, BeforeLoop
  <2>3. BeforeLoop'
    BY <1>3, <1>0, <2>1 DEF BeforeLoop, ParentWait, AfterReport, BeforeLoop
  <2> QED
    BY <2>1, <2>2, <2>3, NoNewNotification DEF BackedInv
<1>4. CASE HandleListen
  <2>1. ASSUME NEW i \in Idx, SendToChild(i), pbatch' = pbatch \ {"listen"}
        PROVE  NotificationBacked'
    <3>1. /\ Edge(pbatch) = 1 /\ Edge(pbatch)' = 0
          /\ Edge(parmed)' = Edge(parmed) /\ Edge(parmed) \in Nat
          /\ backlog' = backlog /\ Len(backlog) \in Nat
      BY <1>4, <2>1 DEF HandleListen, Edge, TypeOK
    <3>2. Cardinality(Outstanding') <= Cardinality(Outstanding) + 1
      <4>1. cpc' = cpc /\ \A j \in Idx \ {i} : pipe'[j] = pipe[j]
        BY <1>4, <2>1 DEF HandleListen, SendToChild
      <4>2. CASE pipe' = pipe
        <5>1. \A j \in Idx : Held(j)' <= Held(j)
          BY <1>0, <4>1, <4>2 DEF Held
        <5> QED
          BY <5>1, OutstandingShrinks, OutstandingFinite
      <4>3. CASE pipe'[i] = pipe[i] + 1
        <5>1. Held(i)' = Held(i) + 1 /\ \A j \in Idx \ {i} : Held(j)' = Held(j)
          BY <1>0, <4>1, <4>3 DEF Held
        <5> QED
          BY <5>1, OutstandingGrows
      <4> QED
        BY <2>1, <1>0, <4>2, <4>3 DEF SendToChild
    <3> QED
      BY <3>1, <3>2, OutstandingFinite DEF NotificationBacked
  <2>2. ASSUME pbatch' = {}, UNCHANGED pipe PROVE NotificationBacked'
    <3>1. \A j \in Idx : Held(j)' <= Held(j)
      BY <1>4, <1>0, <2>2 DEF HandleListen, Held
    <3>2. /\ Edge(pbatch)' + Edge(parmed)' <= Edge(pbatch) + Edge(parmed)
          /\ backlog' = backlog
      BY <1>4, <2>2 DEF HandleListen, Edge
    <3> QED
      BY <3>1, <3>2, NoNewNotification
  <2>3. BeforeLoop'
    BY <1>4 DEF HandleListen, BeforeLoop
  <2> QED
    BY <1>4, <2>1, <2>2, <2>3 DEF HandleListen
<1>5. CASE RecvSignals
  <2>1. \A j \in Idx : Held(j)' <= Held(j)
    BY <1>5, <1>0 DEF Held, RecvSignals
  <2>2. /\ Edge(pbatch)' + Edge(parmed)' <= Edge(pbatch) + Edge(parmed)
        /\ backlog' = backlog
    BY <1>5, <1>0 DEF Edge, RecvSignals
  <2>3. BeforeLoop'
    BY <1>5, <1>0, <2>1 DEF BeforeLoop, RecvSignals
  <2> QED
    BY <2>1, <2>2, <2>3, NoNewNotification DEF BackedInv
<1>6. CASE HandleChld
  <2>1. \A j \in Idx : Held(j)' <= Held(j)
    BY <1>6, <1>0 DEF Held, HandleChld, Collected, Zombies
  <2>2. /\ Edge(pbatch)' + Edge(parmed)' <= Edge(pbatch) + Edge(parmed)
        /\ backlog' = backlog
    BY <1>6, <1>0 DEF Edge, HandleChld, Collected, Zombies
  <2>3. BeforeLoop'
    BY <1>6, <1>0, <2>1 DEF BeforeLoop, HandleChld, Collected, Zombies
  <2> QED
    BY <2>1, <2>2, <2>3, NoNewNotification DEF BackedInv
<1>7. CASE HandleTerm
  <2>1. \A j \in Idx : Held(j)' <= Held(j)
    BY <1>7, <1>0 DEF Held, HandleTerm
  <2>2. /\ Edge(pbatch)' + Edge(parmed)' <= Edge(pbatch) + Edge(parmed)
        /\ backlog' = backlog
    BY <1>7, <1>0 DEF Edge, HandleTerm
  <2>3. BeforeLoop'
    BY <1>7, <1>0, <2>1 DEF BeforeLoop, HandleTerm
  <2> QED
    BY <2>1, <2>2, <2>3, NoNewNotification DEF BackedInv
<1>8. CASE ParentBatchDone
  <2>1. \A j \in Idx : Held(j)' <= Held(j)
    BY <1>8, <1>0 DEF Held, ParentBatchDone
  <2>2. /\ Edge(pbatch)' + Edge(parmed)' <= Edge(pbatch) + Edge(parmed)
        /\ backlog' = backlog
    BY <1>8, <1>0 DEF Edge, ParentBatchDone
  <2>3. BeforeLoop'
    BY <1>8, <1>0, <2>1 DEF BeforeLoop, ParentBatchDone
  <2> QED
    BY <2>1, <2>2, <2>3, NoNewNotification DEF BackedInv
<1>9. ASSUME NEW i \in Idx, ChildSetup(i) PROVE BackedInv'
  <2>1. \A j \in Idx : Held(j)' <= Held(j)
    BY <1>9, <1>0 DEF Held, ChildSetup
  <2>2. /\ Edge(pbatch)' + Edge(parmed)' <= Edge(pbatch) + Edge(parmed)
        /\ backlog' = backlog
    BY <1>9, <1>0 DEF Edge, ChildSetup
  <2>3. BeforeLoop'
    BY <1>9, <1>0, <2>1 DEF BeforeLoop, ChildSetup
  <2> QED
    BY <2>1, <2>2, <2>3, NoNewNotification DEF BackedInv
<1>10. ASSUME NEW i \in Idx, ChildWait(i) PROVE BackedInv'
  <2>1. \A j \in Idx : Held(j)' <= Held(j)
    BY <1>10, <1>0 DEF Held, ChildWait
  <2>2. /\ Edge(pbatch)' + Edge(parmed)' <= Edge(pbatch) + Edge(parmed)
        /\ backlog' = backlog
    BY <1>10, <1>0 DEF Edge, ChildWait
  <2>3. BeforeLoop'
    BY <1>10, <1>0, <2>1 DEF BeforeLoop, ChildWait
  <2> QED
    BY <2>1, <2>2, <2>3, NoNewNotification DEF BackedInv
<1>11. ASSUME NEW i \in Idx, ChildRecv(i) PROVE BackedInv'
  <2>1. \A j \in Idx : Held(j)' <= Held(j)
    BY <1>11, <1>0 DEF Held, ChildRecv, EventInChannel
  <2>2. /\ Edge(pbatch)' + Edge(parmed)' <= Edge(pbatch) + Edge(parmed)
        /\ backlog' = backlog
    BY <1>11, <1>0 DEF Edge, ChildRecv, EventInChannel
  <2>3. BeforeLoop'
    BY <1>11, <1>0, <2>1 DEF BeforeLoop, ChildRecv, EventInChannel
  <2> QED
    BY <2>1, <2>2, <2>3, NoNewNotification DEF BackedInv
<1>12. ASSUME NEW i \in Idx, ChildAccept(i) PROVE BackedInv'
  <2>1. /\ Held(i) > 0 /\ Held(i)' = Held(i) - 1
        /\ \A j \in Idx \ {i} : Held(j)' = Held(j)
    BY <1>12, <1>0 DEF ChildAccept, Held
  <2>2. Cardinality(Outstanding') <= Cardinality(Outstanding) - 1
    BY <2>1, OutstandingSpent
  <2>3. /\ Len(backlog') = Len(backlog) - 1 /\ Len(backlog) \in Nat
        /\ Edge(pbatch)' = Edge(pbatch) /\ Edge(parmed)' = Edge(parmed)
        /\ Edge(pbatch) \in Nat /\ Edge(parmed) \in Nat
    BY <1>12, <1>0 DEF ChildAccept, Edge
  <2>4. NotificationBacked'
    BY <2>2, <2>3, OutstandingFinite DEF NotificationBacked
  <2>5. BeforeLoop'
    BY <1>12, <1>0, <2>1 DEF ChildAccept, BeforeLoop
  <2> QED
    BY <2>4, <2>5
<1>13. ASSUME NEW i \in Idx, ChildSig(i) PROVE BackedInv'
  <2>1. \A j \in Idx : Held(j)' <= Held(j)
    BY <1>13, <1>0 DEF Held, ChildSig
  <2>2. /\ Edge(pbatch)' + Edge(parmed)' <= Edge(pbatch) + Edge(parmed)
        /\ backlog' = backlog
    BY <1>13, <1>0 DEF Edge, ChildSig
  <2>3. BeforeLoop'
    BY <1>13, <1>0, <2>1 DEF BeforeLoop, ChildSig
  <2> QED
    BY <2>1, <2>2, <2>3, NoNewNotification DEF BackedInv
<1>14. ASSUME NEW i \in Idx, NEW k \in Conn, ChildProcess(i, k) PROVE BackedInv'
  <2>1. \A j \in Idx : Held(j)' <= Held(j)
    BY <1>14, <1>0 DEF Held, ChildProcess
  <2>2. /\ Edge(pbatch)' + Edge(parmed)' <= Edge(pbatch) + Edge(parmed)
        /\ backlog' = backlog
    BY <1>14, <1>0 DEF Edge, ChildProcess
  <2>3. BeforeLoop'
    BY <1>14, <1>0, <2>1 DEF BeforeLoop, ChildProcess
  <2> QED
    BY <2>1, <2>2, <2>3, NoNewNotification DEF BackedInv
<1>15. ASSUME NEW i \in Idx, ChildBatchDone(i) PROVE BackedInv'
  <2>1. \A j \in Idx : Held(j)' <= Held(j)
    <3>1. CASE Dies(i)
      BY <3>1, DiesHeld
    <3>2. CASE UNCHANGED pipe /\ (UNCHANGED cpc \/ cpc' = [cpc EXCEPT ![i] = "wait"])
      BY <1>0, <3>2 DEF Held
    <3> QED
      BY <1>15, <3>1, <3>2 DEF ChildBatchDone
  <2>2. /\ Edge(pbatch)' + Edge(parmed)' <= Edge(pbatch) + Edge(parmed)
        /\ backlog' = backlog
    BY <1>15, <1>0 DEF Edge, ChildBatchDone, Dies
  <2>3. BeforeLoop'
    BY <1>15, <1>0, <2>1 DEF BeforeLoop, ChildBatchDone, Dies
  <2> QED
    BY <2>1, <2>2, <2>3, NoNewNotification DEF BackedInv
<1>16. ASSUME NEW s \in {"CHLD", "TERM"}, DeliverParent(s) PROVE BackedInv'
  <2>1. \A j \in Idx : Held(j)' <= Held(j)
    BY <1>16, <1>0 DEF Held, DeliverParent, ParentDies, InLoop
  <2>2. /\ Edge(pbatch)' + Edge(parmed)' <= Edge(pbatch) + Edge(parmed)
        /\ backlog' = backlog
    BY <1>16, <1>0 DEF Edge, DeliverParent, ParentDies, InLoop
  <2>3. BeforeLoop'
    BY <1>16, <1>0, <2>1 DEF BeforeLoop, DeliverParent, ParentDies, InLoop
  <2> QED
    BY <2>1, <2>2, <2>3, NoNewNotification DEF BackedInv
<1>17. ASSUME NEW i \in Idx, DeliverChild(i) PROVE BackedInv'
  <2>1. \A j \in Idx : Held(j)' <= Held(j)
    <3>1. CASE Dies(i)
      BY <3>1, DiesHeld
    <3>2. CASE UNCHANGED pipe /\ (UNCHANGED cpc \/ cpc' = [cpc EXCEPT ![i] = "wait"])
      BY <1>0, <3>2 DEF Held
    <3> QED
      BY <1>17, <3>1, <3>2 DEF DeliverChild
  <2>2. /\ Edge(pbatch)' + Edge(parmed)' <= Edge(pbatch) + Edge(parmed)
        /\ backlog' = backlog
    BY <1>17, <1>0 DEF Edge, DeliverChild, Dies, Running
  <2>3. BeforeLoop'
    BY <1>17, <1>0, <2>1 DEF BeforeLoop, DeliverChild, Dies, Running
  <2> QED
    BY <2>1, <2>2, <2>3, NoNewNotification DEF BackedInv
<1>18. CASE ForkFails
  <2>1. \A j \in Idx : Held(j)' <= Held(j)
    BY <1>18, <1>0 DEF Held, ForkFails, ParentDies
  <2>2. /\ Edge(pbatch)' + Edge(parmed)' <= Edge(pbatch) + Edge(parmed)
        /\ backlog' = backlog
    BY <1>18, <1>0 DEF Edge, ForkFails, ParentDies
  <2>3. BeforeLoop'
    BY <1>18, <1>0, <2>1 DEF BeforeLoop, ForkFails, ParentDies
  <2> QED
    BY <2>1, <2>2, <2>3, NoNewNotification DEF BackedInv
<1>19. CASE TermParent
  <2>1. \A j \in Idx : Held(j)' <= Held(j)
    BY <1>19, <1>0 DEF Held, TermParent
  <2>2. /\ Edge(pbatch)' + Edge(parmed)' <= Edge(pbatch) + Edge(parmed)
        /\ backlog' = backlog
    BY <1>19, <1>0 DEF Edge, TermParent
  <2>3. BeforeLoop'
    BY <1>19, <1>0, <2>1 DEF BeforeLoop, TermParent
  <2> QED
    BY <2>1, <2>2, <2>3, NoNewNotification DEF BackedInv
<1>20. ASSUME NEW i \in Idx, AcceptFails(i) PROVE BackedInv'
  <2>1. \A j \in Idx : Held(j)' <= Held(j)
    BY <1>20, <1>0 DEF Held, AcceptFails
  <2>2. /\ Edge(pbatch)' + Edge(parmed)' <= Edge(pbatch) + Edge(parmed)
        /\ backlog' = backlog
    BY <1>20, <1>0 DEF Edge, AcceptFails
  <2>3. BeforeLoop'
    BY <1>20, <1>0, <2>1 DEF BeforeLoop, AcceptFails
  <2> QED
    BY <2>1, <2>2, <2>3, NoNewNotification DEF BackedInv
<1>21. ASSUME NEW i \in Idx, Crash(i) PROVE BackedInv'
  <2>1. \A j \in Idx : Held(j)' <= Held(j)
    <3>1. CASE Dies(i)
      BY <3>1, DiesHeld
    <3>2. CASE UNCHANGED pipe /\ (UNCHANGED cpc \/ cpc' = [cpc EXCEPT ![i] = "wait"])
      BY <1>0, <3>2 DEF Held
    <3> QED
      BY <1>21, <3>1, <3>2 DEF Crash
  <2>2. /\ Edge(pbatch)' + Edge(parmed)' <= Edge(pbatch) + Edge(parmed)
        /\ backlog' = backlog
    BY <1>21, <1>0 DEF Edge, Crash, Dies
  <2>3. BeforeLoop'
    BY <1>21, <1>0, <2>1 DEF BeforeLoop, Crash, Dies
  <2> QED
    BY <2>1, <2>2, <2>3, NoNewNotification DEF BackedInv
<1>22. ASSUME NEW i \in Idx, TermChild(i) PROVE BackedInv'
  <2>1. \A j \in Idx : Held(j)' <= Held(j)
    BY <1>22, <1>0 DEF Held, TermChild
  <2>2. /\ Edge(pbatch)' + Edge(parmed)' <= Edge(pbatch) + Edge(parmed)
        /\ backlog' = backlog
    BY <1>22, <1>0 DEF Edge, TermChild
  <2>3. BeforeLoop'
    BY <1>22, <1>0, <2>1 DEF BeforeLoop, TermChild
  <2> QED
    BY <2>1, <2>2, <2>3, NoNewNotification DEF BackedInv
<1>23. ASSUME NEW k \in Conn, Arrive(k) PROVE BackedInv'
  <2>1. \A j \in Idx : Held(j)' <= Held(j)
    BY <1>23, <1>0 DEF Arrive, ListenEdge, Held
  <2>2. Cardinality(Outstanding') <= Cardinality(Outstanding)
    BY <2>1, OutstandingShrinks
  <2>3. /\ Len(backlog') = Len(backlog) + 1 /\ Len(backlog) \in Nat
        /\ Edge(pbatch)' = Edge(pbatch) /\ Edge(parmed)' <= Edge(parmed) + 1
        /\ Edge(pbatch) \in Nat /\ Edge(parmed) \in Nat /\ Edge(parmed)' \in Nat
    BY <1>23, <1>0 DEF Arrive, ListenEdge, Edge
  <2>4. NotificationBacked'
    BY <2>2, <2>3, OutstandingFinite DEF NotificationBacked
  <2>5. BeforeLoop'
    BY <1>23, <1>0 DEF Arrive, ListenEdge, BeforeLoop, InLoop, Held
  <2> QED
    BY <2>4, <2>5
<1>24. ASSUME NEW k \in Conn, ClientSends(k) PROVE BackedInv'
  <2>1. \A j \in Idx : Held(j)' <= Held(j)
    BY <1>24, <1>0 DEF Held, ClientSends
  <2>2. /\ Edge(pbatch)' + Edge(parmed)' <= Edge(pbatch) + Edge(parmed)
        /\ backlog' = backlog
    BY <1>24, <1>0 DEF Edge, ClientSends
  <2>3. BeforeLoop'
    BY <1>24, <1>0, <2>1 DEF BeforeLoop, ClientSends
  <2> QED
    BY <2>1, <2>2, <2>3, NoNewNotification DEF BackedInv
<1>25. CASE UNCHANGED vars
  <2>1. \A j \in Idx : Held(j)' <= Held(j)
    BY <1>25, <1>0 DEF Held, vars
  <2>2. /\ Edge(pbatch)' + Edge(parmed)' <= Edge(pbatch) + Edge(parmed)
        /\ backlog' = backlog
    BY <1>25, <1>0 DEF Edge, vars
  <2>3. BeforeLoop'
    BY <1>25, <1>0, <2>1 DEF BeforeLoop, vars
  <2> QED
    BY <2>1, <2>2, <2>3, NoNewNotification DEF BackedInv
<1> QED
  BY <1>1, <1>2, <1>3, <1>4, <1>5, <1>6, <1>7, <1>8, <1>9, <1>10,
     <1>11, <1>12, <1>13, <1>14, <1>15, <1>16, <1>17, <1>18, <1>19,
     <1>20, <1>21, <1>22, <1>23, <1>24, <1>25
     DEF Next, ParentStep, ChildStep, Deliver, Environment

\* A child never calls accept for nothing: the notifications in the channels,
\* in the children's hands and about to be sent are never more than the
\* connections that wait, for any number of children, channel capacity and
\* order of arrivals, deaths and failed accepts.
THEOREM NotificationSafety == Spec => []NotificationBacked
<1>1. Init => BackedInv
  <2> SUFFICES ASSUME Init PROVE BackedInv
    OBVIOUS
  <2>1. \A i \in Idx : Held(i) = 0
    BY DEF Init, Held
  <2>2. Outstanding = {}
    BY <2>1 DEF Outstanding
  <2>3. Cardinality(Outstanding) = 0
    BY <2>2, FS_EmptySet
  <2> QED
    BY <2>1, <2>3, EmptyPipe DEF Init, BackedInv, BeforeLoop, NotificationBacked, Edge
<1>2. /\ TypeOK /\ TypeOK' /\ EventInChannel /\ BackedInv /\ [Next]_vars
      => BackedInv'
  BY BackedStep
<1> QED
  BY <1>1, <1>2, TypeCorrect, PTL DEF Spec, BackedInv

-----------------------------------------------------------------------------
(* Zombies and their signals.                                              *)

HasChld(s) == \E n \in 1 .. Len(s) : s[n] = "CHLD"

ChldOnTheWay == "CHLD" \in ppend \/ HasChld(psigpipe) \/ HasChld(sigbuf)

ZombieInv ==
    /\ ppc = "fork" => Zombies \subseteq missed
    /\ InLoop => (Zombies \subseteq missed) \/ ChldOnTheWay

\* A byte added keeps a CHLD that is there, and a CHLD is one.
LEMMA HasChldAppend ==
    ASSUME NEW s \in Seq({"CHLD", "TERM"}), NEW e \in {"CHLD", "TERM"}
    PROVE  /\ HasChld(s) => HasChld(Append(s, e))
           /\ HasChld(Append(s, "CHLD"))
<1>1. ASSUME NEW n \in 1 .. Len(s), s[n] = "CHLD" PROVE HasChld(Append(s, e))
  <2>1. n \in 1 .. Len(Append(s, e)) /\ Append(s, e)[n] = "CHLD"
    BY <1>1
  <2> QED
    BY <2>1 DEF HasChld
<1>2. HasChld(Append(s, "CHLD"))
  <2>1. /\ Len(s) + 1 \in 1 .. Len(Append(s, "CHLD"))
        /\ Append(s, "CHLD")[Len(s) + 1] = "CHLD"
    OBVIOUS
  <2> QED
    BY <2>1 DEF HasChld
<1> QED
  BY <1>1, <1>2 DEF HasChld

\* Taking another byte keeps it there.
LEMMA HasChldTail ==
    ASSUME NEW s \in Seq({"CHLD", "TERM"}), s # <<>>, Head(s) # "CHLD",
           HasChld(s)
    PROVE  HasChld(Tail(s))
<1>1. PICK n \in 1 .. Len(s) : s[n] = "CHLD"
  BY DEF HasChld
<1>2. n # 1
  BY <1>1
<1>3. n - 1 \in 1 .. Len(Tail(s)) /\ Tail(s)[n - 1] = "CHLD"
  BY <1>1, <1>2
<1> QED
  BY <1>3 DEF HasChld

\* The death of a child keeps a CHLD on its way for every zombie that is due one.
LEMMA DiesZombies ==
    ASSUME TypeOK, NEW i \in Idx, Dies(i), ZombieInv,
           UNCHANGED <<ppc, psigpipe, sigbuf>>
    PROVE  ZombieInv'
<1>1. Zombies' \subseteq Zombies \cup {i}
  BY DEF Dies, Zombies, TypeOK
<1>2. CASE InLoop
  <2>1. "CHLD" \in ppend' /\ ppc' # "fork"
    BY <1>2 DEF Dies, InLoop
  <2> QED
    BY <2>1 DEF ZombieInv, ChldOnTheWay
<1>3. CASE ppc = "fork"
  BY <1>1, <1>3 DEF Dies, ZombieInv, InLoop
<1>4. CASE ~ InLoop /\ ppc # "fork"
  BY <1>4 DEF ZombieInv, InLoop
<1> QED
  BY <1>2, <1>3, <1>4

\* Every step keeps a CHLD for every zombie that is due one.
LEMMA ZombieStep ==
    ASSUME TypeOK, ZombieInv, [Next]_vars
    PROVE  ZombieInv'
<1> USE DEF ZombieInv, ChldOnTheWay, InLoop, parentVars, childVars, netVars, auxVars, vars
<1>1. ASSUME NEW i \in Idx, Fork(i) PROVE ZombieInv'
  <2>1. Zombies' \subseteq Zombies
    BY <1>1 DEF Fork, Zombies, TypeOK
  <2> QED
    BY <1>1, <2>1 DEF Fork
<1>2. CASE ParentSetup
  <2>1. Zombies' \subseteq Zombies
    BY <1>2 DEF ParentSetup, Zombies, TypeOK
  <2> QED
    BY <1>2, <2>1 DEF ParentSetup
<1>3. CASE ParentWait
  <2>1. Zombies' \subseteq Zombies
    BY <1>3 DEF ParentWait, Zombies, TypeOK
  <2> QED
    BY <1>3, <2>1 DEF ParentWait
<1>4. CASE HandleListen
  <2>1. Zombies' \subseteq Zombies
    BY <1>4 DEF HandleListen, Zombies, TypeOK
  <2> QED
    BY <1>4, <2>1 DEF HandleListen
<1>5. CASE RecvSignals
  <2>1. Zombies' = Zombies /\ ~ HasChld(sigbuf)
    BY <1>5 DEF RecvSignals, Zombies, HasChld
  <2> QED
    BY <1>5, <2>1 DEF RecvSignals
<1>6. CASE HandleChld
  <2>1. Zombies' = {}
    BY <1>6 DEF HandleChld, Zombies, Collected
  <2> QED
    BY <2>1
<1>7. CASE HandleTerm
  <2>1. HasChld(sigbuf) => HasChld(sigbuf')
    BY <1>7, HasChldTail DEF HandleTerm, TypeOK
  <2>2. Zombies' = Zombies
    BY <1>7 DEF HandleTerm, Zombies
  <2> QED
    BY <1>7, <2>1, <2>2 DEF HandleTerm
<1>8. CASE ParentBatchDone
  <2>1. Zombies' \subseteq Zombies
    BY <1>8 DEF ParentBatchDone, Zombies, TypeOK
  <2> QED
    BY <1>8, <2>1 DEF ParentBatchDone
<1>9. ASSUME NEW i \in Idx, ChildSetup(i) PROVE ZombieInv'
  <2>1. Zombies' \subseteq Zombies
    BY <1>9 DEF ChildSetup, Zombies, TypeOK
  <2> QED
    BY <1>9, <2>1 DEF ChildSetup
<1>10. ASSUME NEW i \in Idx, ChildWait(i) PROVE ZombieInv'
  <2>1. Zombies' \subseteq Zombies
    BY <1>10 DEF ChildWait, Zombies, TypeOK
  <2> QED
    BY <1>10, <2>1 DEF ChildWait
<1>11. ASSUME NEW i \in Idx, ChildRecv(i) PROVE ZombieInv'
  <2>1. Zombies' \subseteq Zombies
    BY <1>11 DEF ChildRecv, Zombies, TypeOK
  <2> QED
    BY <1>11, <2>1 DEF ChildRecv
<1>12. ASSUME NEW i \in Idx, ChildAccept(i) PROVE ZombieInv'
  <2>1. Zombies' \subseteq Zombies
    BY <1>12 DEF ChildAccept, Zombies, TypeOK
  <2> QED
    BY <1>12, <2>1 DEF ChildAccept
<1>13. ASSUME NEW i \in Idx, ChildSig(i) PROVE ZombieInv'
  <2>1. Zombies' \subseteq Zombies
    BY <1>13 DEF ChildSig, Zombies, TypeOK
  <2> QED
    BY <1>13, <2>1 DEF ChildSig
<1>14. ASSUME NEW i \in Idx, NEW k \in Conn, ChildProcess(i, k) PROVE ZombieInv'
  <2>1. Zombies' \subseteq Zombies
    BY <1>14 DEF ChildProcess, Zombies, TypeOK
  <2> QED
    BY <1>14, <2>1 DEF ChildProcess
<1>15. ASSUME NEW i \in Idx, ChildBatchDone(i) PROVE ZombieInv'
  <2>1. CASE Dies(i)
    BY <1>15, <2>1, DiesZombies DEF ChildBatchDone
  <2>2. CASE cpc' = cpc \/ cpc' = [cpc EXCEPT ![i] = "wait"]
    <3>1. Zombies' \subseteq Zombies
      BY <2>2 DEF Zombies, TypeOK
    <3> QED
      BY <1>15, <3>1 DEF ChildBatchDone, Dies
  <2> QED
    BY <1>15, <2>1, <2>2 DEF ChildBatchDone
<1>16. ASSUME NEW s \in {"CHLD", "TERM"}, DeliverParent(s) PROVE ZombieInv'
  <2>1. CASE ppc = "fork"
    BY <1>16, <2>1 DEF DeliverParent, ParentDies
  <2>2. CASE InLoop /\ psigpipe' = Append(psigpipe, s) /\ UNCHANGED <<ppc, cpc, missed>>
    <3>1. HasChld(psigpipe) => HasChld(psigpipe')
      BY <2>2, HasChldAppend DEF TypeOK
    <3>2. s = "CHLD" => HasChld(psigpipe')
      BY <2>2, HasChldAppend DEF TypeOK
    <3>3. ppend' = ppend \ {s} /\ sigbuf' = sigbuf /\ Zombies' = Zombies
      BY <1>16, <2>2 DEF DeliverParent, Zombies
    <3> QED
      BY <2>2, <3>1, <3>2, <3>3
  <2>3. CASE /\ InLoop /\ UNCHANGED <<ppc, cpc, psigpipe>>
             /\ missed' = IF s = "CHLD" THEN missed \cup Zombies ELSE missed
    <3>1. ppend' = ppend \ {s} /\ sigbuf' = sigbuf /\ Zombies' = Zombies
      BY <1>16, <2>3 DEF DeliverParent, Zombies
    <3> QED
      BY <2>3, <3>1
  <2> QED
    BY <1>16, <2>1, <2>2, <2>3 DEF DeliverParent, InLoop
<1>17. ASSUME NEW i \in Idx, DeliverChild(i) PROVE ZombieInv'
  <2>1. CASE Dies(i)
    BY <1>17, <2>1, DiesZombies DEF DeliverChild
  <2>2. CASE cpc' = cpc \/ cpc' = [cpc EXCEPT ![i] = "wait"]
    <3>1. Zombies' \subseteq Zombies
      BY <2>2 DEF Zombies, TypeOK
    <3> QED
      BY <1>17, <3>1 DEF DeliverChild, Dies
  <2> QED
    BY <1>17, <2>1, <2>2 DEF DeliverChild
<1>18. CASE ForkFails
  <2>1. ppc' = "killed"
    BY <1>18 DEF ForkFails, ParentDies
  <2> QED
    BY <2>1
<1>19. CASE TermParent
  <2>1. Zombies' \subseteq Zombies
    BY <1>19 DEF TermParent, Zombies, TypeOK
  <2> QED
    BY <1>19, <2>1 DEF TermParent
<1>20. ASSUME NEW i \in Idx, AcceptFails(i) PROVE ZombieInv'
  <2>1. Zombies' \subseteq Zombies
    BY <1>20 DEF AcceptFails, Zombies, TypeOK
  <2> QED
    BY <1>20, <2>1 DEF AcceptFails
<1>21. ASSUME NEW i \in Idx, Crash(i) PROVE ZombieInv'
  BY <1>21, DiesZombies DEF Crash
<1>22. ASSUME NEW i \in Idx, TermChild(i) PROVE ZombieInv'
  <2>1. Zombies' \subseteq Zombies
    BY <1>22 DEF TermChild, Zombies, TypeOK
  <2> QED
    BY <1>22, <2>1 DEF TermChild
<1>23. ASSUME NEW k \in Conn, Arrive(k) PROVE ZombieInv'
  <2>1. Zombies' \subseteq Zombies
    BY <1>23 DEF Arrive, ListenEdge, Zombies, TypeOK
  <2> QED
    BY <1>23, <2>1 DEF Arrive, ListenEdge
<1>24. ASSUME NEW k \in Conn, ClientSends(k) PROVE ZombieInv'
  <2>1. Zombies' \subseteq Zombies
    BY <1>24 DEF ClientSends, Zombies, TypeOK
  <2> QED
    BY <1>24, <2>1 DEF ClientSends
<1>25. CASE UNCHANGED vars
  BY <1>25 DEF Zombies
<1> QED
  BY <1>1, <1>2, <1>3, <1>4, <1>5, <1>6, <1>7, <1>8, <1>9, <1>10,
     <1>11, <1>12, <1>13, <1>14, <1>15, <1>16, <1>17, <1>18, <1>19,
     <1>20, <1>21, <1>22, <1>23, <1>24, <1>25
     DEF Next, ParentStep, ChildStep, Deliver, Environment

\* No zombie is forgotten: unless its SIGCHLD came before the handler or found
\* the signal pipe full, one is pending, in the pipe or being handled, for
\* every capacity of the pipe and however many deaths shared it.
THEOREM ZombiesAreCollected == Spec => []NoForgottenZombie
<1>1. Init => ZombieInv
  BY DEF Init, ZombieInv, Zombies, InLoop
<1>2. TypeOK /\ ZombieInv /\ [Next]_vars => ZombieInv'
  BY ZombieStep
<1>3. ZombieInv => NoForgottenZombie
  BY DEF ZombieInv, NoForgottenZombie, ChldOnTheWay, HasChld
<1> QED
  BY <1>1, <1>2, <1>3, TypeCorrect, PTL DEF Spec
=============================================================================
