-------------------------- MODULE ThreadPoolProofs --------------------------
(***************************************************************************)
(* Theorems about ThreadPool, for every finite number of workers and       *)
(* producers, every set of requests and every max_requests.                *)
(***************************************************************************)
EXTENDS ThreadPool, FiniteSetTheorems, TLAPS

-----------------------------------------------------------------------------
(* Sequences.                                                              *)

\* The empty sequence.
LEMMA EmptySeq == ASSUME NEW S PROVE <<>> \in Seq(S) /\ Len(<<>>) = 0
OBVIOUS

\* What Append gives.
LEMMA AppendSeq ==
    ASSUME NEW S, NEW s \in Seq(S), NEW e \in S
    PROVE  /\ Append(s, e) \in Seq(S)
           /\ Len(Append(s, e)) = Len(s) + 1
           /\ Append(s, e)[Len(s) + 1] = e
           /\ \A i \in 1 .. Len(s) : Append(s, e)[i] = s[i]
OBVIOUS

\* What Tail gives.
LEMMA TailSeq ==
    ASSUME NEW S, NEW s \in Seq(S), s # <<>>
    PROVE  /\ Tail(s) \in Seq(S)
           /\ Len(s) \in Nat \ {0}
           /\ Len(Tail(s)) = Len(s) - 1
           /\ Head(s) = s[1] /\ Head(s) \in S
           /\ \A i \in 1 .. Len(s) - 1 : Tail(s)[i] = s[i + 1]
OBVIOUS

-----------------------------------------------------------------------------
(* Type correctness and mutual exclusion.                                  *)

\* The lock: a thread between lock and unlock holds it.
LockHeld ==
    /\ \A t \in Producer : ppc[t] \in {"locked", "pushed"} => m_queuelocker = t
    /\ \A w \in Worker : wpc[w] \in {"locked", "took"} => m_queuelocker = w

\* A producer that appends has a request, and a worker that has seen the front
\* finds it there when it pops.
CallsOK ==
    /\ \A t \in Producer : ppc[t] # "idle" => arg[t] \in Req
    /\ \A w \in Worker :
          /\ wpc[w] = "took" => m_workqueue # <<>> /\ request[w] = Head(m_workqueue)
          /\ wpc[w] = "run" => request[w] \in Req \ NullReq

TypeInv == TypeOK /\ LockHeld /\ CallsOK

\* The invariant of types and lock holds at the start.
LEMMA InitTypeInv == Init => TypeInv
<1> SUFFICES ASSUME Init PROVE TypeInv
  OBVIOUS
<1>1. /\ m_workqueue \in Seq(Req) /\ Len(m_workqueue) <= max_requests + 1
      /\ accepted \in Seq(Req)
  BY EmptySeq, MaxRequestsAssumption DEF Init
<1>2. intrs \in 0 .. MaxIntr
  BY IntrAssumption DEF Init
<1> QED
  BY <1>1, <1>2 DEF Init, TypeInv, TypeOK, LockHeld, CallsOK

\* Every step keeps the types: what is pushed and taken is a request, and a
\* producer pushes only after it saw room.
LEMMA TypeOKStep ==
    ASSUME TypeInv, [Next]_vars
    PROVE  TypeOK'
<1> USE DEF TypeInv, TypeOK, LockHeld, CallsOK, workerVars, callVars, histVars, vars
<1>1. ASSUME NEW w \in Worker, CreateThread(w) PROVE TypeOK'
  BY <1>1 DEF CreateThread
<1>20. ASSUME NEW w \in Worker, DetachFails(w) PROVE TypeOK'
  BY <1>20 DEF DetachFails
<1>2. CASE CreateFails
  BY <1>2 DEF CreateFails
<1>3. CASE Destructor
  BY <1>3 DEF Destructor
<1>4. CASE DestroyMembers
  BY <1>4 DEF DestroyMembers
<1>5. ASSUME NEW t \in Producer, NEW r \in Req, AppendLock(t, r) PROVE TypeOK'
  BY <1>5 DEF AppendLock, LockFree
<1>6. ASSUME NEW t \in Producer, AppendRefuse(t) PROVE TypeOK'
  BY <1>6 DEF AppendRefuse
<1>7. ASSUME NEW t \in Producer, AppendPush(t) PROVE TypeOK'
  <2>1. arg[t] \in Req
    BY <1>7 DEF AppendPush
  <2>2. /\ m_workqueue' \in Seq(Req) /\ Len(m_workqueue') = Len(m_workqueue) + 1
        /\ accepted' \in Seq(Req)
    BY <1>7, <2>1, AppendSeq DEF AppendPush
  <2>3. Len(m_workqueue') <= max_requests + 1
    BY <1>7, <2>2, MaxRequestsAssumption DEF AppendPush, Full
  <2> QED
    BY <1>7, <2>2, <2>3 DEF AppendPush
<1>8. ASSUME NEW t \in Producer, AppendUnlock(t) PROVE TypeOK'
  BY <1>8 DEF AppendUnlock
<1>9. ASSUME NEW t \in Producer, AppendPost(t) PROVE TypeOK'
  BY <1>9 DEF AppendPost, Posted
<1>10. ASSUME NEW w \in Worker, WorkerTest(w) PROVE TypeOK'
  BY <1>10 DEF WorkerTest
<1>11. ASSUME NEW w \in Worker, WorkerWait(w) PROVE TypeOK'
  BY <1>11 DEF WorkerWait, Positive
<1>12. ASSUME NEW w \in Worker, WaitInterrupted(w) PROVE TypeOK'
  BY <1>12, IntrAssumption DEF WaitInterrupted
<1>13. ASSUME NEW w \in Worker, WorkerLock(w) PROVE TypeOK'
  BY <1>13 DEF WorkerLock, LockFree
<1>14. ASSUME NEW w \in Worker, WorkerEmpty(w) PROVE TypeOK'
  BY <1>14 DEF WorkerEmpty
<1>15. ASSUME NEW w \in Worker, WorkerFront(w) PROVE TypeOK'
  <2>1. Front \in Req
    BY <1>15, TailSeq DEF WorkerFront, Front
  <2> QED
    BY <1>15, <2>1 DEF WorkerFront
<1>16. ASSUME NEW w \in Worker, WorkerPop(w) PROVE TypeOK'
  <2>1. m_workqueue # <<>>
    BY <1>16 DEF WorkerPop
  <2>2. m_workqueue' \in Seq(Req) /\ Len(m_workqueue') = Len(m_workqueue) - 1
    BY <1>16, <2>1, TailSeq DEF WorkerPop
  <2>3. Len(m_workqueue') <= max_requests + 1
    BY <2>2, MaxRequestsAssumption
  <2> QED
    BY <1>16, <2>2, <2>3 DEF WorkerPop
<1>17. ASSUME NEW w \in Worker, WorkerFinish(w) PROVE TypeOK'
  BY <1>17 DEF WorkerFinish
<1>18. ASSUME NEW w \in Worker, TouchDestroyed(w) PROVE TypeOK'
  BY <1>18 DEF TouchDestroyed
<1>19. CASE UNCHANGED vars
  BY <1>19
<1> QED
  BY <1>1, <1>2, <1>3, <1>4, <1>5, <1>6, <1>7, <1>8, <1>9, <1>10,
     <1>11, <1>12, <1>13, <1>14, <1>15, <1>16, <1>17, <1>18, <1>19, <1>20
     DEF Next, Owner, ProducerStep, WorkerStep

\* No step takes the lock from its holder.
LEMMA LockHeldStep ==
    ASSUME TypeInv, [Next]_vars
    PROVE  LockHeld'
<1> USE DEF TypeInv, TypeOK, LockHeld, workerVars, callVars, histVars, vars
<1>1. ASSUME NEW w \in Worker, CreateThread(w) PROVE LockHeld'
  BY <1>1 DEF CreateThread
<1>20. ASSUME NEW w \in Worker, DetachFails(w) PROVE LockHeld'
  BY <1>20 DEF DetachFails
<1>2. CASE CreateFails
  BY <1>2 DEF CreateFails
<1>3. CASE Destructor
  BY <1>3 DEF Destructor
<1>4. CASE DestroyMembers
  BY <1>4 DEF DestroyMembers
<1>5. ASSUME NEW t \in Producer, NEW r \in Req, AppendLock(t, r) PROVE LockHeld'
  BY <1>5, ThreadAssumption DEF AppendLock, LockFree
<1>6. ASSUME NEW t \in Producer, AppendRefuse(t) PROVE LockHeld'
  BY <1>6, ThreadAssumption DEF AppendRefuse
<1>7. ASSUME NEW t \in Producer, AppendPush(t) PROVE LockHeld'
  BY <1>7 DEF AppendPush
<1>8. ASSUME NEW t \in Producer, AppendUnlock(t) PROVE LockHeld'
  BY <1>8, ThreadAssumption DEF AppendUnlock
<1>9. ASSUME NEW t \in Producer, AppendPost(t) PROVE LockHeld'
  BY <1>9 DEF AppendPost
<1>10. ASSUME NEW w \in Worker, WorkerTest(w) PROVE LockHeld'
  BY <1>10 DEF WorkerTest
<1>11. ASSUME NEW w \in Worker, WorkerWait(w) PROVE LockHeld'
  BY <1>11 DEF WorkerWait
<1>12. ASSUME NEW w \in Worker, WaitInterrupted(w) PROVE LockHeld'
  BY <1>12 DEF WaitInterrupted
<1>13. ASSUME NEW w \in Worker, WorkerLock(w) PROVE LockHeld'
  BY <1>13, ThreadAssumption DEF WorkerLock, LockFree
<1>14. ASSUME NEW w \in Worker, WorkerEmpty(w) PROVE LockHeld'
  BY <1>14, ThreadAssumption DEF WorkerEmpty
<1>15. ASSUME NEW w \in Worker, WorkerFront(w) PROVE LockHeld'
  BY <1>15 DEF WorkerFront
<1>16. ASSUME NEW w \in Worker, WorkerPop(w) PROVE LockHeld'
  BY <1>16, ThreadAssumption DEF WorkerPop
<1>17. ASSUME NEW w \in Worker, WorkerFinish(w) PROVE LockHeld'
  BY <1>17 DEF WorkerFinish
<1>18. ASSUME NEW w \in Worker, TouchDestroyed(w) PROVE LockHeld'
  BY <1>18 DEF TouchDestroyed
<1>19. CASE UNCHANGED vars
  BY <1>19
<1> QED
  BY <1>1, <1>2, <1>3, <1>4, <1>5, <1>6, <1>7, <1>8, <1>9, <1>10,
     <1>11, <1>12, <1>13, <1>14, <1>15, <1>16, <1>17, <1>18, <1>19, <1>20
     DEF Next, Owner, ProducerStep, WorkerStep

\* No step of another thread touches what a thread holds the lock for.
LEMMA CallsOKStep ==
    ASSUME TypeInv, [Next]_vars
    PROVE  CallsOK'
<1> USE DEF TypeInv, TypeOK, LockHeld, CallsOK, workerVars, callVars, histVars, vars
<1>1. ASSUME NEW w \in Worker, CreateThread(w) PROVE CallsOK'
  BY <1>1 DEF CreateThread
<1>20. ASSUME NEW w \in Worker, DetachFails(w) PROVE CallsOK'
  BY <1>20 DEF DetachFails
<1>2. CASE CreateFails
  BY <1>2 DEF CreateFails
<1>3. CASE Destructor
  BY <1>3 DEF Destructor
<1>4. CASE DestroyMembers
  BY <1>4 DEF DestroyMembers
<1>5. ASSUME NEW t \in Producer, NEW r \in Req, AppendLock(t, r) PROVE CallsOK'
  BY <1>5 DEF AppendLock, LockFree
<1>6. ASSUME NEW t \in Producer, AppendRefuse(t) PROVE CallsOK'
  BY <1>6 DEF AppendRefuse
<1>7. ASSUME NEW t \in Producer, AppendPush(t) PROVE CallsOK'
  <2>1. \A w \in Worker : wpc[w] # "took"
    BY <1>7, ThreadAssumption DEF AppendPush
  <2> QED
    BY <1>7, <2>1 DEF AppendPush
<1>8. ASSUME NEW t \in Producer, AppendUnlock(t) PROVE CallsOK'
  BY <1>8 DEF AppendUnlock
<1>9. ASSUME NEW t \in Producer, AppendPost(t) PROVE CallsOK'
  BY <1>9 DEF AppendPost
<1>10. ASSUME NEW w \in Worker, WorkerTest(w) PROVE CallsOK'
  BY <1>10 DEF WorkerTest
<1>11. ASSUME NEW w \in Worker, WorkerWait(w) PROVE CallsOK'
  BY <1>11 DEF WorkerWait
<1>12. ASSUME NEW w \in Worker, WaitInterrupted(w) PROVE CallsOK'
  BY <1>12 DEF WaitInterrupted
<1>13. ASSUME NEW w \in Worker, WorkerLock(w) PROVE CallsOK'
  BY <1>13 DEF WorkerLock
<1>14. ASSUME NEW w \in Worker, WorkerEmpty(w) PROVE CallsOK'
  BY <1>14 DEF WorkerEmpty
<1>15. ASSUME NEW w \in Worker, WorkerFront(w) PROVE CallsOK'
  BY <1>15 DEF WorkerFront, Front
<1>16. ASSUME NEW w \in Worker, WorkerPop(w) PROVE CallsOK'
  <2>1. \A v \in Worker : v # w => wpc[v] # "took"
    BY <1>16 DEF WorkerPop
  <2>2. m_workqueue # <<>> /\ request[w] = Head(m_workqueue)
    BY <1>16 DEF WorkerPop
  <2>3. request[w] \in Req
    BY <2>2, TailSeq
  <2> QED
    BY <1>16, <2>1, <2>3 DEF WorkerPop
<1>17. ASSUME NEW w \in Worker, WorkerFinish(w) PROVE CallsOK'
  BY <1>17 DEF WorkerFinish
<1>18. ASSUME NEW w \in Worker, TouchDestroyed(w) PROVE CallsOK'
  BY <1>18 DEF TouchDestroyed
<1>19. CASE UNCHANGED vars
  BY <1>19
<1> QED
  BY <1>1, <1>2, <1>3, <1>4, <1>5, <1>6, <1>7, <1>8, <1>9, <1>10,
     <1>11, <1>12, <1>13, <1>14, <1>15, <1>16, <1>17, <1>18, <1>19, <1>20
     DEF Next, Owner, ProducerStep, WorkerStep

\* TypeInv is inductive.
LEMMA TypeInvStep == TypeInv /\ [Next]_vars => TypeInv'
BY TypeOKStep, LockHeldStep, CallsOKStep DEF TypeInv

\* Type correctness: in every reachable state the variables have their types, in
\* particular the queue never holds more than max_requests + 1 requests.
THEOREM TypeCorrect == Spec => []TypeOK
<1>1. Spec => []TypeInv
  BY InitTypeInv, TypeInvStep, PTL DEF Spec
<1>2. TypeInv => TypeOK
  BY DEF TypeInv
<1> QED
  BY <1>1, <1>2, PTL

-----------------------------------------------------------------------------
(* The queue and its history.                                              *)

\* How many requests have been taken up.
Started == Len(accepted) - Len(m_workqueue)

Taken(r) == \E i \in 1 .. Started : accepted[i] = r

\* The queue holds the requests accepted and not yet taken, in order.
QueueOK ==
    /\ Len(m_workqueue) <= Len(accepted)
    /\ \A i \in 1 .. Len(m_workqueue) : m_workqueue[i] = accepted[Started + i]

\* No request is accepted twice.
AcceptedOnce ==
    /\ \A i, j \in 1 .. Len(accepted) : accepted[i] = accepted[j] => i = j
    /\ \A t \in Producer : ppc[t] = "locked" =>
          \A i \in 1 .. Len(accepted) : accepted[i] # arg[t]

\* What a worker processes was taken from the queue, and by no other.
RunsOnce ==
    /\ \A w \in Worker : wpc[w] = "run" =>
          Taken(request[w]) /\ request[w] \notin finished
    /\ \A v, w \in Worker :
          wpc[v] = "run" /\ wpc[w] = "run" /\ request[v] = request[w] => v = w
    /\ \A r \in finished : Taken(r)

HistoryInv == QueueOK /\ AcceptedOnce /\ RunsOnce

\* What a push does to queue and history.
LEMMA PushFacts ==
    ASSUME TypeInv, QueueOK, NEW t \in Producer, AppendPush(t)
    PROVE  /\ Len(m_workqueue) \in Nat /\ Len(accepted) \in Nat
           /\ Len(m_workqueue') = Len(m_workqueue) + 1
           /\ Len(accepted') = Len(accepted) + 1
           /\ Started' = Started /\ Started \in 0 .. Len(accepted)
           /\ \A i \in 1 .. Len(accepted) : accepted'[i] = accepted[i]
           /\ \A i \in 1 .. Len(m_workqueue) : m_workqueue'[i] = m_workqueue[i]
           /\ accepted'[Len(accepted) + 1] = arg[t]
           /\ m_workqueue'[Len(m_workqueue) + 1] = arg[t]
<1>1. arg[t] \in Req /\ m_workqueue \in Seq(Req) /\ accepted \in Seq(Req)
  BY DEF TypeInv, TypeOK, CallsOK, AppendPush
<1>2. Len(m_workqueue) \in Nat /\ Len(accepted) \in Nat
  BY <1>1
<1>3. m_workqueue' = Append(m_workqueue, arg[t]) /\ accepted' = Append(accepted, arg[t])
  BY DEF AppendPush
<1>4. /\ Len(m_workqueue') = Len(m_workqueue) + 1
      /\ \A i \in 1 .. Len(m_workqueue) : m_workqueue'[i] = m_workqueue[i]
      /\ m_workqueue'[Len(m_workqueue) + 1] = arg[t]
  BY <1>1, <1>3, AppendSeq
<1>5. /\ Len(accepted') = Len(accepted) + 1
      /\ \A i \in 1 .. Len(accepted) : accepted'[i] = accepted[i]
      /\ accepted'[Len(accepted) + 1] = arg[t]
  BY <1>1, <1>3, AppendSeq
<1>6. Started' = Started /\ Started \in 0 .. Len(accepted)
  BY <1>2, <1>4, <1>5 DEF Started, QueueOK
<1> QED
  BY <1>2, <1>4, <1>5, <1>6

\* What a pop does to queue and history.
LEMMA PopFacts ==
    ASSUME TypeInv, QueueOK, NEW w \in Worker, WorkerPop(w)
    PROVE  /\ Len(m_workqueue) \in Nat \ {0} /\ Len(accepted) \in Nat
           /\ Len(m_workqueue') = Len(m_workqueue) - 1
           /\ accepted' = accepted
           /\ Started' = Started + 1 /\ Started \in 0 .. Len(accepted) - 1
           /\ request[w] = accepted[Started + 1]
           /\ \A i \in 1 .. Len(m_workqueue) - 1 :
                  m_workqueue'[i] = m_workqueue[i + 1]
<1>1. /\ m_workqueue # <<>> /\ request[w] = Head(m_workqueue)
      /\ m_workqueue \in Seq(Req) /\ accepted \in Seq(Req)
  BY DEF TypeInv, TypeOK, CallsOK, WorkerPop
<1>2. Len(accepted) \in Nat
  BY <1>1
<1>3. m_workqueue' = Tail(m_workqueue) /\ accepted' = accepted
  BY DEF WorkerPop, histVars
<1>4. /\ Len(m_workqueue) \in Nat \ {0}
      /\ Len(m_workqueue') = Len(m_workqueue) - 1
      /\ request[w] = m_workqueue[1]
      /\ \A i \in 1 .. Len(m_workqueue) - 1 : m_workqueue'[i] = m_workqueue[i + 1]
  BY <1>1, <1>3, TailSeq
<1>5. Started' = Started + 1 /\ Started \in 0 .. Len(accepted) - 1
  BY <1>2, <1>3, <1>4 DEF Started, QueueOK
<1>6. request[w] = accepted[Started + 1]
  BY <1>4 DEF QueueOK
<1> QED
  BY <1>2, <1>3, <1>4, <1>5, <1>6

\* At the start nothing has been accepted.
LEMMA InitHistoryInv == Init => HistoryInv
<1> SUFFICES ASSUME Init PROVE HistoryInv
  OBVIOUS
<1>1. Len(m_workqueue) = 0 /\ Len(accepted) = 0
  BY EmptySeq DEF Init
<1> QED
  BY <1>1 DEF Init, HistoryInv, QueueOK, AcceptedOnce, RunsOnce, Started, Taken

\* Pushes and pops keep the queue the part of the history not yet taken.
LEMMA QueueOKStep ==
    ASSUME TypeInv, QueueOK, [Next]_vars
    PROVE  QueueOK'
<1> USE DEF QueueOK, Started, workerVars, callVars, histVars, vars
<1>1. ASSUME NEW w \in Worker, CreateThread(w) PROVE QueueOK'
  BY <1>1 DEF CreateThread
<1>20. ASSUME NEW w \in Worker, DetachFails(w) PROVE QueueOK'
  BY <1>20 DEF DetachFails
<1>2. CASE CreateFails
  BY <1>2 DEF CreateFails
<1>3. CASE Destructor
  BY <1>3 DEF Destructor
<1>4. CASE DestroyMembers
  BY <1>4 DEF DestroyMembers
<1>5. ASSUME NEW t \in Producer, NEW r \in Req, AppendLock(t, r) PROVE QueueOK'
  BY <1>5 DEF AppendLock
<1>6. ASSUME NEW t \in Producer, AppendRefuse(t) PROVE QueueOK'
  BY <1>6 DEF AppendRefuse
<1>7. ASSUME NEW t \in Producer, AppendPush(t) PROVE QueueOK'
  <2> HIDE DEF QueueOK, Started
  <2>1. Len(m_workqueue') <= Len(accepted')
    BY <1>7, PushFacts DEF QueueOK
  <2>2. ASSUME NEW i \in 1 .. Len(m_workqueue) + 1
        PROVE  m_workqueue'[i] = accepted'[Started + i]
    <3>1. CASE i = Len(m_workqueue) + 1
      <4>1. Started + i = Len(accepted) + 1
        BY <1>7, <3>1, PushFacts DEF Started
      <4> QED
        BY <1>7, <3>1, <4>1, PushFacts
    <3>2. CASE i \in 1 .. Len(m_workqueue)
      <4>1. Started + i \in 1 .. Len(accepted)
        BY <1>7, <3>2, PushFacts DEF Started
      <4> QED
        BY <1>7, <3>2, <4>1, PushFacts DEF QueueOK
    <3> QED
      BY <1>7, <3>1, <3>2, PushFacts
  <2> QED
    BY <1>7, <2>1, <2>2, PushFacts DEF QueueOK
<1>8. ASSUME NEW t \in Producer, AppendUnlock(t) PROVE QueueOK'
  BY <1>8 DEF AppendUnlock
<1>9. ASSUME NEW t \in Producer, AppendPost(t) PROVE QueueOK'
  BY <1>9 DEF AppendPost
<1>10. ASSUME NEW w \in Worker, WorkerTest(w) PROVE QueueOK'
  BY <1>10 DEF WorkerTest
<1>11. ASSUME NEW w \in Worker, WorkerWait(w) PROVE QueueOK'
  BY <1>11 DEF WorkerWait
<1>12. ASSUME NEW w \in Worker, WaitInterrupted(w) PROVE QueueOK'
  BY <1>12 DEF WaitInterrupted
<1>13. ASSUME NEW w \in Worker, WorkerLock(w) PROVE QueueOK'
  BY <1>13 DEF WorkerLock
<1>14. ASSUME NEW w \in Worker, WorkerEmpty(w) PROVE QueueOK'
  BY <1>14 DEF WorkerEmpty
<1>15. ASSUME NEW w \in Worker, WorkerFront(w) PROVE QueueOK'
  BY <1>15 DEF WorkerFront
<1>16. ASSUME NEW w \in Worker, WorkerPop(w) PROVE QueueOK'
  <2> HIDE DEF QueueOK, Started
  <2>1. Len(m_workqueue') <= Len(accepted')
    BY <1>16, PopFacts DEF QueueOK
  <2>2. ASSUME NEW i \in 1 .. Len(m_workqueue) - 1
        PROVE  m_workqueue'[i] = accepted[Started + 1 + i]
    <3>1. i + 1 \in 1 .. Len(m_workqueue) /\ Started + (i + 1) = Started + 1 + i
      BY <1>16, PopFacts
    <3> QED
      BY <1>16, <3>1, PopFacts DEF QueueOK
  <2> QED
    BY <1>16, <2>1, <2>2, PopFacts DEF QueueOK
<1>17. ASSUME NEW w \in Worker, WorkerFinish(w) PROVE QueueOK'
  BY <1>17 DEF WorkerFinish
<1>18. ASSUME NEW w \in Worker, TouchDestroyed(w) PROVE QueueOK'
  BY <1>18 DEF TouchDestroyed
<1>19. CASE UNCHANGED vars
  BY <1>19
<1> QED
  BY <1>1, <1>2, <1>3, <1>4, <1>5, <1>6, <1>7, <1>8, <1>9, <1>10,
     <1>11, <1>12, <1>13, <1>14, <1>15, <1>16, <1>17, <1>18, <1>19, <1>20
     DEF Next, Owner, ProducerStep, WorkerStep

\* A producer brings a request that is nowhere yet.
LEMMA AcceptedOnceStep ==
    ASSUME TypeInv, QueueOK, AcceptedOnce, [Next]_vars
    PROVE  AcceptedOnce'
<1> USE DEF AcceptedOnce, workerVars, callVars, histVars, vars
<1>1. ASSUME NEW w \in Worker, CreateThread(w) PROVE AcceptedOnce'
  BY <1>1 DEF CreateThread
<1>20. ASSUME NEW w \in Worker, DetachFails(w) PROVE AcceptedOnce'
  BY <1>20 DEF DetachFails
<1>2. CASE CreateFails
  BY <1>2 DEF CreateFails
<1>3. CASE Destructor
  BY <1>3 DEF Destructor
<1>4. CASE DestroyMembers
  BY <1>4 DEF DestroyMembers
<1>5. ASSUME NEW t \in Producer, NEW r \in Req, AppendLock(t, r) PROVE AcceptedOnce'
  <2>1. \A i \in 1 .. Len(accepted) : accepted[i] # r
    BY <1>5 DEF AppendLock, InUse
  <2> QED
    BY <1>5, <2>1 DEF AppendLock, TypeInv, TypeOK
<1>6. ASSUME NEW t \in Producer, AppendRefuse(t) PROVE AcceptedOnce'
  BY <1>6 DEF AppendRefuse, TypeInv, TypeOK
<1>7. ASSUME NEW t \in Producer, AppendPush(t) PROVE AcceptedOnce'
  <2> HIDE DEF AcceptedOnce
  <2>1. \A i \in 1 .. Len(accepted) : accepted[i] # arg[t]
    BY <1>7 DEF AcceptedOnce, AppendPush
  <2>2. \A i \in 1 .. Len(accepted) + 1 : i \in 1 .. Len(accepted) \/ i = Len(accepted) + 1
    BY <1>7, PushFacts
  <2>3. \A i, j \in 1 .. Len(accepted') : accepted'[i] = accepted'[j] => i = j
    BY <1>7, <2>1, <2>2, PushFacts DEF AcceptedOnce
  <2>4. \A u \in Producer : ppc'[u] # "locked"
    BY <1>7 DEF AppendPush, TypeInv, TypeOK, LockHeld
  <2> QED
    BY <2>3, <2>4 DEF AcceptedOnce
<1>8. ASSUME NEW t \in Producer, AppendUnlock(t) PROVE AcceptedOnce'
  BY <1>8 DEF AppendUnlock
<1>9. ASSUME NEW t \in Producer, AppendPost(t) PROVE AcceptedOnce'
  BY <1>9 DEF AppendPost
<1>10. ASSUME NEW w \in Worker, WorkerTest(w) PROVE AcceptedOnce'
  BY <1>10 DEF WorkerTest
<1>11. ASSUME NEW w \in Worker, WorkerWait(w) PROVE AcceptedOnce'
  BY <1>11 DEF WorkerWait
<1>12. ASSUME NEW w \in Worker, WaitInterrupted(w) PROVE AcceptedOnce'
  BY <1>12 DEF WaitInterrupted
<1>13. ASSUME NEW w \in Worker, WorkerLock(w) PROVE AcceptedOnce'
  BY <1>13 DEF WorkerLock
<1>14. ASSUME NEW w \in Worker, WorkerEmpty(w) PROVE AcceptedOnce'
  BY <1>14 DEF WorkerEmpty
<1>15. ASSUME NEW w \in Worker, WorkerFront(w) PROVE AcceptedOnce'
  BY <1>15 DEF WorkerFront
<1>16. ASSUME NEW w \in Worker, WorkerPop(w) PROVE AcceptedOnce'
  BY <1>16 DEF WorkerPop
<1>17. ASSUME NEW w \in Worker, WorkerFinish(w) PROVE AcceptedOnce'
  BY <1>17 DEF WorkerFinish
<1>18. ASSUME NEW w \in Worker, TouchDestroyed(w) PROVE AcceptedOnce'
  BY <1>18 DEF TouchDestroyed
<1>19. CASE UNCHANGED vars
  BY <1>19
<1> QED
  BY <1>1, <1>2, <1>3, <1>4, <1>5, <1>6, <1>7, <1>8, <1>9, <1>10,
     <1>11, <1>12, <1>13, <1>14, <1>15, <1>16, <1>17, <1>18, <1>19, <1>20
     DEF Next, Owner, ProducerStep, WorkerStep

\* A request is taken by the worker that pops it, which is the next in the history.
LEMMA RunsOnceStep ==
    ASSUME TypeInv, HistoryInv, [Next]_vars
    PROVE  RunsOnce'
<1> USE DEF HistoryInv, RunsOnce, Taken, Started, TypeInv, TypeOK, workerVars, callVars, histVars, vars
<1>1. ASSUME NEW w \in Worker, CreateThread(w) PROVE RunsOnce'
  BY <1>1 DEF CreateThread
<1>20. ASSUME NEW w \in Worker, DetachFails(w) PROVE RunsOnce'
  BY <1>20 DEF DetachFails
<1>2. CASE CreateFails
  BY <1>2 DEF CreateFails
<1>3. CASE Destructor
  BY <1>3 DEF Destructor
<1>4. CASE DestroyMembers
  BY <1>4 DEF DestroyMembers
<1>5. ASSUME NEW t \in Producer, NEW r \in Req, AppendLock(t, r) PROVE RunsOnce'
  BY <1>5 DEF AppendLock
<1>6. ASSUME NEW t \in Producer, AppendRefuse(t) PROVE RunsOnce'
  BY <1>6 DEF AppendRefuse
<1>7. ASSUME NEW t \in Producer, AppendPush(t) PROVE RunsOnce'
  <2> HIDE DEF RunsOnce, Taken, Started, HistoryInv
  <2>1. QueueOK
    BY DEF HistoryInv
  <2>2. \A r : Taken(r) => Taken(r)'
    BY <1>7, <2>1, PushFacts, SMTT(30) DEF Taken
  <2> QED
    BY <1>7, <2>2 DEF RunsOnce, HistoryInv, AppendPush
<1>8. ASSUME NEW t \in Producer, AppendUnlock(t) PROVE RunsOnce'
  BY <1>8 DEF AppendUnlock
<1>9. ASSUME NEW t \in Producer, AppendPost(t) PROVE RunsOnce'
  BY <1>9 DEF AppendPost
<1>10. ASSUME NEW w \in Worker, WorkerTest(w) PROVE RunsOnce'
  BY <1>10 DEF WorkerTest
<1>11. ASSUME NEW w \in Worker, WorkerWait(w) PROVE RunsOnce'
  BY <1>11 DEF WorkerWait
<1>12. ASSUME NEW w \in Worker, WaitInterrupted(w) PROVE RunsOnce'
  BY <1>12 DEF WaitInterrupted
<1>13. ASSUME NEW w \in Worker, WorkerLock(w) PROVE RunsOnce'
  BY <1>13 DEF WorkerLock
<1>14. ASSUME NEW w \in Worker, WorkerEmpty(w) PROVE RunsOnce'
  BY <1>14 DEF WorkerEmpty
<1>15. ASSUME NEW w \in Worker, WorkerFront(w) PROVE RunsOnce'
  BY <1>15 DEF WorkerFront
<1>16. ASSUME NEW w \in Worker, WorkerPop(w) PROVE RunsOnce'
  <2> HIDE DEF RunsOnce, Taken, Started, HistoryInv, TypeInv
  <2>1. QueueOK /\ AcceptedOnce /\ RunsOnce
    BY DEF HistoryInv
  <2>2. \A r : Taken(r) => Taken(r)'
    BY <1>16, <2>1, PopFacts DEF Taken
  <2>3. Taken(request[w])'
    <3>1. Started + 1 \in 1 .. Started'
      BY <1>16, <2>1, PopFacts
    <3>2. accepted'[Started + 1] = request'[w]
      BY <1>16, <2>1, PopFacts DEF WorkerPop
    <3> QED
      BY <3>1, <3>2 DEF Taken
  <2>4. ~ Taken(request[w])
    BY <1>16, <2>1, PopFacts DEF Taken, AcceptedOnce
  <2>5. request[w] \notin finished /\
        \A v \in Worker : wpc[v] = "run" => request[v] # request[w]
    BY <2>1, <2>4 DEF RunsOnce
  <2> QED
    BY <1>16, <2>1, <2>2, <2>3, <2>5 DEF RunsOnce, WorkerPop, TypeInv
<1>17. ASSUME NEW w \in Worker, WorkerFinish(w) PROVE RunsOnce'
  BY <1>17 DEF WorkerFinish
<1>18. ASSUME NEW w \in Worker, TouchDestroyed(w) PROVE RunsOnce'
  BY <1>18 DEF TouchDestroyed
<1>19. CASE UNCHANGED vars
  BY <1>19
<1> QED
  BY <1>1, <1>2, <1>3, <1>4, <1>5, <1>6, <1>7, <1>8, <1>9, <1>10,
     <1>11, <1>12, <1>13, <1>14, <1>15, <1>16, <1>17, <1>18, <1>19, <1>20
     DEF Next, Owner, ProducerStep, WorkerStep

\* HistoryInv is inductive relative to TypeInv.
LEMMA HistoryInvStep == TypeInv /\ HistoryInv /\ [Next]_vars => HistoryInv'
BY QueueOKStep, AcceptedOnceStep, RunsOnceStep DEF HistoryInv

\* Both invariants hold throughout.
LEMMA Invariants == Spec => [](TypeInv /\ HistoryInv)
<1>1. Init => TypeInv /\ HistoryInv
  BY InitTypeInv, InitHistoryInv
<1>2. TypeInv /\ HistoryInv /\ [Next]_vars => (TypeInv /\ HistoryInv)'
  BY TypeInvStep, HistoryInvStep
<1> QED
  BY <1>1, <1>2, PTL DEF Spec

-----------------------------------------------------------------------------
(* The pool implements WorkQueue.                                          *)

\* The pool starts as the abstract queue does.
LEMMA WQInit == Init => WQ!Init
<1> SUFFICES ASSUME Init PROVE WQ!Init
  OBVIOUS
<1>1. Len(accepted) = 0 /\ Len(m_workqueue) = 0
  BY EmptySeq DEF Init
<1> QED
  BY <1>1 DEF Init, WQ!Init

\* A push is an Accept, a pop a Start, the end of process() a Finish; everything
\* else is invisible.
LEMMA WQStep ==
    ASSUME TypeInv, HistoryInv, [Next]_vars
    PROVE  [WQ!Next]_(WQ!vars)
<1> USE DEF HistoryInv, WQ!vars, workerVars, callVars, histVars, vars
<1>1. ASSUME NEW w \in Worker, CreateThread(w) PROVE [WQ!Next]_(WQ!vars)
  BY <1>1 DEF CreateThread
<1>20. ASSUME NEW w \in Worker, DetachFails(w) PROVE [WQ!Next]_(WQ!vars)
  BY <1>20 DEF DetachFails
<1>2. CASE CreateFails
  BY <1>2 DEF CreateFails
<1>3. CASE Destructor
  BY <1>3 DEF Destructor
<1>4. CASE DestroyMembers
  BY <1>4 DEF DestroyMembers
<1>5. ASSUME NEW t \in Producer, NEW r \in Req, AppendLock(t, r) PROVE [WQ!Next]_(WQ!vars)
  BY <1>5 DEF AppendLock
<1>6. ASSUME NEW t \in Producer, AppendRefuse(t) PROVE [WQ!Next]_(WQ!vars)
  BY <1>6 DEF AppendRefuse
<1>7. ASSUME NEW t \in Producer, AppendPush(t) PROVE [WQ!Next]_(WQ!vars)
  <2> HIDE DEF HistoryInv
  <2>1. QueueOK /\ AcceptedOnce
    BY DEF HistoryInv
  <2>2. arg[t] \in Req /\ accepted' = Append(accepted, arg[t])
    BY <1>7 DEF AppendPush, TypeInv, CallsOK
  <2>3. \A i \in 1 .. Len(accepted) : accepted[i] # arg[t]
    BY <1>7, <2>1 DEF AcceptedOnce, AppendPush
  <2>4. Len(accepted) - Started < max_requests + 1
    BY <1>7, <2>1, PushFacts, MaxRequestsAssumption DEF AppendPush, Full, Started
  <2>5. Started' = Started /\ finished' = finished
    BY <1>7, <2>1, PushFacts DEF AppendPush
  <2>6. WQ!Accept(arg[t])
    BY <2>2, <2>3, <2>4, <2>5 DEF WQ!Accept, Started
  <2> QED
    BY <2>2, <2>6 DEF WQ!Next
<1>8. ASSUME NEW t \in Producer, AppendUnlock(t) PROVE [WQ!Next]_(WQ!vars)
  BY <1>8 DEF AppendUnlock
<1>9. ASSUME NEW t \in Producer, AppendPost(t) PROVE [WQ!Next]_(WQ!vars)
  BY <1>9 DEF AppendPost
<1>10. ASSUME NEW w \in Worker, WorkerTest(w) PROVE [WQ!Next]_(WQ!vars)
  BY <1>10 DEF WorkerTest
<1>11. ASSUME NEW w \in Worker, WorkerWait(w) PROVE [WQ!Next]_(WQ!vars)
  BY <1>11 DEF WorkerWait
<1>12. ASSUME NEW w \in Worker, WaitInterrupted(w) PROVE [WQ!Next]_(WQ!vars)
  BY <1>12 DEF WaitInterrupted
<1>13. ASSUME NEW w \in Worker, WorkerLock(w) PROVE [WQ!Next]_(WQ!vars)
  BY <1>13 DEF WorkerLock
<1>14. ASSUME NEW w \in Worker, WorkerEmpty(w) PROVE [WQ!Next]_(WQ!vars)
  BY <1>14 DEF WorkerEmpty
<1>15. ASSUME NEW w \in Worker, WorkerFront(w) PROVE [WQ!Next]_(WQ!vars)
  BY <1>15 DEF WorkerFront
<1>16. ASSUME NEW w \in Worker, WorkerPop(w) PROVE [WQ!Next]_(WQ!vars)
  <2> HIDE DEF HistoryInv
  <2>1. QueueOK
    BY DEF HistoryInv
  <2>2. Started < Len(accepted) /\ Started' = Started + 1 /\ accepted' = accepted
    BY <1>16, <2>1, PopFacts
  <2>3. finished' = finished
    BY <1>16 DEF WorkerPop
  <2> QED
    BY <2>2, <2>3 DEF WQ!Next, WQ!Start, Started
<1>17. ASSUME NEW w \in Worker, WorkerFinish(w) PROVE [WQ!Next]_(WQ!vars)
  <2>1. request[w] \in Req \ NullReq /\ request[w] \notin finished
    BY <1>17 DEF WorkerFinish, TypeInv, CallsOK, RunsOnce
  <2>2. \E i \in 1 .. Started : accepted[i] = request[w]
    BY <1>17 DEF WorkerFinish, RunsOnce, Taken
  <2>3. finished' = finished \cup {request[w]} /\ accepted' = accepted /\ Started' = Started
    BY <1>17 DEF WorkerFinish, Started
  <2>4. WQ!Finish(request[w])
    BY <2>1, <2>2, <2>3 DEF WQ!Finish, Started
  <2> QED
    BY <2>1, <2>4 DEF WQ!Next
<1>18. ASSUME NEW w \in Worker, TouchDestroyed(w) PROVE [WQ!Next]_(WQ!vars)
  BY <1>18 DEF TouchDestroyed
<1>19. CASE UNCHANGED vars
  BY <1>19
<1> QED
  BY <1>1, <1>2, <1>3, <1>4, <1>5, <1>6, <1>7, <1>8, <1>9, <1>10,
     <1>11, <1>12, <1>13, <1>14, <1>15, <1>16, <1>17, <1>18, <1>19, <1>20
     DEF Next, Owner, ProducerStep, WorkerStep

\* The pool implements WorkQueue: requests are started in the order in which append
\* accepted them, each once, each is processed at most once, and at most
\* max_requests + 1 wait.
THEOREM Refinement == Spec => ImplementsWorkQueue
<1>1. Init => WQ!Init
  BY WQInit
<1>2. TypeInv /\ HistoryInv /\ [Next]_vars => [WQ!Next]_(WQ!vars)
  BY WQStep
<1> QED
  BY <1>1, <1>2, Invariants, PTL DEF Spec, ImplementsWorkQueue, WQ!Spec

-----------------------------------------------------------------------------
(* No wake-up is lost.                                                     *)

\* The counts of NoLostWakeup are numbers.
LEMMA CountTypes ==
    /\ IsFiniteSet(Posting) /\ Cardinality(Posting) \in Nat
    /\ IsFiniteSet(Awake) /\ Cardinality(Awake) \in Nat
<1>1. Posting \subseteq Producer /\ Awake \subseteq Worker
  BY DEF Posting, Awake
<1>2. IsFiniteSet(Posting) /\ IsFiniteSet(Awake)
  BY <1>1, ThreadAssumption, FS_Subset
<1> QED
  BY <1>2, FS_CardinalityType

\* A step that leaves the counts alone, or after which there is no pool.
LEMMA CountsSame ==
    ASSUME TypeInv, NoLostWakeup, There' => There,
           There' => /\ Posting' = Posting /\ Awake' = Awake
                     /\ m_workqueue' = m_workqueue
                     /\ m_queuestat' = m_queuestat
    PROVE  NoLostWakeup'
BY DEF NoLostWakeup

\* A worker that wakes is one more awake.
LEMMA WakesUp ==
    ASSUME TypeInv, NEW w \in Worker, wpc[w] = "wait",
           wpc' = [wpc EXCEPT ![w] = "woken"]
    PROVE  Cardinality(Awake') = Cardinality(Awake) + 1
<1>1. Awake' = Awake \cup {w} /\ w \notin Awake
  BY DEF Awake, TypeInv, TypeOK
<1> QED
  BY <1>1, CountTypes, FS_AddElement

\* The lengths of queue and semaphore are numbers.
LEMMA LengthTypes == TypeInv => Len(m_workqueue) \in Nat /\ m_queuestat \in Nat
BY DEF TypeInv, TypeOK

\* A push is matched by its producer, a post by a token, a token by the worker it
\* wakes, and that worker leaves when it has taken a request or found none.
LEMMA WakeupStep ==
    ASSUME TypeInv, NoLostWakeup, [Next]_vars
    PROVE  NoLostWakeup'
<1> USE DEF workerVars, callVars, histVars, vars
<1>1. ASSUME NEW w \in Worker, CreateThread(w) PROVE NoLostWakeup'
  <2>1. Posting' = Posting /\ Awake' = Awake
    BY <1>1 DEF CreateThread, Posting, Awake, TypeInv, TypeOK
  <2> QED
    BY <1>1, <2>1, CountsSame DEF CreateThread, There
<1>20. ASSUME NEW w \in Worker, DetachFails(w) PROVE NoLostWakeup'
  <2>1. Posting' = Posting /\ Awake' = Awake
    BY <1>20 DEF DetachFails, Posting, Awake, TypeInv, TypeOK
  <2> QED
    BY <1>20, <2>1, CountsSame DEF DetachFails, There
<1>2. CASE CreateFails
  BY <1>2, CountsSame DEF CreateFails, There
<1>3. CASE Destructor
  <2>1. Posting' = Posting /\ Awake' = Awake
    BY <1>3 DEF Destructor, Posting, Awake, TypeInv, TypeOK
  <2> QED
    BY <1>3, <2>1, CountsSame DEF Destructor, There
<1>4. CASE DestroyMembers
  BY <1>4, CountsSame DEF DestroyMembers, There
<1>5. ASSUME NEW t \in Producer, NEW r \in Req, AppendLock(t, r) PROVE NoLostWakeup'
  <2>1. Posting' = Posting /\ Awake' = Awake
    BY <1>5 DEF AppendLock, Posting, Awake, TypeInv, TypeOK
  <2> QED
    BY <1>5, <2>1, CountsSame DEF AppendLock, There
<1>6. ASSUME NEW t \in Producer, AppendRefuse(t) PROVE NoLostWakeup'
  <2>1. Posting' = Posting /\ Awake' = Awake
    BY <1>6 DEF AppendRefuse, Posting, Awake, TypeInv, TypeOK
  <2> QED
    BY <1>6, <2>1, CountsSame DEF AppendRefuse, There
<1>7. ASSUME NEW t \in Producer, AppendPush(t) PROVE NoLostWakeup'
  <2>1. Len(m_workqueue') = Len(m_workqueue) + 1
    <3>1. arg[t] \in Req /\ m_workqueue \in Seq(Req)
      BY <1>7 DEF AppendPush, TypeInv, TypeOK, CallsOK
    <3> QED
      BY <1>7, <3>1, AppendSeq DEF AppendPush
  <2>2. Posting' = Posting \cup {t} /\ t \notin Posting /\ Awake' = Awake
    BY <1>7 DEF AppendPush, Posting, Awake, TypeInv, TypeOK
  <2>3. Cardinality(Posting') = Cardinality(Posting) + 1
    BY <2>2, CountTypes, FS_AddElement
  <2>4. m_queuestat' = m_queuestat /\ (There' => There)
    BY <1>7 DEF AppendPush, There
  <2> QED
    BY <2>1, <2>2, <2>3, <2>4, CountTypes, LengthTypes DEF NoLostWakeup
<1>8. ASSUME NEW t \in Producer, AppendUnlock(t) PROVE NoLostWakeup'
  <2>1. Posting' = Posting /\ Awake' = Awake
    BY <1>8 DEF AppendUnlock, Posting, Awake, TypeInv, TypeOK
  <2> QED
    BY <1>8, <2>1, CountsSame DEF AppendUnlock, There
<1>9. ASSUME NEW t \in Producer, AppendPost(t) PROVE NoLostWakeup'
  <2>1. Posting' = Posting \ {t} /\ t \in Posting /\ Awake' = Awake
    BY <1>9 DEF AppendPost, Posting, Awake, TypeInv, TypeOK
  <2>2. Cardinality(Posting') = Cardinality(Posting) - 1
    BY <2>1, CountTypes, FS_RemoveElement
  <2>3. /\ m_queuestat' = m_queuestat + 1 /\ m_workqueue' = m_workqueue
        /\ There' => There
    BY <1>9 DEF AppendPost, Posted, There
  <2> QED
    BY <2>1, <2>2, <2>3, CountTypes, LengthTypes DEF NoLostWakeup
<1>10. ASSUME NEW w \in Worker, WorkerTest(w) PROVE NoLostWakeup'
  <2>1. Posting' = Posting /\ Awake' = Awake
    BY <1>10 DEF WorkerTest, Posting, Awake, TypeInv, TypeOK
  <2> QED
    BY <1>10, <2>1, CountsSame DEF WorkerTest, There
<1>11. ASSUME NEW w \in Worker, WorkerWait(w) PROVE NoLostWakeup'
  <2>1. Posting' = Posting
    BY <1>11 DEF WorkerWait, Posting
  <2>2. Cardinality(Awake') = Cardinality(Awake) + 1
    BY <1>11, WakesUp DEF WorkerWait
  <2>3. /\ m_queuestat' = m_queuestat - 1 /\ m_workqueue' = m_workqueue
        /\ There' => There
    BY <1>11 DEF WorkerWait, There
  <2> QED
    BY <2>1, <2>2, <2>3, CountTypes, LengthTypes DEF NoLostWakeup
<1>12. ASSUME NEW w \in Worker, WaitInterrupted(w) PROVE NoLostWakeup'
  <2>1. Posting' = Posting
    BY <1>12 DEF WaitInterrupted, Posting
  <2>2. Cardinality(Awake') = Cardinality(Awake) + 1
    BY <1>12, WakesUp DEF WaitInterrupted
  <2>3. /\ m_queuestat' = m_queuestat /\ m_workqueue' = m_workqueue
        /\ There' => There
    BY <1>12 DEF WaitInterrupted, There
  <2> QED
    BY <2>1, <2>2, <2>3, CountTypes, LengthTypes DEF NoLostWakeup
<1>13. ASSUME NEW w \in Worker, WorkerLock(w) PROVE NoLostWakeup'
  <2>1. Posting' = Posting /\ Awake' = Awake
    BY <1>13 DEF WorkerLock, Posting, Awake, TypeInv, TypeOK
  <2> QED
    BY <1>13, <2>1, CountsSame DEF WorkerLock, There
<1>14. ASSUME NEW w \in Worker, WorkerEmpty(w) PROVE NoLostWakeup'
  <2>1. Len(m_workqueue') = 0 /\ m_queuestat' \in Nat
    BY <1>14, EmptySeq, LengthTypes DEF WorkerEmpty
  <2>2. Posting' \subseteq Producer /\ Awake' \subseteq Worker
    BY DEF Posting, Awake
  <2>3. Cardinality(Posting') \in Nat /\ Cardinality(Awake') \in Nat
    BY <2>2, ThreadAssumption, FS_Subset, FS_CardinalityType
  <2> QED
    BY <2>1, <2>3 DEF NoLostWakeup
<1>15. ASSUME NEW w \in Worker, WorkerFront(w) PROVE NoLostWakeup'
  <2>1. Posting' = Posting /\ Awake' = Awake
    BY <1>15 DEF WorkerFront, Posting, Awake, TypeInv, TypeOK
  <2> QED
    BY <1>15, <2>1, CountsSame DEF WorkerFront, There
<1>16. ASSUME NEW w \in Worker, WorkerPop(w) PROVE NoLostWakeup'
  <2>1. Len(m_workqueue') = Len(m_workqueue) - 1
    <3>1. m_workqueue # <<>> /\ m_workqueue \in Seq(Req)
      BY <1>16 DEF WorkerPop, TypeInv, TypeOK, CallsOK
    <3> QED
      BY <1>16, <3>1, TailSeq DEF WorkerPop
  <2>2. Posting' = Posting /\ Awake' = Awake \ {w} /\ w \in Awake
    BY <1>16 DEF WorkerPop, Posting, Awake, TypeInv, TypeOK
  <2>3. Cardinality(Awake') = Cardinality(Awake) - 1
    BY <2>2, CountTypes, FS_RemoveElement
  <2>4. m_queuestat' = m_queuestat /\ (There' => There)
    BY <1>16 DEF WorkerPop, There
  <2> QED
    BY <2>1, <2>2, <2>3, <2>4, CountTypes, LengthTypes DEF NoLostWakeup
<1>17. ASSUME NEW w \in Worker, WorkerFinish(w) PROVE NoLostWakeup'
  <2>1. Posting' = Posting /\ Awake' = Awake
    BY <1>17 DEF WorkerFinish, Posting, Awake, TypeInv, TypeOK
  <2> QED
    BY <1>17, <2>1, CountsSame DEF WorkerFinish, There
<1>18. ASSUME NEW w \in Worker, TouchDestroyed(w) PROVE NoLostWakeup'
  BY <1>18, CountsSame DEF TouchDestroyed, There
<1>19. CASE UNCHANGED vars
  BY <1>19, CountsSame DEF Posting, Awake, There
<1> QED
  BY <1>1, <1>2, <1>3, <1>4, <1>5, <1>6, <1>7, <1>8, <1>9, <1>10,
     <1>11, <1>12, <1>13, <1>14, <1>15, <1>16, <1>17, <1>18, <1>19, <1>20
     DEF Next, Owner, ProducerStep, WorkerStep

\* No wake-up is lost, whatever number of workers and producers run and however
\* often waits are interrupted: the requests in the queue are covered by the
\* semaphore, the producers that will post and the workers that are awake.
THEOREM WakeupSafety == Spec => []NoLostWakeup
<1>1. Init => NoLostWakeup
  <2> SUFFICES ASSUME Init PROVE NoLostWakeup
    OBVIOUS
  <2>1. Len(m_workqueue) = 0 /\ m_queuestat = 0
    BY EmptySeq DEF Init
  <2> QED
    BY <2>1, CountTypes DEF NoLostWakeup
<1>2. TypeInv /\ NoLostWakeup /\ [Next]_vars => NoLostWakeup'
  BY WakeupStep
<1> QED
  BY <1>1, <1>2, Invariants, PTL DEF Spec

=============================================================================
