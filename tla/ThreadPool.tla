------------------------------ MODULE ThreadPool ------------------------------
(***************************************************************************)
(* The thread pool of threadpool.h with the semaphore and the lock of      *)
(* locker.h.  Producers append requests to a list under a lock and post    *)
(* the semaphore; detached workers wait on it, take the first request      *)
(* under the lock and process it.  The destructor sets m_stop and the      *)
(* members go; nobody joins the workers.                                   *)
(*                                                                         *)
(* A step of a thread is one call on the lock or the semaphore, one access *)
(* to the list, or one test of m_stop.                                     *)
(***************************************************************************)
EXTENDS Integers, FiniteSets, Sequences

CONSTANTS
    Worker,        \* the threads of the pool, m_thread_number of them
    Producer,      \* the threads that call append
    Req,           \* the requests, one for each call of append
    NullReq,       \* those whose pointer is null
    max_requests,
    MaxIntr,       \* signals that interrupt sem_wait
    NoReq,         \* no request
    Unlocked       \* no thread

ASSUME RequestAssumption == NullReq \subseteq Req /\ NoReq \notin Req
ASSUME MaxRequestsAssumption == max_requests \in Nat \ {0}
ASSUME IntrAssumption == MaxIntr \in Nat
ASSUME ThreadAssumption ==
    /\ IsFiniteSet(Worker) /\ IsFiniteSet(Producer) /\ Worker \cap Producer = {}
    /\ Unlocked \notin Worker \cup Producer

VARIABLES
    m_workqueue,
    m_queuestat,    \* the value of the semaphore
    m_queuelocker,  \* who holds the lock
    m_stop,
    pool,           \* "built", "ready", "stopped" or "destroyed"
    wpc,            \* "none", "test", "wait", "woken", "locked", "took",
                    \* "run", "exited" or, in a destroyed pool, "undefined"
    request,        \* the request a worker has taken
    ppc,            \* "idle", "locked", "pushed" or "post"
    arg,            \* the argument of append
    accepted,       \* history: the requests pushed, in order
    refused,        \* history: those for which append returned false
    finished,       \* history: those processed
    intrs

workerVars == <<wpc, request>>
callVars   == <<ppc, arg>>
histVars   == <<accepted, refused, finished>>
vars == <<m_workqueue, m_queuestat, m_queuelocker, m_stop, pool, workerVars,
          callVars, histVars, intrs>>

TypeOK ==
    /\ m_workqueue \in Seq(Req)
    /\ Len(m_workqueue) <= max_requests + 1
    /\ m_queuestat \in Nat
    /\ m_queuelocker \in Worker \cup Producer \cup {Unlocked}
    /\ m_stop \in BOOLEAN
    /\ pool \in {"built", "ready", "stopped", "destroyed"}
    /\ wpc \in [Worker -> {"none", "test", "wait", "woken", "locked", "took",
                           "run", "exited", "undefined"}]
    /\ request \in [Worker -> Req \cup {NoReq}]
    /\ ppc \in [Producer -> {"idle", "locked", "pushed", "post"}]
    /\ arg \in [Producer -> Req \cup {NoReq}]
    /\ accepted \in Seq(Req)
    /\ refused \subseteq Req
    /\ finished \subseteq Req \ NullReq
    /\ intrs \in 0 .. MaxIntr

Init ==
    /\ m_workqueue = <<>> /\ m_queuestat = 0
    /\ m_queuelocker = Unlocked
    /\ m_stop = FALSE
    /\ pool = "built"
    /\ wpc = [w \in Worker |-> "none"]
    /\ request = [w \in Worker |-> NoReq]
    /\ ppc = [t \in Producer |-> "idle"]
    /\ arg = [t \in Producer |-> NoReq]
    /\ accepted = <<>> /\ refused = {} /\ finished = {}
    /\ intrs = 0

-----------------------------------------------------------------------------
(* The constructor and the destructor.                                     *)

\* The threads run as soon as they are created; the last makes the pool ready.
CreateThread(w) ==
    /\ pool = "built" /\ wpc[w] = "none"
    /\ wpc' = [wpc EXCEPT ![w] = "test"]
    /\ pool' = IF \A v \in Worker \ {w} : wpc[v] # "none" THEN "ready" ELSE pool
    /\ UNCHANGED <<m_workqueue, m_queuestat, m_queuelocker, m_stop, request,
                   callVars, histVars, intrs>>

\* pthread_create fails: the constructor throws, the members are destroyed, the
\* threads there are stay.
CreateFails ==
    /\ pool = "built"
    /\ pool' = "destroyed"
    /\ UNCHANGED <<m_workqueue, m_queuestat, m_queuelocker, m_stop, workerVars,
                   callVars, histVars, intrs>>

\* pthread_detach fails: the same, with one more thread that runs.
DetachFails(w) ==
    /\ pool = "built" /\ wpc[w] = "none"
    /\ wpc' = [wpc EXCEPT ![w] = "test"]
    /\ pool' = "destroyed"
    /\ UNCHANGED <<m_workqueue, m_queuestat, m_queuelocker, m_stop, request,
                   callVars, histVars, intrs>>

\* The pool is deleted by a thread that knows no append is under way.
Destructor ==
    /\ pool = "ready" /\ \A t \in Producer : ppc[t] = "idle"
    /\ m_stop' = TRUE
    /\ pool' = "stopped"
    /\ UNCHANGED <<m_workqueue, m_queuestat, m_queuelocker, workerVars,
                   callVars, histVars, intrs>>

DestroyMembers ==
    /\ pool = "stopped"
    /\ pool' = "destroyed"
    /\ UNCHANGED <<m_workqueue, m_queuestat, m_queuelocker, m_stop, workerVars,
                   callVars, histVars, intrs>>

-----------------------------------------------------------------------------
(* locker and sem.                                                         *)

LockFree == m_queuelocker = Unlocked

Positive == m_queuestat > 0

-----------------------------------------------------------------------------
(* append.                                                                 *)

InUse == {accepted[i] : i \in 1 .. Len(accepted)} \cup refused
                                         \cup {arg[t] : t \in Producer}

AppendLock(t, r) ==
    /\ pool = "ready" /\ ppc[t] = "idle" /\ r \notin InUse
    /\ LockFree
    /\ m_queuelocker' = t
    /\ ppc' = [ppc EXCEPT ![t] = "locked"]
    /\ arg' = [arg EXCEPT ![t] = r]
    /\ UNCHANGED <<m_workqueue, m_queuestat, m_stop, pool, workerVars,
                   histVars, intrs>>

\* The queue may hold one request more than max_requests.
mutUnbounded == FALSE
Full == Len(m_workqueue) > max_requests

AppendRefuse(t) ==
    /\ ppc[t] = "locked" /\ Full
    /\ m_queuelocker' = Unlocked
    /\ ppc' = [ppc EXCEPT ![t] = "idle"]
    /\ arg' = [arg EXCEPT ![t] = NoReq]
    /\ refused' = refused \cup {arg[t]}
    /\ UNCHANGED <<m_workqueue, m_queuestat, m_stop, pool, workerVars,
                   accepted, finished, intrs>>

AppendPush(t) ==
    /\ ppc[t] = "locked" /\ ~ Full
    /\ m_workqueue' = Append(m_workqueue, arg[t])
    /\ accepted' = Append(accepted, arg[t])
    /\ ppc' = [ppc EXCEPT ![t] = "pushed"]
    /\ UNCHANGED <<m_queuestat, m_queuelocker, m_stop, pool, workerVars, arg,
                   refused, finished, intrs>>

AppendUnlock(t) ==
    /\ ppc[t] = "pushed"
    /\ m_queuelocker' = Unlocked
    /\ ppc' = [ppc EXCEPT ![t] = "post"]
    /\ UNCHANGED <<m_workqueue, m_queuestat, m_stop, pool, workerVars, arg,
                   histVars, intrs>>

\* The value of the semaphore after post.
mutBinary == 1
mutPostIfEmpty == IF Len(m_workqueue) = 1 THEN m_queuestat + 1 ELSE m_queuestat
Posted == m_queuestat + 1

AppendPost(t) ==
    /\ ppc[t] = "post"
    /\ m_queuestat' = Posted
    /\ ppc' = [ppc EXCEPT ![t] = "idle"]
    /\ arg' = [arg EXCEPT ![t] = NoReq]
    /\ UNCHANGED <<m_workqueue, m_queuelocker, m_stop, pool, workerVars,
                   histVars, intrs>>

-----------------------------------------------------------------------------
(* A worker.  Its steps touch the pool, as long as there is one.           *)

There == pool # "destroyed"

WorkerTest(w) ==
    /\ There /\ wpc[w] = "test"
    /\ wpc' = [wpc EXCEPT ![w] = IF m_stop THEN "exited" ELSE "wait"]
    /\ UNCHANGED <<m_workqueue, m_queuestat, m_queuelocker, m_stop, pool,
                   request, callVars, histVars, intrs>>

WorkerWait(w) ==
    /\ There /\ wpc[w] = "wait" /\ Positive
    /\ m_queuestat' = m_queuestat - 1
    /\ wpc' = [wpc EXCEPT ![w] = "woken"]
    /\ UNCHANGED <<m_workqueue, m_queuelocker, m_stop, pool, request, callVars,
                   histVars, intrs>>

\* sem_wait fails with EINTR; wait returns false and nobody looks.
WaitInterrupted(w) ==
    /\ There /\ wpc[w] = "wait" /\ intrs < MaxIntr
    /\ intrs' = intrs + 1
    /\ wpc' = [wpc EXCEPT ![w] = "woken"]
    /\ UNCHANGED <<m_workqueue, m_queuestat, m_queuelocker, m_stop, pool,
                   request, callVars, histVars>>

WorkerLock(w) ==
    /\ There /\ wpc[w] = "woken" /\ LockFree
    /\ m_queuelocker' = w
    /\ wpc' = [wpc EXCEPT ![w] = "locked"]
    /\ UNCHANGED <<m_workqueue, m_queuestat, m_stop, pool, request, callVars,
                   histVars, intrs>>

WorkerEmpty(w) ==
    /\ There /\ wpc[w] = "locked" /\ m_workqueue = <<>>
    /\ m_queuelocker' = Unlocked
    /\ wpc' = [wpc EXCEPT ![w] = "test"]
    /\ UNCHANGED <<m_workqueue, m_queuestat, m_stop, pool, request, callVars,
                   histVars, intrs>>

mutBack == m_workqueue[Len(m_workqueue)]
Front == Head(m_workqueue)

WorkerFront(w) ==
    /\ There /\ wpc[w] = "locked" /\ m_workqueue # <<>>
    /\ request' = [request EXCEPT ![w] = Front]
    /\ wpc' = [wpc EXCEPT ![w] = "took"]
    /\ UNCHANGED <<m_workqueue, m_queuestat, m_queuelocker, m_stop, pool,
                   callVars, histVars, intrs>>

\* pop_front, unlock, and the test for a null request.
WorkerPop(w) ==
    /\ There /\ wpc[w] = "took"
    /\ m_workqueue' = Tail(m_workqueue)
    /\ m_queuelocker' = Unlocked
    /\ wpc' = [wpc EXCEPT ![w] = IF request[w] \in NullReq THEN "test"
                                                          ELSE "run"]
    /\ UNCHANGED <<m_queuestat, m_stop, pool, request, callVars, histVars,
                   intrs>>

\* process() returns; it does not touch the pool.
WorkerFinish(w) ==
    /\ wpc[w] = "run"
    /\ finished' = finished \cup {request[w]}
    /\ wpc' = [wpc EXCEPT ![w] = "test"]
    /\ UNCHANGED <<m_workqueue, m_queuestat, m_queuelocker, m_stop, pool,
                   request, callVars, accepted, refused, intrs>>

\* A worker that touches the members of a destroyed pool: nothing more is said
\* of it.
TouchDestroyed(w) ==
    /\ ~ There /\ wpc[w] \in {"test", "wait", "woken", "locked", "took"}
    /\ wpc' = [wpc EXCEPT ![w] = "undefined"]
    /\ UNCHANGED <<m_workqueue, m_queuestat, m_queuelocker, m_stop, pool,
                   request, callVars, histVars, intrs>>

-----------------------------------------------------------------------------
ProducerStep(t) ==
    \/ AppendRefuse(t)
    \/ AppendPush(t)
    \/ AppendUnlock(t)
    \/ AppendPost(t)

WorkerStep(w) ==
    \/ WorkerTest(w)
    \/ WorkerWait(w)
    \/ WorkerLock(w)
    \/ WorkerEmpty(w)
    \/ WorkerFront(w)
    \/ WorkerPop(w)
    \/ WorkerFinish(w)

Owner ==
    \/ \E w \in Worker : CreateThread(w) \/ DetachFails(w)
    \/ CreateFails
    \/ Destructor
    \/ DestroyMembers

Next ==
    \/ Owner
    \/ \E t \in Producer : ProducerStep(t) \/ \E r \in Req : AppendLock(t, r)
    \/ \E w \in Worker : \/ WorkerStep(w)
                         \/ WaitInterrupted(w)
                         \/ TouchDestroyed(w)

\* A thread that can go on does, process() returns, and the constructor, unless
\* it fails, makes all its threads.
Fairness ==
    /\ \A t \in Producer : WF_vars(ProducerStep(t))
    /\ \A w \in Worker : WF_vars(WorkerStep(w))
    /\ \A w \in Worker : WF_vars(CreateThread(w))

Spec     == Init /\ [][Next]_vars
FairSpec == Spec /\ Fairness

-----------------------------------------------------------------------------
(* What the pool promises.                                                 *)

Posting == {t \in Producer : ppc[t] \in {"pushed", "post"}}
Awake   == {w \in Worker : wpc[w] \in {"woken", "locked", "took"}}

\* No wake-up is lost: every request in the queue has a token in the semaphore, a
\* producer that is about to post, or a worker that has been woken and has not
\* taken one, though list and semaphore are updated apart and workers may be
\* woken for nothing.
NoLostWakeup ==
    There => Len(m_workqueue) <=
                m_queuestat + Cardinality(Posting) + Cardinality(Awake)

\* The refinement: the pool is a first-in first-out queue of max_requests + 1
\* places whose requests are each taken up once.
WQ == INSTANCE WorkQueue WITH
          Capacity <- max_requests + 1,
          started  <- Len(accepted) - Len(m_workqueue)

\* The pool implements WorkQueue: accepted requests are started in order, each
\* once, and processed at most once, whatever the workers and producers do and
\* also when the pool is destroyed under them.
ImplementsWorkQueue == WQ!Spec

\* A request that was accepted is processed, unless the pool is destroyed.
AcceptedIsProcessed ==
    \A r \in Req \ NullReq :
        (\E i \in 1 .. Len(accepted) : accepted[i] = r)
        ~> (r \in finished \/ pool \in {"stopped", "destroyed"})
=============================================================================
