------------------------------ MODULE WorkQueue ------------------------------
(***************************************************************************)
(* What a pool of worker threads promises to those who append requests:    *)
(* requests are started in the order in which they were accepted, each     *)
(* once, each is finished at most once and only after it was started, and  *)
(* no more than Capacity accepted requests wait.  ThreadPool implements    *)
(* this.                                                                   *)
(***************************************************************************)
EXTENDS Integers, Sequences

CONSTANTS
    Req,       \* the requests, one for each call of append
    NullReq,   \* those that are null pointers
    Capacity   \* how many may wait

VARIABLES
    accepted,  \* the requests accepted, in order
    started,   \* how many of them have been taken up
    finished   \* those that have been processed

vars == <<accepted, started, finished>>

Init == accepted = <<>> /\ started = 0 /\ finished = {}

Accept(r) ==
    /\ \A i \in 1 .. Len(accepted) : accepted[i] # r
    /\ Len(accepted) - started < Capacity
    /\ accepted' = Append(accepted, r)
    /\ UNCHANGED <<started, finished>>

Start ==
    /\ started < Len(accepted)
    /\ started' = started + 1
    /\ UNCHANGED <<accepted, finished>>

\* Null requests are taken from the queue and not processed.
Finish(r) ==
    /\ r \notin NullReq \cup finished
    /\ \E i \in 1 .. started : accepted[i] = r
    /\ finished' = finished \cup {r}
    /\ UNCHANGED <<accepted, started>>

Next == Start \/ \E r \in Req : Accept(r) \/ Finish(r)

Spec == Init /\ [][Next]_vars
=============================================================================
