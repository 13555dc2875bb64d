-------------------------- MODULE ProducerConsumer --------------------------
(***************************************************************************)
(* sem.cpp: two threads, a queue, its lock and a semaphore that counts it. *)
(* Each step is a call, on the lock, the semaphore or the queue.           *)
(***************************************************************************)
EXTENDS Integers, Sequences

CONSTANTS MaxCount   \* numbers produced

VARIABLES
    que, var_sem, count,
    lock,   \* "free", "producer" or "consumer"
    made,   \* the producer: "lock", "push", "post" or "unlock"
    used,   \* the consumer: "wait", "lock", "front", "pop" or "unlock"
    shown   \* history: what the consumer printed

semVars == <<que, var_sem, count, lock, made, used, shown>>

Init ==
    /\ que = <<>> /\ var_sem = 0 /\ count = 1 /\ lock = "free"
    /\ made = "lock" /\ used = "wait" /\ shown = <<>>

Produce(from, to) == made = from /\ made' = to /\ UNCHANGED <<used, shown>>
Consume(from, to) == used = from /\ used' = to /\ UNCHANGED <<made, count>>

Lock(t)   == lock = "free" /\ lock' = t /\ UNCHANGED <<que, var_sem>>
Unlock(t) == lock' = "free" /\ UNCHANGED <<que, var_sem>>

producer_process ==
    \/ /\ count <= MaxCount /\ Produce("lock", "push")
       /\ Lock("producer") /\ UNCHANGED count
    \/ /\ Produce("push", "post")
       /\ que' = Append(que, count) /\ count' = count + 1 /\ UNCHANGED <<var_sem, lock>>
    \/ /\ Produce("post", "unlock")
       /\ var_sem' = var_sem + 1 /\ UNCHANGED <<que, lock, count>>
    \/ Produce("unlock", "lock") /\ Unlock("producer") /\ UNCHANGED count

coustom_process ==
    \/ /\ var_sem > 0 /\ Consume("wait", "lock")
       /\ var_sem' = var_sem - 1 /\ UNCHANGED <<que, lock, shown>>
    \/ Consume("lock", "front") /\ Lock("consumer") /\ UNCHANGED shown
    \/ /\ Consume("front", "pop")
       /\ shown' = Append(shown, Head(que)) /\ UNCHANGED <<que, var_sem, lock>>
    \/ /\ Consume("pop", "unlock")
       /\ que' = Tail(que) /\ UNCHANGED <<var_sem, lock, shown>>
    \/ Consume("unlock", "wait") /\ Unlock("consumer") /\ UNCHANGED shown

Next == producer_process \/ coustom_process

\* sem.cpp:46: the consumer finds a number in the queue whenever the semaphore let it
\* through, and shows the numbers in order, each once.
Sound ==
    /\ made \in {"lock", "push", "post", "unlock"} /\ (lock = "producer" <=> made # "lock")
    /\ used \in {"wait", "lock", "front", "pop", "unlock"}
    /\ used \in {"front", "pop"} => lock = "consumer" /\ que # <<>>
    /\ shown \o (IF used = "pop" THEN Tail(que) ELSE que) = [i \in 1 .. count - 1 |-> i]

\* Everything that is made is shown.
Made       == count > 1
AllShown   == Len(shown) = MaxCount
AllIsShown == Made ~> AllShown
=============================================================================
