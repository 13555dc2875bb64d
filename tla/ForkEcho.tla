------------------------------ MODULE ForkEcho ------------------------------
(***************************************************************************)
(* echoserver.cpp with its clients, echoclient_test.cpp.  The parent       *)
(* accepts and forks, a child serves its client and exits, a handler       *)
(* collects children.  Both call themselves echo programs; a child closes  *)
(* after the first data, and what follows in it is not reached.            *)
(***************************************************************************)
EXTENDS Integers

CONSTANTS
    Caller,        \* the clients
    MaxForkFault   \* calls of accept and fork that fail

\* What is assumed of them.
ConstantsOK == Caller # {} /\ MaxForkFault \in Nat

VARIABLES
    main,      \* the parent: "accept", "fork", "close" or "ended"
    reaping,   \* the parent is in its handler
    sigchld,   \* SIGCHLD is pending
    hand,      \* the client whose descriptor is in fd
    kept,      \* the clients whose descriptor is open in the parent
    child,     \* "none", "run", "left" (its loop), "zombie" or "gone"
    copies,    \* the clients whose descriptor is open in a child
    caller,    \* a client: "new", "open", "sent", "told", "late", "over", "killed"
    ffaults

forkVars == <<main, reaping, sigchld, hand, kept, child, copies, caller, ffaults>>
children == <<child, copies>>
signals  == <<reaping, sigchld>>

TypeOK ==
    /\ main \in {"accept", "fork", "close", "ended"}
    /\ {reaping, sigchld} \subseteq BOOLEAN
    /\ hand \in Caller /\ kept \subseteq Caller /\ ffaults \in 0 .. MaxForkFault
    /\ child \in [Caller -> {"none", "run", "left", "zombie", "gone"}]
    /\ copies \in [Caller -> SUBSET Caller]
    /\ caller \in [Caller -> {"new", "open", "sent", "told", "late", "over", "killed"}]

Init ==
    /\ main = "accept" /\ reaping = FALSE /\ sigchld = FALSE
    /\ hand = CHOOSE c \in Caller : TRUE
    /\ kept = {} /\ ffaults = 0
    /\ child = [c \in Caller |-> "none"] /\ copies = [c \in Caller |-> {}]
    /\ caller = [c \in Caller |-> "new"]

\* The connection of c has no end in the server any more.
Closed(c) ==
    /\ c \notin kept \cup UNION {copies[d] : d \in Caller}
    /\ child[c] # "none" \/ main = "ended"

-----------------------------------------------------------------------------
(* main, unless it is in the handler.                                      *)

At(pc) == main = pc /\ ~ reaping
Fault  == ffaults < MaxForkFault /\ ffaults' = ffaults + 1

Accept(c) ==
    /\ At("accept") /\ caller[c] # "new" /\ child[c] = "none" /\ c \notin kept
    /\ main' = "fork" /\ hand' = c /\ kept' = kept \cup {c}
    /\ UNCHANGED <<signals, children, caller, ffaults>>

AcceptFails ==
    /\ At("accept") /\ Fault
    /\ main' = "ended" /\ kept' = {}
    /\ UNCHANGED <<signals, hand, children, caller>>

Fork ==
    /\ At("fork")
    /\ main' = "close"
    /\ child' = [child EXCEPT ![hand] = "run"]
    /\ copies' = [copies EXCEPT ![hand] = kept]
    /\ UNCHANGED <<signals, hand, kept, caller, ffaults>>

\* The descriptor stays open.
ForkFails ==
    /\ At("fork") /\ Fault
    /\ main' = "accept"
    /\ UNCHANGED <<signals, hand, kept, children, caller>>

mutKeep == kept
WithoutHand == kept \ {hand}
Close ==
    /\ At("close")
    /\ main' = "accept" /\ kept' = WithoutHand
    /\ UNCHANGED <<signals, hand, children, caller, ffaults>>

-----------------------------------------------------------------------------
(* handle: signal() restarts accept, and SIGCHLD is blocked in its handler. *)

Zombies == {c \in Caller : child[c] = "zombie"}

HandlerStarts ==
    /\ sigchld /\ ~ reaping /\ main # "ended"
    /\ sigchld' = FALSE /\ reaping' = TRUE
    /\ UNCHANGED <<main, hand, kept, children, caller, ffaults>>

Collect(c) ==
    /\ reaping /\ c \in Zombies
    /\ child' = [child EXCEPT ![c] = "gone"]
    /\ UNCHANGED <<main, signals, hand, kept, copies, caller, ffaults>>

mutOnce == \E c \in Caller : child[c] = "gone"
NoMore == Zombies = {}
HandlerEnds ==
    /\ reaping /\ NoMore
    /\ reaping' = FALSE
    /\ UNCHANGED <<main, sigchld, hand, kept, children, caller, ffaults>>

-----------------------------------------------------------------------------
(* childfunc: it leaves its loop with the first data and at the end of the  *)
(* connection; an error of recv is printed and then comes the end.          *)

ChildLeaves(c) ==
    /\ child[c] = "run" /\ caller[c] # "open"
    /\ child' = [child EXCEPT ![c] = "left"]
    /\ copies' = [copies EXCEPT ![c] = @ \ {c}]
    /\ UNCHANGED <<main, signals, hand, kept, caller, ffaults>>

ChildExits(c) ==
    /\ child[c] = "left"
    /\ child' = [child EXCEPT ![c] = "zombie"]
    /\ copies' = [copies EXCEPT ![c] = {}]
    /\ sigchld' = (main # "ended")
    /\ UNCHANGED <<main, reaping, hand, kept, caller, ffaults>>

-----------------------------------------------------------------------------
(* echoclient_test.cpp.                                                    *)

CallerGoes(c, from, to) ==
    /\ caller[c] = from
    /\ caller' = [caller EXCEPT ![c] = to]
    /\ UNCHANGED <<main, signals, hand, kept, children, ffaults>>

\* Without a server there is no connection, and none of the calls waits.
Connect(c) == CallerGoes(c, "new", IF main = "ended" THEN "over" ELSE "open")

\* recv waits for the server to close.  The second send goes to a closed connection
\* and the two receptions after it do not wait.
Send(c)        == CallerGoes(c, "open", "sent")
Receive(c)     == Closed(c) /\ CallerGoes(c, "sent", "told")
SendLate(c)    == CallerGoes(c, "told", "late")
ReceiveLate(c) == CallerGoes(c, "late", "over")
Kill(c)        == \E from \in {"open", "sent"} : CallerGoes(c, from, "killed")

-----------------------------------------------------------------------------
Process(c) ==
    \/ Accept(c) \/ Collect(c)
    \/ ChildLeaves(c) \/ ChildExits(c)
    \/ Send(c) \/ Receive(c) \/ SendLate(c) \/ ReceiveLate(c)
Parent == Fork \/ Close \/ HandlerStarts \/ HandlerEnds
Next   == \/ Parent \/ AcceptFails \/ ForkFails
          \/ \E c \in Caller : Process(c) \/ Connect(c) \/ Kill(c)

\* echoserver.cpp:104: a zombie is not forgotten though signals of several children
\* are one: a SIGCHLD is pending or the handler is in its loop.
ZombiesAreNoticed == Zombies # {} /\ main # "ended" => sigchld \/ reaping

\* echoserver.cpp:129: the parent keeps the descriptor in its hand, and besides it those
\* whose fork failed, and a child has none but its own and those.
Unforked == {c \in kept : child[c] = "none"}
DescriptorsAreHanded ==
    /\ kept \subseteq Unforked \cup (IF main = "close" THEN {hand} ELSE {})
    /\ main # "ended" => \A c \in Caller : copies[c] \subseteq Unforked \cup {c}

Sound == TypeOK /\ ZombiesAreNoticed /\ DescriptorsAreHanded

\* A client comes to its end, unless the fork for it fails: then it waits for an answer.
\* And every child is collected.
Due(c)  == caller[c] = "open" \/ child[c] = "zombie"
Done(c) == \/ caller[c] \in {"over", "killed"} /\ child[c] \in {"none", "gone"}
           \/ c \in Unforked /\ main = "accept"
           \/ main = "ended"
CallersEnd == \A c \in Caller : Due(c) ~> Done(c)
=============================================================================
