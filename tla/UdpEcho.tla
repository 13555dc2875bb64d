------------------------------ MODULE UdpEcho ------------------------------
(***************************************************************************)
(* udpechoclient.c and udpechoserver.c: lines and their answers travel in  *)
(* datagrams that may be lost, doubled and reordered; neither program      *)
(* numbers them, waits for a limited time or sends one again.              *)
(***************************************************************************)
EXTENDS Integers, Sequences, FiniteSets

CONSTANTS MaxLine, MaxNetFault   \* lines typed, datagrams lost or doubled

ConstantsOK == MaxLine \in Nat /\ MaxNetFault \in Nat

VARIABLES
    udp,       \* the client: "type", "wait", or "undefined" after buf[-1]
    lines,     \* how many lines it has sent
    requests, answers,   \* for the number of a line, its datagrams under way
    printed,   \* the lines the client printed
    doubled, dropped,    \* history: datagrams the network doubled and lost
    running    \* there is a server

udpVars == <<udp, lines, requests, answers, printed, doubled, dropped, running>>

Line        == 1 .. MaxLine
Nowhere     == [d \in Line |-> 0]
More(n, d)  == [n EXCEPT ![d] = @ + 1]
Fewer(n, d) == [n EXCEPT ![d] = @ - 1]

Init ==
    /\ udp = "type" /\ lines = 0 /\ requests = Nowhere /\ answers = Nowhere
    /\ printed = <<>> /\ doubled = 0 /\ dropped = 0 /\ running \in BOOLEAN

NetworkErrs == doubled + dropped < MaxNetFault

\* What is left of datagrams when one is delivered: the network may hold another copy.
Delivered(d, from, left) ==
    /\ from[d] > 0
    /\ \/ left = Fewer(from, d) /\ UNCHANGED doubled
       \/ NetworkErrs /\ doubled' = doubled + 1 /\ left = from

SendLine ==
    /\ udp = "type" /\ lines < MaxLine
    /\ udp' = "wait" /\ lines' = lines + 1 /\ requests' = More(requests, lines')
    /\ UNCHANGED <<answers, printed, doubled, dropped, running>>

Serve ==
    /\ running
    /\ \E d \in Line :
          Delivered(d, requests, requests') /\ answers' = More(answers, d)
    /\ UNCHANGED <<udp, lines, printed, dropped, running>>

PrintAnswer ==
    /\ udp = "wait" /\ udp' = "type"
    /\ \E d \in Line :
          Delivered(d, answers, answers') /\ printed' = Append(printed, d)
    /\ UNCHANGED <<lines, requests, dropped, running>>

\* recvfrom fails, for its socket is connected, and size -1 is used as an index.
Unreachable ==
    /\ udp = "wait" /\ ~ running /\ requests # Nowhere
    /\ udp' = "undefined"
    /\ UNCHANGED <<lines, requests, answers, printed, doubled, dropped, running>>

Lose ==
    /\ NetworkErrs /\ dropped' = dropped + 1
    /\ \E d \in Line :
          \/ requests[d] > 0 /\ requests' = Fewer(requests, d) /\ UNCHANGED answers
          \/ answers[d] > 0 /\ answers' = Fewer(answers, d) /\ UNCHANGED requests
    /\ UNCHANGED <<udp, lines, printed, doubled, running>>

Next == SendLine \/ Serve \/ PrintAnswer \/ Unreachable \/ Lose

\* udpechoclient.c:34: what is printed for a line is its own answer, unless the network
\* doubled a datagram; then it may be that of an earlier line, never of a later one, and
\* of none more often than it came.
Sound ==
    /\ udp \in {"type", "wait", "undefined"} /\ (udp = "undefined" => ~ running)
    /\ \A i \in DOMAIN printed : printed[i] <= i /\ (doubled = 0 => printed[i] = i)
    /\ \A d \in 1 .. lines : Cardinality({i \in DOMAIN printed : printed[i] = d}) <= 1 + doubled

\* A line gets an answer, unless a datagram is lost: then the client waits for ever.
Asked      == running /\ udp = "wait"
Settled    == udp = "type" \/ dropped > 0
IsAnswered == Asked ~> Settled
=============================================================================
