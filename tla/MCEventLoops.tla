---------------------------- MODULE MCEventLoops ----------------------------
(* Instances for TLC of the level-triggered servers and of the edge-triggered *)
(* one.  They share nothing: which says who runs, the other stays at a start.  *)
EXTENDS EventLoops

CONSTANTS EpollConn, MaxPiece,  \* the clients of epoll.cpp
          k1, k2

VARIABLES
    which,
    e_pc, e_batch, e_armed, e_mode, e_open, e_line, e_n, e_backlog,
    e_fresh, e_sent, e_taken, e_peer, e_echoed, e_together, e_faults

\* One sends more than a read takes, the other does not.
MCMaxPiece == [c \in {k1, k2} |-> IF c = k1 THEN 2 ELSE 1]

E == INSTANCE EpollEcho WITH
    Conn <- EpollConn, pc <- e_pc, batch <- e_batch, armed <- e_armed,
    mode <- e_mode, open <- e_open, line <- e_line, n <- e_n, backlog <- e_backlog,
    fresh <- e_fresh, sent <- e_sent, taken <- e_taken, peer <- e_peer,
    echoed <- e_echoed, together <- e_together, faults <- e_faults

ASSUME EpollConstants == E!ConstantsOK

MCGarbage == {-1, Limit + 1}

epollVars == <<e_pc, e_batch, e_armed, e_mode, e_open, e_line, e_n, e_backlog,
               e_fresh, e_sent, e_taken, e_peer, e_echoed, e_together, e_faults>>

\* One thing that selecttest.c has not set at a time: a standard descriptor in its
\* set, which need never be readable, or an index beyond the table.
OneUnset == prog = "selecttest.c" => (Stdin \in allfds <=> maxi <= Limit)

MCInit == /\ which \in {"loops", "epoll"}
          /\ Init /\ OneUnset /\ (which = "epoll" => prog = "select.c")
          /\ E!Init

MCNext == \/ which = "loops" /\ Next /\ UNCHANGED <<which, epollVars>>
          \/ which = "epoll" /\ E!Next /\ UNCHANGED <<which, vars>>

MCSpec == MCInit /\ [][MCNext]_<<which, vars, epollVars>>

\* The fairness of each module; only the program that runs has steps to take.
MCFairSpec ==
    /\ MCSpec
    /\ WF_vars(which = "loops" /\ Server)
    /\ WF_epollVars(which = "epoll" /\ E!Server)

\* epoll.cpp: clients that come one at a time get back what they sent.
EchoIsOwn == E!TypeOK /\ E!EchoIsOwn
\* epoll.cpp: clients are accepted, read to the end and closed.
ClientsAreServed == E!ClientsAreServed
=============================================================================
