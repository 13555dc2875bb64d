------------------------------ MODULE ConnectNb ------------------------------
(***************************************************************************)
(* connect_nonb of connect_nb.c: a connect with a time limit.  The network *)
(* answers, or does not, while the function waits in select.               *)
(***************************************************************************)
VARIABLES
    nsec,     \* whether there is a time limit: nsec is not 0
    nb,       \* "start", "select", "option", "done" (the label), "returned"
    link,     \* the connection: "none", "pending", "up" or "refused"
    error,    \* the function's error: "0" or the answer of the network
    sock,     \* the descriptor: "blocking", "nonblocking" or "closed"
    outcome,  \* how it ended: "0" without an error, "refused", "ETIMEDOUT", "getsockopt"
    woken     \* history: select was interrupted by a signal

nbVars == <<nsec, nb, link, error, sock, outcome, woken>>

TypeOK ==
    /\ nb \in {"start", "select", "option", "done", "returned"}
    /\ link \in {"none", "pending", "up", "refused"}
    /\ error \in {"0", "refused"}
    /\ outcome \in {"0", "refused", "ETIMEDOUT", "getsockopt"}
    /\ sock \in {"blocking", "nonblocking", "closed"} /\ {nsec, woken} \subseteq BOOLEAN

Init ==
    /\ nsec \in BOOLEAN /\ nb = "start" /\ link = "none" /\ sock = "blocking"
    /\ error = "0" /\ outcome = "0" /\ woken = FALSE

\* connect is done at once, is under way, or fails: then the descriptor stays as it is.
Connect ==
    /\ nb = "start" /\ sock' = "nonblocking"
    /\ \/ link' = "up" /\ nb' = "done" /\ UNCHANGED outcome
       \/ link' = "pending" /\ nb' = "select" /\ UNCHANGED outcome
       \/ link' = "refused" /\ nb' = "returned" /\ outcome' = "refused"
    /\ UNCHANGED <<nsec, error, woken>>

\* The handshake ends, at any time, but for a descriptor that is closed.
Answer ==
    /\ link = "pending" /\ sock # "closed"
    /\ link' \in {"up", "refused"}
    /\ UNCHANGED <<nsec, nb, error, sock, outcome, woken>>

SelectReady ==
    /\ nb = "select" /\ link # "pending"
    /\ nb' = "option"
    /\ UNCHANGED <<nsec, link, error, sock, outcome, woken>>

SelectTimesOut ==
    /\ nb = "select" /\ link = "pending" /\ nsec
    /\ nb' = "returned" /\ sock' = "closed" /\ outcome' = "ETIMEDOUT"
    /\ UNCHANGED <<nsec, link, error, woken>>

\* select fails and leaves the sets as they were: the descriptor is in both.
SelectInterrupted ==
    /\ nb = "select" /\ link = "pending"
    /\ nb' = "option" /\ woken' = TRUE
    /\ UNCHANGED <<nsec, link, error, sock, outcome>>

\* SO_ERROR, which is 0 for a connection that is still pending.
mutIgnored == "0"
SoError == IF link = "refused" THEN "refused" ELSE "0"

GetOption ==
    /\ nb = "option"
    /\ nb' = "done" /\ error' = SoError
    /\ UNCHANGED <<nsec, link, sock, outcome, woken>>

\* getsockopt itself fails: the descriptor is neither closed nor made to block again.
OptionFails ==
    /\ nb = "option"
    /\ nb' = "returned" /\ outcome' = "getsockopt"
    /\ UNCHANGED <<nsec, link, error, sock, woken>>

\* Without an error the function ends without a return value.
Done ==
    /\ nb = "done"
    /\ nb' = "returned" /\ outcome' = error
    /\ sock' = IF error = "0" THEN "blocking" ELSE "closed"
    /\ UNCHANGED <<nsec, link, error, woken>>

Function == Connect \/ SelectReady \/ SelectTimesOut \/ GetOption \/ Done
Next     == Function \/ Answer \/ SelectInterrupted \/ OptionFails

\* connect_nb.c:50: a function that ends without an error leaves a connection that is
\* made, on a descriptor that blocks again, unless a signal interrupted the wait: then
\* it may still be pending.  One that gives up has closed the descriptor, but for an
\* error of connect or of getsockopt: then the caller has to.
Sound ==
    /\ TypeOK
    /\ nb = "returned" /\ outcome = "0" => sock = "blocking" /\ (link = "up" \/ woken)
    /\ nb = "returned" /\ outcome = "getsockopt" => sock = "nonblocking"
    /\ nb = "returned" /\ outcome \in {"refused", "ETIMEDOUT"} =>
          sock = "closed" \/ (link = "refused" /\ error = "0")

\* With a time limit the function returns, whether the network answers or not.
Limited  == nsec /\ nb = "start"
Returned == nb = "returned"
Returns  == Limited ~> Returned
=============================================================================
