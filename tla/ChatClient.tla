----------------------------- MODULE ChatClient -----------------------------
(***************************************************************************)
(* chatclient.c, the client of chatserver.c: the parent reads lines and    *)
(* sends them, a child receives, and when it ends the parent's SIGCHLD     *)
(* handler ends the program.                                               *)
(***************************************************************************)
EXTENDS Integers

VARIABLES
    me,        \* the parent: "start", "typing", "send", "handler", "ended", "killed"
    receiver,  \* the child: "none", "recv" or "ended"
    chldsig,   \* SIGCHLD is pending
    peer,      \* the connection: "none", "up", "closed" or "aborted" by the server, and
               \* "reset" once one of the processes was told
    terminal,  \* "plain" or "curses"
    heard      \* a message of the server that has not been shown

clientVars == <<me, receiver, chldsig, peer, terminal, heard>>

TypeOK ==
    /\ me \in {"start", "typing", "send", "handler", "ended", "killed"}
    /\ receiver \in {"none", "recv", "ended"}
    /\ peer \in {"none", "up", "closed", "aborted", "reset"}
    /\ terminal \in {"plain", "curses"}
    /\ {chldsig, heard} \subseteq BOOLEAN

Init ==
    /\ me = "start" /\ receiver = "none" /\ chldsig = FALSE
    /\ peer = "none" /\ terminal = "plain" /\ heard = FALSE

Gone == me \in {"ended", "killed"}

\* Without a connection the program exits and leaves the terminal as it is.  When fork
\* fails its result is not 0: the parent goes on alone.
initUI     == terminal' = "curses"
initSocket == peer' \in {"up", "none"}
Start ==
    /\ me = "start" /\ initUI /\ initSocket
    /\ IF peer' = "none" THEN me' = "ended" /\ UNCHANGED receiver
                         ELSE me' = "typing" /\ receiver' \in {"none", "recv"}
    /\ UNCHANGED <<chldsig, heard>>

Type == me = "typing" /\ me' = "send" /\ UNCHANGED <<receiver, chldsig, peer, terminal, heard>>

\* The result of send is not looked at.  The first send to a server that closed is
\* answered with a reset, that on an aborted connection fails; the next is a SIGPIPE.
Send ==
    /\ me = "send"
    /\ me' = IF peer = "reset" THEN "killed" ELSE "typing"
    /\ peer' = IF peer \in {"closed", "aborted"} THEN "reset" ELSE peer
    /\ UNCHANGED <<receiver, chldsig, terminal, heard>>

Receive ==
    /\ receiver = "recv" /\ heard
    /\ heard' = FALSE
    /\ UNCHANGED <<me, receiver, chldsig, peer, terminal>>

\* recv returns 0, or -1 for a connection that was aborted: this takes the error away.
ReceiveEnd ==
    /\ receiver = "recv" /\ peer # "up" /\ ~ heard
    /\ receiver' = "ended" /\ chldsig' = ~ Gone
    /\ peer' = IF peer = "aborted" THEN "reset" ELSE peer
    /\ UNCHANGED <<me, terminal, heard>>

Handle ==
    /\ me \in {"typing", "send"} /\ chldsig
    /\ me' = "handler" /\ chldsig' = FALSE
    /\ UNCHANGED <<receiver, peer, terminal, heard>>

\* wait, destroy and exit.
destroy == terminal' = "plain"
HandlerEnds ==
    /\ me = "handler"
    /\ me' = "ended" /\ destroy
    /\ UNCHANGED <<receiver, chldsig, peer, heard>>

\* The server sends, and closes: with data unread, or killed, it aborts the connection.
Hear ==
    /\ peer = "up" /\ heard' = TRUE
    /\ UNCHANGED <<me, receiver, chldsig, peer, terminal>>
ServerCloses ==
    /\ peer = "up" /\ peer' \in {"closed", "aborted"}
    /\ UNCHANGED <<me, receiver, chldsig, terminal, heard>>

Parent   == Start \/ Send \/ Handle \/ HandlerEnds
Receiver == Receive \/ ReceiveEnd
Next     == Parent \/ Receiver \/ Type \/ Hear \/ ServerCloses

\* chatclient.c:23: the program ends itself only after its receiver has shown what the
\* server sent, and leaves a plain terminal; not so when it never got a connection, or
\* when it is killed for writing to a server that is gone.
Sound ==
    /\ TypeOK
    /\ me = "ended" /\ peer # "none" => receiver = "ended" /\ ~ heard /\ terminal = "plain"
    /\ me = "killed" => peer = "reset"

\* When the server closes both processes end, even if nobody types, unless fork failed.
ServerGone == peer \in {"closed", "aborted"}
AllGone    == (Gone /\ receiver = "ended") \/ receiver = "none"
EndsWithServer == ServerGone ~> AllGone
=============================================================================
