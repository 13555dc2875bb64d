-------------------------- MODULE MCChatShmServer --------------------------
(* Instances of ChatShmServer for TLC.  Process numbers and clients are each *)
(* interchangeable where nothing temporal is checked, the clients that send  *)
(* and those that do not each among themselves.                              *)
EXTENDS ChatShmServer, TLC

Symmetry == Permutations(Pid) \cup Permutations(Author)
                              \cup Permutations(Conn \ Author)

\* A SIGTERM with everything but messages, and with a fault only while a
\* client is still to come.
MessagesOrTerm ==
    terms = 0 \/ /\ \A c \in Author : wrote[c] = 0
                 /\ faults = 0 \/ fresh # {}

\* Everything a client does, or a SIGTERM in silence: when all clients have
\* closed, though their children may not know it yet or not be forked, none has
\* sent anything and nothing has failed.  Only what the environment does is held
\* back by this.
SilentTerm ==
    terms = 0 \/ /\ faults = 0
                 /\ \A c \in Conn : peer[c] = "closed" /\ wrote[c] = 0
LiveSpec == Init /\ [][Next /\ SilentTerm']_vars /\ Fairness
=============================================================================
