---------------------------- MODULE FileTransfer ----------------------------
(***************************************************************************)
(* fileclient.c sends /tmp/text.c to fileserver.c: the length of the name, *)
(* the name, and then, for each piece of the file that one read gave, its  *)
(* length and the piece.  The server receives each of them with            *)
(* MSG_WAITALL and looks at what recv returns only before a length.        *)
(*                                                                         *)
(* A piece is known by its number; 0 is what the server writes when its    *)
(* buffer is not, or not wholly, what the client sent for it.              *)
(***************************************************************************)
EXTENDS Naturals, Sequences

CONSTANTS
    MaxPiece,    \* the longest file, in pieces
    MaxFault     \* broken connections and killed clients

\* What is assumed of them.
ConstantsOK == MaxPiece \in Nat /\ MaxFault \in Nat

VARIABLES
    cpc,         \* the client: "namelen", "name", "read", "len", "data",
                 \* "closed", "killed"
    off,         \* how many pieces it has read
    src,         \* the file /tmp/text.c of the client
    wire,        \* what the server has still to receive
    conn,        \* "up", "fin", "reset" (an error is pending), "dead"
    spc,         \* the server: "namelen", "name", "open", "len", "data", "torn" (a
                 \* part of datalen is new), "done", "undefined"
    exists,      \* whether "text.c" and "/tmp/text.c" exist at the server
    samehost,    \* whether the two run on one machine
    target,      \* what filefd is: "none", "name" or "path"
    dst,         \* what filefd has been written
    faults

clientVars == <<cpc, off>>
serverVars == <<spc, exists, samehost, target, dst>>
vars       == <<clientVars, serverVars, src, wire, conn, faults>>

Whole(k) == [j \in 1 .. k |-> j]
Kinds    == {"namelen", "name", "len", "data"}

\* What is sent: of data the piece, and whether the client died within it.
Items == [kind : Kinds, piece : 0 .. MaxPiece, cut : BOOLEAN]

TypeOK ==
    /\ cpc \in {"namelen", "name", "read", "len", "data", "closed", "killed"}
    /\ off \in 0 .. MaxPiece + 1
    /\ src \in Seq(0 .. MaxPiece)
    /\ wire \in Seq(Items)
    /\ conn \in {"up", "fin", "reset", "dead"}
    /\ spc \in {"namelen", "name", "open", "len", "data", "torn", "done",
               "undefined"}
    /\ exists \subseteq {"name", "path"}
    /\ samehost \in BOOLEAN
    /\ target \in {"none", "name", "path"}
    /\ dst \in Seq(0 .. MaxPiece) /\ Len(dst) <= MaxPiece + 1
    /\ faults \in 0 .. MaxFault

\* The client has the file, or it does not start.
Init ==
    /\ cpc = "namelen" /\ off = 0
    /\ \E k \in 0 .. MaxPiece : src = Whole(k)
    /\ wire = <<>> /\ conn = "up"
    /\ spc = "namelen"
    /\ exists \in SUBSET {"name", "path"}
    /\ samehost \in BOOLEAN /\ (samehost => "path" \in exists)
    /\ target = "none" /\ dst = <<>>
    /\ faults = 0

-----------------------------------------------------------------------------
(* The client.                                                             *)

Item(kind, isCut) ==
    [kind |-> kind, piece |-> IF kind = "data" THEN off ELSE 0, cut |-> isCut]

\* A blocking send gives all of it to the connection.
SendItem(kind, then) ==
    /\ cpc = kind /\ conn = "up"
    /\ wire' = Append(wire, Item(kind, FALSE))
    /\ cpc' = then
    /\ UNCHANGED <<off, src, conn, serverVars, faults>>

\* Is there another piece to read?
More == off < Len(src)

ReadPiece ==
    /\ cpc = "read" /\ More
    /\ off' = off + 1
    /\ cpc' = "len"
    /\ UNCHANGED <<src, wire, conn, serverVars, faults>>

\* The file is read: the connection is closed behind what was sent.
CloseFile ==
    /\ cpc = "read" /\ ~ More
    /\ cpc' = "closed"
    /\ conn' = IF conn = "up" THEN "fin" ELSE conn
    /\ UNCHANGED <<off, src, wire, serverVars, faults>>

\* A send into a connection that is broken ends the client.
SendFails ==
    /\ cpc \in Kinds /\ conn # "up"
    /\ cpc' = "killed"
    /\ UNCHANGED <<off, src, wire, conn, serverVars, faults>>

-----------------------------------------------------------------------------
(* The server.                                                             *)

Arrives(kind) == spc = kind /\ wire # <<>> /\ ~ Head(wire).cut

\* recv has less than it was asked for, nothing at the end of the connection, or
\* an error, after which the connection is at its end.
Fails(kind) ==
    /\ spc = kind
    /\ \/ wire # <<>> /\ Head(wire).cut /\ wire' = <<>> /\ UNCHANGED conn
       \/ wire = <<>> /\ conn = "reset" /\ conn' = "dead" /\ UNCHANGED wire
AtEnd(kind) == spc = kind /\ wire = <<>> /\ conn \in {"fin", "dead"}

ReceiveName(kind, then) ==
    /\ Arrives(kind)
    /\ wire' = Tail(wire)
    /\ spc' = then
    /\ UNCHANGED <<clientVars, src, conn, exists, samehost, target, dst, faults>>

\* Nobody looks: what is used as a name was never set.
NameFails(kind) ==
    /\ \/ Fails(kind)
       \/ AtEnd(kind) /\ UNCHANGED <<wire, conn>>
    /\ spc' = "undefined"
    /\ UNCHANGED <<clientVars, src, exists, samehost, target, dst, faults>>

\* The new file is text.c; the old one that is overwritten is /tmp/text.c, which
\* on the client's machine is the one being sent.
OpenTarget ==
    /\ spc = "open"
    /\ target' = CASE "name" \notin exists -> "name"
                   [] "name" \in exists /\ "path" \in exists -> "path"
                   [] OTHER -> "none"
    /\ src' = IF target' = "path" /\ samehost THEN <<>> ELSE src
    /\ spc' = "len"
    /\ UNCHANGED <<clientVars, wire, conn, exists, samehost, dst, faults>>

ReceiveLen ==
    /\ Arrives("len")
    /\ wire' = Tail(wire)
    /\ spc' = "data"
    /\ UNCHANGED <<clientVars, src, conn, exists, samehost, target, dst, faults>>

\* The loop ends when recv returns 0, and goes on after an error or a part.
mutGoOn == "data"
AfterEnd == "done"
LenEnds ==
    /\ AtEnd("len")
    /\ spc' = AfterEnd
    /\ UNCHANGED <<clientVars, src, wire, conn, exists, samehost, target, dst,
                   faults>>
LenFails ==
    /\ Fails("len")
    /\ spc' = IF wire = <<>> THEN "data" ELSE "torn"
    /\ UNCHANGED <<clientVars, src, exists, samehost, target, dst, faults>>

\* datalen bytes of buf are written, whatever recv returned.
Written(piece) == IF target = "none" THEN dst ELSE Append(dst, piece)
WriteTo(file) ==
    /\ dst' = file
    /\ src' = IF target = "path" /\ samehost THEN dst' ELSE src
    /\ spc' = "len"
    /\ UNCHANGED <<clientVars, exists, samehost, target, faults>>
Write(piece) == WriteTo(Written(piece))

ReceiveData ==
    /\ Arrives("data")
    /\ wire' = Tail(wire)
    /\ Write(Head(wire).piece)
    /\ UNCHANGED conn

DataFails ==
    /\ \/ Fails("data")
       \/ AtEnd("data") /\ UNCHANGED <<wire, conn>>
    /\ Write(0)

\* Bytes of two lengths make a third, and nothing follows them: recv is at the end, and
\* write is asked for what lies in buf and behind it, or for nothing or too much.
TornData ==
    /\ spc = "torn"
    /\ WriteTo(dst) \/ Write(0)
    /\ UNCHANGED <<wire, conn>>

-----------------------------------------------------------------------------
(* Failures.                                                               *)

\* The client is killed, perhaps within a send: what it had sent arrives.
KillClient ==
    /\ cpc \notin {"closed", "killed"} /\ faults < MaxFault
    /\ faults' = faults + 1
    /\ cpc' = "killed"
    /\ conn' = IF conn = "up" THEN "fin" ELSE conn
    /\ wire' \in {wire} \cup IF cpc \in Kinds /\ conn = "up"
                              THEN {Append(wire, Item(cpc, TRUE))} ELSE {}
    /\ UNCHANGED <<off, src, serverVars>>

\* The connection breaks, and with it goes what had not arrived.
BreakConnection ==
    /\ conn = "up" /\ faults < MaxFault
    /\ faults' = faults + 1
    /\ conn' = "reset"
    /\ \E k \in 0 .. Len(wire) : wire' = SubSeq(wire, 1, k)
    /\ UNCHANGED <<clientVars, src, serverVars>>

-----------------------------------------------------------------------------
ClientStep ==
    \/ SendItem("namelen", "name") \/ SendItem("name", "read")
    \/ SendItem("len", "data") \/ SendItem("data", "read")
    \/ ReadPiece \/ CloseFile \/ SendFails
ServerStep ==
    \/ ReceiveName("namelen", "name") \/ ReceiveName("name", "open")
    \/ NameFails("namelen") \/ NameFails("name")
    \/ OpenTarget
    \/ ReceiveLen \/ LenEnds \/ LenFails
    \/ ReceiveData \/ DataFails \/ TornData

Next == ClientStep \/ ServerStep \/ KillClient \/ BreakConnection
Spec == Init /\ [][Next]_vars
FairSpec == Spec /\ WF_vars(ClientStep) /\ WF_vars(ServerStep)

-----------------------------------------------------------------------------
(* What the transfer promises.                                             *)

\* When both have come to their end without a failure, and "text.c" was not there
\* before, the server's file is the client's.
CopyIsWhole ==
    spc = "done" /\ faults = 0 /\ target = "name" => dst = src

\* A failure spoils at most the last thing written: the file is a beginning of
\* the client's, then perhaps one piece of what was in the buffer.
DamageIsLast == \A j \in 1 .. Len(dst) - 1 : dst[j] = j

\* What the server has written is the client's file, or a beginning of it that is
\* spoilt at most at its end.
CopyIsSound == CopyIsWhole /\ DamageIsLast

\* The server comes to its end, whatever becomes of the client, even when both
\* use the same file.
Ended == spc \in {"done", "undefined"}
ServerEnds == ~ Ended ~> Ended
=============================================================================
