-------------------------- MODULE FileTransferProofs --------------------------
(***************************************************************************)
(* Theorems about FileTransfer, for files of any length and any number of  *)
(* failures.                                                               *)
(***************************************************************************)
EXTENDS FileTransfer, Integers, TLAPS

-----------------------------------------------------------------------------
(* The inductive invariant.                                                *)

\* The file the client reads is as it was, or is the one the server writes.
SameFile == target = "path" /\ samehost
FileOK ==
    /\ cpc \in {"namelen", "name"} => off = 0
    /\ spc \in {"namelen", "name", "open", "undefined"} => target = "none"
    /\ target = "none" => dst = <<>>
    /\ SameFile => src = dst
    /\ ~ SameFile => /\ src = Whole(Len(src)) /\ Len(src) <= MaxPiece
                     /\ off <= Len(src)
                     /\ cpc = "closed" => off = Len(src)

\* An item is cut when the client was killed, and is the last: a cut length is
\* followed by nothing. Without failures the connection ends when the client closes it.
ConnOK ==
    /\ conn = "up" => cpc \notin {"closed", "killed"} /\ spc \notin {"done", "undefined"}
    /\ \A j \in DOMAIN wire : wire[j].cut => j = Len(wire) /\ conn = "fin" /\ faults > 0
    /\ spc = "torn" => wire = <<>> /\ conn \in {"fin", "dead"} /\ faults > 0
    /\ faults = 0 => /\ conn \in {"up", "fin"} /\ cpc # "killed"
                     /\ conn = "fin" <=> cpc = "closed"

\* How many items the client has sent, and how many the server has received, as long
\* as it can be told from where they are.
Sent == CASE cpc = "namelen" -> 0
          [] cpc = "name" -> 1
          [] cpc = "len" -> 2 * off
          [] cpc = "data" -> 2 * off + 1
          [] OTHER -> 2 * off + 2
Received == CASE spc = "namelen" -> 0
              [] spc = "name" -> 1
              [] spc = "data" -> 2 * Len(dst) + 3
              [] OTHER -> 2 * Len(dst) + 2
Tracked ==
    \/ spc \in {"namelen", "name", "open"}
    \/ spc \in {"len", "data"} /\ target # "none"

\* The two count alike: what the server receives next is what the client sent as that.
StreamOK ==
    Tracked =>
        /\ conn = "up" \/ faults = 0 => Received + Len(wire) = Sent
        /\ wire # <<>> => Received + Len(wire) <= 2 * off + 2
        /\ \A j \in DOMAIN wire, m \in Nat \ {0} :
              Received + j = 2 * m + 2 => wire[j].piece = m

\* What is spoilt is written last: nothing comes after it.
Clean == \A j \in 1 .. Len(dst) : dst[j] = j
DamageOK ==
    IF Clean THEN Len(dst) <= off /\ off <= MaxPiece
    ELSE /\ DamageIsLast /\ faults > 0
         /\ wire = <<>> /\ conn \in {"fin", "dead"} /\ spc \in {"len", "done"}

CopyInv == TypeOK /\ FileOK /\ ConnOK /\ StreamOK /\ DamageOK /\ CopyIsWhole

-----------------------------------------------------------------------------
(* Sequences.                                                              *)

\* What Append gives.
LEMMA AppendSeq ==
    ASSUME NEW S, NEW s \in Seq(S), NEW e \in S
    PROVE  /\ Append(s, e) \in Seq(S) /\ Append(s, e) # <<>>
           /\ Len(s) \in Nat /\ DOMAIN s = 1 .. Len(s)
           /\ Len(Append(s, e)) = Len(s) + 1
           /\ DOMAIN Append(s, e) = 1 .. Len(s) + 1
           /\ Append(s, e)[Len(s) + 1] = e
           /\ \A j \in 1 .. Len(s) : Append(s, e)[j] = s[j]
OBVIOUS

\* What Tail gives.
LEMMA TailSeq ==
    ASSUME NEW S, NEW s \in Seq(S), s # <<>>
    PROVE  /\ Tail(s) \in Seq(S)
           /\ Len(s) \in Nat \ {0} /\ DOMAIN s = 1 .. Len(s)
           /\ Len(Tail(s)) = Len(s) - 1
           /\ DOMAIN Tail(s) = 1 .. Len(s) - 1
           /\ Head(s) = s[1] /\ Head(s) \in S
           /\ \A j \in 1 .. Len(s) - 1 : Tail(s)[j] = s[j + 1]
OBVIOUS

\* What the beginning of a sequence is.
LEMMA PrefixSeq ==
    ASSUME NEW S, NEW s \in Seq(S), NEW k \in 0 .. Len(s)
    PROVE  /\ SubSeq(s, 1, k) \in Seq(S) /\ Len(SubSeq(s, 1, k)) = k
           /\ DOMAIN SubSeq(s, 1, k) = 1 .. k
           /\ Len(s) \in Nat /\ DOMAIN s = 1 .. Len(s)
           /\ \A j \in 1 .. k : SubSeq(s, 1, k)[j] = s[j]
OBVIOUS

\* The empty sequence.
LEMMA EmptySeq ==
    ASSUME NEW S
    PROVE  /\ <<>> \in Seq(S) /\ Len(<<>>) = 0 /\ DOMAIN <<>> = {}
           /\ \A s \in Seq(S) : /\ Len(s) \in Nat /\ DOMAIN s = 1 .. Len(s)
                                /\ Len(s) = 0 <=> s = <<>>
OBVIOUS

\* What a whole file is.
LEMMA WholeSeq ==
    ASSUME NEW n \in Nat, NEW k \in 0 .. n
    PROVE  /\ Whole(k) \in Seq(0 .. n) /\ Len(Whole(k)) = k
           /\ \A j \in 1 .. k : Whole(k)[j] = j
<1>1. Whole(k) \in [1 .. k -> 0 .. n]
  BY DEF Whole
<1>2. Whole(k) \in Seq(0 .. n)
  BY <1>1
<1> QED
  BY <1>2 DEF Whole

-----------------------------------------------------------------------------
(* What the handlers find.                                                 *)

\* What arrives leaves the wire, and the others move up.
LEMMA ArrivesIs ==
    ASSUME TypeOK, NEW kind, Arrives(kind), wire' = Tail(wire)
    PROVE  /\ Len(wire) \in Nat \ {0} /\ wire # <<>> /\ wire' \in Seq(Items)
           /\ DOMAIN wire = 1 .. Len(wire) /\ Len(wire') = Len(wire) - 1
           /\ DOMAIN wire' = 1 .. Len(wire) - 1
           /\ Head(wire) = wire[1] /\ wire[1] \in Items
           /\ \A j \in 1 .. Len(wire) - 1 : wire'[j] = wire[j + 1]
BY TailSeq DEF TypeOK, Arrives

\* A part of an item is the last thing that arrives.
LEMMA FailsIs ==
    ASSUME CopyInv, NEW kind, Fails(kind)
    PROVE  /\ spc = kind /\ wire' = <<>> /\ conn' \in {"fin", "dead"} /\ faults > 0
           /\ wire # <<>> => Len(wire) = 1
           /\ conn \in {"fin", "reset"}
<1> USE DEF CopyInv
<1>1. CASE wire # <<>> /\ Head(wire).cut /\ wire' = <<>> /\ UNCHANGED conn
  <2>1. 1 \in DOMAIN wire /\ Head(wire) = wire[1]
    BY <1>1, TailSeq DEF TypeOK
  <2> QED
    BY <1>1, <2>1 DEF Fails, ConnOK
<1>2. CASE wire = <<>> /\ conn = "reset" /\ conn' = "dead" /\ UNCHANGED wire
  BY <1>2 DEF Fails, ConnOK, TypeOK
<1> QED
  BY <1>1, <1>2 DEF Fails

\* The client sends while the connection is up: nothing is spoilt then.
LEMMA SendIs ==
    ASSUME ConstantsOK, CopyInv, NEW kind \in Kinds, cpc = kind, conn = "up",
           NEW isCut \in BOOLEAN, wire' = Append(wire, Item(kind, isCut))
    PROVE  /\ Clean /\ off <= MaxPiece /\ wire' \in Seq(Items)
           /\ Len(wire) \in Nat /\ DOMAIN wire = 1 .. Len(wire)
           /\ Len(wire') = Len(wire) + 1 /\ wire' # <<>>
           /\ DOMAIN wire' = 1 .. Len(wire) + 1
           /\ \A j \in 1 .. Len(wire) : wire'[j] = wire[j]
           /\ wire'[Len(wire) + 1].cut = isCut
           /\ kind = "data" => wire'[Len(wire) + 1].piece = off
<1>1. Clean /\ off <= MaxPiece
  BY DEF CopyInv, DamageOK
<1>2. Item(kind, isCut) \in Items
  <2>1. off \in 0 .. MaxPiece /\ 0 \in 0 .. MaxPiece
    BY <1>1 DEF CopyInv, TypeOK, ConstantsOK
  <2> QED
    BY <2>1 DEF Item, Items
<1>3. Item(kind, isCut).cut = isCut /\ (kind = "data" => Item(kind, isCut).piece = off)
  BY DEF Item
<1> QED
  BY <1>1, <1>2, <1>3, AppendSeq DEF CopyInv, TypeOK

\* Writing: either nowhere, or behind what was written, and perhaps over the file that
\* is read.
LEMMA WriteIs ==
    ASSUME TypeOK, FileOK, NEW piece \in 0 .. MaxPiece, Write(piece)
    PROVE  /\ spc' = "len" /\ target' = target /\ samehost' = samehost
           /\ off' = off /\ cpc' = cpc /\ faults' = faults
           /\ target = "none" => dst' = dst /\ dst = <<>>
           /\ target # "none" =>
                 /\ dst' = Append(dst, piece) /\ dst' \in Seq(0 .. MaxPiece)
                 /\ Len(dst') = Len(dst) + 1 /\ dst'[Len(dst) + 1] = piece
                 /\ \A j \in 1 .. Len(dst) : dst'[j] = dst[j]
           /\ Len(dst) \in Nat /\ dst \in Seq(0 .. MaxPiece)
           /\ src' = IF SameFile THEN dst' ELSE src
<1>1. dst \in Seq(0 .. MaxPiece) /\ Len(dst) \in Nat
  BY EmptySeq DEF TypeOK
<1>2. /\ spc' = "len" /\ target' = target /\ samehost' = samehost
      /\ off' = off /\ cpc' = cpc /\ faults' = faults
      /\ src' = IF SameFile THEN dst' ELSE src
      /\ dst' = IF target = "none" THEN dst ELSE Append(dst, piece)
  BY DEF Write, WriteTo, Written, SameFile, clientVars
<1>3. target = "none" => dst = <<>>
  BY DEF FileOK
<1>4. /\ Append(dst, piece) \in Seq(0 .. MaxPiece)
      /\ Len(Append(dst, piece)) = Len(dst) + 1
      /\ Append(dst, piece)[Len(dst) + 1] = piece
      /\ \A j \in 1 .. Len(dst) : Append(dst, piece)[j] = dst[j]
  BY <1>1, AppendSeq
<1> QED
  BY <1>1, <1>2, <1>3, <1>4

\* Writing nothing leaves both files as they are.
LEMMA NothingWritten ==
    ASSUME FileOK, WriteTo(dst)
    PROVE  /\ spc' = "len"
           /\ UNCHANGED <<cpc, off, src, exists, samehost, target, dst, faults>>
BY DEF WriteTo, FileOK, SameFile, clientVars

\* After a cut length nothing comes, and nothing was spoilt before.
LEMMA TornIs ==
    ASSUME CopyInv, TornData
    PROVE  /\ spc = "torn" /\ wire = <<>> /\ conn \in {"fin", "dead"} /\ faults > 0
           /\ UNCHANGED <<wire, conn>> /\ Clean
           /\ WriteTo(dst) \/ Write(0)
BY DEF CopyInv, ConnOK, DamageOK, TornData

-----------------------------------------------------------------------------
(* The initial states.                                                     *)

\* The invariant holds at the start.
LEMMA InitCopyInv ==
    ASSUME ConstantsOK, Init
    PROVE  CopyInv
<1>1. PICK k \in 0 .. MaxPiece : src = Whole(k)
  BY DEF Init
<1>2. src \in Seq(0 .. MaxPiece) /\ src = Whole(Len(src)) /\ Len(src) = k
  BY <1>1, WholeSeq DEF ConstantsOK
<1>3. TypeOK
  BY <1>2, EmptySeq DEF Init, TypeOK, ConstantsOK
<1>4. FileOK
  BY <1>2 DEF Init, FileOK, SameFile
<1>5. ConnOK /\ CopyIsWhole
  BY EmptySeq DEF Init, ConnOK, CopyIsWhole
<1>6. StreamOK
  BY EmptySeq DEF Init, StreamOK, Sent, Received
<1>7. DamageOK
  BY EmptySeq DEF Init, DamageOK, Clean, ConstantsOK
<1> QED
  BY <1>3, <1>4, <1>5, <1>6, <1>7 DEF CopyInv

-----------------------------------------------------------------------------
(* What each step keeps of the invariant.                                  *)

\* The file that is written is no longer than the one that was sent and one spoilt
\* piece.
LEMMA TypeStep ==
    ASSUME ConstantsOK, CopyInv, [Next]_vars
    PROVE  TypeOK'
<1> USE DEF CopyInv, clientVars, serverVars, vars
<1>1. CASE SendItem("namelen", "name")
  <2>1. wire' \in Seq(Items)
    BY <1>1, SendIs DEF SendItem, Kinds
  <2> QED
    BY <1>1, <2>1 DEF SendItem, TypeOK
<1>2. CASE SendItem("name", "read")
  <2>1. wire' \in Seq(Items)
    BY <1>2, SendIs DEF SendItem, Kinds
  <2> QED
    BY <1>2, <2>1 DEF SendItem, TypeOK
<1>3. CASE SendItem("len", "data")
  <2>1. wire' \in Seq(Items)
    BY <1>3, SendIs DEF SendItem, Kinds
  <2> QED
    BY <1>3, <2>1 DEF SendItem, TypeOK
<1>4. CASE SendItem("data", "read")
  <2>1. wire' \in Seq(Items)
    BY <1>4, SendIs DEF SendItem, Kinds
  <2> QED
    BY <1>4, <2>1 DEF SendItem, TypeOK
<1>5. CASE ReadPiece
  <2>1. off + 1 \in 0 .. MaxPiece + 1
    <3>1. Len(src) <= MaxPiece + 1 /\ Len(src) \in Nat
      BY EmptySeq DEF FileOK, TypeOK, ConstantsOK
    <3> QED
      BY <1>5, <3>1 DEF ReadPiece, More, TypeOK, ConstantsOK
  <2> QED
    BY <1>5, <2>1 DEF ReadPiece, TypeOK
<1>6. CASE CloseFile
  BY <1>6 DEF CloseFile, More, TypeOK
<1>7. CASE SendFails
  BY <1>7 DEF SendFails, Kinds, TypeOK
<1>8. CASE ReceiveName("namelen", "name")
  <2>1. wire' \in Seq(Items)
    BY <1>8, ArrivesIs DEF ReceiveName, Arrives
  <2> QED
    BY <1>8, <2>1 DEF ReceiveName, Arrives, TypeOK
<1>9. CASE ReceiveName("name", "open")
  <2>1. wire' \in Seq(Items)
    BY <1>9, ArrivesIs DEF ReceiveName, Arrives
  <2> QED
    BY <1>9, <2>1 DEF ReceiveName, Arrives, TypeOK
<1>10. CASE NameFails("namelen")
  <2>1. wire' \in Seq(Items) /\ conn' \in {"fin", "dead"}
    BY <1>10, FailsIs, EmptySeq DEF NameFails, AtEnd, TypeOK
  <2> QED
    BY <1>10, <2>1 DEF NameFails, TypeOK
<1>11. CASE NameFails("name")
  <2>1. wire' \in Seq(Items) /\ conn' \in {"fin", "dead"}
    BY <1>11, FailsIs, EmptySeq DEF NameFails, AtEnd, TypeOK
  <2> QED
    BY <1>11, <2>1 DEF NameFails, TypeOK
<1>12. CASE OpenTarget
  <2>1. src' \in Seq(0 .. MaxPiece)
    BY <1>12, EmptySeq DEF OpenTarget, TypeOK
  <2>2. target' \in {"none", "name", "path"}
    BY <1>12 DEF OpenTarget
  <2> QED
    BY <1>12, <2>1, <2>2 DEF OpenTarget, TypeOK
<1>13. CASE ReceiveLen
  <2>1. wire' \in Seq(Items)
    BY <1>13, ArrivesIs DEF ReceiveLen, Arrives
  <2> QED
    BY <1>13, <2>1 DEF ReceiveLen, Arrives, TypeOK
<1>14. CASE LenEnds
  BY <1>14 DEF LenEnds, AtEnd, AfterEnd, TypeOK
<1>15. CASE LenFails
  <2>1. wire' \in Seq(Items) /\ conn' \in {"fin", "dead"}
    BY <1>15, FailsIs, EmptySeq DEF LenFails, TypeOK
  <2> QED
    BY <1>15, <2>1 DEF LenFails, TypeOK
<1>16. CASE ReceiveData
  <2>1. /\ wire' \in Seq(Items) /\ Head(wire) \in Items /\ wire # <<>>
        /\ Len(wire) \in Nat \ {0} /\ spc = "data"
    BY <1>16, ArrivesIs DEF ReceiveData, Arrives, Write, WriteTo, Written
  <2>2. Head(wire).piece \in 0 .. MaxPiece
    BY <2>1 DEF Items
  <2>3. target # "none" => Len(dst) + 1 <= MaxPiece + 1
    BY <2>1, EmptySeq DEF StreamOK, Tracked, Received, DamageOK, TypeOK, ConstantsOK
  <2>4. dst' \in Seq(0 .. MaxPiece) /\ Len(dst') <= MaxPiece + 1
    BY <1>16, <2>1, <2>2, <2>3, WriteIs DEF ReceiveData, TypeOK
  <2>5. /\ src' \in Seq(0 .. MaxPiece) /\ spc' = "len" /\ target' = target
        /\ samehost' = samehost /\ off' = off /\ cpc' = cpc /\ faults' = faults
        /\ exists' = exists /\ conn' = conn
    BY <1>16, <2>1, <2>2, <2>4, WriteIs DEF ReceiveData, Write, WriteTo, Written, TypeOK
  <2> QED
    BY <2>1, <2>4, <2>5 DEF TypeOK
<1>17. CASE DataFails
  <2>1. /\ wire' \in Seq(Items) /\ spc = "data" /\ conn' \in {"fin", "dead"}
    BY <1>17, FailsIs, EmptySeq DEF DataFails, AtEnd, TypeOK
  <2>2. 0 \in 0 .. MaxPiece
    BY DEF ConstantsOK
  <2>3. target # "none" => Len(dst) + 1 <= MaxPiece + 1
    BY <2>1, EmptySeq DEF DamageOK, TypeOK, ConstantsOK
  <2>4. dst' \in Seq(0 .. MaxPiece) /\ Len(dst') <= MaxPiece + 1
    BY <1>17, <2>1, <2>2, <2>3, WriteIs DEF DataFails, TypeOK
  <2>5. /\ src' \in Seq(0 .. MaxPiece) /\ spc' = "len" /\ target' = target
        /\ samehost' = samehost /\ off' = off /\ cpc' = cpc /\ faults' = faults
        /\ exists' = exists
    BY <1>17, <2>1, <2>2, <2>4, WriteIs DEF DataFails, Write, WriteTo, Written, TypeOK
  <2> QED
    BY <2>1, <2>4, <2>5 DEF TypeOK
<1>18. CASE KillClient
  <2>1. wire' \in Seq(Items)
    <3>1. CASE wire' = wire
      BY <3>1 DEF TypeOK
    <3>2. CASE cpc \in Kinds /\ conn = "up" /\ wire' = Append(wire, Item(cpc, TRUE))
      BY <3>2, SendIs
    <3> QED
      BY <1>18, <3>1, <3>2 DEF KillClient
  <2>2. faults' \in 0 .. MaxFault
    BY <1>18 DEF KillClient, TypeOK, ConstantsOK
  <2> QED
    BY <1>18, <2>1, <2>2 DEF KillClient, TypeOK
<1>19. CASE BreakConnection
  <2>1. wire' \in Seq(Items)
    BY <1>19, PrefixSeq DEF BreakConnection, TypeOK
  <2>2. faults' \in 0 .. MaxFault
    BY <1>19 DEF BreakConnection, TypeOK, ConstantsOK
  <2> QED
    BY <1>19, <2>1, <2>2 DEF BreakConnection, TypeOK
<1>20. CASE UNCHANGED vars
  BY <1>20 DEF TypeOK
<1>21. CASE TornData
  <2>1. spc = "torn" /\ UNCHANGED <<wire, conn>> /\ (WriteTo(dst) \/ Write(0))
    BY <1>21, TornIs
  <2>2. CASE WriteTo(dst)
    <3>1. spc' = "len" /\ UNCHANGED <<cpc, off, src, exists, samehost, target, dst, faults>>
      BY <2>2, NothingWritten
    <3> QED
      BY <2>1, <3>1 DEF TypeOK
  <2>3. CASE Write(0)
    <3>1. 0 \in 0 .. MaxPiece
      BY DEF ConstantsOK
    <3>2. target # "none" => Len(dst) + 1 <= MaxPiece + 1
      BY <2>1, EmptySeq DEF DamageOK, TypeOK, ConstantsOK
    <3>3. dst' \in Seq(0 .. MaxPiece) /\ Len(dst') <= MaxPiece + 1
      BY <2>3, <3>1, <3>2, WriteIs DEF TypeOK
    <3>4. /\ src' \in Seq(0 .. MaxPiece) /\ spc' = "len" /\ target' = target
          /\ samehost' = samehost /\ off' = off /\ cpc' = cpc /\ faults' = faults
          /\ exists' = exists
      BY <2>3, <3>1, <3>3, WriteIs DEF Write, WriteTo, TypeOK
    <3> QED
      BY <2>1, <3>3, <3>4 DEF TypeOK
  <2> QED
    BY <2>1, <2>2, <2>3
<1> QED
  BY <1>1, <1>2, <1>3, <1>4, <1>5, <1>6, <1>7, <1>8, <1>9, <1>10, <1>11,
     <1>12, <1>13, <1>14, <1>15, <1>16, <1>17, <1>18, <1>19, <1>20, <1>21
     DEF Next, ClientStep, ServerStep

\* The file is only changed where the server writes it.
LEMMA FileStep ==
    ASSUME ConstantsOK, CopyInv, [Next]_vars
    PROVE  FileOK'
<1> USE DEF CopyInv, clientVars, serverVars, vars
<1>1. CASE SendItem("namelen", "name")
  BY <1>1 DEF SendItem, FileOK, SameFile
<1>2. CASE SendItem("name", "read")
  BY <1>2 DEF SendItem, FileOK, SameFile
<1>3. CASE SendItem("len", "data")
  BY <1>3 DEF SendItem, FileOK, SameFile
<1>4. CASE SendItem("data", "read")
  BY <1>4 DEF SendItem, FileOK, SameFile
<1>5. CASE ReadPiece
  <2>1. Len(src) \in Nat /\ off \in Nat
    BY EmptySeq DEF TypeOK
  <2> QED
    BY <1>5, <2>1 DEF ReadPiece, More, FileOK, SameFile
<1>6. CASE CloseFile
  <2>1. Len(src) \in Nat /\ off \in Nat
    BY EmptySeq DEF TypeOK
  <2> QED
    BY <1>6, <2>1 DEF CloseFile, More, FileOK, SameFile
<1>7. CASE SendFails
  BY <1>7 DEF SendFails, Kinds, FileOK, SameFile
<1>8. CASE ReceiveName("namelen", "name")
  BY <1>8 DEF ReceiveName, Arrives, FileOK, SameFile
<1>9. CASE ReceiveName("name", "open")
  BY <1>9 DEF ReceiveName, Arrives, FileOK, SameFile
<1>10. CASE NameFails("namelen")
  BY <1>10 DEF NameFails, Fails, AtEnd, FileOK, SameFile
<1>11. CASE NameFails("name")
  BY <1>11 DEF NameFails, Fails, AtEnd, FileOK, SameFile
<1>12. CASE OpenTarget
  BY <1>12 DEF OpenTarget, FileOK, SameFile
<1>13. CASE ReceiveLen
  BY <1>13 DEF ReceiveLen, Arrives, FileOK, SameFile
<1>14. CASE LenEnds
  BY <1>14 DEF LenEnds, AtEnd, AfterEnd, FileOK, SameFile
<1>15. CASE LenFails
  BY <1>15 DEF LenFails, Fails, FileOK, SameFile
<1>16. CASE ReceiveData
  <2>1. Head(wire) \in Items /\ spc = "data"
    BY <1>16, ArrivesIs DEF ReceiveData, Arrives
  <2>2. Head(wire).piece \in 0 .. MaxPiece
    BY <2>1 DEF Items
  <2> QED
    BY <1>16, <2>1, <2>2, WriteIs DEF ReceiveData, FileOK, SameFile
<1>17. CASE DataFails
  <2>1. 0 \in 0 .. MaxPiece /\ spc = "data" /\ Write(0)
    BY <1>17 DEF DataFails, Fails, AtEnd, Write, WriteTo, Written, ConstantsOK
  <2> QED
    BY <1>17, <2>1, WriteIs DEF FileOK, SameFile
<1>18. CASE KillClient
  BY <1>18 DEF KillClient, Kinds, FileOK, SameFile
<1>19. CASE BreakConnection
  BY <1>19 DEF BreakConnection, FileOK, SameFile
<1>20. CASE UNCHANGED vars
  BY <1>20 DEF FileOK, SameFile
<1>21. CASE TornData
  <2>1. spc = "torn" /\ (WriteTo(dst) \/ Write(0))
    BY <1>21, TornIs
  <2>2. CASE WriteTo(dst)
    <3>1. spc' = "len" /\ UNCHANGED <<cpc, off, src, exists, samehost, target, dst, faults>>
      BY <2>2, NothingWritten
    <3> QED
      BY <2>1, <3>1 DEF FileOK, SameFile
  <2>3. CASE Write(0)
    <3>1. 0 \in 0 .. MaxPiece
      BY DEF ConstantsOK
    <3> QED
      BY <2>1, <2>3, <3>1, WriteIs DEF FileOK, SameFile
  <2> QED
    BY <2>1, <2>2, <2>3
<1> QED
  BY <1>1, <1>2, <1>3, <1>4, <1>5, <1>6, <1>7, <1>8, <1>9, <1>10, <1>11,
     <1>12, <1>13, <1>14, <1>15, <1>16, <1>17, <1>18, <1>19, <1>20, <1>21
     DEF Next, ClientStep, ServerStep

\* Only the client cuts an item, and only at the end.
LEMMA ConnStep ==
    ASSUME ConstantsOK, CopyInv, [Next]_vars
    PROVE  ConnOK'
<1> USE DEF CopyInv, clientVars, serverVars, vars
<1>1. CASE SendItem("namelen", "name")
  <2>1. /\ DOMAIN wire = 1 .. Len(wire) /\ DOMAIN wire' = 1 .. Len(wire) + 1
        /\ Len(wire) \in Nat /\ Len(wire') = Len(wire) + 1
        /\ wire'[Len(wire) + 1].cut = FALSE
        /\ \A j \in 1 .. Len(wire) : wire'[j] = wire[j]
    BY <1>1, SendIs DEF SendItem, Kinds
  <2>2. /\ conn = "up" /\ conn' = "up" /\ spc' = spc /\ faults' = faults
        /\ cpc' \notin {"closed", "killed"}
    BY <1>1 DEF SendItem
  <2>3. \A j \in DOMAIN wire' : j \in 1 .. Len(wire) \/ j = Len(wire) + 1
    BY <2>1
  <2>4. \A j \in DOMAIN wire' : ~ wire'[j].cut
    BY <2>1, <2>2, <2>3 DEF ConnOK
  <2> QED
    BY <1>1, <2>2, <2>4 DEF ConnOK
<1>2. CASE SendItem("name", "read")
  <2>1. /\ DOMAIN wire = 1 .. Len(wire) /\ DOMAIN wire' = 1 .. Len(wire) + 1
        /\ Len(wire) \in Nat /\ Len(wire') = Len(wire) + 1
        /\ wire'[Len(wire) + 1].cut = FALSE
        /\ \A j \in 1 .. Len(wire) : wire'[j] = wire[j]
    BY <1>2, SendIs DEF SendItem, Kinds
  <2>2. /\ conn = "up" /\ conn' = "up" /\ spc' = spc /\ faults' = faults
        /\ cpc' \notin {"closed", "killed"}
    BY <1>2 DEF SendItem
  <2>3. \A j \in DOMAIN wire' : j \in 1 .. Len(wire) \/ j = Len(wire) + 1
    BY <2>1
  <2>4. \A j \in DOMAIN wire' : ~ wire'[j].cut
    BY <2>1, <2>2, <2>3 DEF ConnOK
  <2> QED
    BY <1>2, <2>2, <2>4 DEF ConnOK
<1>3. CASE SendItem("len", "data")
  <2>1. /\ DOMAIN wire = 1 .. Len(wire) /\ DOMAIN wire' = 1 .. Len(wire) + 1
        /\ Len(wire) \in Nat /\ Len(wire') = Len(wire) + 1
        /\ wire'[Len(wire) + 1].cut = FALSE
        /\ \A j \in 1 .. Len(wire) : wire'[j] = wire[j]
    BY <1>3, SendIs DEF SendItem, Kinds
  <2>2. /\ conn = "up" /\ conn' = "up" /\ spc' = spc /\ faults' = faults
        /\ cpc' \notin {"closed", "killed"}
    BY <1>3 DEF SendItem
  <2>3. \A j \in DOMAIN wire' : j \in 1 .. Len(wire) \/ j = Len(wire) + 1
    BY <2>1
  <2>4. \A j \in DOMAIN wire' : ~ wire'[j].cut
    BY <2>1, <2>2, <2>3 DEF ConnOK
  <2> QED
    BY <1>3, <2>2, <2>4 DEF ConnOK
<1>4. CASE SendItem("data", "read")
  <2>1. /\ DOMAIN wire = 1 .. Len(wire) /\ DOMAIN wire' = 1 .. Len(wire) + 1
        /\ Len(wire) \in Nat /\ Len(wire') = Len(wire) + 1
        /\ wire'[Len(wire) + 1].cut = FALSE
        /\ \A j \in 1 .. Len(wire) : wire'[j] = wire[j]
    BY <1>4, SendIs DEF SendItem, Kinds
  <2>2. /\ conn = "up" /\ conn' = "up" /\ spc' = spc /\ faults' = faults
        /\ cpc' \notin {"closed", "killed"}
    BY <1>4 DEF SendItem
  <2>3. \A j \in DOMAIN wire' : j \in 1 .. Len(wire) \/ j = Len(wire) + 1
    BY <2>1
  <2>4. \A j \in DOMAIN wire' : ~ wire'[j].cut
    BY <2>1, <2>2, <2>3 DEF ConnOK
  <2> QED
    BY <1>4, <2>2, <2>4 DEF ConnOK
<1>5. CASE ReadPiece
  BY <1>5 DEF ReadPiece, More, ConnOK
<1>6. CASE CloseFile
  BY <1>6 DEF CloseFile, More, ConnOK
<1>7. CASE SendFails
  BY <1>7 DEF SendFails, Kinds, ConnOK
<1>8. CASE ReceiveName("namelen", "name")
  <2>1. /\ DOMAIN wire = 1 .. Len(wire) /\ DOMAIN wire' = 1 .. Len(wire) - 1
        /\ Len(wire) \in Nat \ {0} /\ Len(wire') = Len(wire) - 1
        /\ \A j \in 1 .. Len(wire) - 1 : wire'[j] = wire[j + 1]
    BY <1>8, ArrivesIs DEF ReceiveName, Arrives
  <2>2. ASSUME NEW j \in DOMAIN wire', wire'[j].cut
        PROVE  j = Len(wire') /\ conn = "fin" /\ faults > 0
    <3>1. j + 1 \in DOMAIN wire /\ wire[j + 1].cut /\ j \in Int
      BY <2>1, <2>2
    <3>2. j + 1 = Len(wire) /\ conn = "fin" /\ faults > 0
      BY <3>1 DEF ConnOK
    <3> QED
      BY <2>1, <3>1, <3>2
  <2> QED
    BY <1>8, <2>2 DEF ReceiveName, Arrives, ConnOK, clientVars, serverVars
<1>9. CASE ReceiveName("name", "open")
  <2>1. /\ DOMAIN wire = 1 .. Len(wire) /\ DOMAIN wire' = 1 .. Len(wire) - 1
        /\ Len(wire) \in Nat \ {0} /\ Len(wire') = Len(wire) - 1
        /\ \A j \in 1 .. Len(wire) - 1 : wire'[j] = wire[j + 1]
    BY <1>9, ArrivesIs DEF ReceiveName, Arrives
  <2>2. ASSUME NEW j \in DOMAIN wire', wire'[j].cut
        PROVE  j = Len(wire') /\ conn = "fin" /\ faults > 0
    <3>1. j + 1 \in DOMAIN wire /\ wire[j + 1].cut /\ j \in Int
      BY <2>1, <2>2
    <3>2. j + 1 = Len(wire) /\ conn = "fin" /\ faults > 0
      BY <3>1 DEF ConnOK
    <3> QED
      BY <2>1, <3>1, <3>2
  <2> QED
    BY <1>9, <2>2 DEF ReceiveName, Arrives, ConnOK, clientVars, serverVars
<1>10. CASE NameFails("namelen")
  <2>1. DOMAIN wire' = {} /\ conn' \in {"fin", "dead"} /\ (faults = 0 => conn' = "fin" /\ conn = "fin")
    BY <1>10, FailsIs, EmptySeq DEF NameFails, LenFails, DataFails, AtEnd, ConnOK
  <2> QED
    BY <1>10, <2>1 DEF NameFails, LenFails, DataFails, Write, WriteTo, Written, ConnOK
<1>11. CASE NameFails("name")
  <2>1. DOMAIN wire' = {} /\ conn' \in {"fin", "dead"} /\ (faults = 0 => conn' = "fin" /\ conn = "fin")
    BY <1>11, FailsIs, EmptySeq DEF NameFails, LenFails, DataFails, AtEnd, ConnOK
  <2> QED
    BY <1>11, <2>1 DEF NameFails, LenFails, DataFails, Write, WriteTo, Written, ConnOK
<1>12. CASE OpenTarget
  BY <1>12 DEF OpenTarget, ConnOK
<1>13. CASE ReceiveLen
  <2>1. /\ DOMAIN wire = 1 .. Len(wire) /\ DOMAIN wire' = 1 .. Len(wire) - 1
        /\ Len(wire) \in Nat \ {0} /\ Len(wire') = Len(wire) - 1
        /\ \A j \in 1 .. Len(wire) - 1 : wire'[j] = wire[j + 1]
    BY <1>13, ArrivesIs DEF ReceiveLen, Arrives
  <2>2. ASSUME NEW j \in DOMAIN wire', wire'[j].cut
        PROVE  j = Len(wire') /\ conn = "fin" /\ faults > 0
    <3>1. j + 1 \in DOMAIN wire /\ wire[j + 1].cut /\ j \in Int
      BY <2>1, <2>2
    <3>2. j + 1 = Len(wire) /\ conn = "fin" /\ faults > 0
      BY <3>1 DEF ConnOK
    <3> QED
      BY <2>1, <3>1, <3>2
  <2> QED
    BY <1>13, <2>2 DEF ReceiveLen, Arrives, ConnOK, clientVars, serverVars
<1>14. CASE LenEnds
  BY <1>14 DEF LenEnds, AtEnd, AfterEnd, ConnOK
<1>15. CASE LenFails
  <2>1. /\ wire' = <<>> /\ DOMAIN wire' = {} /\ conn' \in {"fin", "dead"} /\ faults > 0
        /\ UNCHANGED <<cpc, faults>>
    BY <1>15, FailsIs, EmptySeq DEF LenFails
  <2>2. faults' # 0 /\ conn' # "up"
    BY <2>1 DEF TypeOK
  <2> QED
    BY <2>1, <2>2 DEF ConnOK
<1>16. CASE ReceiveData
  <2>1. /\ DOMAIN wire = 1 .. Len(wire) /\ DOMAIN wire' = 1 .. Len(wire) - 1
        /\ Len(wire) \in Nat \ {0} /\ Len(wire') = Len(wire) - 1
        /\ \A j \in 1 .. Len(wire) - 1 : wire'[j] = wire[j + 1]
    BY <1>16, ArrivesIs DEF ReceiveData, Arrives, Write, WriteTo, Written
  <2>2. ASSUME NEW j \in DOMAIN wire', wire'[j].cut
        PROVE  j = Len(wire') /\ conn = "fin" /\ faults > 0
    <3>1. j + 1 \in DOMAIN wire /\ wire[j + 1].cut /\ j \in Int
      BY <2>1, <2>2
    <3>2. j + 1 = Len(wire) /\ conn = "fin" /\ faults > 0
      BY <3>1 DEF ConnOK
    <3> QED
      BY <2>1, <3>1, <3>2
  <2> QED
    BY <1>16, <2>2 DEF ReceiveData, Arrives, Write, WriteTo, Written, ConnOK, clientVars, serverVars
<1>17. CASE DataFails
  <2>1. DOMAIN wire' = {} /\ conn' \in {"fin", "dead"} /\ (faults = 0 => conn' = "fin" /\ conn = "fin")
    BY <1>17, FailsIs, EmptySeq DEF NameFails, LenFails, DataFails, AtEnd, ConnOK
  <2> QED
    BY <1>17, <2>1 DEF NameFails, LenFails, DataFails, Write, WriteTo, Written, ConnOK
<1>18. CASE KillClient
  <2>1. faults' > 0 /\ conn' # "up" /\ spc' = spc /\ (conn = "up" => conn' = "fin")
        /\ (conn # "up" => conn' = conn)
    BY <1>18 DEF KillClient, TypeOK
  <2>2. CASE wire' = wire
    BY <1>18, <2>1, <2>2 DEF KillClient, ConnOK
  <2>3. CASE cpc \in Kinds /\ conn = "up" /\ wire' = Append(wire, Item(cpc, TRUE))
    <3>1. /\ DOMAIN wire = 1 .. Len(wire) /\ DOMAIN wire' = 1 .. Len(wire) + 1
          /\ Len(wire) \in Nat /\ Len(wire') = Len(wire) + 1
          /\ \A j \in 1 .. Len(wire) : wire'[j] = wire[j]
      BY <2>3, SendIs
    <3>2. \A j \in 1 .. Len(wire) : ~ wire'[j].cut
      BY <2>3, <3>1 DEF ConnOK
    <3>3. \A j \in DOMAIN wire' : wire'[j].cut => j = Len(wire')
      BY <3>1, <3>2
    <3>4. conn' = "fin" /\ faults' > 0 /\ faults' # 0
      BY <2>1, <2>3
    <3>5. spc' # "torn"
      BY <2>1, <2>3 DEF ConnOK
    <3> QED
      BY <3>3, <3>4, <3>5 DEF ConnOK
  <2> QED
    BY <1>18, <2>2, <2>3 DEF KillClient
<1>19. CASE BreakConnection
  <2>1. PICK k \in 0 .. Len(wire) : wire' = SubSeq(wire, 1, k)
    BY <1>19 DEF BreakConnection
  <2>2. \A j \in DOMAIN wire' : ~ wire'[j].cut
    BY <1>19, <2>1, PrefixSeq DEF BreakConnection, TypeOK, ConnOK
  <2>3. faults' > 0 /\ conn' = "reset" /\ spc' # "torn"
    BY <1>19 DEF BreakConnection, TypeOK, ConnOK
  <2> QED
    BY <2>2, <2>3 DEF ConnOK
<1>20. CASE UNCHANGED vars
  BY <1>20 DEF ConnOK
<1>21. CASE TornData
  <2>1. /\ wire = <<>> /\ conn \in {"fin", "dead"} /\ faults > 0
        /\ UNCHANGED <<wire, conn>> /\ (WriteTo(dst) \/ Write(0))
    BY <1>21, TornIs
  <2>2. spc' = "len" /\ UNCHANGED <<cpc, faults>>
    BY <2>1 DEF Write, WriteTo
  <2>3. faults' # 0 /\ conn' # "up" /\ DOMAIN wire' = {}
    BY <2>1, <2>2, EmptySeq DEF TypeOK
  <2> QED
    BY <2>2, <2>3 DEF ConnOK
<1> QED
  BY <1>1, <1>2, <1>3, <1>4, <1>5, <1>6, <1>7, <1>8, <1>9, <1>10, <1>11,
     <1>12, <1>13, <1>14, <1>15, <1>16, <1>17, <1>18, <1>19, <1>20, <1>21
     DEF Next, ClientStep, ServerStep

\* Data is only missing after a failure: the client sends it behind its length.
LEMMA DataFailsIs ==
    ASSUME CopyInv, DataFails, target # "none"
    PROVE  faults # 0
<1> USE DEF CopyInv
<1>1. CASE Fails("data")
  BY <1>1, FailsIs
<1>2. CASE AtEnd("data")
  <2> SUFFICES ASSUME faults = 0 PROVE FALSE
    OBVIOUS
  <2>1. cpc = "closed" /\ wire = <<>> /\ spc = "data"
    BY <1>2 DEF AtEnd, ConnOK
  <2>2. Received + Len(wire) = Sent
    BY <2>1 DEF StreamOK, Tracked
  <2>3. /\ Received = 2 * Len(dst) + 3 /\ Sent = 2 * off + 2 /\ Len(wire) = 0
        /\ Len(dst) \in Nat /\ off \in Nat
    BY <2>1, EmptySeq DEF Received, Sent, TypeOK
  <2> QED
    BY <2>2, <2>3
<1> QED
  BY <1>1, <1>2 DEF DataFails

\* What arrives as data is the piece that is written next, and was read already.
LEMMA DataIsNext ==
    ASSUME CopyInv, ReceiveData, target # "none"
    PROVE  Head(wire).piece = Len(dst) + 1 /\ Len(dst) + 1 <= off
<1> USE DEF CopyInv
<1>1. /\ wire # <<>> /\ Head(wire) = wire[1] /\ 1 \in DOMAIN wire
      /\ Len(wire) \in Nat \ {0} /\ spc = "data"
  BY ArrivesIs DEF ReceiveData, Arrives
<1>2. Len(dst) \in Nat /\ off \in Nat
  BY EmptySeq DEF TypeOK
<1>3. Received = 2 * Len(dst) + 3 /\ Tracked
  BY <1>1 DEF Received, Tracked
<1>4. Received + Len(wire) <= 2 * off + 2
  BY <1>1, <1>3 DEF StreamOK
<1>5. Len(dst) + 1 <= off
  BY <1>1, <1>2, <1>3, <1>4
<1>6. Len(dst) + 1 \in Nat \ {0} /\ Received + 1 = 2 * (Len(dst) + 1) + 2
  BY <1>2, <1>3
<1>7. wire[1].piece = Len(dst) + 1
  BY <1>1, <1>3, <1>6 DEF StreamOK
<1> QED
  BY <1>1, <1>5, <1>7

\* The server receives an item: it has one more and the wire one less.
LEMMA ShiftStream ==
    ASSUME CopyInv, UNCHANGED <<cpc, off, conn, faults>>,
           Received' = Received + 1, Tracked' => Tracked,
           Len(wire) \in Nat \ {0}, Len(wire') = Len(wire) - 1, wire # <<>>,
           DOMAIN wire = 1 .. Len(wire), DOMAIN wire' = 1 .. Len(wire) - 1,
           \A j \in 1 .. Len(wire) - 1 : wire'[j] = wire[j + 1]
    PROVE  StreamOK'
<1> USE DEF CopyInv
<1> SUFFICES ASSUME Tracked
             PROVE  /\ conn = "up" \/ faults = 0 => Received + 1 + Len(wire') = Sent'
                    /\ Received + 1 + Len(wire') <= 2 * off + 2
                    /\ \A j \in DOMAIN wire', m \in Nat \ {0} :
                          Received + 1 + j = 2 * m + 2 => wire'[j].piece = m
  BY DEF StreamOK
<1>1. Received \in Nat /\ Sent' = Sent /\ Sent \in Nat
  BY EmptySeq DEF Received, Sent, TypeOK
<1>2. ASSUME NEW j \in DOMAIN wire', NEW m \in Nat \ {0}, Received + 1 + j = 2 * m + 2
      PROVE  wire'[j].piece = m
  <2>1. j + 1 \in DOMAIN wire /\ wire'[j] = wire[j + 1] /\ j \in Int
    OBVIOUS
  <2>2. Received + (j + 1) = 2 * m + 2
    BY <1>1, <1>2, <2>1
  <2> QED
    BY <2>1, <2>2 DEF StreamOK
<1>3. /\ conn = "up" \/ faults = 0 => Received + Len(wire) = Sent
      /\ Received + Len(wire) <= 2 * off + 2
  BY DEF StreamOK
<1>4. Received + 1 + Len(wire') = Received + Len(wire)
  BY <1>1
<1> QED
  BY <1>1, <1>2, <1>3, <1>4

\* Nothing is left on the wire and the connection is over.
LEMMA OverStream ==
    ASSUME wire' = <<>>, conn' \in {"fin", "dead"}, faults' # 0
    PROVE  StreamOK'
BY EmptySeq DEF StreamOK


\* Whatever is cut off or lost, what arrives is received as what it was sent as.
LEMMA StreamStep ==
    ASSUME ConstantsOK, CopyInv, [Next]_vars
    PROVE  StreamOK'
<1> USE DEF CopyInv, clientVars, serverVars, vars
<1>1. CASE SendItem("namelen", "name")
  <2>1. /\ DOMAIN wire' = 1 .. Len(wire) + 1 /\ DOMAIN wire = 1 .. Len(wire)
        /\ Len(wire) \in Nat /\ Len(wire') = Len(wire) + 1
        /\ \A j \in 1 .. Len(wire) : wire'[j] = wire[j]
        /\ "namelen" = "data" => wire'[Len(wire) + 1].piece = off
    BY <1>1, SendIs DEF SendItem, Kinds
  <2>2. /\ cpc = "namelen" /\ cpc' = "name" /\ conn = "up" /\ conn' = conn
        /\ off' = off /\ spc' = spc /\ dst' = dst /\ target' = target /\ faults' = faults
    BY <1>1 DEF SendItem
  <2>3. Received' = Received /\ (Tracked' <=> Tracked)
    BY <2>2 DEF Received, Tracked
  <2>4. off \in Nat /\ Received \in Nat
    BY EmptySeq DEF TypeOK, Received
  <2>5. Sent' = Sent + 1 /\ Sent + 1 <= 2 * off + 2
    BY <2>2, <2>4 DEF Sent, FileOK
  <2> SUFFICES ASSUME Tracked
               PROVE  /\ Received + Len(wire') = Sent'
                      /\ Received + Len(wire') <= 2 * off + 2
                      /\ \A j \in DOMAIN wire', m \in Nat \ {0} :
                            Received + j = 2 * m + 2 => wire'[j].piece = m
    BY <2>2, <2>3 DEF StreamOK
  <2>6. Received + Len(wire) = Sent
    BY <2>2 DEF StreamOK
  <2>7. ASSUME NEW m \in Nat \ {0}, Received + (Len(wire) + 1) = 2 * m + 2
        PROVE  wire'[Len(wire) + 1].piece = m
    <3>1. Sent + 1 = 2 * m + 2
      BY <2>1, <2>4, <2>6, <2>7
    <3>2. "namelen" = "data" /\ off = m
      BY <2>2, <2>4, <3>1 DEF Sent, FileOK
    <3> QED
      BY <2>1, <3>2
  <2>8. ASSUME NEW j \in DOMAIN wire', NEW m \in Nat \ {0}, Received + j = 2 * m + 2
        PROVE  wire'[j].piece = m
    <3>1. CASE j \in 1 .. Len(wire)
      <4>1. wire[j].piece = m
        BY <2>1, <2>8, <3>1 DEF StreamOK
      <4> QED
        BY <2>1, <3>1, <4>1
    <3>2. CASE j = Len(wire) + 1
      BY <2>7, <2>8, <3>2
    <3> QED
      BY <2>1, <3>1, <3>2
  <2>9. Received + Len(wire') = Sent + 1
    BY <2>1, <2>4, <2>6
  <2> QED
    BY <2>5, <2>8, <2>9
<1>2. CASE SendItem("name", "read")
  <2>1. /\ DOMAIN wire' = 1 .. Len(wire) + 1 /\ DOMAIN wire = 1 .. Len(wire)
        /\ Len(wire) \in Nat /\ Len(wire') = Len(wire) + 1
        /\ \A j \in 1 .. Len(wire) : wire'[j] = wire[j]
        /\ "name" = "data" => wire'[Len(wire) + 1].piece = off
    BY <1>2, SendIs DEF SendItem, Kinds
  <2>2. /\ cpc = "name" /\ cpc' = "read" /\ conn = "up" /\ conn' = conn
        /\ off' = off /\ spc' = spc /\ dst' = dst /\ target' = target /\ faults' = faults
    BY <1>2 DEF SendItem
  <2>3. Received' = Received /\ (Tracked' <=> Tracked)
    BY <2>2 DEF Received, Tracked
  <2>4. off \in Nat /\ Received \in Nat
    BY EmptySeq DEF TypeOK, Received
  <2>5. Sent' = Sent + 1 /\ Sent + 1 <= 2 * off + 2
    BY <2>2, <2>4 DEF Sent, FileOK
  <2> SUFFICES ASSUME Tracked
               PROVE  /\ Received + Len(wire') = Sent'
                      /\ Received + Len(wire') <= 2 * off + 2
                      /\ \A j \in DOMAIN wire', m \in Nat \ {0} :
                            Received + j = 2 * m + 2 => wire'[j].piece = m
    BY <2>2, <2>3 DEF StreamOK
  <2>6. Received + Len(wire) = Sent
    BY <2>2 DEF StreamOK
  <2>7. ASSUME NEW m \in Nat \ {0}, Received + (Len(wire) + 1) = 2 * m + 2
        PROVE  wire'[Len(wire) + 1].piece = m
    <3>1. Sent + 1 = 2 * m + 2
      BY <2>1, <2>4, <2>6, <2>7
    <3>2. "name" = "data" /\ off = m
      BY <2>2, <2>4, <3>1 DEF Sent, FileOK
    <3> QED
      BY <2>1, <3>2
  <2>8. ASSUME NEW j \in DOMAIN wire', NEW m \in Nat \ {0}, Received + j = 2 * m + 2
        PROVE  wire'[j].piece = m
    <3>1. CASE j \in 1 .. Len(wire)
      <4>1. wire[j].piece = m
        BY <2>1, <2>8, <3>1 DEF StreamOK
      <4> QED
        BY <2>1, <3>1, <4>1
    <3>2. CASE j = Len(wire) + 1
      BY <2>7, <2>8, <3>2
    <3> QED
      BY <2>1, <3>1, <3>2
  <2>9. Received + Len(wire') = Sent + 1
    BY <2>1, <2>4, <2>6
  <2> QED
    BY <2>5, <2>8, <2>9
<1>3. CASE SendItem("len", "data")
  <2>1. /\ DOMAIN wire' = 1 .. Len(wire) + 1 /\ DOMAIN wire = 1 .. Len(wire)
        /\ Len(wire) \in Nat /\ Len(wire') = Len(wire) + 1
        /\ \A j \in 1 .. Len(wire) : wire'[j] = wire[j]
        /\ "len" = "data" => wire'[Len(wire) + 1].piece = off
    BY <1>3, SendIs DEF SendItem, Kinds
  <2>2. /\ cpc = "len" /\ cpc' = "data" /\ conn = "up" /\ conn' = conn
        /\ off' = off /\ spc' = spc /\ dst' = dst /\ target' = target /\ faults' = faults
    BY <1>3 DEF SendItem
  <2>3. Received' = Received /\ (Tracked' <=> Tracked)
    BY <2>2 DEF Received, Tracked
  <2>4. off \in Nat /\ Received \in Nat
    BY EmptySeq DEF TypeOK, Received
  <2>5. Sent' = Sent + 1 /\ Sent + 1 <= 2 * off + 2
    BY <2>2, <2>4 DEF Sent, FileOK
  <2> SUFFICES ASSUME Tracked
               PROVE  /\ Received + Len(wire') = Sent'
                      /\ Received + Len(wire') <= 2 * off + 2
                      /\ \A j \in DOMAIN wire', m \in Nat \ {0} :
                            Received + j = 2 * m + 2 => wire'[j].piece = m
    BY <2>2, <2>3 DEF StreamOK
  <2>6. Received + Len(wire) = Sent
    BY <2>2 DEF StreamOK
  <2>7. ASSUME NEW m \in Nat \ {0}, Received + (Len(wire) + 1) = 2 * m + 2
        PROVE  wire'[Len(wire) + 1].piece = m
    <3>1. Sent + 1 = 2 * m + 2
      BY <2>1, <2>4, <2>6, <2>7
    <3>2. "len" = "data" /\ off = m
      BY <2>2, <2>4, <3>1 DEF Sent, FileOK
    <3> QED
      BY <2>1, <3>2
  <2>8. ASSUME NEW j \in DOMAIN wire', NEW m \in Nat \ {0}, Received + j = 2 * m + 2
        PROVE  wire'[j].piece = m
    <3>1. CASE j \in 1 .. Len(wire)
      <4>1. wire[j].piece = m
        BY <2>1, <2>8, <3>1 DEF StreamOK
      <4> QED
        BY <2>1, <3>1, <4>1
    <3>2. CASE j = Len(wire) + 1
      BY <2>7, <2>8, <3>2
    <3> QED
      BY <2>1, <3>1, <3>2
  <2>9. Received + Len(wire') = Sent + 1
    BY <2>1, <2>4, <2>6
  <2> QED
    BY <2>5, <2>8, <2>9
<1>4. CASE SendItem("data", "read")
  <2>1. /\ DOMAIN wire' = 1 .. Len(wire) + 1 /\ DOMAIN wire = 1 .. Len(wire)
        /\ Len(wire) \in Nat /\ Len(wire') = Len(wire) + 1
        /\ \A j \in 1 .. Len(wire) : wire'[j] = wire[j]
        /\ "data" = "data" => wire'[Len(wire) + 1].piece = off
    BY <1>4, SendIs DEF SendItem, Kinds
  <2>2. /\ cpc = "data" /\ cpc' = "read" /\ conn = "up" /\ conn' = conn
        /\ off' = off /\ spc' = spc /\ dst' = dst /\ target' = target /\ faults' = faults
    BY <1>4 DEF SendItem
  <2>3. Received' = Received /\ (Tracked' <=> Tracked)
    BY <2>2 DEF Received, Tracked
  <2>4. off \in Nat /\ Received \in Nat
    BY EmptySeq DEF TypeOK, Received
  <2>5. Sent' = Sent + 1 /\ Sent + 1 <= 2 * off + 2
    BY <2>2, <2>4 DEF Sent, FileOK
  <2> SUFFICES ASSUME Tracked
               PROVE  /\ Received + Len(wire') = Sent'
                      /\ Received + Len(wire') <= 2 * off + 2
                      /\ \A j \in DOMAIN wire', m \in Nat \ {0} :
                            Received + j = 2 * m + 2 => wire'[j].piece = m
    BY <2>2, <2>3 DEF StreamOK
  <2>6. Received + Len(wire) = Sent
    BY <2>2 DEF StreamOK
  <2>7. ASSUME NEW m \in Nat \ {0}, Received + (Len(wire) + 1) = 2 * m + 2
        PROVE  wire'[Len(wire) + 1].piece = m
    <3>1. Sent + 1 = 2 * m + 2
      BY <2>1, <2>4, <2>6, <2>7
    <3>2. "data" = "data" /\ off = m
      BY <2>2, <2>4, <3>1 DEF Sent, FileOK
    <3> QED
      BY <2>1, <3>2
  <2>8. ASSUME NEW j \in DOMAIN wire', NEW m \in Nat \ {0}, Received + j = 2 * m + 2
        PROVE  wire'[j].piece = m
    <3>1. CASE j \in 1 .. Len(wire)
      <4>1. wire[j].piece = m
        BY <2>1, <2>8, <3>1 DEF StreamOK
      <4> QED
        BY <2>1, <3>1, <4>1
    <3>2. CASE j = Len(wire) + 1
      BY <2>7, <2>8, <3>2
    <3> QED
      BY <2>1, <3>1, <3>2
  <2>9. Received + Len(wire') = Sent + 1
    BY <2>1, <2>4, <2>6
  <2> QED
    BY <2>5, <2>8, <2>9
<1>5. CASE ReadPiece
  <2>1. /\ cpc = "read" /\ cpc' = "len" /\ off' = off + 1 /\ off \in Nat
        /\ UNCHANGED <<wire, conn, spc, target, dst, faults>>
    BY <1>5 DEF ReadPiece, TypeOK
  <2>2. Received' = Received /\ (Tracked' <=> Tracked)
    BY <2>1 DEF Received, Tracked
  <2>3. Sent' = Sent
    BY <2>1 DEF Sent
  <2>4. Received \in Nat
    BY EmptySeq DEF Received, TypeOK
  <2> QED
    BY <2>1, <2>2, <2>3, <2>4, EmptySeq DEF StreamOK, TypeOK
<1>6. CASE CloseFile
  <2>1. Sent' = Sent /\ Received' = Received /\ (Tracked' <=> Tracked)
    BY <1>6 DEF CloseFile, Sent, Received, Tracked, serverVars
  <2>2. /\ UNCHANGED <<wire, off, faults>> /\ (conn' = "up" => conn = "up")
    BY <1>6 DEF CloseFile
  <2> QED
    BY <2>1, <2>2 DEF StreamOK
<1>7. CASE SendFails
  <2>1. Received' = Received /\ (Tracked' <=> Tracked)
    BY <1>7 DEF SendFails, Received, Tracked, serverVars
  <2>2. /\ UNCHANGED <<wire, off, faults, conn>> /\ conn # "up" /\ faults # 0
    BY <1>7 DEF SendFails, Kinds, ConnOK
  <2> QED
    BY <2>1, <2>2 DEF StreamOK
<1>8. CASE ReceiveName("namelen", "name")
  <2>1. /\ DOMAIN wire = 1 .. Len(wire) /\ DOMAIN wire' = 1 .. Len(wire) - 1
        /\ Len(wire) \in Nat \ {0} /\ Len(wire') = Len(wire) - 1 /\ wire # <<>>
        /\ \A j \in 1 .. Len(wire) - 1 : wire'[j] = wire[j + 1]
    BY <1>8, ArrivesIs DEF ReceiveName, Arrives
  <2>2. /\ UNCHANGED <<cpc, off, conn, dst, target, faults>>
        /\ Received' = Received + 1 /\ (Tracked' => Tracked)
    BY <1>8, EmptySeq DEF ReceiveName, Arrives, clientVars, Received, Tracked, FileOK, TypeOK
  <2> QED
    BY <2>1, <2>2, ShiftStream
<1>9. CASE ReceiveName("name", "open")
  <2>1. /\ DOMAIN wire = 1 .. Len(wire) /\ DOMAIN wire' = 1 .. Len(wire) - 1
        /\ Len(wire) \in Nat \ {0} /\ Len(wire') = Len(wire) - 1 /\ wire # <<>>
        /\ \A j \in 1 .. Len(wire) - 1 : wire'[j] = wire[j + 1]
    BY <1>9, ArrivesIs DEF ReceiveName, Arrives
  <2>2. /\ UNCHANGED <<cpc, off, conn, dst, target, faults>>
        /\ Received' = Received + 1 /\ (Tracked' => Tracked)
    BY <1>9, EmptySeq DEF ReceiveName, Arrives, clientVars, Received, Tracked, FileOK, TypeOK
  <2> QED
    BY <2>1, <2>2, ShiftStream
<1>10. CASE NameFails("namelen")
  <2>1. spc' = "undefined"
    BY <1>10 DEF NameFails
  <2> QED
    BY <2>1 DEF StreamOK, Tracked
<1>11. CASE NameFails("name")
  <2>1. spc' = "undefined"
    BY <1>11 DEF NameFails
  <2> QED
    BY <2>1 DEF StreamOK, Tracked
<1>12. CASE OpenTarget
  <2>1. Received' = Received /\ Tracked /\ Sent' = Sent
    BY <1>12, EmptySeq DEF OpenTarget, Received, Tracked, FileOK, Sent, clientVars
  <2>2. UNCHANGED <<wire, off, faults, conn>>
    BY <1>12 DEF OpenTarget, clientVars
  <2> QED
    BY <2>1, <2>2 DEF StreamOK
<1>13. CASE ReceiveLen
  <2>1. /\ DOMAIN wire = 1 .. Len(wire) /\ DOMAIN wire' = 1 .. Len(wire) - 1
        /\ Len(wire) \in Nat \ {0} /\ Len(wire') = Len(wire) - 1 /\ wire # <<>>
        /\ \A j \in 1 .. Len(wire) - 1 : wire'[j] = wire[j + 1]
    BY <1>13, ArrivesIs DEF ReceiveLen, Arrives
  <2>2. /\ UNCHANGED <<cpc, off, conn, dst, target, faults>>
        /\ Received' = Received + 1 /\ (Tracked' => Tracked)
    BY <1>13, EmptySeq DEF ReceiveLen, Arrives, clientVars, Received, Tracked, FileOK, TypeOK
  <2> QED
    BY <2>1, <2>2, ShiftStream
<1>14. CASE LenEnds
  <2>1. spc' = "done"
    BY <1>14 DEF LenEnds, AfterEnd
  <2> QED
    BY <2>1 DEF StreamOK, Tracked
<1>15. CASE LenFails
  <2>1. wire' = <<>> /\ conn' \in {"fin", "dead"} /\ faults' # 0
    BY <1>15, FailsIs DEF LenFails, TypeOK
  <2> QED
    BY <2>1, OverStream
<1>16. CASE ReceiveData
  <2>1. /\ DOMAIN wire = 1 .. Len(wire) /\ DOMAIN wire' = 1 .. Len(wire) - 1
        /\ Len(wire) \in Nat \ {0} /\ Len(wire') = Len(wire) - 1 /\ wire # <<>>
        /\ \A j \in 1 .. Len(wire) - 1 : wire'[j] = wire[j + 1]
        /\ Head(wire) \in Items
    BY <1>16, ArrivesIs DEF ReceiveData, Arrives, Write, WriteTo, Written
  <2>2. /\ spc = "data" /\ Head(wire).piece \in 0 .. MaxPiece
        /\ Write(Head(wire).piece) /\ conn' = conn
    BY <1>16, <2>1 DEF ReceiveData, Arrives, Write, WriteTo, Written, Items
  <2>3. /\ spc' = "len" /\ target' = target /\ off' = off /\ cpc' = cpc
        /\ faults' = faults /\ Len(dst) \in Nat
        /\ target # "none" => Len(dst') = Len(dst) + 1
    BY <2>2, WriteIs
  <2>4. CASE target = "none"
    BY <2>3, <2>4 DEF StreamOK, Tracked
  <2>5. CASE target # "none"
    <3>1. Received' = Received + 1 /\ Tracked
      BY <2>2, <2>3, <2>5 DEF Received, Tracked
    <3> QED
      BY <2>1, <2>2, <2>3, <3>1, ShiftStream
  <2> QED
    BY <2>4, <2>5
<1>17. CASE DataFails
  <2>1. wire' = <<>> /\ conn' \in {"fin", "dead"} /\ spc = "data" /\ Write(0)
    BY <1>17, FailsIs DEF DataFails, AtEnd
  <2>2. CASE target = "none"
    BY <2>1, <2>2 DEF StreamOK, Tracked, Write, WriteTo, Written
  <2>3. CASE target # "none"
    <3>1. faults # 0
      BY <1>17, <2>3, DataFailsIs
    <3>2. faults' # 0
      BY <2>1, <3>1 DEF Write, WriteTo, Written
    <3> QED
      BY <2>1, <3>2, OverStream
  <2> QED
    BY <2>2, <2>3
<1>18. CASE KillClient
  <2>1. /\ faults' # 0 /\ conn' # "up" /\ off' = off
        /\ Received' = Received /\ (Tracked' <=> Tracked)
    BY <1>18 DEF KillClient, Received, Tracked, serverVars, TypeOK
  <2>2. CASE wire' = wire
    BY <2>1, <2>2 DEF StreamOK
  <2>3. CASE cpc \in Kinds /\ conn = "up" /\ wire' = Append(wire, Item(cpc, TRUE))
    <3>1. /\ DOMAIN wire' = 1 .. Len(wire) + 1 /\ DOMAIN wire = 1 .. Len(wire)
          /\ Len(wire) \in Nat /\ Len(wire') = Len(wire) + 1
          /\ \A j \in 1 .. Len(wire) : wire'[j] = wire[j]
          /\ cpc = "data" => wire'[Len(wire) + 1].piece = off
      BY <2>3, SendIs
    <3>2. off \in Nat /\ Received \in Nat
      BY EmptySeq DEF TypeOK, Received
    <3>3. Sent + 1 <= 2 * off + 2 /\ Sent \in Nat
      BY <2>3, <3>2 DEF Sent, Kinds, FileOK
    <3> SUFFICES ASSUME Tracked
                 PROVE  /\ Received + Len(wire') <= 2 * off + 2
                        /\ \A j \in DOMAIN wire', m \in Nat \ {0} :
                              Received + j = 2 * m + 2 => wire'[j].piece = m
      BY <2>1 DEF StreamOK
    <3>4. Received + Len(wire) = Sent
      BY <2>3 DEF StreamOK
    <3>5. ASSUME NEW m \in Nat \ {0}, Received + (Len(wire) + 1) = 2 * m + 2
          PROVE  wire'[Len(wire) + 1].piece = m
      <4>1. Sent + 1 = 2 * m + 2
        BY <3>1, <3>2, <3>4, <3>5
      <4>2. cpc = "data" /\ off = m
        BY <2>3, <3>2, <4>1 DEF Sent, Kinds, FileOK
      <4> QED
        BY <3>1, <4>2
    <3>6. ASSUME NEW j \in DOMAIN wire', NEW m \in Nat \ {0}, Received + j = 2 * m + 2
          PROVE  wire'[j].piece = m
      <4>1. CASE j \in 1 .. Len(wire)
        <5>1. wire[j].piece = m
          BY <3>1, <3>6, <4>1 DEF StreamOK
        <5> QED
          BY <3>1, <4>1, <5>1
      <4>2. CASE j = Len(wire) + 1
        BY <3>5, <3>6, <4>2
      <4> QED
        BY <3>1, <4>1, <4>2
    <3>7. Received + Len(wire') = Sent + 1
      BY <3>1, <3>2, <3>3, <3>4
    <3> QED
      BY <3>3, <3>6, <3>7
  <2> QED
    BY <1>18, <2>2, <2>3 DEF KillClient
<1>19. CASE BreakConnection
  <2>1. /\ faults' # 0 /\ conn' # "up" /\ off' = off
        /\ Received' = Received /\ (Tracked' <=> Tracked)
    BY <1>19 DEF BreakConnection, Received, Tracked, serverVars, clientVars, TypeOK
  <2>2. PICK k \in 0 .. Len(wire) : wire' = SubSeq(wire, 1, k)
    BY <1>19 DEF BreakConnection
  <2>3. /\ DOMAIN wire = 1 .. Len(wire) /\ DOMAIN wire' = 1 .. k /\ Len(wire') = k
        /\ Len(wire) \in Nat /\ \A j \in 1 .. k : wire'[j] = wire[j]
    BY <2>2, PrefixSeq DEF TypeOK
  <2>4. Received \in Nat /\ off \in Nat
    BY EmptySeq DEF TypeOK, Received
  <2>5. wire' # <<>> => wire # <<>>
    <3>1. wire = <<>> => Len(wire) = 0
      BY EmptySeq
    <3>2. k = 0 => wire' = <<>>
      BY <2>2, <2>3, PrefixSeq, EmptySeq DEF TypeOK
    <3> QED
      BY <2>3, <3>1, <3>2
  <2> SUFFICES ASSUME Tracked
               PROVE  /\ wire' # <<>> => Received + Len(wire') <= 2 * off + 2
                      /\ \A j \in DOMAIN wire', m \in Nat \ {0} :
                            Received + j = 2 * m + 2 => wire'[j].piece = m
    BY <2>1 DEF StreamOK
  <2>6. wire' # <<>> => Received + Len(wire') <= 2 * off + 2
    <3>1. wire # <<>> => Received + Len(wire) <= 2 * off + 2
      BY DEF StreamOK
    <3> QED
      BY <2>3, <2>4, <2>5, <3>1
  <2>7. ASSUME NEW j \in DOMAIN wire', NEW m \in Nat \ {0}, Received + j = 2 * m + 2
        PROVE  wire'[j].piece = m
    <3>1. j \in DOMAIN wire /\ wire'[j] = wire[j]
      BY <2>3
    <3> QED
      BY <2>7, <3>1 DEF StreamOK
  <2> QED
    BY <2>6, <2>7
<1>20. CASE UNCHANGED vars
  BY <1>20 DEF StreamOK, Sent, Received, Tracked
<1>21. CASE TornData
  <2>1. /\ wire = <<>> /\ conn \in {"fin", "dead"} /\ faults > 0
        /\ UNCHANGED <<wire, conn>> /\ (WriteTo(dst) \/ Write(0))
    BY <1>21, TornIs
  <2>2. wire' = <<>> /\ conn' \in {"fin", "dead"} /\ faults' # 0
    BY <2>1 DEF Write, WriteTo, TypeOK
  <2> QED
    BY <2>2, OverStream
<1> QED
  BY <1>1, <1>2, <1>3, <1>4, <1>5, <1>6, <1>7, <1>8, <1>9, <1>10, <1>11,
     <1>12, <1>13, <1>14, <1>15, <1>16, <1>17, <1>18, <1>19, <1>20, <1>21
     DEF Next, ClientStep, ServerStep

\* What is written is the next piece, or is spoilt and the last thing.
LEMMA DamageStep ==
    ASSUME ConstantsOK, CopyInv, [Next]_vars
    PROVE  DamageOK'
<1> USE DEF CopyInv, clientVars, serverVars, vars
<1>1. CASE SendItem("namelen", "name")
  <2>1. Clean /\ UNCHANGED <<dst, off>>
    BY <1>1 DEF SendItem, DamageOK, serverVars, clientVars
  <2> QED
    BY <1>1, <2>1 DEF DamageOK, Clean
<1>2. CASE SendItem("name", "read")
  <2>1. Clean /\ UNCHANGED <<dst, off>>
    BY <1>2 DEF SendItem, DamageOK, serverVars, clientVars
  <2> QED
    BY <1>2, <2>1 DEF DamageOK, Clean
<1>3. CASE SendItem("len", "data")
  <2>1. Clean /\ UNCHANGED <<dst, off>>
    BY <1>3 DEF SendItem, DamageOK, serverVars, clientVars
  <2> QED
    BY <1>3, <2>1 DEF DamageOK, Clean
<1>4. CASE SendItem("data", "read")
  <2>1. Clean /\ UNCHANGED <<dst, off>>
    BY <1>4 DEF SendItem, DamageOK, serverVars, clientVars
  <2> QED
    BY <1>4, <2>1 DEF DamageOK, Clean
<1>5. CASE ReadPiece
  <2>1. Clean' = Clean /\ DamageIsLast' = DamageIsLast
    BY <1>5 DEF ReadPiece, Clean, DamageIsLast, serverVars
  <2>2. Len(src) \in Nat /\ off \in Nat /\ Len(dst) \in Nat
    BY EmptySeq DEF TypeOK
  <2>3. Clean => off + 1 <= MaxPiece
    <3> SUFFICES ASSUME Clean PROVE off + 1 <= MaxPiece
      OBVIOUS
    <3>1. off < Len(src) /\ Len(dst) <= off
      BY <1>5 DEF ReadPiece, More, DamageOK
    <3>2. ~ SameFile
      BY <2>2, <3>1 DEF FileOK
    <3> QED
      BY <2>2, <3>1, <3>2 DEF FileOK, ConstantsOK
  <2> QED
    BY <1>5, <2>1, <2>2, <2>3 DEF ReadPiece, DamageOK, serverVars
<1>6. CASE CloseFile
  <2>1. Clean' = Clean /\ DamageIsLast' = DamageIsLast
    BY <1>6 DEF CloseFile, More, Clean, DamageIsLast, serverVars
  <2> QED
    BY <1>6, <2>1 DEF CloseFile, More, DamageOK, clientVars, serverVars
<1>7. CASE SendFails
  <2>1. Clean' = Clean /\ DamageIsLast' = DamageIsLast
    BY <1>7 DEF SendFails, Kinds, Clean, DamageIsLast, serverVars
  <2> QED
    BY <1>7, <2>1 DEF SendFails, Kinds, DamageOK, clientVars, serverVars
<1>8. CASE ReceiveName("namelen", "name")
  <2>1. Clean /\ UNCHANGED <<dst, off>>
    BY <1>8 DEF ReceiveName, Arrives, DamageOK, serverVars, clientVars
  <2> QED
    BY <1>8, <2>1 DEF DamageOK, Clean
<1>9. CASE ReceiveName("name", "open")
  <2>1. Clean /\ UNCHANGED <<dst, off>>
    BY <1>9 DEF ReceiveName, Arrives, DamageOK, serverVars, clientVars
  <2> QED
    BY <1>9, <2>1 DEF DamageOK, Clean
<1>10. CASE NameFails("namelen")
  <2>1. Clean /\ UNCHANGED <<dst, off>>
    BY <1>10 DEF NameFails, Fails, AtEnd, DamageOK, serverVars, clientVars
  <2> QED
    BY <1>10, <2>1 DEF DamageOK, Clean
<1>11. CASE NameFails("name")
  <2>1. Clean /\ UNCHANGED <<dst, off>>
    BY <1>11 DEF NameFails, Fails, AtEnd, DamageOK, serverVars, clientVars
  <2> QED
    BY <1>11, <2>1 DEF DamageOK, Clean
<1>12. CASE OpenTarget
  <2>1. Clean /\ UNCHANGED <<dst, off>>
    BY <1>12 DEF OpenTarget, DamageOK, serverVars, clientVars
  <2> QED
    BY <1>12, <2>1 DEF DamageOK, Clean
<1>13. CASE ReceiveLen
  <2>1. Clean /\ UNCHANGED <<dst, off>>
    BY <1>13 DEF ReceiveLen, Arrives, DamageOK, serverVars, clientVars
  <2> QED
    BY <1>13, <2>1 DEF DamageOK, Clean
<1>14. CASE LenEnds
  <2>1. Clean' = Clean /\ DamageIsLast' = DamageIsLast
    BY <1>14 DEF LenEnds, AtEnd, AfterEnd, Clean, DamageIsLast, serverVars
  <2> QED
    BY <1>14, <2>1 DEF LenEnds, AtEnd, AfterEnd, DamageOK, clientVars, serverVars
<1>15. CASE LenFails
  <2>1. Clean /\ UNCHANGED <<dst, off>>
    BY <1>15 DEF LenFails, Fails, DamageOK, serverVars, clientVars
  <2> QED
    BY <1>15, <2>1 DEF DamageOK, Clean
<1>16. CASE ReceiveData
  <2>1. /\ spc = "data" /\ Write(Head(wire).piece) /\ Clean /\ off <= MaxPiece
        /\ Head(wire).piece \in 0 .. MaxPiece /\ Len(dst) <= off
    <3>1. spc = "data" /\ Head(wire) \in Items /\ wire # <<>>
      BY <1>16, ArrivesIs DEF ReceiveData, Arrives
    <3> QED
      BY <1>16, <3>1 DEF ReceiveData, DamageOK, Items
  <2>2. off' = off /\ Len(dst) \in Nat
    BY <2>1, WriteIs
  <2>3. CASE target = "none"
    <3>1. dst' = dst
      BY <2>1, <2>3, WriteIs
    <3> QED
      BY <2>1, <2>2, <3>1 DEF DamageOK, Clean
  <2>4. CASE target # "none"
    <3>1. Head(wire).piece = Len(dst) + 1 /\ Len(dst) + 1 <= off
      BY <1>16, <2>4, DataIsNext
    <3>2. /\ Len(dst') = Len(dst) + 1 /\ dst'[Len(dst) + 1] = Len(dst) + 1
          /\ \A j \in 1 .. Len(dst) : dst'[j] = dst[j]
      BY <2>1, <2>4, <3>1, WriteIs
    <3>3. Clean'
      BY <2>1, <2>2, <3>2 DEF Clean
    <3> QED
      BY <2>1, <2>2, <3>1, <3>2, <3>3 DEF DamageOK
  <2> QED
    BY <2>3, <2>4
<1>17. CASE DataFails
  <2>1. /\ spc = "data" /\ Write(0) /\ wire' = <<>> /\ conn' \in {"fin", "dead"}
        /\ Clean /\ off <= MaxPiece /\ Len(dst) <= off
    BY <1>17, FailsIs DEF DataFails, AtEnd, DamageOK
  <2>2. 0 \in 0 .. MaxPiece
    BY DEF ConstantsOK
  <2>3. /\ off' = off /\ Len(dst) \in Nat /\ spc' = "len" /\ faults' = faults
    BY <2>1, <2>2, WriteIs
  <2>4. CASE target = "none"
    <3>1. dst' = dst
      BY <2>1, <2>2, <2>4, WriteIs
    <3> QED
      BY <2>1, <2>3, <3>1 DEF DamageOK, Clean
  <2>5. CASE target # "none"
    <3>1. /\ Len(dst') = Len(dst) + 1 /\ dst'[Len(dst) + 1] = 0
          /\ \A j \in 1 .. Len(dst) : dst'[j] = dst[j]
      BY <2>1, <2>2, <2>5, WriteIs
    <3>2. ~ Clean' /\ DamageIsLast'
      BY <2>1, <2>3, <3>1 DEF Clean, DamageIsLast
    <3>3. faults > 0
      BY <1>17, <2>5, DataFailsIs DEF TypeOK
    <3> QED
      BY <2>1, <2>3, <3>2, <3>3 DEF DamageOK
  <2> QED
    BY <2>4, <2>5
<1>18. CASE KillClient
  <2>1. Clean' = Clean /\ DamageIsLast' = DamageIsLast
    BY <1>18 DEF KillClient, Clean, DamageIsLast, serverVars
  <2>2. faults' > 0
    BY <1>18 DEF KillClient, TypeOK
  <2> QED
    BY <1>18, <2>1, <2>2 DEF KillClient, DamageOK, serverVars
<1>19. CASE BreakConnection
  <2>1. Clean /\ UNCHANGED <<dst, off>>
    BY <1>19 DEF BreakConnection, DamageOK, serverVars, clientVars
  <2> QED
    BY <1>19, <2>1 DEF DamageOK, Clean
<1>20. CASE UNCHANGED vars
  BY <1>20 DEF DamageOK, Clean, DamageIsLast
<1>21. CASE TornData
  <2>1. /\ wire = <<>> /\ conn \in {"fin", "dead"} /\ faults > 0 /\ Clean
        /\ UNCHANGED <<wire, conn>> /\ (WriteTo(dst) \/ Write(0))
    BY <1>21, TornIs
  <2>2. CASE WriteTo(dst)
    <3>1. UNCHANGED <<dst, off>>
      BY <2>2, NothingWritten
    <3> QED
      BY <2>1, <3>1 DEF DamageOK, Clean
  <2>3. CASE Write(0)
    <3>1. 0 \in 0 .. MaxPiece
      BY DEF ConstantsOK
    <3>2. off' = off /\ Len(dst) \in Nat /\ spc' = "len" /\ faults' = faults
      BY <2>3, <3>1, WriteIs
    <3>3. CASE target = "none"
      <4>1. dst' = dst
        BY <2>3, <3>1, <3>3, WriteIs
      <4> QED
        BY <2>1, <3>2, <4>1 DEF DamageOK, Clean
    <3>4. CASE target # "none"
      <4>1. /\ Len(dst') = Len(dst) + 1 /\ dst'[Len(dst) + 1] = 0
            /\ \A j \in 1 .. Len(dst) : dst'[j] = dst[j]
        BY <2>3, <3>1, <3>4, WriteIs
      <4>2. ~ Clean' /\ DamageIsLast'
        BY <2>1, <3>2, <4>1 DEF Clean, DamageIsLast
      <4> QED
        BY <2>1, <3>2, <4>2 DEF DamageOK
    <3> QED
      BY <3>3, <3>4
  <2> QED
    BY <2>1, <2>2, <2>3
<1> QED
  BY <1>1, <1>2, <1>3, <1>4, <1>5, <1>6, <1>7, <1>8, <1>9, <1>10, <1>11,
     <1>12, <1>13, <1>14, <1>15, <1>16, <1>17, <1>18, <1>19, <1>20, <1>21
     DEF Next, ClientStep, ServerStep

\* The server ends when all that was sent was received.
LEMMA WholeStep ==
    ASSUME ConstantsOK, CopyInv, [Next]_vars
    PROVE  CopyIsWhole'
<1> USE DEF CopyInv, clientVars, serverVars, vars
<1>1. CASE SendItem("namelen", "name")
  <2>1. UNCHANGED <<spc, faults, target, dst, src>>
    BY <1>1 DEF SendItem, serverVars
  <2> QED
    BY <2>1 DEF CopyIsWhole
<1>2. CASE SendItem("name", "read")
  <2>1. UNCHANGED <<spc, faults, target, dst, src>>
    BY <1>2 DEF SendItem, serverVars
  <2> QED
    BY <2>1 DEF CopyIsWhole
<1>3. CASE SendItem("len", "data")
  <2>1. UNCHANGED <<spc, faults, target, dst, src>>
    BY <1>3 DEF SendItem, serverVars
  <2> QED
    BY <2>1 DEF CopyIsWhole
<1>4. CASE SendItem("data", "read")
  <2>1. UNCHANGED <<spc, faults, target, dst, src>>
    BY <1>4 DEF SendItem, serverVars
  <2> QED
    BY <2>1 DEF CopyIsWhole
<1>5. CASE ReadPiece
  <2>1. UNCHANGED <<spc, faults, target, dst, src>>
    BY <1>5 DEF ReadPiece, More, serverVars
  <2> QED
    BY <2>1 DEF CopyIsWhole
<1>6. CASE CloseFile
  <2>1. UNCHANGED <<spc, faults, target, dst, src>>
    BY <1>6 DEF CloseFile, More, serverVars
  <2> QED
    BY <2>1 DEF CopyIsWhole
<1>7. CASE SendFails
  <2>1. UNCHANGED <<spc, faults, target, dst, src>>
    BY <1>7 DEF SendFails, Kinds, serverVars
  <2> QED
    BY <2>1 DEF CopyIsWhole
<1>8. CASE ReceiveName("namelen", "name")
  <2>1. spc' # "done"
    BY <1>8 DEF ReceiveName, Arrives
  <2> QED
    BY <2>1 DEF CopyIsWhole
<1>9. CASE ReceiveName("name", "open")
  <2>1. spc' # "done"
    BY <1>9 DEF ReceiveName, Arrives
  <2> QED
    BY <2>1 DEF CopyIsWhole
<1>10. CASE NameFails("namelen")
  <2>1. spc' # "done"
    BY <1>10 DEF NameFails, Fails, AtEnd
  <2> QED
    BY <2>1 DEF CopyIsWhole
<1>11. CASE NameFails("name")
  <2>1. spc' # "done"
    BY <1>11 DEF NameFails, Fails, AtEnd
  <2> QED
    BY <2>1 DEF CopyIsWhole
<1>12. CASE OpenTarget
  <2>1. spc' # "done"
    BY <1>12 DEF OpenTarget
  <2> QED
    BY <2>1 DEF CopyIsWhole
<1>13. CASE ReceiveLen
  <2>1. spc' # "done"
    BY <1>13 DEF ReceiveLen, Arrives
  <2> QED
    BY <2>1 DEF CopyIsWhole
<1>14. CASE LenEnds
  <2> SUFFICES ASSUME faults = 0, target = "name"
               PROVE  dst = src
    BY <1>14 DEF LenEnds, CopyIsWhole
  <2>1. spc = "len" /\ wire = <<>> /\ cpc = "closed" /\ Tracked
    BY <1>14 DEF LenEnds, AtEnd, AfterEnd, ConnOK, Tracked
  <2>2. Received + Len(wire) = Sent
    BY <2>1 DEF StreamOK
  <2>3. /\ Received = 2 * Len(dst) + 2 /\ Sent = 2 * off + 2 /\ Len(wire) = 0
        /\ Len(dst) \in Nat /\ off \in Nat
    BY <2>1, EmptySeq DEF Received, Sent, TypeOK
  <2>4. Len(dst) = off
    BY <2>2, <2>3
  <2>5. src = Whole(Len(src)) /\ off = Len(src) /\ Clean
    BY <2>1 DEF FileOK, SameFile, DamageOK
  <2>6. dst \in Seq(0 .. MaxPiece) /\ src \in Seq(0 .. MaxPiece) /\ Len(dst) = Len(src)
    BY <2>4, <2>5 DEF TypeOK
  <2>7. \A j \in 1 .. Len(src) : src[j] = j /\ dst[j] = j
    BY <2>3, <2>4, <2>5 DEF Whole, Clean
  <2> QED
    BY <2>6, <2>7
<1>15. CASE LenFails
  <2>1. spc' # "done"
    BY <1>15 DEF LenFails, Fails
  <2> QED
    BY <2>1 DEF CopyIsWhole
<1>16. CASE ReceiveData
  <2>1. spc' # "done"
    BY <1>16 DEF ReceiveData, Arrives, Write, WriteTo, Written
  <2> QED
    BY <2>1 DEF CopyIsWhole
<1>17. CASE DataFails
  <2>1. spc' # "done"
    BY <1>17 DEF DataFails, Fails, AtEnd, Write, WriteTo, Written
  <2> QED
    BY <2>1 DEF CopyIsWhole
<1>18. CASE KillClient
  <2>1. faults' # 0
    BY <1>18 DEF KillClient, Kinds, TypeOK
  <2> QED
    BY <2>1 DEF CopyIsWhole
<1>19. CASE BreakConnection
  <2>1. faults' # 0
    BY <1>19 DEF BreakConnection, TypeOK
  <2> QED
    BY <2>1 DEF CopyIsWhole
<1>20. CASE UNCHANGED vars
  BY <1>20 DEF CopyIsWhole
<1>21. CASE TornData
  <2>1. spc' # "done"
    BY <1>21 DEF TornData, Write, WriteTo
  <2> QED
    BY <2>1 DEF CopyIsWhole
<1> QED
  BY <1>1, <1>2, <1>3, <1>4, <1>5, <1>6, <1>7, <1>8, <1>9, <1>10, <1>11,
     <1>12, <1>13, <1>14, <1>15, <1>16, <1>17, <1>18, <1>19, <1>20, <1>21
     DEF Next, ClientStep, ServerStep

\* Every step keeps the invariant.
LEMMA CopyInvStep ==
    ASSUME ConstantsOK, CopyInv, [Next]_vars
    PROVE  CopyInv'
BY TypeStep, FileStep, ConnStep, StreamStep, DamageStep, WholeStep DEF CopyInv

-----------------------------------------------------------------------------
(* The theorems.                                                           *)

\* The invariant holds throughout.
LEMMA CopyInvariant ==
    ASSUME ConstantsOK
    PROVE  Spec => []CopyInv
<1>1. Init => CopyInv
  BY InitCopyInv
<1>2. CopyInv /\ [Next]_vars => CopyInv'
  BY CopyInvStep
<1> QED
  BY <1>1, <1>2, PTL DEF Spec

\* Neither process leaves the states its code has, and the server's file is at most
\* one piece longer than any the client sends.
THEOREM TypeCorrect ==
    ASSUME ConstantsOK
    PROVE  Spec => []TypeOK
<1>1. CopyInv => TypeOK
  BY DEF CopyInv
<1> QED
  BY <1>1, CopyInvariant, PTL

\* Without a failure the server ends with the client's file, and a failure spoils
\* at most the last thing it writes (fileserver.c receives the data and writes
\* datalen bytes of buf whatever recv returned).
THEOREM CopyAlwaysSound ==
    ASSUME ConstantsOK
    PROVE  Spec => []CopyIsSound
<1>1. CopyInv => CopyIsSound
  <2> SUFFICES ASSUME CopyInv PROVE CopyIsSound
    OBVIOUS
  <2>1. Len(dst) \in Nat
    BY EmptySeq DEF CopyInv, TypeOK
  <2>2. DamageIsLast
    BY <2>1 DEF CopyInv, DamageOK, Clean, DamageIsLast
  <2> QED
    BY <2>2 DEF CopyInv, CopyIsSound
<1> QED
  BY <1>1, CopyInvariant, PTL
=============================================================================
