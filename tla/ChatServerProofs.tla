-------------------------- MODULE ChatServerProofs --------------------------
(***************************************************************************)
(* Theorems about ChatServer, for every finite set of clients, any number  *)
(* of messages of each and any number of failures.                         *)
(***************************************************************************)
EXTENDS ChatServer, FiniteSetTheorems, TLAPS

-----------------------------------------------------------------------------
(* The inductive invariant.                                                *)

\* The parent gives out places and numbers in the same order and takes none back:
\* number f is what the client of place f - 4 got, and nobody else.
ParentOK ==
    /\ \A p \in Place : who[p] # NoClient <=> p < idx \/ (p = idx /\ ppc = "fork")
    /\ ppc = "fork" => idx < Num /\ fds[idx] = idx + 4
    /\ \A f \in Fd : files[f] = who[f - 4]

\* Every client is in one place, or in the queue once, or yet to come.
ClientsOnce ==
    /\ \A p, q \in Place : who[p] # NoClient /\ who[p] = who[q] => p = q
    /\ \A p \in Place : who[p] \notin fresh
    /\ \A j \in DOMAIN backlog :
          /\ backlog[j] \notin fresh
          /\ \A p \in Place : who[p] # backlog[j]
          /\ \A k \in DOMAIN backlog : backlog[k] = backlog[j] => k = j

\* A number in the table is that of its place, and it is there as long as the client
\* is.
TableOK ==
    \A q \in Place :
        /\ fds[q] \in {0, -1, q + 4}
        /\ fds[q] > 0 => who[q] # NoClient
        /\ who[q] # NoClient /\ peer[who[q]] = "open" => fds[q] = q + 4

\* A child has the descriptors of those who came before it and its own, until it
\* closes that; it keeps the last message it received.
Turning(p) == cpc[p] \in {"test", "send"}
ChildOK ==
    \A p \in Place :
        /\ cpc[p] = "none" => buf[p] = <<>>
        /\ cpc[p] # "none" => p < idx
        /\ Turning(p) => buf[p] # <<>>
        /\ cpc[p] = "send" => i[p] \in Place
        /\ buf[p] # <<>> => buf[p] = <<who[p], read[who[p]]>>
        /\ cpc[p] = "leave" => peer[who[p]] # "open"
        /\ Lives(p) =>
              /\ fds[p] = p + 4
              /\ \A f \in Fd :
                    cfiles[p][f] = IF f - 4 < p \/ (f - 4 = p /\ cpc[p] # "leave")
                                   THEN who[f - 4] ELSE NoClient

\* What the client at q was sent is of a sender p, and of what p has received; it is
\* not what p is about to send there.
MessagesOK ==
    \A d \in Client : \A k \in DOMAIN got[d] :
        \E p, q \in Place :
            /\ who[p] = got[d][k][1] /\ who[q] = d
            /\ got[d][k][2] <= read[who[p]]
            /\ Turning(p) /\ i[p] <= q => got[d][k][2] < read[who[p]]

\* A message has been sent to everybody it should be as far as the walk has come.
Passed(p, q) == cpc[p] = "recv" \/ (Turning(p) /\ q < i[p])
HeardSoFar ==
    \A q, p \in Place :
        /\ q <= p /\ Passed(p, q) /\ buf[p] # <<>>
        /\ who[q] # NoClient /\ peer[who[q]] = "open"
        => \E k \in DOMAIN got[who[q]] : got[who[q]][k] = buf[p]

AgreeInv == TypeOK /\ ParentOK /\ ClientsOnce /\ TableOK /\ ChildOK
ChatInv  == AgreeInv /\ MessagesOK /\ InOrder /\ HeardSoFar

-----------------------------------------------------------------------------
(* Places, numbers and sequences.                                          *)

\* The number of clients is one.
LEMMA NumNat == ConstantsOK => Num \in Nat
BY FS_CardinalityType DEF ConstantsOK, Num

\* What Append gives.
LEMMA AppendSeq ==
    ASSUME NEW S, NEW s \in Seq(S), NEW e \in S
    PROVE  /\ Append(s, e) \in Seq(S)
           /\ Len(s) \in Nat /\ DOMAIN s = 1 .. Len(s)
           /\ DOMAIN Append(s, e) = 1 .. Len(s) + 1
           /\ Append(s, e)[Len(s) + 1] = e
           /\ \A j \in 1 .. Len(s) : Append(s, e)[j] = s[j]
OBVIOUS

\* What Tail gives.
LEMMA TailSeq ==
    ASSUME NEW S, NEW s \in Seq(S), s # <<>>
    PROVE  /\ Tail(s) \in Seq(S)
           /\ Len(s) \in Nat \ {0} /\ DOMAIN s = 1 .. Len(s)
           /\ DOMAIN Tail(s) = 1 .. Len(s) - 1
           /\ Head(s) = s[1] /\ Head(s) \in S
           /\ \A j \in 1 .. Len(s) - 1 : Tail(s)[j] = s[j + 1]
OBVIOUS

\* The lowest free number is that of the next place, so there is a next place.
LEMMA AcceptPlace ==
    ASSUME ConstantsOK, TypeOK, ParentOK, Accept
    PROVE  /\ idx < Num /\ backlog # <<>>
           /\ Head(backlog) \in Client
           /\ fds' = [fds EXCEPT ![idx] = idx + 4]
           /\ files' = [files EXCEPT ![idx + 4] = Head(backlog)]
<1>1. Num \in Nat /\ NoClient \notin Client
  BY NumNat DEF ConstantsOK
<1>2. PICK f \in Fd : /\ IsLowest(f)
                      /\ fds' = [fds EXCEPT ![idx] = f]
                      /\ files' = [files EXCEPT ![f] = Head(backlog)]
  BY DEF Accept
<1>3. backlog # <<>> /\ Head(backlog) \in Client
  BY TailSeq DEF TypeOK, Accept
<1>4. \A g \in Fd : files[g] # NoClient <=> g - 4 < idx
  <2>1. \A g \in Fd : g - 4 \in Place
    BY <1>1 DEF Place, Fd
  <2> QED
    BY <2>1 DEF ParentOK, Accept
<1>5. f = idx + 4
  <2>1. ~(f - 4 < idx) /\ \A g \in Fd : g < f => g - 4 < idx
    BY <1>2, <1>4 DEF IsLowest
  <2>2. idx + 4 < f => idx + 4 \in Fd
    BY <1>1 DEF TypeOK, Place, Fd
  <2>3. idx \in Int /\ f \in Int
    BY <1>1 DEF TypeOK, Place, Fd
  <2> QED
    BY <2>1, <2>2, <2>3
<1> QED
  BY <1>1, <1>2, <1>3, <1>5 DEF TypeOK, Place, Fd

\* The descriptor a child receives from is its own client's.
LEMMA OwnIsWho ==
    ASSUME ConstantsOK, TypeOK, ParentOK, ChildOK, NEW p \in Place,
           cpc[p] \in {"recv", "test", "send"}
    PROVE  /\ p < idx /\ p + 4 \in Fd /\ fds[p] = p + 4
           /\ Own(p) = who[p] /\ who[p] \in Client /\ who[p] # NoClient
<1>1. Num \in Nat /\ NoClient \notin Client
  BY NumNat DEF ConstantsOK
<1>2. p < idx /\ fds[p] = p + 4
  BY DEF ChildOK, Lives
<1>3. p + 4 \in Fd /\ p \in Int /\ (p + 4) - 4 = p
  BY <1>1, <1>2 DEF TypeOK, Place, Fd
<1>4. cfiles[p][p + 4] = who[p]
  BY <1>3 DEF ChildOK, Lives
<1>5. who[p] # NoClient /\ who[p] \in Client
  BY <1>2 DEF TypeOK, ParentOK
<1> QED
  BY <1>2, <1>3, <1>4, <1>5 DEF Own, Behind

\* What a child finds behind the number at place q is the client of that place,
\* and that is one who came before it.
LEMMA BehindIsWho ==
    ASSUME ConstantsOK, TypeOK, ParentOK, TableOK, ChildOK,
           NEW p \in Place, NEW q \in Place, Lives(p),
           Behind(p, fds[q]) # NoClient
    PROVE  /\ fds[q] = q + 4 /\ q + 4 \in Fd
           /\ Behind(p, fds[q]) = who[q] /\ who[q] \in Client /\ q <= p
<1>1. Num \in Nat /\ NoClient \notin Client
  BY NumNat DEF ConstantsOK
<1>2. fds[q] \in Fd /\ Behind(p, fds[q]) = cfiles[p][fds[q]]
  BY DEF Behind
<1>3. fds[q] = q + 4
  BY <1>1, <1>2 DEF TableOK, Fd
<1>4. q \in Int /\ (q + 4) - 4 = q /\ p \in Int
  BY <1>1 DEF Place
<1>5. cfiles[p][q + 4] = IF q < p \/ (q = p /\ cpc[p] # "leave")
                         THEN who[q] ELSE NoClient
  BY <1>2, <1>3, <1>4 DEF ChildOK
<1> QED
  BY <1>2, <1>3, <1>4, <1>5 DEF TypeOK

\* It finds every client that came before it and is still there.
LEMMA OpenIsBehind ==
    ASSUME ConstantsOK, TypeOK, ParentOK, TableOK, ChildOK,
           NEW p \in Place, NEW q \in Place, q <= p,
           cpc[p] \in {"recv", "test", "send"},
           who[q] # NoClient, peer[who[q]] = "open"
    PROVE  fds[q] = q + 4 /\ Behind(p, fds[q]) = who[q] /\ who[q] \in Client
<1>1. Num \in Nat /\ NoClient \notin Client
  BY NumNat DEF ConstantsOK
<1>2. fds[q] = q + 4
  BY DEF TableOK
<1>3. p < idx /\ p \in Int /\ q \in Int /\ (q + 4) - 4 = q /\ q + 4 \in Fd
  BY <1>1 DEF TypeOK, ChildOK, Place, Fd
<1>4. cfiles[p][q + 4] = who[q]
  BY <1>3 DEF ChildOK, Lives
<1> QED
  BY <1>2, <1>3, <1>4 DEF Behind, TypeOK

-----------------------------------------------------------------------------
(* The initial state.                                                      *)

\* The invariant holds at the start.
LEMMA InitChatInv ==
    ASSUME ConstantsOK, Init
    PROVE  ChatInv
<1>1. Num \in Nat /\ NoClient \notin Client /\ MaxFault \in Nat
  BY NumNat DEF ConstantsOK
<1>2. TypeOK
  <2>1. \A c \in Client : got[c] \in Seq(Message) /\ MaxWrite[c] \in Nat
    BY DEF Init, ConstantsOK
  <2> QED
    BY <1>1, <2>1 DEF Init, TypeOK, Place, Fd, NoFiles, Files
<1>3. ParentOK
  BY <1>1 DEF Init, ParentOK, NoFiles, Place, Fd
<1>4. ClientsOnce
  BY <1>1 DEF Init, ClientsOnce
<1>5. TableOK /\ ChildOK
  BY DEF Init, TableOK, ChildOK, Turning, Lives
<1>6. MessagesOK /\ InOrder /\ HeardSoFar
  BY DEF Init, MessagesOK, InOrder, HeardSoFar, Passed, Turning
<1> QED
  BY <1>2, <1>3, <1>4, <1>5, <1>6 DEF ChatInv, AgreeInv

-----------------------------------------------------------------------------
(* The numbers: what each step keeps of AgreeInv.                          *)

\* A child that receives has a client, and one that sends has a message.
LEMMA TypeStep ==
    ASSUME ConstantsOK, AgreeInv, [Next]_vars
    PROVE  TypeOK'
<1> USE DEF TypeOK, parentVars, childVars, netVars, vars
<1>1. CASE Accept
  <2>1. Num \in Nat /\ idx < Num /\ Head(backlog) \in Client
        /\ fds' = [fds EXCEPT ![idx] = idx + 4]
        /\ files' = [files EXCEPT ![idx + 4] = Head(backlog)]
    BY <1>1, NumNat, AcceptPlace DEF AgreeInv
  <2>2. idx + 4 \in Fd
    BY <2>1 DEF AgreeInv, Place, Fd
  <2>3. backlog' \in Seq(Client)
    BY <1>1, TailSeq DEF Accept, AgreeInv
  <2> QED
    BY <1>1, <2>1, <2>2, <2>3 DEF Accept, AgreeInv, Files
<1>2. CASE Fork
  <2>1. Num \in Nat /\ idx + 1 \in Place
    BY <1>2, NumNat DEF Fork, AgreeInv, ParentOK, Place
  <2> QED
    BY <1>2, <2>1 DEF Fork, AfterFork, Inherited, AgreeInv
<1>3. ASSUME NEW p \in Place, Receive(p) PROVE TypeOK'
  <2>1. Num \in Nat
    BY NumNat
  <2>2. Own(p) = who[p] /\ who[p] \in Client
    BY <1>3, OwnIsWho DEF Receive, AgreeInv
  <2>3. read[who[p]] + 1 \in Nat \ {0} /\ read[who[p]] + 1 <= wrote[who[p]]
    BY <1>3, <2>2 DEF Receive, AgreeInv
  <2>4. <<who[p], read[who[p]] + 1>> \in Message
    BY <2>2, <2>3 DEF Message
  <2> QED
    BY <1>3, <2>1, <2>2, <2>3, <2>4 DEF Receive, AgreeInv
<1>4. ASSUME NEW p \in Place, ReceiveEnd(p) PROVE TypeOK'
  <2>1. fds[p] \in Fd
    BY <1>4, OwnIsWho DEF ReceiveEnd, AgreeInv
  <2> QED
    BY <1>4, <2>1 DEF ReceiveEnd, AgreeInv, Files
<1>5. ASSUME NEW p \in Place, Leave(p) PROVE TypeOK'
  BY <1>5 DEF Leave, Cleared, AgreeInv
<1>6. ASSUME NEW p \in Place, Test(p) PROVE TypeOK'
  <2>1. i[p] \in Place => i[p] + 1 \in 0 .. Num + 1
    BY NumNat DEF Place
  <2>2. cpc' \in [Place -> {"none", "recv", "test", "send", "leave", "ended"}]
    BY <1>6 DEF Test, AgreeInv
  <2>3. i' \in [Place -> 0 .. Num + 1]
    BY <1>6, <2>1 DEF Test, NextPlace, AgreeInv
  <2> QED
    BY <1>6, <2>2, <2>3 DEF Test, AgreeInv
<1>7. ASSUME NEW p \in Place, SendNowhere(p) PROVE TypeOK'
  <2>1. i[p] + 1 \in 0 .. Num + 1
    BY <1>7, NumNat DEF SendNowhere, Sending, AgreeInv, ChildOK, Place
  <2> QED
    BY <1>7, <2>1 DEF SendNowhere, Sending, AgreeInv
<1>8. ASSUME NEW p \in Place, SendTo(p) PROVE TypeOK'
  <2> DEFINE d == Behind(p, fds[i[p]])
  <2>1. i[p] \in Place /\ i[p] + 1 \in 0 .. Num + 1
    BY <1>8, NumNat DEF SendTo, Sending, AgreeInv, ChildOK, Place
  <2>2. d \in Client
    BY <1>8, <2>1, BehindIsWho, ZenonT(40) DEF SendTo, Sending, AgreeInv, Lives
  <2>3. buf[p] \in Message
    BY <1>8 DEF SendTo, Sending, AgreeInv, ChildOK, Turning
  <2>4. got' \in [Client -> Seq(Message)]
    BY <1>8, <2>2, <2>3, AppendSeq DEF SendTo, AgreeInv
  <2>5. peer' \in [Client -> {"open", "closed", "closing", "broken", "reset"}]
    BY <1>8, <2>2 DEF SendTo, AgreeInv
  <2> QED
    BY <1>8, <2>1, <2>4, <2>5 DEF Sending, SendTo, AgreeInv
<1>9. ASSUME NEW p \in Place, SendKills(p) PROVE TypeOK'
  BY <1>9 DEF SendKills, AgreeInv
<1>10. CASE AcceptFails
  <2>1. faults' \in 0 .. MaxFault
    BY <1>10 DEF AcceptFails, Fault, AgreeInv, ConstantsOK
  <2> QED
    BY <1>10, <2>1 DEF AcceptFails, Fault, AgreeInv
<1>11. CASE ForkFails
  <2>1. Num \in Nat /\ idx + 1 \in Place
    BY <1>11, NumNat DEF ForkFails, AgreeInv, ParentOK, Place
  <2>2. faults' \in 0 .. MaxFault
    BY <1>11 DEF ForkFails, Fault, AgreeInv, ConstantsOK
  <2> QED
    BY <1>11, <2>1, <2>2 DEF ForkFails, Fault, AgreeInv
<1>12. ASSUME NEW c \in Client, Connect(c) PROVE TypeOK'
  <2>1. backlog' \in Seq(Client)
    BY <1>12, AppendSeq DEF Connect, AgreeInv
  <2> QED
    BY <1>12, <2>1 DEF Connect, AgreeInv
<1>13. ASSUME NEW c \in Client, Write(c) PROVE TypeOK'
  <2>1. MaxWrite[c] \in Nat
    BY DEF ConstantsOK
  <2> QED
    BY <1>13, <2>1 DEF Write, AgreeInv
<1>14. ASSUME NEW c \in Client, Close(c) PROVE TypeOK'
  BY <1>14 DEF Close, Becomes, Made, AgreeInv
<1>15. ASSUME NEW c \in Client, ResetArrives(c) PROVE TypeOK'
  BY <1>15 DEF ResetArrives, Becomes, AgreeInv
<1>16. ASSUME NEW c \in Client, Break(c) PROVE TypeOK'
  <2>1. faults' \in 0 .. MaxFault
    BY <1>16 DEF Break, Becomes, Made, Fault, AgreeInv, ConstantsOK
  <2> QED
    BY <1>16, <2>1 DEF Break, Becomes, Made, Fault, AgreeInv
<1>17. ASSUME NEW p \in Place, Crash(p) PROVE TypeOK'
  <2>1. faults' \in 0 .. MaxFault
    BY <1>17 DEF Crash, Fault, AgreeInv, ConstantsOK
  <2> QED
    BY <1>17, <2>1 DEF Crash, Fault, AgreeInv
<1>18. CASE UNCHANGED vars
  BY <1>18 DEF AgreeInv
<1> QED
  BY <1>1, <1>2, <1>3, <1>4, <1>5, <1>6, <1>7, <1>8, <1>9, <1>10, <1>11,
     <1>12, <1>13, <1>14, <1>15, <1>16, <1>17, <1>18
     DEF Next, Parent, ChildOf, Environment

\* The parent takes places and numbers in order, and no child touches the place it
\* is about to fork for.
LEMMA ParentStep ==
    ASSUME ConstantsOK, AgreeInv, [Next]_vars
    PROVE  ParentOK'
<1> USE DEF AgreeInv, parentVars, childVars, netVars, vars
<1>1. CASE Accept
  <2>1. /\ Num \in Nat /\ NoClient \notin Client
        /\ idx < Num /\ Head(backlog) \in Client
        /\ fds' = [fds EXCEPT ![idx] = idx + 4]
        /\ files' = [files EXCEPT ![idx + 4] = Head(backlog)]
    BY <1>1, NumNat, AcceptPlace DEF ConstantsOK
  <2>2. \A f \in Fd : f \in Int /\ f - 4 \in Place /\ (f - 4 = idx <=> f = idx + 4)
    BY <2>1 DEF TypeOK, Place, Fd
  <2>3. idx \in Place /\ idx \in Int /\ \A p \in Place : p \in Int
    BY <2>1 DEF TypeOK, Place
  <2>4. fds'[idx] = idx + 4
    BY <2>1, <2>3 DEF TypeOK
  <2>5. \A p \in Place : who'[p] # NoClient <=> p < idx \/ p = idx
    BY <1>1, <2>1, <2>3 DEF Accept, TypeOK, ParentOK
  <2>6. \A f \in Fd : files'[f] = who'[f - 4]
    BY <1>1, <2>1, <2>2, <2>3 DEF Accept, TypeOK, Files, ParentOK
  <2> QED
    BY <1>1, <2>1, <2>4, <2>5, <2>6 DEF Accept, ParentOK
<1>2. CASE Fork
  <2>1. \A p \in Place : p \in Int /\ idx \in Int
    BY NumNat DEF TypeOK, Place
  <2> QED
    BY <1>2, <2>1 DEF Fork, AfterFork, Inherited, ParentOK
<1>3. ASSUME NEW p \in Place, Receive(p) PROVE ParentOK'
  BY <1>3 DEF Receive, ParentOK
<1>4. ASSUME NEW p \in Place, ReceiveEnd(p) PROVE ParentOK'
  BY <1>4 DEF ReceiveEnd, ParentOK
<1>5. ASSUME NEW p \in Place, Leave(p) PROVE ParentOK'
  <2>1. p < idx /\ p \in Int /\ idx \in Int
    BY <1>5, NumNat DEF Leave, ChildOK, TypeOK, Place
  <2>2. fds'[idx] = fds[idx]
    BY <1>5, <2>1 DEF Leave, Cleared, TypeOK
  <2> QED
    BY <1>5, <2>2 DEF Leave, Cleared, ParentOK
<1>6. ASSUME NEW p \in Place, Test(p) PROVE ParentOK'
  BY <1>6 DEF Test, NextPlace, ParentOK
<1>7. ASSUME NEW p \in Place, SendNowhere(p) PROVE ParentOK'
  BY <1>7 DEF SendNowhere, Sending, ParentOK
<1>8. ASSUME NEW p \in Place, SendTo(p) PROVE ParentOK'
  BY <1>8 DEF SendTo, Sending, ParentOK
<1>9. ASSUME NEW p \in Place, SendKills(p) PROVE ParentOK'
  BY <1>9 DEF SendKills, ParentOK
<1>10. CASE AcceptFails
  BY <1>10 DEF AcceptFails, Fault, ParentOK
<1>11. CASE ForkFails
  <2>1. \A p \in Place : p \in Int /\ idx \in Int
    BY NumNat DEF TypeOK, Place
  <2> QED
    BY <1>11, <2>1 DEF ForkFails, Fault, ParentOK
<1>12. ASSUME NEW c \in Client, Connect(c) PROVE ParentOK'
  BY <1>12 DEF Connect, ParentOK
<1>13. ASSUME NEW c \in Client, Write(c) PROVE ParentOK'
  BY <1>13 DEF Write, Made, ParentOK
<1>14. ASSUME NEW c \in Client, Close(c) PROVE ParentOK'
  BY <1>14 DEF Close, Becomes, Made, ParentOK
<1>15. ASSUME NEW c \in Client, ResetArrives(c) PROVE ParentOK'
  BY <1>15 DEF ResetArrives, Becomes, ParentOK
<1>16. ASSUME NEW c \in Client, Break(c) PROVE ParentOK'
  BY <1>16 DEF Break, Becomes, Made, Fault, ParentOK
<1>17. ASSUME NEW p \in Place, Crash(p) PROVE ParentOK'
  BY <1>17 DEF Crash, Fault, ParentOK
<1>18. CASE UNCHANGED vars
  BY <1>18 DEF ParentOK
<1> QED
  BY <1>1, <1>2, <1>3, <1>4, <1>5, <1>6, <1>7, <1>8, <1>9, <1>10, <1>11,
     <1>12, <1>13, <1>14, <1>15, <1>16, <1>17, <1>18
     DEF Next, Parent, ChildOf, Environment

\* A client goes from those to come into the queue and from there to one place.
LEMMA ClientsStep ==
    ASSUME ConstantsOK, AgreeInv, [Next]_vars
    PROVE  ClientsOnce'
<1> USE DEF AgreeInv, parentVars, childVars, netVars, vars
<1>1. CASE Accept
  <2> DEFINE n == Len(backlog)
             h == Head(backlog)
  <2>1. /\ n \in Nat \ {0} /\ DOMAIN backlog = 1 .. n /\ DOMAIN backlog' = 1 .. n - 1
        /\ h = backlog[1] /\ h \in Client
        /\ \A j \in 1 .. n - 1 : backlog'[j] = backlog[j + 1]
    BY <1>1, TailSeq DEF Accept, TypeOK
  <2>2. NoClient \notin Client /\ idx \in Place
    BY DEF ConstantsOK, TypeOK
  <2>3. who[idx] = NoClient
    BY <1>1, NumNat DEF Accept, ParentOK, TypeOK, Place
  <2>4. \A p \in Place : who'[p] = IF p = idx THEN h ELSE who[p]
    BY <1>1, <2>2 DEF Accept, TypeOK
  <2>5. h \notin fresh /\ \A p \in Place : who[p] # h
    BY <2>1 DEF ClientsOnce
  <2>6. \A p, q \in Place : who'[p] # NoClient /\ who'[p] = who'[q] => p = q
    BY <2>4, <2>5 DEF ClientsOnce
  <2>7. \A p \in Place : who'[p] \notin fresh'
    BY <1>1, <2>4, <2>5 DEF Accept, ClientsOnce
  <2>8. ASSUME NEW j \in DOMAIN backlog'
        PROVE  /\ backlog'[j] \notin fresh'
               /\ \A p \in Place : who'[p] # backlog'[j]
               /\ \A k \in DOMAIN backlog' : backlog'[k] = backlog'[j] => k = j
    <3>1. /\ j + 1 \in DOMAIN backlog /\ backlog'[j] = backlog[j + 1] /\ 1 \in DOMAIN backlog
          /\ j + 1 # 1 /\ j \in Int
      BY <2>1, <2>8
    <3>2. backlog[j + 1] # h
      BY <2>1, <3>1 DEF ClientsOnce
    <3>3. ASSUME NEW k \in DOMAIN backlog', backlog'[k] = backlog'[j]
          PROVE  k = j
      <4>1. k + 1 \in DOMAIN backlog /\ backlog'[k] = backlog[k + 1] /\ k \in Int
        BY <2>1, <3>3
      <4>2. k + 1 = j + 1
        BY <3>1, <3>3, <4>1 DEF ClientsOnce
      <4> QED
        BY <3>1, <4>1, <4>2
    <3> QED
      BY <1>1, <2>4, <3>1, <3>2, <3>3 DEF Accept, ClientsOnce
  <2> QED
    BY <2>6, <2>7, <2>8 DEF ClientsOnce
<1>2. CASE Fork
  BY <1>2 DEF Fork, AfterFork, Inherited, ClientsOnce
<1>3. ASSUME NEW p \in Place, Receive(p) PROVE ClientsOnce'
  BY <1>3 DEF Receive, ClientsOnce
<1>4. ASSUME NEW p \in Place, ReceiveEnd(p) PROVE ClientsOnce'
  BY <1>4 DEF ReceiveEnd, ClientsOnce
<1>5. ASSUME NEW p \in Place, Leave(p) PROVE ClientsOnce'
  BY <1>5 DEF Leave, Cleared, ClientsOnce
<1>6. ASSUME NEW p \in Place, Test(p) PROVE ClientsOnce'
  BY <1>6 DEF Test, NextPlace, ClientsOnce
<1>7. ASSUME NEW p \in Place, SendNowhere(p) PROVE ClientsOnce'
  BY <1>7 DEF SendNowhere, Sending, ClientsOnce
<1>8. ASSUME NEW p \in Place, SendTo(p) PROVE ClientsOnce'
  BY <1>8 DEF SendTo, Sending, ClientsOnce
<1>9. ASSUME NEW p \in Place, SendKills(p) PROVE ClientsOnce'
  BY <1>9 DEF SendKills, ClientsOnce
<1>10. CASE AcceptFails
  BY <1>10 DEF AcceptFails, Fault, ClientsOnce
<1>11. CASE ForkFails
  BY <1>11 DEF ForkFails, Fault, ClientsOnce
<1>12. ASSUME NEW c \in Client, Connect(c) PROVE ClientsOnce'
  <2> DEFINE n == Len(backlog)
  <2>1. /\ n \in Nat /\ DOMAIN backlog = 1 .. n /\ DOMAIN backlog' = 1 .. n + 1
        /\ backlog'[n + 1] = c /\ \A j \in 1 .. n : backlog'[j] = backlog[j]
    BY <1>12, AppendSeq DEF Connect, TypeOK
  <2>2. c \in fresh /\ fresh' = fresh \ {c} /\ who' = who
    BY <1>12 DEF Connect
  <2>3. \A j \in DOMAIN backlog' : j \in DOMAIN backlog \/ j = n + 1
    BY <2>1
  <2> QED
    BY <2>1, <2>2, <2>3 DEF ClientsOnce
<1>13. ASSUME NEW c \in Client, Write(c) PROVE ClientsOnce'
  BY <1>13 DEF Write, Made, ClientsOnce
<1>14. ASSUME NEW c \in Client, Close(c) PROVE ClientsOnce'
  BY <1>14 DEF Close, Becomes, Made, ClientsOnce
<1>15. ASSUME NEW c \in Client, ResetArrives(c) PROVE ClientsOnce'
  BY <1>15 DEF ResetArrives, Becomes, ClientsOnce
<1>16. ASSUME NEW c \in Client, Break(c) PROVE ClientsOnce'
  BY <1>16 DEF Break, Becomes, Made, Fault, ClientsOnce
<1>17. ASSUME NEW p \in Place, Crash(p) PROVE ClientsOnce'
  BY <1>17 DEF Crash, Fault, ClientsOnce
<1>18. CASE UNCHANGED vars
  BY <1>18 DEF ClientsOnce
<1> QED
  BY <1>1, <1>2, <1>3, <1>4, <1>5, <1>6, <1>7, <1>8, <1>9, <1>10, <1>11,
     <1>12, <1>13, <1>14, <1>15, <1>16, <1>17, <1>18
     DEF Next, Parent, ChildOf, Environment

\* A number is cleared only when its client has gone.
LEMMA TableStep ==
    ASSUME ConstantsOK, AgreeInv, [Next]_vars
    PROVE  TableOK'
<1> USE DEF AgreeInv, parentVars, childVars, netVars, vars
<1>1. CASE Accept
  <2>1. /\ idx \in Place /\ fds' = [fds EXCEPT ![idx] = idx + 4]
        /\ Head(backlog) \in Client /\ NoClient \notin Client
    BY <1>1, AcceptPlace DEF TypeOK, ConstantsOK
  <2> QED
    BY <1>1, <2>1 DEF Accept, TypeOK, TableOK
<1>2. CASE Fork
  BY <1>2 DEF Fork, AfterFork, Inherited, TypeOK, TableOK
<1>3. ASSUME NEW p \in Place, Receive(p) PROVE TableOK'
  BY <1>3 DEF Receive, TypeOK, TableOK
<1>4. ASSUME NEW p \in Place, ReceiveEnd(p) PROVE TableOK'
  BY <1>4 DEF ReceiveEnd, TypeOK, TableOK
<1>5. ASSUME NEW p \in Place, Leave(p) PROVE TableOK'
  <2>1. peer[who[p]] # "open"
    BY <1>5 DEF Leave, ChildOK
  <2> QED
    BY <1>5, <2>1 DEF Leave, Cleared, TypeOK, TableOK
<1>6. ASSUME NEW p \in Place, Test(p) PROVE TableOK'
  BY <1>6 DEF Test, NextPlace, TypeOK, TableOK
<1>7. ASSUME NEW p \in Place, SendNowhere(p) PROVE TableOK'
  BY <1>7 DEF SendNowhere, Sending, TypeOK, TableOK
<1>8. ASSUME NEW p \in Place, SendTo(p) PROVE TableOK'
  <2>1. \A c \in Client : peer'[c] = "open" => peer[c] = "open"
    BY <1>8 DEF SendTo, TypeOK
  <2> QED
    BY <1>8, <2>1 DEF SendTo, Sending, TypeOK, TableOK
<1>9. ASSUME NEW p \in Place, SendKills(p) PROVE TableOK'
  BY <1>9 DEF SendKills, TypeOK, TableOK
<1>10. CASE AcceptFails
  <2>1. who[idx] = NoClient
    BY <1>10, NumNat DEF AcceptFails, ParentOK, TypeOK, Place
  <2> QED
    BY <1>10, <2>1 DEF AcceptFails, TypeOK, TableOK
<1>11. CASE ForkFails
  BY <1>11 DEF ForkFails, Fault, TypeOK, TableOK
<1>12. ASSUME NEW c \in Client, Connect(c) PROVE TableOK'
  BY <1>12 DEF Connect, TypeOK, TableOK
<1>13. ASSUME NEW c \in Client, Write(c) PROVE TableOK'
  BY <1>13 DEF Write, Made, TypeOK, TableOK
<1>14. ASSUME NEW c \in Client, Close(c) PROVE TableOK'
  BY <1>14 DEF Close, Becomes, Made, TypeOK, TableOK
<1>15. ASSUME NEW c \in Client, ResetArrives(c) PROVE TableOK'
  BY <1>15 DEF ResetArrives, Becomes, TypeOK, TableOK
<1>16. ASSUME NEW c \in Client, Break(c) PROVE TableOK'
  BY <1>16 DEF Break, Becomes, Made, Fault, TypeOK, TableOK
<1>17. ASSUME NEW p \in Place, Crash(p) PROVE TableOK'
  BY <1>17 DEF Crash, Fault, TypeOK, TableOK
<1>18. CASE UNCHANGED vars
  BY <1>18 DEF TypeOK, TableOK
<1> QED
  BY <1>1, <1>2, <1>3, <1>4, <1>5, <1>6, <1>7, <1>8, <1>9, <1>10, <1>11,
     <1>12, <1>13, <1>14, <1>15, <1>16, <1>17, <1>18
     DEF Next, Parent, ChildOf, Environment

\* A child keeps what it was forked with, less its own descriptor when it has closed
\* that; nothing that happened after the fork changes it.
LEMMA ChildStep ==
    ASSUME ConstantsOK, AgreeInv, [Next]_vars
    PROVE  ChildOK'
<1> USE DEF AgreeInv, parentVars, childVars, netVars, vars
<1>1. CASE Accept
  <2>1. /\ idx \in Place /\ idx \in Int /\ \A q \in Place : q \in Int
        /\ \A f \in Fd : f - 4 \in Place
    BY NumNat DEF TypeOK, Place, Fd
  <2>2. fds' = [fds EXCEPT ![idx] = idx + 4]
    BY <1>1, AcceptPlace
  <2>3. /\ \A q \in Place : q # idx => who'[q] = who[q] /\ fds'[q] = fds[q]
        /\ cpc' = cpc /\ cfiles' = cfiles /\ buf' = buf /\ i' = i
        /\ peer' = peer /\ read' = read /\ idx' = idx
    BY <1>1, <2>1, <2>2 DEF Accept, TypeOK
  <2>4. \A q \in Place : q < idx =>
            q # idx /\ \A f \in Fd : f - 4 < q \/ f - 4 = q => f - 4 # idx
    BY <2>1
  <2>5. ASSUME NEW q \in Place, Lives(q)
        PROVE  /\ fds'[q] = q + 4
               /\ \A f \in Fd :
                     cfiles[q][f] = IF f - 4 < q \/ (f - 4 = q /\ cpc[q] # "leave")
                                    THEN who'[f - 4] ELSE NoClient
    <3>1. q < idx /\ fds[q] = q + 4
      BY <2>5 DEF ChildOK, Lives
    <3>2. \A f \in Fd : f - 4 < q \/ f - 4 = q => who'[f - 4] = who[f - 4]
      BY <2>1, <2>3, <2>4, <3>1
    <3> QED
      BY <2>3, <2>4, <2>5, <3>1, <3>2 DEF ChildOK
  <2> QED
    BY <2>3, <2>4, <2>5 DEF ChildOK, Lives, Turning
<1>2. CASE Fork
  <2>1. /\ idx \in Place /\ idx \in Int /\ \A q \in Place : q \in Int
        /\ \A f \in Fd : f - 4 \in Place /\ f - 4 \in Int
    BY NumNat DEF TypeOK, Place, Fd
  <2>2. cpc[idx] = "none" /\ buf[idx] = <<>>
    BY <2>1 DEF ChildOK
  <2>3. /\ \A q \in Place : q # idx => cpc'[q] = cpc[q] /\ cfiles'[q] = cfiles[q]
        /\ cpc'[idx] = "recv" /\ cfiles'[idx] = files /\ idx' = idx + 1
        /\ fds' = fds /\ who' = who /\ buf' = buf /\ i' = i
        /\ peer' = peer /\ read' = read
    BY <1>2, <2>1 DEF Fork, AfterFork, Inherited, TypeOK
  <2>4. \A f \in Fd : files[f] = IF f - 4 <= idx THEN who[f - 4] ELSE NoClient
    BY <1>2, <2>1 DEF Fork, ParentOK
  <2>5. ASSUME NEW f \in Fd
        PROVE  cfiles'[idx][f] =
                 IF f - 4 < idx \/ (f - 4 = idx /\ cpc'[idx] # "leave")
                 THEN who'[f - 4] ELSE NoClient
    BY <2>1, <2>3, <2>4
  <2>6. fds'[idx] = idx + 4
    BY <1>2, <2>3 DEF Fork, ParentOK
  <2>7. \A q \in Place : q < idx => q < idx'
    BY <2>1, <2>3
  <2>8. idx < idx'
    BY <2>1, <2>3
  <2> QED
    BY <2>1, <2>2, <2>3, <2>5, <2>6, <2>7, <2>8 DEF ChildOK, Lives, Turning
<1>3. ASSUME NEW p \in Place, Receive(p) PROVE ChildOK'
  <2>1. /\ Own(p) = who[p] /\ who[p] \in Client /\ read[who[p]] \in Nat
        /\ who[p] # NoClient
    BY <1>3, OwnIsWho DEF Receive, TypeOK
  <2>2. ASSUME NEW q \in Place, buf'[q] # <<>>
        PROVE  buf'[q] = <<who'[q], read'[who'[q]]>>
    <3>1. CASE q = p
      BY <1>3, <2>1, <3>1 DEF Receive, TypeOK
    <3>2. CASE q # p
      <4>1. buf'[q] = buf[q] /\ buf[q] = <<who[q], read[who[q]]>> /\ who' = who
        BY <1>3, <2>2, <3>2 DEF Receive, TypeOK, ChildOK
      <4>2. who[q] # who[p]
        BY <2>1, <3>2 DEF ClientsOnce
      <4> QED
        BY <1>3, <2>1, <4>1, <4>2 DEF Receive, TypeOK
    <3> QED
      BY <3>1, <3>2
  <2>3. buf'[p] # <<>>
    BY <1>3 DEF Receive, TypeOK
  <2> QED
    BY <1>3, <2>2, <2>3 DEF Receive, TypeOK, ChildOK, Lives, Turning
<1>4. ASSUME NEW p \in Place, ReceiveEnd(p) PROVE ChildOK'
  <2>1. /\ Own(p) = who[p] /\ fds[p] = p + 4 /\ p + 4 \in Fd
        /\ p \in Int /\ \A f \in Fd : f \in Int
    BY <1>4, NumNat, OwnIsWho DEF ReceiveEnd, Place, Fd
  <2>2. peer[who[p]] # "open"
    BY <1>4, <2>1 DEF ReceiveEnd
  <2>3. \A q \in Place : q # p => cpc'[q] = cpc[q] /\ cfiles'[q] = cfiles[q]
    BY <1>4 DEF ReceiveEnd, TypeOK
  <2>4. cpc'[p] = "leave" /\ \A f \in Fd :
           cfiles'[p][f] = IF f = p + 4 THEN NoClient ELSE cfiles[p][f]
    BY <1>4, <2>1 DEF ReceiveEnd, TypeOK, Files
  <2>5. \A f \in Fd : cfiles'[p][f] = IF f - 4 < p THEN who[f - 4] ELSE NoClient
    BY <1>4, <2>1, <2>4 DEF ReceiveEnd, ChildOK, Lives
  <2> QED
    BY <1>4, <2>1, <2>2, <2>3, <2>4, <2>5 DEF ReceiveEnd, ChildOK, Lives, Turning
<1>5. ASSUME NEW p \in Place, Leave(p) PROVE ChildOK'
  <2>1. /\ cpc'[p] = "ended" /\ buf' = buf /\ p < idx
        /\ \A q \in Place : q # p => cpc'[q] = cpc[q] /\ fds'[q] = fds[q]
    BY <1>5 DEF Leave, Cleared, TypeOK, ChildOK
  <2> QED
    BY <1>5, <2>1 DEF Leave, ChildOK, Lives, Turning
<1>6. ASSUME NEW p \in Place, Test(p) PROVE ChildOK'
  BY <1>6 DEF Test, NextPlace, TypeOK, ChildOK, Lives, Turning
<1>7. ASSUME NEW p \in Place, SendNowhere(p) PROVE ChildOK'
  BY <1>7 DEF SendNowhere, Sending, TypeOK, ChildOK, Lives, Turning
<1>8. ASSUME NEW p \in Place, SendTo(p) PROVE ChildOK'
  <2>1. \A c \in Client : peer'[c] = "open" => peer[c] = "open"
    BY <1>8 DEF SendTo, TypeOK
  <2>2. \A q \in Place : cpc[q] = "leave" => who[q] \in Client
    BY DEF TypeOK, ParentOK, ChildOK
  <2> QED
    BY <1>8, <2>1, <2>2 DEF SendTo, Sending, TypeOK, ChildOK, Lives, Turning
<1>9. ASSUME NEW p \in Place, SendKills(p) PROVE ChildOK'
  BY <1>9 DEF SendKills, TypeOK, ChildOK, Lives, Turning
<1>10. CASE AcceptFails
  <2>1. \A q \in Place : q < idx => q # idx /\ fds'[q] = fds[q]
    BY <1>10, NumNat DEF AcceptFails, TypeOK, Place
  <2> QED
    BY <1>10, <2>1 DEF AcceptFails, ChildOK, Lives, Turning
<1>11. CASE ForkFails
  <2>1. \A q \in Place : q < idx => q < idx + 1
    BY NumNat DEF TypeOK, Place
  <2> QED
    BY <1>11, <2>1 DEF ForkFails, ChildOK, Lives, Turning
<1>12. ASSUME NEW c \in Client, Connect(c) PROVE ChildOK'
  BY <1>12 DEF Connect, TypeOK, ChildOK, Lives, Turning
<1>13. ASSUME NEW c \in Client, Write(c) PROVE ChildOK'
  BY <1>13 DEF Write, Made, TypeOK, ChildOK, Lives, Turning
<1>14. ASSUME NEW c \in Client, Close(c) PROVE ChildOK'
  BY <1>14 DEF Close, Becomes, Made, TypeOK, ChildOK, Lives, Turning
<1>15. ASSUME NEW c \in Client, ResetArrives(c) PROVE ChildOK'
  BY <1>15 DEF ResetArrives, Becomes, TypeOK, ChildOK, Lives, Turning
<1>16. ASSUME NEW c \in Client, Break(c) PROVE ChildOK'
  BY <1>16 DEF Break, Becomes, Made, Fault, TypeOK, ChildOK, Lives, Turning
<1>17. ASSUME NEW p \in Place, Crash(p) PROVE ChildOK'
  BY <1>17 DEF Crash, Fault, TypeOK, ChildOK, Lives, Turning
<1>18. CASE UNCHANGED vars
  BY <1>18 DEF TypeOK, ChildOK, Lives, Turning
<1> QED
  BY <1>1, <1>2, <1>3, <1>4, <1>5, <1>6, <1>7, <1>8, <1>9, <1>10, <1>11,
     <1>12, <1>13, <1>14, <1>15, <1>16, <1>17, <1>18
     DEF Next, Parent, ChildOf, Environment

-----------------------------------------------------------------------------
(* The messages: what each step keeps of the rest of ChatInv.              *)

\* The type of what the clients were sent, in parts.
LEMMA GotTypes ==
    ASSUME TypeOK, NEW d \in Client, NEW k \in DOMAIN got[d]
    PROVE  /\ got[d][k] \in Message
           /\ got[d][k][1] \in Client /\ got[d][k][2] \in Nat
<1>1. got[d] \in Seq(Message)
  BY DEF TypeOK
<1>2. got[d][k] \in Message
  BY <1>1
<1> QED
  BY <1>2 DEF Message

\* The step that adds a message: whose it is, and what it leaves as it was.
LEMMA SendToAdds ==
    ASSUME ConstantsOK, AgreeInv, NEW p \in Place, SendTo(p)
    PROVE  /\ i[p] \in Place /\ i[p] <= p /\ who[i[p]] \in Client
           /\ i' = [i EXCEPT ![p] = i[p] + 1]
           /\ cpc[p] = "send" /\ cpc' = [cpc EXCEPT ![p] = "test"]
           /\ who[p] \in Client /\ buf[p] = <<who[p], read[who[p]]>>
           /\ buf[p] \in Message
           /\ \A d \in Client : peer'[d] = "open" => peer[d] = "open"
           /\ got' = IF peer[who[i[p]]] = "open"
                     THEN [got EXCEPT ![who[i[p]]] = Append(@, buf[p])] ELSE got
           /\ \A d \in Client : \A k \in DOMAIN got[d] :
                 k \in DOMAIN got'[d] /\ got'[d][k] = got[d][k]
<1> USE DEF AgreeInv
<1>1. i[p] \in Place /\ Turning(p) /\ Lives(p)
  BY DEF SendTo, Sending, ChildOK, Turning, Lives
<1>2. Behind(p, fds[i[p]]) = who[i[p]] /\ who[i[p]] \in Client /\ i[p] <= p
  BY <1>1, BehindIsWho DEF SendTo
<1>3. who[p] \in Client
  BY <1>1, OwnIsWho DEF Turning
<1>4. buf[p] = <<who[p], read[who[p]]>> /\ buf[p] # <<>>
  BY <1>1 DEF ChildOK
<1>5. buf[p] \in Message
  BY <1>4 DEF TypeOK
<1>6. /\ i' = [i EXCEPT ![p] = i[p] + 1]
      /\ cpc[p] = "send" /\ cpc' = [cpc EXCEPT ![p] = "test"]
  BY DEF SendTo, Sending
<1>7. got' = IF peer[who[i[p]]] = "open"
             THEN [got EXCEPT ![who[i[p]]] = Append(@, buf[p])] ELSE got
  BY <1>2 DEF SendTo
<1>8. \A d \in Client : peer'[d] = "open" => peer[d] = "open"
  BY <1>2 DEF SendTo, TypeOK
<1>9. ASSUME NEW d \in Client, NEW k \in DOMAIN got[d]
      PROVE  k \in DOMAIN got'[d] /\ got'[d][k] = got[d][k]
  <2>1. got[d] \in Seq(Message)
    BY DEF TypeOK
  <2>2. /\ k \in DOMAIN Append(got[d], buf[p])
        /\ Append(got[d], buf[p])[k] = got[d][k]
    BY <1>5, <2>1, AppendSeq
  <2>3. got'[d] \in {got[d], Append(got[d], buf[p])}
    BY <1>7 DEF TypeOK
  <2> QED
    BY <2>2, <2>3
<1> QED
  BY <1>1, <1>2, <1>3, <1>4, <1>5, <1>6, <1>7, <1>8, <1>9

\* Where a message of the next state comes from.
LEMMA GotNext ==
    ASSUME ConstantsOK, AgreeInv, NEW p \in Place, SendTo(p),
           NEW d \in Client, NEW k \in DOMAIN got'[d]
    PROVE  \/ k \in DOMAIN got[d] /\ got'[d][k] = got[d][k]
           \/ /\ d = who[i[p]] /\ got'[d][k] = buf[p] /\ peer[d] = "open"
              /\ k \in Nat /\ \A j \in DOMAIN got[d] : j \in Nat /\ j < k
<1>1. got[d] \in Seq(Message)
  BY DEF AgreeInv, TypeOK
<1>2. CASE got'[d] = got[d]
  BY <1>2
<1>3. CASE /\ d = who[i[p]] /\ peer[d] = "open"
           /\ got'[d] = Append(got[d], buf[p])
  <2>1. buf[p] \in Message
    BY SendToAdds
  <2>2. k \in 1 .. Len(got[d]) + 1 /\ Len(got[d]) \in Nat
    BY <1>1, <1>3, <2>1, AppendSeq
  <2>3. CASE k \in 1 .. Len(got[d])
    BY <1>1, <1>3, <2>1, <2>3, AppendSeq
  <2>4. CASE k = Len(got[d]) + 1
    BY <1>1, <1>3, <2>1, <2>2, <2>4, AppendSeq
  <2> QED
    BY <2>2, <2>3, <2>4
<1>4. got' = IF peer[who[i[p]]] = "open"
             THEN [got EXCEPT ![who[i[p]]] = Append(@, buf[p])] ELSE got
  BY SendToAdds
<1> QED
  BY <1>2, <1>3, <1>4 DEF AgreeInv, TypeOK

\* A step that adds no message and starts no walk.
LEMMA MessagesKept ==
    ASSUME MessagesOK, UNCHANGED <<who, got, read>>,
           \A s, t \in Place : Turning(s)' /\ i'[s] <= t => Turning(s) /\ i[s] <= t
    PROVE  MessagesOK'
BY DEF MessagesOK

\* A step that leaves the walks as they are.
LEMMA MessagesIdle ==
    ASSUME MessagesOK, UNCHANGED <<who, got, read, cpc, i>>
    PROVE  MessagesOK'
BY DEF MessagesOK, Turning

\* A message that is passed on is the last its sender received, and goes to a place
\* the walk then leaves.
LEMMA MessagesStep ==
    ASSUME ConstantsOK, AgreeInv, MessagesOK, [Next]_vars
    PROVE  MessagesOK'
<1> USE DEF AgreeInv, parentVars, childVars, netVars, vars
<1>1. CASE Accept
  <2>1. who[idx] = NoClient /\ NoClient \notin Client
    BY <1>1, NumNat DEF Accept, ParentOK, TypeOK, Place, ConstantsOK
  <2>2. \A d \in Client, p \in Place : who[p] = d => who'[p] = d
    BY <1>1, <2>1 DEF Accept, TypeOK
  <2> QED
    BY <1>1, <2>1, <2>2, GotTypes DEF Accept, MessagesOK, Turning
<1>2. CASE Fork
  <2>1. \A p \in Place : Turning(p)' => Turning(p)
    BY <1>2 DEF Fork, AfterFork, Inherited, TypeOK, Turning
  <2> QED
    BY <1>2, <2>1 DEF Fork, AfterFork, Inherited, MessagesOK
<1>3. ASSUME NEW p \in Place, Receive(p) PROVE MessagesOK'
  <2>1. /\ Own(p) = who[p] /\ who[p] \in Client /\ read[who[p]] \in Nat
    BY <1>3, OwnIsWho DEF Receive, TypeOK
  <2>2. /\ got' = got /\ who' = who
        /\ read' = [read EXCEPT ![who[p]] = read[who[p]] + 1]
        /\ \A s \in Place : s # p => cpc'[s] = cpc[s] /\ i'[s] = i[s]
    BY <1>3, <2>1 DEF Receive, TypeOK
  <2>3. ASSUME NEW d \in Client, NEW k \in DOMAIN got[d]
        PROVE  \E s, t \in Place :
                  /\ who[s] = got[d][k][1] /\ who[t] = d
                  /\ got[d][k][2] <= read'[who[s]]
                  /\ Turning(s)' /\ i'[s] <= t => got[d][k][2] < read'[who[s]]
    <3>1. PICK s, t \in Place :
             /\ who[s] = got[d][k][1] /\ who[t] = d
             /\ got[d][k][2] <= read[who[s]]
             /\ Turning(s) /\ i[s] <= t => got[d][k][2] < read[who[s]]
      BY DEF MessagesOK
    <3>2. got[d][k][2] \in Nat /\ who[s] \in Client /\ read[who[s]] \in Nat
      BY <3>1, GotTypes DEF TypeOK
    <3>3. CASE s = p
      <4>1. read'[who[s]] = read[who[s]] + 1
        BY <2>1, <2>2, <3>3 DEF TypeOK
      <4> QED
        BY <3>1, <3>2, <4>1
    <3>4. CASE s # p
      <4>1. read'[who[s]] = read[who[s]]
        BY <2>1, <2>2, <3>2, <3>4 DEF TypeOK, ClientsOnce, ParentOK, ConstantsOK
      <4> QED
        BY <2>2, <3>1, <3>4, <4>1 DEF Turning
    <3> QED
      BY <3>3, <3>4
  <2> QED
    BY <2>2, <2>3 DEF MessagesOK
<1>4. ASSUME NEW p \in Place, ReceiveEnd(p) PROVE MessagesOK'
  <2>1. \A s, t \in Place : Turning(s)' /\ i'[s] <= t => Turning(s) /\ i[s] <= t
    BY <1>4 DEF ReceiveEnd, TypeOK, Turning
  <2> QED
    BY <1>4, <2>1, MessagesKept DEF ReceiveEnd
<1>5. ASSUME NEW p \in Place, Leave(p) PROVE MessagesOK'
  <2>1. \A s, t \in Place : Turning(s)' /\ i'[s] <= t => Turning(s) /\ i[s] <= t
    BY <1>5 DEF Leave, Cleared, TypeOK, Turning
  <2> QED
    BY <1>5, <2>1, MessagesKept DEF Leave, Cleared
<1>6. ASSUME NEW p \in Place, Test(p) PROVE MessagesOK'
  <2>1. \A s \in Place : s # p => cpc'[s] = cpc[s] /\ i'[s] = i[s]
    BY <1>6 DEF Test, NextPlace, TypeOK
  <2>2. /\ Turning(p)' => Turning(p)
        /\ i[p] \in 0 .. Num + 1 /\ i'[p] \in {i[p], i[p] + 1}
    BY <1>6 DEF Test, NextPlace, TypeOK, Turning
  <2>3. \A s, t \in Place : Turning(s)' /\ i'[s] <= t => Turning(s) /\ i[s] <= t
    BY <2>1, <2>2, NumNat DEF Turning, Place
  <2> QED
    BY <1>6, <2>3, MessagesKept DEF Test, NextPlace
<1>7. ASSUME NEW p \in Place, SendNowhere(p) PROVE MessagesOK'
  <2>1. \A s \in Place : s # p => cpc'[s] = cpc[s] /\ i'[s] = i[s]
    BY <1>7 DEF SendNowhere, Sending, TypeOK
  <2>2. /\ Turning(p)' => Turning(p)
        /\ i[p] \in 0 .. Num + 1 /\ i'[p] \in {i[p], i[p] + 1}
    BY <1>7 DEF SendNowhere, Sending, TypeOK, Turning
  <2>3. \A s, t \in Place : Turning(s)' /\ i'[s] <= t => Turning(s) /\ i[s] <= t
    BY <2>1, <2>2, NumNat DEF Turning, Place
  <2> QED
    BY <1>7, <2>3, MessagesKept DEF SendNowhere, Sending
<1>8. ASSUME NEW p \in Place, SendTo(p) PROVE MessagesOK'
  <2>1. /\ who' = who /\ read' = read
        /\ i[p] \in Place /\ i[p] <= p /\ who[i[p]] \in Client
        /\ buf[p] = <<who[p], read[who[p]]>> /\ who[p] \in Client
        /\ read[who[p]] \in Nat /\ i'[p] = i[p] + 1 /\ i[p] \in Int
    <3>1. /\ i[p] \in Place /\ i[p] <= p /\ who[i[p]] \in Client
          /\ buf[p] = <<who[p], read[who[p]]>> /\ who[p] \in Client
      BY <1>8, SendToAdds
    <3> QED
      BY <1>8, <3>1, NumNat, SMTT(30) DEF SendTo, Sending, TypeOK, Place
  <2>2. \A s, t \in Place : Turning(s)' /\ i'[s] <= t => Turning(s) /\ i[s] <= t
    <3>1. \A s \in Place : s # p => cpc'[s] = cpc[s] /\ i'[s] = i[s]
      BY <1>8 DEF SendTo, Sending, TypeOK
    <3>2. Turning(p) /\ \A t \in Place : t \in Int
      BY <1>8, NumNat DEF SendTo, Sending, Turning, Place
    <3> QED
      BY <2>1, <3>1, <3>2 DEF Turning
  <2>3. ASSUME NEW d \in Client, NEW k \in DOMAIN got'[d]
        PROVE  \E s, t \in Place :
                  /\ who[s] = got'[d][k][1] /\ who[t] = d
                  /\ got'[d][k][2] <= read[who[s]]
                  /\ Turning(s)' /\ i'[s] <= t => got'[d][k][2] < read[who[s]]
    <3>1. CASE k \in DOMAIN got[d] /\ got'[d][k] = got[d][k]
      BY <2>2, <3>1 DEF MessagesOK
    <3>2. CASE d = who[i[p]] /\ got'[d][k] = buf[p]
      <4>1. /\ who[p] = got'[d][k][1] /\ got'[d][k][2] = read[who[p]]
            /\ ~(i'[p] <= i[p])
        BY <2>1, <3>2
      <4> QED
        BY <2>1, <3>2, <4>1
    <3> QED
      BY <1>8, <3>1, <3>2, GotNext
  <2> QED
    BY <2>1, <2>3 DEF MessagesOK
<1>9. ASSUME NEW p \in Place, SendKills(p) PROVE MessagesOK'
  <2>1. \A s, t \in Place : Turning(s)' /\ i'[s] <= t => Turning(s) /\ i[s] <= t
    BY <1>9 DEF SendKills, TypeOK, Turning
  <2> QED
    BY <1>9, <2>1, MessagesKept DEF SendKills
<1>10. CASE AcceptFails
  BY <1>10, MessagesIdle DEF AcceptFails, Fault
<1>11. CASE ForkFails
  BY <1>11, MessagesIdle DEF ForkFails, Fault
<1>12. ASSUME NEW c \in Client, Connect(c) PROVE MessagesOK'
  BY <1>12, MessagesIdle DEF Connect
<1>13. ASSUME NEW c \in Client, Write(c) PROVE MessagesOK'
  BY <1>13, MessagesIdle DEF Write
<1>14. ASSUME NEW c \in Client, Close(c) PROVE MessagesOK'
  BY <1>14, MessagesIdle DEF Close, Becomes
<1>15. ASSUME NEW c \in Client, ResetArrives(c) PROVE MessagesOK'
  BY <1>15, MessagesIdle DEF ResetArrives, Becomes
<1>16. ASSUME NEW c \in Client, Break(c) PROVE MessagesOK'
  BY <1>16, MessagesIdle DEF Break, Becomes, Fault
<1>17. ASSUME NEW p \in Place, Crash(p) PROVE MessagesOK'
  <2>1. \A s, t \in Place : Turning(s)' /\ i'[s] <= t => Turning(s) /\ i[s] <= t
    BY <1>17 DEF Crash, Fault, TypeOK, Turning
  <2> QED
    BY <1>17, <2>1, MessagesKept DEF Crash, Fault
<1>18. CASE UNCHANGED vars
  BY <1>18, MessagesIdle
<1> QED
  BY <1>1, <1>2, <1>3, <1>4, <1>5, <1>6, <1>7, <1>8, <1>9, <1>10, <1>11,
     <1>12, <1>13, <1>14, <1>15, <1>16, <1>17, <1>18
     DEF Next, Parent, ChildOf, Environment

\* A child sends what it received last, so nothing it sent to that place before is as
\* late.
LEMMA OrderStep ==
    ASSUME ConstantsOK, AgreeInv, MessagesOK, InOrder, [Next]_vars
    PROVE  InOrder'
<1> USE DEF AgreeInv, parentVars, childVars, netVars, vars
<1>1. CASE Accept
  BY <1>1 DEF Accept, InOrder
<1>2. CASE Fork
  BY <1>2 DEF Fork, AfterFork, Inherited, InOrder
<1>3. ASSUME NEW p \in Place, Receive(p) PROVE InOrder'
  BY <1>3 DEF Receive, InOrder
<1>4. ASSUME NEW p \in Place, ReceiveEnd(p) PROVE InOrder'
  BY <1>4 DEF ReceiveEnd, InOrder
<1>5. ASSUME NEW p \in Place, Leave(p) PROVE InOrder'
  BY <1>5 DEF Leave, Cleared, InOrder
<1>6. ASSUME NEW p \in Place, Test(p) PROVE InOrder'
  BY <1>6 DEF Test, NextPlace, InOrder
<1>7. ASSUME NEW p \in Place, SendNowhere(p) PROVE InOrder'
  BY <1>7 DEF SendNowhere, Sending, InOrder
<1>8. ASSUME NEW p \in Place, SendTo(p) PROVE InOrder'
  <2>1. /\ Turning(p) /\ i[p] \in Place /\ i[p] <= i[p] /\ i[p] \in Int
        /\ buf[p] = <<who[p], read[who[p]]>>
        /\ who[p] \in Client /\ who[i[p]] \in Client /\ NoClient \notin Client
    BY <1>8, SendToAdds, NumNat DEF Turning, Place, ConstantsOK
  <2>2. ASSUME NEW k \in DOMAIN got[who[i[p]]], got[who[i[p]]][k][1] = who[p]
        PROVE  got[who[i[p]]][k][2] < read[who[p]]
    <3>1. PICK s, t \in Place :
             /\ who[s] = got[who[i[p]]][k][1] /\ who[t] = who[i[p]]
             /\ Turning(s) /\ i[s] <= t => got[who[i[p]]][k][2] < read[who[s]]
      BY <2>1 DEF MessagesOK
    <3>2. s = p /\ t = i[p]
      BY <2>1, <2>2, <3>1 DEF ClientsOnce
    <3> QED
      BY <2>1, <3>1, <3>2
  <2>3. ASSUME NEW d \in Client, NEW j \in DOMAIN got'[d], NEW k \in DOMAIN got'[d],
               j < k, got'[d][j][1] = got'[d][k][1]
        PROVE  got'[d][j][2] < got'[d][k][2]
    <3>1. CASE /\ j \in DOMAIN got[d] /\ got'[d][j] = got[d][j]
               /\ k \in DOMAIN got[d] /\ got'[d][k] = got[d][k]
      BY <2>3, <3>1 DEF InOrder
    <3>2. CASE /\ j \in DOMAIN got[d] /\ got'[d][j] = got[d][j]
               /\ d = who[i[p]] /\ got'[d][k] = buf[p]
      BY <2>1, <2>2, <2>3, <3>2
    <3>3. CASE /\ j \in Nat /\ \A l \in DOMAIN got[d] : l \in Nat /\ l < j
               /\ k \in DOMAIN got[d]
      BY <2>3, <3>3
    <3>4. CASE /\ ~(j \in DOMAIN got[d] /\ got'[d][j] = got[d][j])
               /\ ~(k \in DOMAIN got[d] /\ got'[d][k] = got[d][k])
      <4>1. got'[d] = Append(got[d], buf[p]) \/ got'[d] = got[d]
        <5>1. got' = IF peer[who[i[p]]] = "open"
                     THEN [got EXCEPT ![who[i[p]]] = Append(@, buf[p])] ELSE got
          BY <1>8, SendToAdds
        <5> QED
          BY <5>1 DEF TypeOK
      <4>2. got[d] \in Seq(Message) /\ buf[p] \in Message
        BY <1>8, SendToAdds DEF TypeOK
      <4>3. j = Len(got[d]) + 1 /\ k = Len(got[d]) + 1
        BY <3>4, <4>1, <4>2, AppendSeq
      <4> QED
        BY <2>3, <4>2, <4>3
    <3> QED
      BY <1>8, <3>1, <3>2, <3>3, <3>4, GotNext
  <2> QED
    BY <2>3 DEF InOrder
<1>9. ASSUME NEW p \in Place, SendKills(p) PROVE InOrder'
  BY <1>9 DEF SendKills, InOrder
<1>10. CASE AcceptFails
  BY <1>10 DEF AcceptFails, Fault, InOrder
<1>11. CASE ForkFails
  BY <1>11 DEF ForkFails, Fault, InOrder
<1>12. ASSUME NEW c \in Client, Connect(c) PROVE InOrder'
  BY <1>12 DEF Connect, InOrder
<1>13. ASSUME NEW c \in Client, Write(c) PROVE InOrder'
  BY <1>13 DEF Write, Made, InOrder
<1>14. ASSUME NEW c \in Client, Close(c) PROVE InOrder'
  BY <1>14 DEF Close, Becomes, Made, InOrder
<1>15. ASSUME NEW c \in Client, ResetArrives(c) PROVE InOrder'
  BY <1>15 DEF ResetArrives, Becomes, InOrder
<1>16. ASSUME NEW c \in Client, Break(c) PROVE InOrder'
  BY <1>16 DEF Break, Becomes, Made, Fault, InOrder
<1>17. ASSUME NEW p \in Place, Crash(p) PROVE InOrder'
  BY <1>17 DEF Crash, Fault, InOrder
<1>18. CASE UNCHANGED vars
  BY <1>18 DEF InOrder
<1> QED
  BY <1>1, <1>2, <1>3, <1>4, <1>5, <1>6, <1>7, <1>8, <1>9, <1>10, <1>11,
     <1>12, <1>13, <1>14, <1>15, <1>16, <1>17, <1>18
     DEF Next, Parent, ChildOf, Environment

\* The walk goes past a place when it has sent there, or nobody is there to hear.
LEMMA HeardStep ==
    ASSUME ConstantsOK, AgreeInv, HeardSoFar, [Next]_vars
    PROVE  HeardSoFar'
<1> USE DEF AgreeInv, parentVars, childVars, netVars, vars
<1>1. CASE Accept
  <2>1. /\ idx \in Int /\ idx \in Place /\ \A q \in Place : q \in Int
    BY NumNat DEF TypeOK, Place
  <2>2. \A q, p \in Place : q <= p /\ buf[p] # <<>> => q # idx
    BY <2>1 DEF ChildOK
  <2>3. \A q \in Place : q # idx => who'[q] = who[q]
    BY <1>1, <2>1 DEF Accept, TypeOK
  <2> QED
    BY <1>1, <2>2, <2>3 DEF Accept, HeardSoFar, Passed, Turning
<1>2. CASE Fork
  <2>1. idx \in Place /\ buf[idx] = <<>>
    BY NumNat DEF TypeOK, ChildOK, Place
  <2>2. \A p \in Place : p # idx => cpc'[p] = cpc[p]
    BY <1>2 DEF Fork, AfterFork, Inherited, TypeOK
  <2> QED
    BY <1>2, <2>1, <2>2 DEF Fork, AfterFork, Inherited, HeardSoFar, Passed, Turning
<1>3. ASSUME NEW p \in Place, Receive(p) PROVE HeardSoFar'
  <2>1. \A s \in Place : s # p =>
            cpc'[s] = cpc[s] /\ i'[s] = i[s] /\ buf'[s] = buf[s]
    BY <1>3 DEF Receive, TypeOK
  <2>2. \A q \in Place : ~Passed(p, q)'
    BY <1>3, NumNat DEF Receive, TypeOK, Passed, Turning, Place
  <2> QED
    BY <1>3, <2>1, <2>2 DEF Receive, HeardSoFar, Passed, Turning
<1>4. ASSUME NEW p \in Place, ReceiveEnd(p) PROVE HeardSoFar'
  BY <1>4 DEF ReceiveEnd, TypeOK, HeardSoFar, Passed, Turning
<1>5. ASSUME NEW p \in Place, Leave(p) PROVE HeardSoFar'
  BY <1>5 DEF Leave, Cleared, TypeOK, HeardSoFar, Passed, Turning
<1>6. ASSUME NEW p \in Place, Test(p) PROVE HeardSoFar'
  <2>1. /\ \A s \in Place : s # p => cpc'[s] = cpc[s] /\ i'[s] = i[s]
        /\ buf' = buf /\ who' = who /\ peer' = peer /\ got' = got
    BY <1>6 DEF Test, NextPlace, TypeOK
  <2>2. ASSUME NEW q \in Place, Passed(p, q)', ~Passed(p, q), q <= p,
               who[q] # NoClient, peer[who[q]] = "open"
        PROVE  FALSE
    <3>0. i[p] \in 0 .. Num + 1
      BY DEF TypeOK
    <3>1. q \in Int /\ i[p] \in Int /\ Num \in Nat /\ q <= Num
      BY <3>0, NumNat DEF Place
    <3>5. cpc[p] = "test" /\ ~(q < i[p])
      BY <1>6, <2>2 DEF Test, Passed, Turning
    <3>2. i[p] \in Place
      BY <3>0, <3>1, <3>5 DEF Place
    <3>3. fds[i[p]] <= 0 /\ q < i[p] + 1
      BY <1>6, <2>2, <3>1, <3>2 DEF Test, NextPlace, TypeOK, Passed, Turning
    <3>4. q = i[p]
      BY <3>1, <3>3, <3>5
    <3>6. fds[q] = q + 4
      BY <2>2, <3>5, OpenIsBehind
    <3> QED
      BY <3>1, <3>3, <3>4, <3>6 DEF Place
  <2> QED
    BY <2>1, <2>2 DEF HeardSoFar, Passed, Turning
<1>7. ASSUME NEW p \in Place, SendNowhere(p) PROVE HeardSoFar'
  <2>1. \A s \in Place : s # p => cpc'[s] = cpc[s] /\ i'[s] = i[s]
    BY <1>7 DEF SendNowhere, Sending, TypeOK
  <2>2. /\ i[p] \in Place /\ i[p] \in Int /\ i'[p] = i[p] + 1 /\ cpc'[p] = "test"
        /\ \A q \in Place : q \in Int
    BY <1>7, NumNat DEF SendNowhere, Sending, TypeOK, ChildOK, Place
  <2>3. ASSUME NEW q \in Place, q <= p, who[q] # NoClient, peer[who[q]] = "open"
        PROVE  q # i[p]
    BY <1>7, <2>3, OpenIsBehind DEF SendNowhere, Sending
  <2>4. \A q \in Place : q < i'[p] /\ q # i[p] => Passed(p, q)
    BY <1>7, <2>2 DEF SendNowhere, Sending, Passed, Turning
  <2> QED
    BY <1>7, <2>1, <2>2, <2>3, <2>4 DEF SendNowhere, Sending, HeardSoFar, Passed, Turning
<1>8. ASSUME NEW p \in Place, SendTo(p) PROVE HeardSoFar'
  <2>1. /\ \A s \in Place : s # p => cpc'[s] = cpc[s] /\ i'[s] = i[s]
        /\ buf' = buf /\ who' = who
    BY <1>8 DEF SendTo, Sending, TypeOK
  <2>2. /\ i[p] \in Place /\ i[p] \in Int /\ i'[p] = i[p] + 1 /\ cpc'[p] = "test"
        /\ \A q \in Place : q \in Int
    BY <1>8, NumNat DEF SendTo, Sending, TypeOK, ChildOK, Place
  <2>3. \A q \in Place : q < i'[p] /\ q # i[p] => Passed(p, q)
    BY <1>8, <2>2 DEF SendTo, Sending, Passed, Turning
  <2>4. ASSUME NEW q \in Place, NEW s \in Place, q <= s, Passed(s, q)', buf[s] # <<>>,
               who[q] # NoClient, peer'[who[q]] = "open"
        PROVE  \E k \in DOMAIN got'[who[q]] : got'[who[q]][k] = buf[s]
    <3>1. who[q] \in Client /\ peer[who[q]] = "open"
      BY <1>8, <2>4, SendToAdds, SMTT(30) DEF TypeOK
    <3>2. CASE Passed(s, q)
      <4>1. PICK k \in DOMAIN got[who[q]] : got[who[q]][k] = buf[s]
        BY <2>4, <3>1, <3>2 DEF HeardSoFar
      <4> QED
        BY <1>8, <3>1, <4>1, SendToAdds
    <3>3. CASE ~Passed(s, q)
      <4>1. s = p /\ q = i[p]
        BY <2>1, <2>2, <2>3, <2>4, <3>3 DEF Passed, Turning
      <4>2. got'[who[q]] = Append(got[who[q]], buf[p]) /\ buf[p] \in Message
        <5>1. /\ buf[p] \in Message
              /\ got' = IF peer[who[i[p]]] = "open"
                        THEN [got EXCEPT ![who[i[p]]] = Append(@, buf[p])] ELSE got
          BY <1>8, SendToAdds
        <5> QED
          BY <3>1, <4>1, <5>1 DEF TypeOK
      <4>3. got[who[q]] \in Seq(Message)
        BY <3>1 DEF TypeOK
      <4>4. Len(got[who[q]]) + 1 \in DOMAIN got'[who[q]]
        BY <4>2, <4>3, AppendSeq
      <4> QED
        BY <4>1, <4>2, <4>3, <4>4, AppendSeq
    <3> QED
      BY <3>2, <3>3
  <2> QED
    BY <2>1, <2>4 DEF HeardSoFar
<1>9. ASSUME NEW p \in Place, SendKills(p) PROVE HeardSoFar'
  BY <1>9 DEF SendKills, TypeOK, HeardSoFar, Passed, Turning
<1>10. CASE AcceptFails
  BY <1>10 DEF AcceptFails, Fault, TypeOK, HeardSoFar, Passed, Turning
<1>11. CASE ForkFails
  BY <1>11 DEF ForkFails, Fault, TypeOK, HeardSoFar, Passed, Turning
<1>12. ASSUME NEW c \in Client, Connect(c) PROVE HeardSoFar'
  BY <1>12 DEF Connect, TypeOK, HeardSoFar, Passed, Turning
<1>13. ASSUME NEW c \in Client, Write(c) PROVE HeardSoFar'
  BY <1>13 DEF Write, Made, TypeOK, HeardSoFar, Passed, Turning
<1>14. ASSUME NEW c \in Client, Close(c) PROVE HeardSoFar'
  BY <1>14 DEF Close, Becomes, Made, TypeOK, HeardSoFar, Passed, Turning
<1>15. ASSUME NEW c \in Client, ResetArrives(c) PROVE HeardSoFar'
  BY <1>15 DEF ResetArrives, Becomes, TypeOK, HeardSoFar, Passed, Turning
<1>16. ASSUME NEW c \in Client, Break(c) PROVE HeardSoFar'
  BY <1>16 DEF Break, Becomes, Made, Fault, TypeOK, HeardSoFar, Passed, Turning
<1>17. ASSUME NEW p \in Place, Crash(p) PROVE HeardSoFar'
  BY <1>17 DEF Crash, Fault, TypeOK, HeardSoFar, Passed, Turning
<1>18. CASE UNCHANGED vars
  BY <1>18 DEF TypeOK, HeardSoFar, Passed, Turning
<1> QED
  BY <1>1, <1>2, <1>3, <1>4, <1>5, <1>6, <1>7, <1>8, <1>9, <1>10, <1>11,
     <1>12, <1>13, <1>14, <1>15, <1>16, <1>17, <1>18
     DEF Next, Parent, ChildOf, Environment

-----------------------------------------------------------------------------
(* The theorems.                                                           *)

\* Every step keeps the invariant.
LEMMA ChatInvStep ==
    ASSUME ConstantsOK, ChatInv, [Next]_vars
    PROVE  ChatInv'
<1>1. TypeOK' /\ ParentOK' /\ ClientsOnce' /\ TableOK' /\ ChildOK'
  BY TypeStep, ParentStep, ClientsStep, TableStep, ChildStep DEF ChatInv
<1>2. MessagesOK' /\ InOrder' /\ HeardSoFar'
  BY MessagesStep, OrderStep, HeardStep DEF ChatInv
<1> QED
  BY <1>1, <1>2 DEF ChatInv, AgreeInv

\* The invariant holds throughout.
LEMMA ChatInvariant ==
    ASSUME ConstantsOK
    PROVE  Spec => []ChatInv
<1>1. Init => ChatInv
  BY InitChatInv
<1>2. ChatInv /\ [Next]_vars => ChatInv'
  BY ChatInvStep
<1> QED
  BY <1>1, <1>2, PTL DEF Spec

\* The variables of chatserver.c keep their types; in particular the table has room
\* for every client and no walk leaves it by more than one place.
THEOREM TypeCorrect ==
    ASSUME ConstantsOK
    PROVE  Spec => []TypeOK
<1>1. ChatInv => TypeOK
  BY DEF ChatInv, AgreeInv
<1> QED
  BY <1>1, ChatInvariant, PTL

\* A number in the table shared by the processes of chatserver.c means the same client
\* in each of them that has it open, in whatever order clients come and go and
\* processes are forked and killed.
THEOREM NumbersAlwaysAgree ==
    ASSUME ConstantsOK
    PROVE  Spec => []NumbersAgree
<1>1. ASSUME ConstantsOK, ChatInv PROVE NumbersAgree
  <2> SUFFICES ASSUME NEW p \in Place, NEW q \in Place, Lives(p),
                      Behind(p, fds[q]) # NoClient
               PROVE  Behind(p, fds[q]) = who[q]
    BY DEF NumbersAgree
  <2> QED
    BY <1>1, BehindIsWho DEF ChatInv, AgreeInv
<1>2. ChatInv => NumbersAgree
  BY <1>1
<1> QED
  BY <1>2, ChatInvariant, PTL

\* What the loop over the table in chatserver.c sends reaches the sender and every
\* client that came before it and is still there, once and in the sender's order.
THEOREM AlwaysHeardByThoseBefore ==
    ASSUME ConstantsOK
    PROVE  Spec => []HeardByThoseBefore
<1>1. ChatInv => EarlierHear
  BY DEF ChatInv, HeardSoFar, EarlierHear, Passed
<1>2. ChatInv => HeardByThoseBefore
  BY <1>1 DEF ChatInv, HeardByThoseBefore
<1> QED
  BY <1>2, ChatInvariant, PTL
=============================================================================
