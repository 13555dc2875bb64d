-------------------------------- MODULE Ping --------------------------------
(***************************************************************************)
(* ping.c: echo requests go out, the raw socket gets every ICMP packet of  *)
(* the host, and an alarm that each of them sets anew ends the wait.       *)
(* A request is a short sequence of short words, a time a number.          *)
(***************************************************************************)
EXTENDS Integers, FiniteSets, Functions

CONSTANTS
    MAX_NO_PACKETS,
    MAX_WAIT_TIME,
    Word,         \* a word of 16 bits holds 0 .. Word - 1
    ICMP_ECHO,    \* the first word of a request
    Stamps,       \* what gettimeofday may say, in microseconds
    Second,       \* microseconds in a second
    MaxPingFault  \* failures and duplicates

\* What is assumed of them: the sum of a packet's words is less than the square of a
\* word's range, as that of 32 words of 16 bits is.
ConstantsOK ==
    /\ MAX_NO_PACKETS \in Nat \ {0} /\ MAX_WAIT_TIME \in Nat \ {0} /\ ICMP_ECHO \in Nat
    /\ Second \in Nat \ {0} /\ Stamps \subseteq Nat /\ Word \in Nat /\ Word > 1
    /\ \A t \in Stamps : ICMP_ECHO + Word + MAX_NO_PACKETS + t < Word * Word

VARIABLES
    pid, nsend, nreceived,
    ping,     \* "send", "loop", "receive", "unpack" or "ended"
    alarm,    \* seconds until SIGALRM, 0 when it is not set
    net,      \* the requests that may be answered: their words and their time
    inbox,    \* the packet at the socket, then in recvpacket
    rtt,      \* what tv_sub left, and the time that really went by
    lost,     \* the percentage printed, -1 before
    pfaults   \* history: sends and receptions that failed, replies that came twice, and
              \* foreign ones that bear our pid

pingVars == <<pid, nsend, nreceived, ping, alarm, net, inbox, rtt, lost, pfaults>>

Nothing == [kind |-> "none"]
NoTime  == [tv_sec |-> 0, tv_usec |-> 0, real |-> 0]

TypeOK ==
    /\ nsend \in 0 .. MAX_NO_PACKETS /\ nreceived \in 0 .. nsend
    /\ ping \in {"send", "loop", "receive", "unpack", "ended"}
    /\ alarm \in 0 .. MAX_WAIT_TIME
    /\ inbox.kind \in {"none", "reply", "other"}
    /\ lost \in -1 .. 100 /\ (lost = -1 <=> ping # "ended")

Init ==
    /\ pid \in {1, Word + 1} /\ nsend = 0 /\ nreceived = 0
    /\ ping = "send" /\ alarm = 0
    /\ net = {} /\ inbox = Nothing /\ rtt = NoTime /\ lost = -1
    /\ pfaults = [send |-> 0, receive |-> 0, twice |-> 0, foreign |-> 0]

Fault(what) ==
    /\ SumFunction(pfaults) < MaxPingFault
    /\ pfaults' = [pfaults EXCEPT ![what] = @ + 1]

-----------------------------------------------------------------------------
(* Sending.                                                                *)

WordSum(w) == w[1] + w[2] + w[3] + w[4] + w[5]

\* The sum of the words, its carry added twice, and the complement.
mutOnce(sum) == sum
Carried(sum) == sum + (sum \div Word)
cal_chksum(w) ==
    LET sum == WordSum(w)
    IN Word - 1 - (Carried((sum \div Word) + (sum % Word)) % Word)

pack(pack_no, t) ==
    LET header(cksum) == <<ICMP_ECHO, cksum, pid % Word, pack_no, t>>
    IN [words |-> header(cal_chksum(header(0))), sent |-> t]

\* A request counts as sent when sendto fails, too.
SendPacket ==
    /\ ping = "send" /\ nsend < MAX_NO_PACKETS
    /\ nsend' = nsend + 1
    /\ \/ \E t \in Stamps : net' = net \cup {pack(nsend', t)} /\ UNCHANGED pfaults
       \/ Fault("send") /\ UNCHANGED net
    /\ UNCHANGED <<pid, nreceived, ping, alarm, inbox, rtt, lost>>

SendDone ==
    /\ ping = "send" /\ nsend = MAX_NO_PACKETS
    /\ ping' = "loop"
    /\ UNCHANGED <<pid, nsend, nreceived, alarm, net, inbox, rtt, lost, pfaults>>

-----------------------------------------------------------------------------
(* Receiving.                                                              *)

\* With integers all of the packets are lost or none.
statistics ==
    /\ ping' = "ended" /\ alarm' = 0
    /\ lost' = ((nsend - nreceived) \div nsend) * 100
    /\ UNCHANGED <<pid, nsend, nreceived, net, inbox, rtt, pfaults>>

More == nreceived < nsend

SetAlarm ==
    /\ ping = "loop" /\ More
    /\ ping' = "receive" /\ alarm' = MAX_WAIT_TIME /\ rtt' = NoTime
    /\ UNCHANGED <<pid, nsend, nreceived, net, inbox, lost, pfaults>>

LoopDone == ping = "loop" /\ ~ More /\ statistics

RecvFrom ==
    /\ ping = "receive" /\ inbox # Nothing
    /\ ping' = "unpack"
    /\ UNCHANGED <<pid, nsend, nreceived, alarm, net, inbox, rtt, lost, pfaults>>

RecvFails ==
    /\ ping = "receive" /\ Fault("receive")
    /\ ping' = "loop"
    /\ UNCHANGED <<pid, nsend, nreceived, alarm, net, inbox, rtt, lost>>

\* out - in, for two times.
tv_sub(out, in) ==
    LET usec   == (out % Second) - (in % Second)
        borrow == IF usec < 0 THEN 1 ELSE 0
    IN [tv_sec  |-> (out \div Second) - borrow - (in \div Second),
        tv_usec |-> usec + borrow * Second, real |-> out - in]

\* Another packet is not counted, nor is our reply when the pid does not fit icmp_id.
\* For our reply unpack ends without a value: it may be taken for -1.
unpack ==
    /\ ping = "unpack"
    /\ ping' = "loop" /\ inbox' = Nothing
    /\ IF inbox.kind = "reply" /\ inbox.icmp_id = pid
       THEN /\ nreceived' \in {nreceived, nreceived + 1}
            /\ \E t \in Stamps : t >= inbox.sent /\ rtt' = tv_sub(t, inbox.sent)
       ELSE UNCHANGED <<nreceived, rtt>>
    /\ UNCHANGED <<pid, nsend, alarm, net, lost, pfaults>>

\* Time passes; SIGALRM comes wherever recv_packet is.
Tick ==
    /\ alarm > 0
    /\ IF alarm = 1 THEN statistics
       ELSE /\ alarm' = alarm - 1
            /\ UNCHANGED <<pid, nsend, nreceived, ping, net, inbox, rtt, lost, pfaults>>

-----------------------------------------------------------------------------
(* The network and the other programs of the host.                         *)

Reply ==
    /\ inbox = Nothing /\ ping # "ended"
    /\ \E p \in net :
          /\ inbox' = [kind |-> "reply", icmp_id |-> p.words[3], sent |-> p.sent]
          /\ \/ net' = net \ {p} /\ UNCHANGED pfaults
             \/ Fault("twice") /\ UNCHANGED net
    /\ UNCHANGED <<pid, nsend, nreceived, ping, alarm, rtt, lost>>

Other ==
    /\ inbox = Nothing /\ ping # "ended"
    /\ \/ inbox' = [kind |-> "other"] /\ UNCHANGED pfaults
       \/ /\ Fault("foreign")
          /\ \E t \in Stamps : inbox' = [kind |-> "reply", icmp_id |-> pid, sent |-> t]
    /\ UNCHANGED <<pid, nsend, nreceived, ping, alarm, net, rtt, lost>>

Program == SendPacket \/ SendDone \/ SetAlarm \/ LoopDone \/ RecvFrom \/ unpack
Next    == Program \/ RecvFails \/ Tick \/ Reply \/ Other

-----------------------------------------------------------------------------
\* ping.c:59: every request passes a receiver's test: its words add up to 0 in one's
\* complement arithmetic, whatever is carried over.
ChecksumsVerify == \A p \in net : WordSum(p.words) % (Word - 1) = 0

\* ping.c:198: the round trip time is the time between, in seconds and microseconds.
RttIsRight ==
    /\ rtt.tv_usec \in 0 .. Second - 1
    /\ (rtt.tv_sec * Second) + rtt.tv_usec = rtt.real

\* ping.c:114: what is counted are replies to requests that went out, each once but for
\* those that the network doubles, and what unpack takes for one, however failures,
\* signals and the replies fall.
CountsAreReal ==
    nreceived + Cardinality(net) <= nsend - pfaults.send + pfaults.twice + pfaults.foreign

\* ping.c:37: the percentage is 100 when nothing was counted and otherwise 0.
LossIsAllOrNone == lost # -1 => lost = IF nreceived = 0 THEN 100 ELSE 0

Sound == TypeOK /\ ChecksumsVerify /\ RttIsRight /\ CountsAreReal /\ LossIsAllOrNone

\* ping.c:105: ping ends, unless foreign packets keep coming: each sets the alarm anew.
Ends == <>(ping = "ended") \/ []<>(inbox.kind = "other")
=============================================================================
