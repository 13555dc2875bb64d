------------------------------ MODULE MCPrograms ------------------------------
(* The thread pool, and one instance of each of the programs and pairs of programs *)
(* that share nothing: which says the one that runs, the others stay at a start.   *)
EXTENDS ThreadPool

CONSTANTS BUFFER_SIZE, Streams, MaxPiece, MaxFault,
          Char, Newline, Size, MAXLINE, Wide, MaxBad,
          MAX_NO_PACKETS, MAX_WAIT_TIME, Word, ICMP_ECHO, Stamps, Second, MaxPingFault,
          Caller, MaxForkFault, MaxCount, MaxLine, MaxNetFault,
          Chatter, MaxWrite, NoClient, k1, k2

VARIABLES
    which,
    pc, buffer, read_index, checked_index, start_line, checkstate, answer, wire,
    received, wrapped,
    f_cpc, f_off, f_src, f_wire, f_conn, f_spc, f_exists, f_samehost,
    f_target, f_dst, f_faults,
    fn, io, buf, left, ptr, cache, fd, input, bad, ret,
    nsec, nb, link, error, sock, outcome, woken,
    pid, nsend, nreceived, ping, alarm, net, inbox, rtt, lost, pfaults,
    main, reaping, sigchld, hand, kept, child, copies, caller, ffaults,
    me, receiver, chldsig, peer, terminal, heard,
    que, var_sem, count, lock, made, used, shown,
    udp, lines, requests, answers, printed, doubled, dropped, running,
    c_ppc, c_idx, c_fds, c_files, c_cpc, c_cfiles, c_buf, c_i, c_backlog,
    c_fresh, c_wrote, c_read, c_peer, c_got, c_who, c_faults

\* The words that requests are made of, whatever the requests are.
Words == INSTANCE HttpParse WITH Streams <- {}
UpTo(k) == UNION {[1 .. j -> Words!Text] : j \in 0 .. k}
CRLF == <<Words!CR, Words!LF>>
Plain == <<Words!Get, Words!Blank, Words!Slash, Words!Blank, Words!Version>>
Tails == {<<>>, <<"x">>, <<Words!CR>>, <<Words!LF>>, CRLF, <<"x", Words!CR>>, <<"x", Words!LF>>,
          <<"x">> \o CRLF, <<"x">> \o CRLF \o CRLF, CRLF \o <<"x">>,
          <<"x", Words!CR, "x">>, <<"x", "x">> \o CRLF \o CRLF \o CRLF,
          <<"x", "x", "x", "x", Words!CR>> \o CRLF \o CRLF,
          <<"x", "x", "x", "x", Words!CR, "x", "x">> \o CRLF}

\* Every first line of up to three words, of up to five that begins as a request
\* does, and of up to six that goes on as one; every tail after a good first line.
MCStreams ==
  {l \o CRLF \o CRLF : l \in UpTo(3)}
    \cup {<<Words!Get, Words!Blank>> \o l \o CRLF \o CRLF : l \in UpTo(3)}
    \cup {<<Words!Get, Words!Blank, Words!Slash, Words!Blank>> \o l \o CRLF \o CRLF : l \in UpTo(2)}
    \cup {Plain \o CRLF \o t : t \in Tails}
    \cup {Plain \o t : t \in Tails}
    \cup {t \o Plain \o CRLF \o CRLF : t \in Tails}

HTTP == INSTANCE HttpParse
F == INSTANCE FileTransfer WITH
    cpc <- f_cpc, off <- f_off, src <- f_src,
    wire <- f_wire, conn <- f_conn, spc <- f_spc, exists <- f_exists,
    samehost <- f_samehost, target <- f_target, dst <- f_dst, faults <-
    f_faults
IO     == INSTANCE StreamIO
NB     == INSTANCE ConnectNb
PING   == INSTANCE Ping
FORK   == INSTANCE ForkEcho
CLIENT == INSTANCE ChatClient
SEM    == INSTANCE ProducerConsumer
UDP    == INSTANCE UdpEcho

\* The order of messages takes two of one sender, their mixture another one.
MCMaxWrite == [c \in {k1, k2} |-> IF c = k1 THEN 2 ELSE 1]

C == INSTANCE ChatServer WITH
    Client <- Chatter,
    ppc <- c_ppc, idx <- c_idx, fds <- c_fds, files <- c_files, cpc <- c_cpc,
    cfiles <- c_cfiles, buf <- c_buf, i <- c_i, backlog <- c_backlog, fresh <-
    c_fresh, wrote <- c_wrote, read <- c_read, peer <- c_peer, got <- c_got,
    who <- c_who, faults <- c_faults

ASSUME HttpConstants == HTTP!ConstantsOK
ASSUME ChatConstants == C!ConstantsOK
ASSUME FileConstants == F!ConstantsOK
ASSUME ForkConstants == FORK!ConstantsOK
ASSUME StreamConstants == IO!ConstantsOK
ASSUME PingConstants == PING!ConstantsOK
ASSUME UdpConstants == UDP!ConstantsOK

poolVars   == vars
httpVars   == <<pc, buffer, read_index, checked_index, start_line, checkstate,
                answer, wire, received, wrapped>>
fileVars   == <<f_cpc, f_off, f_src, f_wire, f_conn, f_spc, f_exists, f_samehost,
                f_target, f_dst, f_faults>>
ioVars     == <<fn, io, buf, left, ptr, cache, fd, input, bad, ret>>
nbVars     == <<nsec, nb, link, error, sock, outcome, woken>>
pingVars   == <<pid, nsend, nreceived, ping, alarm, net, inbox, rtt, lost, pfaults>>
forkVars   == <<main, reaping, sigchld, hand, kept, child, copies, caller, ffaults>>
clientVars == <<me, receiver, chldsig, peer, terminal, heard>>
semVars    == <<que, var_sem, count, lock, made, used, shown>>
udpVars    == <<udp, lines, requests, answers, printed, doubled, dropped, running>>
chatVars   == <<c_ppc, c_idx, c_fds, c_files, c_cpc, c_cfiles, c_buf, c_i, c_backlog,
                c_fresh, c_wrote, c_read, c_peer, c_got, c_who, c_faults>>
all == <<which, poolVars, httpVars, fileVars, ioVars, nbVars, pingVars,
         forkVars, clientVars, semVars, udpVars, chatVars>>

Programs == {"pool", "http", "file", "io", "nb", "ping", "fork", "client",
             "sem", "udp", "chat"}

MCInit ==
    /\ which \in Programs
    /\ HTTP!Init /\ (which # "http" => wire = Plain)
    /\ F!Init /\ (which # "file" => f_src = <<>> /\ f_exists = {"path"} /\ f_samehost = FALSE)
    /\ IO!Init /\ (which # "io" => fn = "readn" /\ input = <<>>)
    /\ NB!Init /\ (which # "nb" => nsec)
    /\ PING!Init /\ (which # "ping" => pid = 1)
    /\ UDP!Init /\ (which # "udp" => running)
    /\ C!Init /\ Init /\ FORK!Init /\ CLIENT!Init /\ SEM!Init

\* All the others stay where they are.
Only(name) ==
    /\ which = name /\ which' = name
    /\ name # "pool"   => UNCHANGED poolVars
    /\ name # "http"   => UNCHANGED httpVars
    /\ name # "file"   => UNCHANGED fileVars
    /\ name # "io"     => UNCHANGED ioVars
    /\ name # "nb"     => UNCHANGED nbVars
    /\ name # "ping"   => UNCHANGED pingVars
    /\ name # "fork"   => UNCHANGED forkVars
    /\ name # "client" => UNCHANGED clientVars
    /\ name # "sem"    => UNCHANGED semVars
    /\ name # "udp"    => UNCHANGED udpVars
    /\ name # "chat"   => UNCHANGED chatVars

MCNext ==
    \/ Only("pool")   /\ Next
    \/ Only("http")   /\ HTTP!Next
    \/ Only("file")   /\ F!Next
    \/ Only("io")     /\ IO!Next
    \/ Only("nb")     /\ NB!Next
    \/ Only("ping")   /\ PING!Next
    \/ Only("fork")   /\ FORK!Next
    \/ Only("client") /\ CLIENT!Next
    \/ Only("sem")    /\ SEM!Next
    \/ Only("udp")    /\ UDP!Next
    \/ Only("chat")   /\ C!Next

MCSpec == MCInit /\ [][MCNext]_all

\* The fairness of each module; only the program that runs has steps to take.
MCFairSpec ==
    /\ MCSpec
    /\ \A t \in Producer : WF_poolVars(which = "pool" /\ ProducerStep(t))
    /\ \A w \in Worker : WF_poolVars(which = "pool" /\ WorkerStep(w))
    /\ \A w \in Worker : WF_poolVars(which = "pool" /\ CreateThread(w))
    /\ WF_httpVars(which = "http" /\ HTTP!Server)
    /\ WF_fileVars(which = "file" /\ F!ClientStep)
    /\ WF_fileVars(which = "file" /\ F!ServerStep)
    /\ WF_ioVars(which = "io" /\ IO!Helper)
    /\ WF_nbVars(which = "nb" /\ NB!Function)
    /\ WF_pingVars(which = "ping" /\ PING!Program)
    /\ WF_pingVars(which = "ping" /\ PING!Tick)
    /\ WF_forkVars(which = "fork" /\ FORK!Parent)
    /\ \A c \in Caller : WF_forkVars(which = "fork" /\ FORK!Process(c))
    /\ WF_clientVars(which = "client" /\ CLIENT!Parent)
    /\ WF_clientVars(which = "client" /\ CLIENT!Receiver)
    /\ WF_semVars(which = "sem" /\ SEM!producer_process)
    /\ WF_semVars(which = "sem" /\ SEM!coustom_process)
    /\ WF_udpVars(which = "udp" /\ UDP!Serve)
    /\ WF_udpVars(which = "udp" /\ UDP!PrintAnswer)

-----------------------------------------------------------------------------
\* httpparse.cpp: the answer is the verdict on the bytes, however they are cut.
AnswerIsVerdict == HTTP!TypeOK /\ HTTP!AnswerIsVerdict

\* fileserver.c, fileclient.c: the copy is whole without failures, and with one
\* only its end can be spoilt.
CopyIsSound == F!TypeOK /\ F!CopyIsSound

\* readn.cpp, writen.cpp, readline.cpp, readline_bufcache.cpp and connect_nb.c: what
\* the helpers return and leave, however the kernel cuts what they ask of it.
HelpersAreSound == IO!Sound /\ NB!Sound

\* chatserver.c: a number in the shared table means the same in every process.
NumbersAgree == C!TypeOK /\ C!NumbersAgree
\* chatserver.c: a message reaches its sender and those who came before, in order
\* and once.
HeardByThoseBefore == C!HeardByThoseBefore

\* ping.c: checksums, times and counts.
PingIsSound == PING!Sound

\* echoserver.cpp and chatclient.c: children are noticed and descriptors handed over;
\* sem.cpp and udpechoclient.c: what is taken is what was given.
PairsAreSound == FORK!Sound /\ CLIENT!Sound /\ SEM!Sound /\ UDP!Sound

\* What somebody waits for, an end or an answer, comes, under the conditions that each
\* module names with its property: one leads-to for all, for which does not change.
\* ping comes to its end.
Awaited(c) ==
    \/ which = "http"   /\ HTTP!FittingStarts
    \/ which = "file"   /\ ~ F!Ended
    \/ which = "io"     /\ IO!Calling
    \/ which = "nb"     /\ NB!Limited
    \/ which = "fork"   /\ FORK!Due(c)
    \/ which = "client" /\ CLIENT!ServerGone
    \/ which = "sem"    /\ SEM!Made
    \/ which = "udp"    /\ UDP!Asked
Arrived(c) ==
    \/ which = "http"   /\ HTTP!Answered
    \/ which = "file"   /\ F!Ended
    \/ which = "io"     /\ ~ IO!Calling
    \/ which = "nb"     /\ NB!Returned
    \/ which = "fork"   /\ FORK!Done(c)
    \/ which = "client" /\ CLIENT!AllGone
    \/ which = "sem"    /\ SEM!AllShown
    \/ which = "udp"    /\ UDP!Settled
ProgramsFinish ==
    /\ \A c \in Caller : Awaited(c) ~> Arrived(c)
    /\ which = "ping" => PING!Ends

\* chatserver.c: what is sent on a number of the table of all clients reaches the
\* client it was given for.
BroadcastReachesTable == C!BroadcastReachesTable

\* readn.cpp: a signal does not show.
InterruptionsAreHidden == IO!InterruptionsAreHidden
=============================================================================
