----------------------------- MODULE HttpParse -----------------------------
(***************************************************************************)
(* httpparse.cpp: one client sends a request, the server reads it into a   *)
(* fixed buffer in whatever pieces recv returns, and parses line by line   *)
(* as far as it can each time.                                             *)
(*                                                                         *)
(* A byte of the buffer is one of the words the parser tells apart: CR,    *)
(* LF, a blank, "GET", "http://", "/", "HTTP/1.1", or X for other text.    *)
(***************************************************************************)
EXTENDS Naturals, Sequences

CONSTANTS
  BUFFER_SIZE,   \* 50 in the code
  Streams        \* what the client may send before it closes

Nul    == "nul"
CR     == "cr"
LF     == "lf"
Blank  == "blank"
Get    == "get"
Http   == "http"
Slash  == "slash"
Version == "version"
Text   == {Blank, Get, Http, Slash, Version, "x"}
Bytes  == Text \cup {Nul, CR, LF}
HasSlash == {Http, Slash, Version}

\* What is assumed of the constants: a zero byte would end the string in the buffer.
ConstantsOK ==
  BUFFER_SIZE \in Nat \ {0} /\ \A s \in Streams : s \in Seq(Bytes \ {Nul})

VARIABLES
  pc,              \* "recv", "parse" or "closed"
  buffer, read_index, checked_index, start_line, checkstate,
  answer,          \* what was sent to the client: "none", "correct", "wrong"
  wire,            \* bytes the client sent, not received yet
  received,        \* history: the bytes received, in order
  wrapped          \* history: parse_line has set read_index back

vars == <<pc, buffer, read_index, checked_index, start_line, checkstate,
          answer, wire, received, wrapped>>

Index == 0..(BUFFER_SIZE - 1)
Least(S) == CHOOSE i \in S : \A j \in S : i <= j

Init ==
  /\ pc = "recv"
  /\ buffer = [i \in Index |-> Nul]
  /\ read_index = 0 /\ checked_index = 0 /\ start_line = 0
  /\ checkstate = "requestline"
  /\ answer = "none"
  /\ wire \in Streams
  /\ received = <<>> /\ wrapped = FALSE

-----------------------------------------------------------------------------
(* parse_requestline on a line, which is a sequence of text.               *)

\* strpbrk: the first blank, if there is one; strspn: the first other word.
FirstBlank(line) ==
  {i \in DOMAIN line : line[i] = Blank /\ \A j \in 1..(i - 1) : line[j] # Blank}
FirstOther(line) ==
  {i \in DOMAIN line : line[i] # Blank /\ \A j \in 1..(i - 1) : line[j] = Blank}
From(line, i) == SubSeq(line, i, Len(line))

\* "http://" is skipped together with all before the next slash.
GoodURL(url) ==
  \/ url # <<>> /\ url[1] = Slash
  \/ url # <<>> /\ url[1] = Http /\ \E i \in 2..Len(url) : url[i] \in HasSlash

parse_requestline(line) ==
  \E m \in FirstBlank(line) :
    /\ SubSeq(line, 1, m - 1) = <<Get>>
    /\ \E u \in FirstOther(From(line, m + 1)) :
         \E rest \in {From(line, m + u)} : \E v \in FirstBlank(rest) :
           /\ GoodURL(SubSeq(rest, 1, v - 1))
           /\ \E w \in FirstOther(From(rest, v + 1)) :
                From(rest, v + w) = <<Version>>

-----------------------------------------------------------------------------
(* parse_line and parse_content.                                           *)

Marks == {i \in checked_index..(read_index - 1) : buffer[i] \in {CR, LF}}
Mark  == Least(Marks)
AtCR  == buffer[Mark] = CR

mutCutAtCR == FALSE

\* The CR is the last byte so far: what follows it decides.
CutAtCR == AtCR /\ Mark + 1 = read_index

\* The CR LF that ends the line, found at either of the two.
LineEnds == IF AtCR THEN Mark + 1 < read_index /\ buffer[Mark + 1] = LF
                    ELSE Mark > 1 /\ buffer[Mark - 1] = CR
LineEnd  == IF AtCR THEN Mark ELSE Mark - 1

\* The string at start_line, up to its terminating zero.
Line ==
  LET e == Least({i \in start_line..(LineEnd + 1) : i >= LineEnd \/ buffer[i] = Nul})
  IN  SubSeq([k \in 1..BUFFER_SIZE |-> buffer[k - 1]], start_line + 1, e)

Reply(a) == answer' = a /\ pc' = "closed"

\* What parse_content does with a complete line: a request line or a header,
\* an empty one of which ends the request.
ParseText(line) ==
  \/ /\ checkstate = "requestline" /\ parse_requestline(line)
     /\ checkstate' = "header" /\ UNCHANGED <<answer, pc>>
  \/ /\ checkstate = "requestline" /\ ~parse_requestline(line)
     /\ Reply("wrong") /\ UNCHANGED checkstate
  \/ /\ checkstate = "header" /\ line = <<>>
     /\ Reply("correct") /\ UNCHANGED checkstate
  \/ /\ checkstate = "header" /\ line # <<>>
     /\ UNCHANGED <<checkstate, answer, pc>>

ParseLine ==
  /\ pc = "parse" /\ Marks # {} /\ ~CutAtCR /\ LineEnds
  /\ \E line \in {Line} : ParseText(line)
  /\ buffer' = [buffer EXCEPT ![LineEnd] = Nul, ![LineEnd + 1] = Nul]
  /\ checked_index' = LineEnd + 2
  /\ start_line' = LineEnd + 2
  /\ UNCHANGED <<read_index, wire, received, wrapped>>

ParseBad ==
  /\ pc = "parse" /\ Marks # {} /\ ~CutAtCR /\ ~LineEnds
  /\ checked_index' = Mark
  /\ Reply("wrong")
  /\ UNCHANGED <<buffer, read_index, start_line, checkstate, wire, received, wrapped>>

\* No end of line yet: wait for more.
ParseOpen ==
  /\ pc = "parse" /\ Marks = {}
  /\ checked_index' = IF checked_index < read_index THEN read_index ELSE checked_index
  /\ pc' = "recv"
  /\ UNCHANGED <<buffer, read_index, start_line, checkstate, answer, wire,
                 received, wrapped>>

\* A CR at the end is looked at again; if the buffer is full, reading starts
\* over at its beginning.
ParseCut ==
  /\ pc = "parse" /\ Marks # {} /\ CutAtCR
  /\ checked_index' = Mark
  /\ read_index' = IF read_index = BUFFER_SIZE THEN 0 ELSE read_index
  /\ wrapped' = (wrapped \/ read_index = BUFFER_SIZE)
  /\ pc' = "recv"
  /\ UNCHANGED <<buffer, start_line, checkstate, answer, wire, received>>

-----------------------------------------------------------------------------
(* The loop of main around recv.                                           *)

mutRoomForZero == IF read_index < BUFFER_SIZE THEN BUFFER_SIZE - read_index - 1 ELSE 0
mutRoomPast == BUFFER_SIZE - read_index + 1
Room == BUFFER_SIZE - read_index

Recv(n) ==
  /\ pc = "recv" /\ n <= Room
  /\ buffer' = [i \in Index |-> IF i \in read_index..(read_index + n - 1)
                                THEN wire[i - read_index + 1] ELSE buffer[i]]
  /\ read_index' = read_index + n
  /\ received' = received \o SubSeq(wire, 1, n)
  /\ wire' = From(wire, n + 1)
  /\ pc' = "parse"
  /\ UNCHANGED <<checked_index, start_line, checkstate, answer, wrapped>>

\* recv returns 0: the client has closed, or there is no room to read into.
RecvNothing ==
  /\ pc = "recv"
  /\ wire = <<>> \/ Room = 0
  /\ pc' = "closed"
  /\ UNCHANGED <<buffer, read_index, checked_index, start_line, checkstate,
                 answer, wire, received, wrapped>>

RecvFails ==
  /\ pc = "recv"
  /\ pc' = "failed"
  /\ UNCHANGED <<buffer, read_index, checked_index, start_line, checkstate,
                 answer, wire, received, wrapped>>

Server == \/ ParseLine \/ ParseBad \/ ParseOpen \/ ParseCut
          \/ (\E n \in 1..Len(wire) : Recv(n)) \/ RecvNothing
Next == Server \/ RecvFails
Spec == Init /\ [][Next]_vars
FairSpec == Spec /\ WF_vars(Server)

-----------------------------------------------------------------------------
(* What a request is, stated on the bytes alone.                           *)

BlankRun(s) == s # <<>> /\ \A i \in DOMAIN s : s[i] = Blank
Address(s) ==
  /\ \A i \in DOMAIN s : s[i] # Blank
  /\ \/ Len(s) > 0 /\ s[1] = Slash
     \/ Len(s) > 1 /\ s[1] = Http /\ {s[i] : i \in 2..Len(s)} \cap HasSlash # {}

\* "GET", an address and "HTTP/1.1", with blanks between them.
RequestLine(s) ==
  \E b \in 2..Len(s), u \in 2..Len(s), v \in 2..Len(s) :
    /\ b < u /\ u < v /\ v = Len(s)
    /\ SubSeq(s, 1, b - 1) = <<Get>>
    /\ \E a \in b..(u - 1) : BlankRun(SubSeq(s, b, a)) /\ Address(SubSeq(s, a + 1, u - 1))
    /\ BlankRun(SubSeq(s, u, v - 1)) /\ s[v] = Version

\* Where a byte of text shows that the request is bad, or complete.
Breaks(s) == {i \in 1..(Len(s) - 1) : s[i] = CR /\ s[i + 1] = LF}
Strays(s) == {i \in 1..(Len(s) - 1) : s[i] = CR /\ s[i + 1] # LF}
               \cup {i \in DOMAIN s : s[i] = LF /\ (i = 1 \/ s[i - 1] # CR)}
BadFrom(s) ==
  Strays(s) \cup {i \in Breaks(s) : /\ \A j \in Breaks(s) : i <= j
                                    /\ ~RequestLine(SubSeq(s, 1, i - 1))}
DoneAt(s) == {i \in Breaks(s) : i - 2 \in Breaks(s)}

Verdict(s) ==
  IF BadFrom(s) = {} /\ DoneAt(s) = {} THEN "none"
  ELSE IF \E i \in BadFrom(s) : \A j \in DoneAt(s) : i < j THEN "wrong"
  ELSE "correct"

-----------------------------------------------------------------------------
TypeOK ==
  /\ pc \in {"recv", "parse", "closed", "failed"}
  /\ buffer \in [Index -> Bytes]
  /\ read_index \in 0..BUFFER_SIZE
  /\ start_line \in 0..checked_index /\ checked_index \in 0..BUFFER_SIZE
  /\ checkstate \in {"requestline", "header"}
  /\ answer \in {"none", "correct", "wrong"}
  /\ wrapped \in BOOLEAN

\* The answer does not depend on the pieces the request comes in: as soon as
\* the bytes received decide it, it is given, and until then none is, whatever
\* recv returned each time.  (Once parse_line has set read_index back, the
\* bytes before are gone and nothing is claimed.)
AnswerIsVerdict == pc # "parse" /\ ~wrapped => answer = Verdict(received)

\* A request that fits into the buffer is answered, unless reading fails.
Fits(s) == Verdict(IF Len(s) <= BUFFER_SIZE THEN s ELSE SubSeq(s, 1, BUFFER_SIZE)) # "none"
FittingStarts     == pc = "recv" /\ received = <<>> /\ Fits(wire)
Answered          == answer # "none" \/ pc = "failed"
FittingIsAnswered == FittingStarts ~> Answered
=============================================================================
