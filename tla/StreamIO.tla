------------------------------ MODULE StreamIO ------------------------------
(***************************************************************************)
(* The reading and writing helpers: readn.cpp, writen.cpp, readline.cpp    *)
(* and my_read with its cache of readline_bufcache.cpp.  One of them runs  *)
(* on a descriptor that gives or takes any part of what is asked, is       *)
(* interrupted by signals, or fails.  A step is one system call.           *)
(***************************************************************************)
EXTENDS SequencesExt, FiniteSetsExt, Integers

CONSTANTS
    Char, Newline,  \* what a stream is made of
    Size,           \* the n of readn and writen and the maxlen of readline
    MAXLINE,        \* the size of read_buf
    Wide,           \* a size_t holds 0 .. Wide - 1
    MaxBad          \* calls that are interrupted or fail

\* What is assumed of them: a line has room for a character, and a size_t is much wider
\* than what is read or written and what the errors add to it.
ConstantsOK ==
    /\ Size \in Nat /\ Size > 1 /\ MAXLINE \in Nat \ {0} /\ MaxBad \in Nat
    /\ Wide \in Nat /\ Wide \div 2 > Size + MaxBad /\ MAXLINE <= Wide

VARIABLES
    fn,     \* the helper that runs
    io,     \* "loop", "done", or "undefined" once it strays from its buffer
    buf,    \* what the caller gets, or what writen is given
    left,   \* nleft, readline's n - 1, or read_cnt
    ptr,    \* ptr - vptr, or read_ptr - read_buf
    cache,  \* read_buf
    fd,     \* what the descriptor has yet to give, or has taken
    input,  \* history: what it gives in all, or what is to be written
    bad,    \* history: the errno of the calls that gave -1, and 0 of a write
    ret     \* what the helper returned

ioVars == <<fn, io, buf, left, ptr, cache, fd, input, bad, ret>>

Inputs(k) == UNION {[1 .. j -> Char] : j \in 0 .. k}

TypeOK ==
    /\ fn \in {"readn", "writen", "readline", "my_read"}
    /\ io \in {"loop", "done", "undefined"}
    /\ {buf, cache, fd, input} \subseteq Seq(Char)
    /\ left \in -1 .. Wide - 1 /\ ptr \in -MaxBad .. Size + MAXLINE
    /\ bad \in Seq({"EINTR", "EIO", "zero"}) /\ Len(bad) <= MaxBad
    /\ ret \in -MaxBad .. Size

Init ==
    /\ fn \in {"readn", "writen", "readline", "my_read"}
    /\ input \in IF fn = "writen" THEN [1 .. Size -> Char] ELSE Inputs(Size + 1)
    /\ io = "loop" /\ ptr = 0 /\ cache = <<>> /\ bad = <<>> /\ ret = 0
    /\ buf = IF fn = "writen" THEN input ELSE <<>>
    /\ fd = IF fn = "writen" THEN <<>> ELSE input
    /\ left = IF fn \in {"readn", "writen"} THEN Size ELSE 0

\* The kernel: a call that may move up to k, of m that there are, moves some; it
\* moves 0 at the end of a stream and -1 is an error.
Moves(k, m) == IF m = 0 THEN {0} ELSE 1 .. Min({k, m})
Bad(errno)  == Len(bad) < MaxBad /\ bad' = Append(bad, errno)
Errors      == {"EINTR", "EIO"}

Return(r) == io' = "done" /\ ret' = r
GoOn      == io' = "loop" /\ ret' = ret

\* Arithmetic on a size_t, and its value as a ssize_t.
Minus(a, b) == (a - b) % Wide
Signed(a)   == IF a < Wide \div 2 THEN a ELSE a - Wide

-----------------------------------------------------------------------------
(* readn and writen.  Their result of the call is a size_t, which is never  *)
(* less than 0: an error passes the tests and moves nleft and ptr by it.    *)

Advance(r) ==
    /\ left' = Minus(left, r % Wide)
    /\ ptr' = ptr + r
    /\ IF left' = 0 THEN Return(Size) ELSE GoOn

readn ==
    /\ fn = "readn" /\ io = "loop"
    /\ \E r \in Moves(left, Len(fd)) :
          IF r = 0
          THEN Return(Signed(Minus(Size, left))) /\ UNCHANGED <<buf, left, ptr, fd>>
          ELSE /\ buf' = SubSeq(buf, 1, ptr) \o SubSeq(fd, 1, r)
               /\ fd' = SubSeq(fd, r + 1, Len(fd))
               /\ IF ptr < 0 THEN io' = "undefined" /\ UNCHANGED <<left, ptr, ret>>
                             ELSE Advance(r)
    /\ UNCHANGED <<fn, cache, input, bad>>

writen ==
    /\ fn = "writen" /\ io = "loop"
    /\ IF ptr < 0
       THEN io' = "undefined" /\ UNCHANGED <<left, ptr, fd, ret>>
       ELSE \E r \in Moves(left, left) :
               fd' = fd \o SubSeq(buf, ptr + 1, ptr + r) /\ Advance(r)
    /\ UNCHANGED <<fn, buf, cache, input, bad>>

\* write takes nothing: not less than 0, so an error whatever errno is.
WriteZero ==
    /\ fn = "writen" /\ io = "loop" /\ Bad("zero")
    /\ Return(-1)
    /\ UNCHANGED <<fn, buf, left, ptr, cache, fd, input>>

TransferFails ==
    /\ fn \in {"readn", "writen"} /\ io = "loop" /\ \E e \in Errors : Bad(e)
    /\ Advance(-1)
    /\ UNCHANGED <<fn, buf, cache, fd, input>>

-----------------------------------------------------------------------------
(* readline: one character at a time.                                       *)

\* The loop ends after a newline and when maxlen - 1 characters are stored; in
\* both cases n is returned, which in the second is one more than the length.
Stored(c) ==
    /\ buf' = Append(buf, c)
    /\ left' = IF c = Newline THEN left ELSE left + 1
    /\ IF c = Newline \/ left + 2 = Size THEN Return(left' + 1) ELSE GoOn

readline ==
    /\ fn = "readline" /\ io = "loop"
    /\ IF fd = <<>> THEN Return(left) /\ UNCHANGED <<buf, left, fd>>
                    ELSE Stored(Head(fd)) /\ fd' = Tail(fd)
    /\ UNCHANGED <<fn, ptr, cache, input, bad>>

LineFails ==
    /\ fn = "readline" /\ io = "loop"
    /\ \/ Bad("EINTR") /\ GoOn
       \/ Bad("EIO") /\ Return(-1)
    /\ UNCHANGED <<fn, buf, left, ptr, cache, fd, input>>

-----------------------------------------------------------------------------
(* my_read, called again and again until it returns 0 or an error.          *)

mutEarly == left <= 1
Empty == left <= 0

FromCache ==
    /\ fn = "my_read" /\ io = "loop" /\ ~ Empty
    /\ buf' = Append(buf, cache[ptr + 1])
    /\ left' = left - 1 /\ ptr' = ptr + 1
    /\ UNCHANGED <<fn, io, cache, fd, input, bad, ret>>

\* The first character of what was read is handed out at once.
Fill ==
    /\ fn = "my_read" /\ io = "loop" /\ Empty
    /\ \E r \in Moves(MAXLINE, Len(fd)) :
          IF r = 0
          THEN Return(0) /\ left' = 0 /\ UNCHANGED <<buf, ptr, cache, fd>>
          ELSE /\ cache' = SubSeq(fd, 1, r) /\ fd' = SubSeq(fd, r + 1, Len(fd))
               /\ left' = r - 1 /\ ptr' = 1 /\ buf' = Append(buf, fd[1])
               /\ GoOn
    /\ UNCHANGED <<fn, input, bad>>

FillFails ==
    /\ fn = "my_read" /\ io = "loop" /\ Empty
    /\ left' = -1
    /\ \/ Bad("EINTR") /\ GoOn
       \/ Bad("EIO") /\ Return(-1)
    /\ UNCHANGED <<fn, buf, ptr, cache, fd, input>>

\* What a caller may look at.  After an error it is -1 and an old pointer.
readlinebuf == IF left > 0 THEN SubSeq(cache, ptr + 1, ptr + left) ELSE <<>>

\* After an error the caller may try again.
Retry ==
    /\ fn = "my_read" /\ io = "done" /\ ret = -1
    /\ io' = "loop"
    /\ UNCHANGED <<fn, buf, left, ptr, cache, fd, input, bad, ret>>

-----------------------------------------------------------------------------
Helper == readn \/ writen \/ readline \/ FromCache \/ Fill
Next   == Helper \/ WriteZero \/ TransferFails \/ LineFails \/ FillFails \/ Retry

\* The result of a whole transfer.
Whole ==
    /\ fn = "readn"  => /\ ret = Min({Size, Len(input)})
                        /\ buf = SubSeq(input, 1, ret) /\ buf \o fd = input
    /\ fn = "writen" => ret = Size /\ fd = input

\* readn and writen of readn.cpp:18 and writen.cpp:19: however the transfer is cut
\* into parts, all of it arrives, once and in order, if no call gives -1 or 0.
PartsMakeWhole == fn \in {"readn", "writen"} /\ io = "done" /\ bad = <<>> => Whole

\* readline.cpp:17: the line that is returned is the shortest that ends in a
\* newline, fills the buffer or ends the stream, nothing behind it is consumed,
\* also when signals interrupt; and the result is its length, but for a full
\* buffer, where it is one more.
LineIsExact ==
    fn = "readline" /\ io = "done" /\ ret # -1 =>
      LET ends == {i \in 1 .. Len(input) : input[i] = Newline}
          len  == Min(ends \cup {Len(input), Size - 1})
          full == len = Size - 1 /\ len \notin ends
      IN /\ buf = SubSeq(input, 1, len) /\ fd = SubSeq(input, len + 1, Len(input))
         /\ ret = IF full THEN len + 1 ELSE len

\* readline_bufcache.cpp:18: what was handed out, what is in the cache and what is
\* still to come are the stream, over every refill, interruption and error.
CacheLosesNothing == fn = "my_read" => buf \o readlinebuf \o fd = input

Sound == TypeOK /\ PartsMakeWhole /\ LineIsExact /\ CacheLosesNothing

\* Every call returns: errors are not for ever.
Calling == io = "loop"
Returns == Calling ~> ~ Calling

\* readn.cpp:2 says of readn that it is not interrupted by signals and returns only
\* when what was asked for has been read.
InterruptionsAreHidden ==
    fn = "readn" /\ io # "loop" /\ ToSet(bad) \subseteq {"EINTR"} => io = "done" /\ Whole
=============================================================================
