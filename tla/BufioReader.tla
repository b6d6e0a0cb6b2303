----------------------------- MODULE BufioReader -----------------------------
(***************************************************************************)
(* bufio.Reader: a buffer between an io.Reader and one caller, who reads   *)
(* bytes, runes, lines and slices, peeks, discards, and may put back what  *)
(* it read last.                                                           *)
(*                                                                         *)
(* A call is one action, repeated for each turn of its loop around fill:   *)
(* what the underlying reader returns is new each time.                    *)
(***************************************************************************)
EXTENDS ByteStream

CONSTANTS
    Size,           \* len(b.buf)
    MaxBytes,       \* how long the input is; a bound
    Inputs          \* the inputs: what their bytes are

\* What the constants have to be.
ReaderAssumption ==
    /\ Size \in Nat /\ Size > 1
    /\ MaxBytes \in Nat /\ Inputs \subseteq [1..MaxBytes -> Kinds]

VARIABLES
    kind,           \* what each byte of the input is; never changes
    given,          \* how many bytes the underlying reader has returned
    taken,          \* how many the caller has consumed and not put back
    buf, r, w, err, lastByte, lastRuneSize,     \* the struct's fields
    call,           \* the call in progress, if any, with its count
    frags,          \* the bytes it has collected in earlier turns
    ret,            \* what the last call returned
    stray           \* whether something was put back that was not the last the
                    \* caller had taken (a history variable)

vars == <<kind, given, taken, buf, r, w, err, lastByte, lastRuneSize, call, frags, ret,
          stray>>
unread == <<lastByte, lastRuneSize>>

None   == "none"
Errors == {"EOF", "other"}      \* other: also io.ErrNoProgress
Idle   == [op |-> None, n |-> 0]
Places == 0..(Size - 1)

TypeOK ==
    /\ kind \in Inputs
    /\ given \in 0..MaxBytes /\ taken \in 0..MaxBytes
    /\ buf \in [Places -> 0..MaxBytes]
    /\ r \in 0..Size /\ w \in r..Size
    /\ err \in Errors \union {None}
    /\ lastByte \in (1..MaxBytes) \union {-1} /\ lastRuneSize \in {-1, 1, 2}
    /\ stray \in BOOLEAN

Init ==
    /\ kind \in Inputs
    /\ given = 0 /\ taken = 0
    /\ buf = [i \in Places |-> 0] /\ r = 0 /\ w = 0
    /\ err = None /\ lastByte = -1 /\ lastRuneSize = -1
    /\ call = Idle /\ frags = <<>> /\ stray = FALSE
    /\ ret = [op |-> None, data |-> <<>>, err |-> None, prefix |-> FALSE]

Buffered == w - r
Window   == Slice(buf, r, w)

-----------------------------------------------------------------------------
(* Parts of the calls.                                                     *)

\* A call begins, or goes on with its next turn.
Turn(op, n) == call \in {Idle, [op |-> op, n |-> n]}

Again(op, n) == call' = [op |-> op, n |-> n]

Returns(op, data, e) ==
    /\ call' = Idle /\ frags' = <<>>
    /\ ret' = [op |-> op, data |-> data, err |-> e, prefix |-> FALSE]

\* A Read of the underlying reader: n bytes of at most room, and an error.
Underlying(room, n, e) ==
    /\ n \in 0..room /\ e \in Errors \union {None}
    /\ given + n <= MaxBytes
    /\ given' = given + n

\* Mutant of fill: the window is not slid to the front.
fillNoSlide ==
    \E n \in 0..Size, e \in Errors \union {None} :
        /\ Underlying(Size - Buffered, n, e)
        /\ n > 0 \/ e # None
        /\ buf' = Copy(buf, Buffered, Bytes(given, n))
        /\ r' = 0 /\ w' = Buffered + n
        /\ err' = IF e = None THEN err ELSE e

\* fill goes on until it has a byte or an error, io.ErrNoProgress at last.
fill ==
    \E n \in 0..Size, e \in Errors \union {None} :
        /\ Underlying(Size - Buffered, n, e)
        /\ n > 0 \/ e # None
        /\ buf' = Copy(Copy(buf, 0, Window), Buffered, Bytes(given, n))
        /\ r' = 0 /\ w' = Buffered + n
        /\ err' = IF e = None THEN err ELSE e

\* The caller gets the first n bytes of the window.
Take(n) == r' = r + n /\ taken' = taken + n

Remember(bytes, size) ==
    IF bytes = <<>> THEN UNCHANGED unread
    ELSE lastByte' = bytes[Len(bytes)] /\ lastRuneSize' = size

Forget == lastByte' = -1 /\ lastRuneSize' = -1

-----------------------------------------------------------------------------
(* The calls.                                                              *)

Peek(n) ==
    /\ Turn("Peek", n)
    /\ Forget
    /\ UNCHANGED <<kind, taken>>
    /\ IF Buffered < n /\ Buffered < Size /\ err = None
       THEN fill /\ Again("Peek", n) /\ UNCHANGED <<frags, ret>>
       ELSE LET short == n <= Size /\ Buffered < n IN
            /\ Returns("Peek", <<>>,
                   IF n > Size \/ (short /\ err = None) THEN "other"
                   ELSE IF short THEN err ELSE None)
            /\ err' = IF short THEN None ELSE err
            /\ UNCHANGED <<given, buf, r, w>>

\* Discard calls fill with an error pending, too, and leaves alone what an
\* UnreadByte would put back.  n is what remains.
Discard(n) ==
    /\ UNCHANGED <<kind, unread>>
    /\ \/ /\ Turn("Discard", n) /\ Buffered = 0
          /\ fill /\ Again("DiscardFilled", n)
          /\ UNCHANGED <<taken, frags, ret>>
       \/ LET skip == IF Buffered > n THEN n ELSE Buffered IN
          /\ \/ Turn("Discard", n) /\ Buffered > 0
             \/ call = [op |-> "DiscardFilled", n |-> n]
          /\ Take(skip)
          /\ UNCHANGED <<given, buf, w>>
          /\ \/ skip = n /\ Returns("Discard", <<>>, None) /\ UNCHANGED err
             \/ skip < n /\ err # None /\ Returns("Discard", <<>>, err) /\ err' = None
             \/ skip < n /\ err = None /\ Again("Discard", n - skip)
                /\ UNCHANGED <<err, frags, ret>>

\* Read(p) with len(p) = n.  It reads the underlying reader at most once: into
\* p when p is no shorter than the buffer, otherwise into the buffer.
ReadBuffered(n) ==
    LET m == IF Buffered > n THEN n ELSE Buffered
        data == SubSeq(Window, 1, m)
    IN  /\ n > 0 /\ Buffered > 0
        /\ Take(m) /\ Remember(data, -1) /\ Returns("Read", data, None)
        /\ UNCHANGED <<given, buf, w, err>>

ReadNothing(n) ==
    /\ \/ n > 0 /\ Buffered = 0 /\ err # None
       \/ n = 0
    /\ LET e == IF Buffered > 0 THEN None ELSE err IN
       Returns("Read", <<>>, e) /\ err' = IF e = None THEN err ELSE None
    /\ UNCHANGED <<given, taken, buf, r, w, unread>>

\* Mutant of ReadDirectly: the last byte is not remembered.
ReadDirectlyForgetful(n) ==
    /\ n >= Size /\ Buffered = 0 /\ err = None
    /\ \E m \in 0..n, e \in Errors \union {None} :
          /\ Underlying(n, m, e)
          /\ taken' = taken + m
          /\ Returns("Read", Bytes(given, m), e)
    /\ UNCHANGED <<buf, r, w, err, unread>>

ReadDirectly(n) ==
    /\ n >= Size /\ Buffered = 0 /\ err = None
    /\ \E m \in 0..n, e \in Errors \union {None} :
          /\ Underlying(n, m, e)
          /\ taken' = taken + m
          /\ Remember(Bytes(given, m), -1) /\ Returns("Read", Bytes(given, m), e)
    /\ UNCHANGED <<buf, r, w, err>>

\* A short p is filled from the buffer after one Read into all of it: the
\* error of that Read stays for a later call unless it came with no byte.
ReadOnce(n) ==
    /\ n > 0 /\ n < Size /\ Buffered = 0 /\ err = None
    /\ \E m \in 0..Size, e \in Errors \union {None} :
          /\ Underlying(Size, m, e)
          /\ IF m = 0
             THEN /\ Returns("Read", <<>>, e)
                  /\ r' = 0 /\ w' = 0 /\ UNCHANGED <<taken, buf, err, unread>>
             ELSE LET k == IF m > n THEN n ELSE m IN
                  /\ buf' = Copy(buf, 0, Bytes(given, m))
                  /\ r' = k /\ w' = m /\ err' = e /\ taken' = taken + k
                  /\ Remember(Slice(buf', 0, k), -1)
                  /\ Returns("Read", Slice(buf', 0, k), None)

Read(n) ==
    /\ call = Idle
    /\ ReadBuffered(n) \/ ReadNothing(n) \/ ReadDirectly(n) \/ ReadOnce(n)
    /\ UNCHANGED kind

ReadByte ==
    /\ Turn("ReadByte", 1)
    /\ lastRuneSize' = -1
    /\ UNCHANGED kind
    /\ \/ /\ Buffered > 0
          /\ Take(1) /\ lastByte' = buf[r] /\ Returns("ReadByte", <<buf[r]>>, None)
          /\ UNCHANGED <<given, buf, w, err>>
       \/ /\ Buffered = 0 /\ err # None
          /\ Returns("ReadByte", <<>>, err) /\ err' = None
          /\ UNCHANGED <<given, taken, buf, r, w, lastByte>>
       \/ /\ Buffered = 0 /\ err = None
          /\ fill /\ Again("ReadByte", 1) /\ UNCHANGED <<taken, lastByte, frags, ret>>

ReadRune ==
    /\ Turn("ReadRune", 1)
    /\ UNCHANGED kind
    /\ IF ~FullRune(kind, Window) /\ err = None /\ Buffered < Size
       THEN fill /\ Again("ReadRune", 1) /\ UNCHANGED <<taken, unread, frags, ret>>
       ELSE IF Buffered = 0
       THEN /\ lastRuneSize' = -1
            /\ Returns("ReadRune", <<>>, err) /\ err' = None
            /\ UNCHANGED <<given, taken, buf, r, w, lastByte>>
       ELSE LET size == RuneSize(kind, Window)
                data == SubSeq(Window, 1, size)
            IN  /\ Take(size) /\ Remember(data, size)
                /\ Returns("ReadRune", data, None)
                /\ UNCHANGED <<given, buf, w, err>>

\* What a turn of ReadSlice finds in the buffer: the bytes up to the line
\* feed, or all of them with the error; nothing, when it must fill.
LineEnd == IndexByte(kind, Window, "nl")
SliceReady == LineEnd > 0 \/ err # None \/ Buffered = Size
SliceFound == IF LineEnd > 0 THEN SubSeq(Window, 1, LineEnd) ELSE Window
SliceError == IF LineEnd > 0 THEN None ELSE IF err # None THEN err ELSE "BufferFull"

\* The part of ReadSlice after its loop.  keep is what the caller of
\* ReadSlice puts back itself.
SliceTaken(keep) ==
    /\ Take(Len(SliceFound) - keep) /\ Remember(SliceFound, -1)
    /\ err' = IF SliceError \in Errors THEN None ELSE err
    /\ UNCHANGED <<given, buf, w>>

SliceFills(op) == ~SliceReady /\ fill /\ Again(op, 1) /\ UNCHANGED <<taken, unread, frags, ret>>

ReadSlice ==
    /\ Turn("ReadSlice", 1)
    /\ UNCHANGED kind
    /\ \/ SliceFills("ReadSlice")
       \/ SliceReady /\ SliceTaken(0) /\ Returns("ReadSlice", SliceFound, SliceError)

\* The line without its end.
Trim(line) ==
    LET n == Len(line)
        drop == IF kind[line[n]] # "nl" THEN 0
                ELSE IF n > 1 /\ kind[line[n - 1]] = "cr" THEN 2 ELSE 1
    IN  SubSeq(line, 1, n - drop)

\* A buffer full of a longer line is returned as a prefix, but for a carriage
\* return at its end, which may be half of a line end and is put back.
ReadLinePrefix ==
    LET n == Len(SliceFound)
        back == IF kind[SliceFound[n]] = "cr" THEN 1 ELSE 0
    IN  /\ SliceReady /\ SliceError = "BufferFull"
        /\ SliceTaken(back)
        /\ call' = Idle /\ frags' = <<>>
        /\ ret' = [op |-> "ReadLine", data |-> SubSeq(SliceFound, 1, n - back),
                   err |-> None, prefix |-> TRUE]

ReadLine ==
    /\ Turn("ReadLine", 1)
    /\ UNCHANGED kind
    /\ \/ SliceFills("ReadLine")
       \/ ReadLinePrefix
       \/ /\ SliceReady /\ SliceError # "BufferFull"
          /\ SliceTaken(0)
          /\ IF SliceFound = <<>> THEN Returns("ReadLine", <<>>, SliceError)
                                  ELSE Returns("ReadLine", Trim(SliceFound), None)

\* ReadBytes and ReadString gather full buffers (collectFragments).
ReadBytes ==
    /\ Turn("ReadBytes", 1)
    /\ UNCHANGED kind
    /\ \/ SliceFills("ReadBytes")
       \/ /\ SliceReady /\ SliceTaken(0)
          /\ IF SliceError = "BufferFull"
             THEN frags' = frags \o SliceFound /\ Again("ReadBytes", 1) /\ UNCHANGED ret
             ELSE Returns("ReadBytes", frags \o SliceFound, SliceError)

\* The Write of writeBuf writes all of the window or returns an error.
writeBuf(m) == m <= Buffered /\ Take(m) /\ UNCHANGED <<given, buf, w, err>>
Written(m)  == frags \o SubSeq(Window, 1, m)

\* The underlying reader may know WriteTo, or the writer ReadFrom: the rest
\* of the input then passes by the buffer.
WriteTo ==
    /\ UNCHANGED <<kind, unread>>
    /\ \/ /\ Turn("WriteTo", 1)
          /\ \/ \E m \in 0..Buffered : writeBuf(m) /\ Returns("WriteTo", Written(m), "other")
             \/ /\ writeBuf(Buffered)
                /\ frags' = Written(Buffered) /\ Again("WriteToFill", 1) /\ UNCHANGED ret
             \/ \E n \in 0..(MaxBytes - given), e \in {"other", None} :
                  /\ r' = w /\ given' = given + n /\ taken' = taken + Buffered + n
                  /\ Returns("WriteTo", Written(Buffered) \o Bytes(given, n), e)
                  /\ UNCHANGED <<buf, w, err>>
       \/ /\ call.op = "WriteToFill"
          /\ fill /\ Again("WriteToLoop", 1) /\ UNCHANGED <<taken, frags, ret>>
       \/ /\ call.op = "WriteToLoop" /\ Buffered > 0
          /\ \/ \E m \in 0..Buffered : writeBuf(m) /\ Returns("WriteTo", Written(m), "other")
             \/ /\ writeBuf(Buffered)
                /\ frags' = Written(Buffered) /\ Again("WriteToFill", 1) /\ UNCHANGED ret
       \/ /\ call.op = "WriteToLoop" /\ Buffered = 0
          /\ Returns("WriteTo", frags, IF err = "EOF" THEN None ELSE err) /\ err' = None
          /\ UNCHANGED <<given, taken, buf, r, w>>

\* What an Unread puts back is what was remembered last.  Discard, WriteTo and
\* the carriage return that ReadLine puts back leave it behind although it no
\* longer is the last byte the caller has taken; nothing tells the caller.
Stale == lastByte # taken

\* The byte is put back where the buffer has room for it in front: an empty
\* buffer always has.
UnreadByteFails == lastByte < 0 \/ (r = 0 /\ w > 0)

UnreadByte ==
    /\ call = Idle
    /\ UNCHANGED <<kind, given, err>>
    /\ IF UnreadByteFails
       THEN /\ Returns("UnreadByte", <<>>, "other")
            /\ UNCHANGED <<taken, buf, r, w, unread, stray>>
       ELSE /\ LET at == IF r > 0 THEN r - 1 ELSE 0 IN
               r' = at /\ buf' = [buf EXCEPT ![at] = lastByte]
            /\ w' = IF r > 0 THEN w ELSE 1
            /\ taken' = taken - 1 /\ stray' = (stray \/ Stale)
            /\ Forget /\ Returns("UnreadByte", <<>>, None)

UnreadRuneFails == lastRuneSize < 0 \/ r < lastRuneSize

UnreadRune ==
    /\ call = Idle
    /\ UNCHANGED <<kind, given, buf, w, err>>
    /\ IF UnreadRuneFails
       THEN Returns("UnreadRune", <<>>, "other") /\ UNCHANGED <<taken, r, unread, stray>>
       ELSE /\ r' = r - lastRuneSize /\ taken' = taken - lastRuneSize
            /\ stray' = (stray \/ Stale)
            /\ Forget /\ Returns("UnreadRune", <<>>, None)

\* Another reader, and nothing left of the old one: what the array still
\* holds is out of reach.
Reset ==
    /\ call = Idle
    /\ kind' \in Inputs
    /\ given' = 0 /\ taken' = 0
    /\ buf' = [i \in Places |-> 0] /\ r' = 0 /\ w' = 0
    /\ err' = None /\ Forget /\ stray' = FALSE
    /\ Returns(None, <<>>, None)

\* The calls that go forward.
Forward ==
    \/ \E n \in 1..(Size + 1) : Peek(n) \/ Discard(n)
    \/ \E n \in 0..(Size + 1) : Read(n)
    \/ ReadByte \/ ReadRune \/ ReadSlice \/ ReadLine \/ ReadBytes \/ WriteTo

Next == (Forward /\ UNCHANGED stray) \/ UnreadByte \/ UnreadRune \/ Reset

Spec == Init /\ [][Next]_vars

-----------------------------------------------------------------------------
(* Properties.                                                             *)

Last(data) == data[Len(data)]

\* No byte of the input is lost, repeated or overwritten, however the calls
\* follow each other, until something is put back that was not taken last:
\* the window is what the underlying reader gave and the
\* caller did not take, and what a call returns or has gathered is the bytes
\* in their order up to the last one taken.  The carriage return that
\* ReadLine puts back and the bytes an Unread puts back are read again.
Stream == ~stray =>
    /\ given - taken = Buffered /\ Holds(buf, r, w, taken)
    /\ \A data \in {ret.data, frags} : \A i \in 1..(Len(data) - 1) : data[i + 1] = data[i] + 1
    /\ frags # <<>> => Last(frags) = taken
    /\ ret.data # <<>> /\ ret.op # "ReadLine" /\ call = Idle => Last(ret.data) = taken

\* The call before has read something: bytes, a line, or a prefix of one
\* behind which no carriage return was put back.
HasRead ==
    \/ ret.op \in {"Read", "ReadByte", "ReadRune", "ReadSlice", "ReadBytes"} /\ ret.data # <<>>
    \/ ret.op = "ReadLine" /\ ret.err = None /\ (ret.prefix => Buffered = 0)

\* The comments of UnreadByte, UnreadRune and ReadLine: after a call that has
\* read something exactly the last byte taken can be put back, and after
\* ReadRune exactly the bytes of its rune.
CanUnread ==
    ~stray /\ call = Idle =>
        /\ HasRead => ~UnreadByteFails /\ lastByte = taken
        /\ ret.op = "ReadRune" /\ ret.data # <<>> =>
               ~UnreadRuneFails /\ Slice(buf, r - lastRuneSize, r) = ret.data

\* The comments of ReadSlice and ReadBytes: an error is returned if and only
\* if what is returned does not end in the delimiter.  ReadLine returns no
\* half of a line end: the line is what lies before the line feed taken, and a
\* carriage return in front of a line feed never ends a prefix.  Of what
\* follows something put back that was not taken last nothing is said.
Lines == ~stray =>
    /\ ret.op \in {"ReadSlice", "ReadBytes"} =>
          (ret.err = None <=> ret.data # <<>> /\ kind[Last(ret.data)] = "nl")
    /\ ret.op = "ReadLine" /\ ret.data # <<>> /\ call = Idle =>
          LET last == Last(ret.data) IN
          IF ret.prefix
          THEN last = taken /\ (kind[last] = "cr" /\ last < MaxBytes => kind[last + 1] # "nl")
          ELSE \/ last = taken /\ kind[last] # "nl"
               \/ last = taken - 1 /\ kind[taken] = "nl" /\ kind[last] # "cr"
               \/ last = taken - 2 /\ kind[taken] = "nl" /\ kind[taken - 1] = "cr"

\* The comment of ReadLine: "Calling UnreadByte after ReadLine will always
\* unread the last byte read": what is read next starts with that byte, or
\* with one already put back, and is the input from there on.
UnreadByteStep ==
    ~stray /\ ret.op = "ReadLine" /\ ret'.op = "UnreadByte" /\ ret'.err = None =>
        buf'[r'] \in {taken, taken + 1} /\ Holds(buf', r', w', buf'[r'] - 1)
=============================================================================
