----------------------------- MODULE BytesBuffer -----------------------------
(***************************************************************************)
(* bytes.Buffer: a growing buffer of bytes with one caller.  The array is  *)
(* reused, slid or replaced when it must grow; lastRead remembers whether  *)
(* the last call read something that may be put back.                      *)
(***************************************************************************)
EXTENDS ByteStream

CONSTANTS
    SmallBuffer,    \* smallBufferSize
    MinRead,        \* bytes.MinRead
    UTFMax,         \* utf8.UTFMax
    MaxCap,         \* the longest array there is memory for
    MaxBytes,       \* how long the input is; a bound
    Inputs          \* the inputs: what their bytes are

\* What the constants have to be.
BufferAssumption ==
    /\ SmallBuffer \in Nat /\ MinRead \in Nat \ {0} /\ UTFMax \in Nat \ {0}
    /\ MaxCap \in Nat /\ MaxBytes \in Nat /\ Inputs \subseteq [1..MaxBytes -> Kinds]

VARIABLES
    kind,           \* what each byte of the input is; never changes
    written,        \* how many bytes the buffer was given and did not truncate
    taken,          \* how many the caller has read and not put back
    buf, cap,       \* b.buf and its capacity; nil when that is 0
    off, lastRead,  \* the other fields of the struct
    ret             \* what the last call returned

vars == <<kind, written, taken, buf, cap, off, lastRead, ret>>

None      == "none"
opRead    == -1
opInvalid == 0

TypeOK ==
    /\ written \in 0..MaxBytes /\ taken \in 0..written
    /\ cap \in 0..MaxCap /\ Len(buf) <= cap
    /\ off \in 0..Len(buf) /\ lastRead \in {opRead, opInvalid, 1, 2}

\* NewBuffer takes an array of any capacity; its bytes are the first written.
Init ==
    /\ kind \in Inputs
    /\ cap \in 0..MaxCap /\ written \in 0..MaxBytes /\ written <= cap
    /\ buf = Bytes(0, written) /\ taken = 0
    /\ off = 0 /\ lastRead = opInvalid
    /\ ret = [op |-> None, data |-> <<>>, err |-> None]

Window == Slice(buf, off + 1, Len(buf) + 1)

Returns(op, data, e) == ret' = [op |-> op, data |-> data, err |-> e]

\* Reset, and the truncations that come to it.
Empty == buf' = <<>> /\ off' = 0 /\ lastRead' = opInvalid

\* What grow(n) makes of the array.  An empty buffer starts afresh; if there
\* is no room then, the contents slide to the front of an array twice as
\* large as they need, or move to a new one.
Grown(n) ==
    LET m     == Len(Window)
        reset == m = 0 /\ off # 0
        used  == IF reset THEN <<>> ELSE buf
    IN  IF n <= cap - Len(used)
        THEN [buf |-> used, off |-> IF reset THEN 0 ELSE off, cap |-> cap, reset |-> reset]
        ELSE [buf |-> Window, off |-> 0, reset |-> reset,
              cap |-> IF cap = 0 /\ n <= SmallBuffer THEN SmallBuffer
                      ELSE IF n <= (cap \div 2) - m THEN cap
                      ELSE 2 * cap + n]

\* tryGrowByReslice first, then grow.
Room(n) ==
    IF n <= cap - Len(buf) THEN [buf |-> buf, off |-> off, cap |-> cap, reset |-> FALSE]
                           ELSE Grown(n)

\* The array becomes room, with these bytes behind the contents.
Put(room, bytes) ==
    /\ room.cap <= MaxCap
    /\ buf' = room.buf \o bytes /\ off' = room.off /\ cap' = room.cap
    /\ written' = written + Len(bytes)

\* ErrTooLarge: the panic leaves the buffer to whoever recovers from it.
TooLarge(op, room) ==
    /\ room.cap > MaxCap
    /\ IF room.reset THEN buf' = <<>> /\ off' = 0 ELSE UNCHANGED <<buf, off>>
    /\ Returns(op, <<>>, "ErrTooLarge")
    /\ UNCHANGED <<cap, written>>

Given(n) == Bytes(written, n)

-----------------------------------------------------------------------------
(* The calls.                                                              *)

\* Write, WriteString, WriteByte: n bytes.  A rune of several bytes reserves
\* UTFMax and takes n.
WriteCall(op, reserve, n) ==
    /\ written + n <= MaxBytes
    /\ lastRead' = opInvalid
    /\ \/ Put(Room(reserve), Given(n)) /\ Returns(op, <<>>, None)
       \/ TooLarge(op, Room(reserve))
    /\ UNCHANGED <<kind, taken>>

Write(n)     == WriteCall("Write", n, n)
WriteRune(k) == WriteCall("WriteRune", UTFMax, k)

Grow(n) ==
    /\ lastRead' = IF Grown(n).reset THEN opInvalid ELSE lastRead
    /\ \/ Put(Grown(n), <<>>) /\ Returns("Grow", <<>>, None)
       \/ TooLarge("Grow", Grown(n))
    /\ UNCHANGED <<kind, taken>>

\* A turn of ReadFrom, which is what another call of it would do: the loop
\* ends with the reader's error, EOF for none.
ReadFrom ==
    /\ lastRead' = opInvalid
    /\ LET room == Grown(MinRead) IN
       \/ \E m \in 0..(room.cap - Len(room.buf)), e \in {None, "other"} :
             /\ written + m <= MaxBytes
             /\ Put(room, Given(m)) /\ Returns("ReadFrom", <<>>, e)
       \/ TooLarge("ReadFrom", room)
    /\ UNCHANGED <<kind, taken>>

\* The first n bytes of the contents go to the caller.
Take(op, n, last, e) ==
    /\ off' = off + n /\ taken' = taken + n
    /\ lastRead' = last
    /\ Returns(op, SubSeq(Window, 1, n), e)
    /\ UNCHANGED <<kind, written, buf, cap>>

\* A call that finds nothing to read resets the buffer.
AtEOF(op, e) ==
    /\ Window = <<>> /\ Empty /\ Returns(op, <<>>, e)
    /\ UNCHANGED <<kind, written, taken, cap>>

AtMost(n) == IF n > Len(Window) THEN Len(Window) ELSE n
ReadMark(n) == IF n > 0 THEN opRead ELSE opInvalid

Read(n) ==
    \/ AtEOF("Read", IF n = 0 THEN None ELSE "EOF")
    \/ Window # <<>> /\ Take("Read", AtMost(n), ReadMark(AtMost(n)), None)

\* Next, with the name of the call.
NextBytes(n) == Take("Next", AtMost(n), ReadMark(AtMost(n)), None)

ReadByte ==
    \/ AtEOF("ReadByte", "EOF")
    \/ Window # <<>> /\ Take("ReadByte", 1, opRead, None)

ReadRune ==
    \/ AtEOF("ReadRune", "EOF")
    \/ /\ Window # <<>>
       /\ LET size == RuneSize(kind, Window) IN Take("ReadRune", size, size, None)

\* ReadBytes and ReadString: up to the line feed, or all with io.EOF.
ReadBytes ==
    LET end == IndexByte(kind, Window, "nl") IN
    IF end = 0 THEN Take("ReadBytes", Len(Window), opRead, "EOF")
               ELSE Take("ReadBytes", end, opRead, None)

\* The writer takes m bytes; fewer than all is an error.
WriteTo ==
    \E m \in 0..Len(Window), e \in {None, "other"} :
        /\ taken' = taken + m
        /\ Returns("WriteTo", SubSeq(Window, 1, m),
                   IF m < Len(Window) THEN "other" ELSE e)
        /\ IF ret'.err = None THEN Empty
           ELSE lastRead' = opInvalid /\ off' = off + m /\ UNCHANGED buf
        /\ UNCHANGED <<kind, written, cap>>

\* Truncate(0) is Reset; past the contents it panics.
Truncate(n) ==
    /\ UNCHANGED <<kind, taken, cap>>
    /\ \/ n = 0 /\ Empty /\ written' = taken /\ Returns("Truncate", <<>>, None)
       \/ /\ n > 0 /\ lastRead' = opInvalid /\ UNCHANGED off
          /\ IF n > Len(Window)
             THEN Returns("Truncate", <<>>, "panic") /\ UNCHANGED <<buf, written>>
             ELSE /\ buf' = SubSeq(buf, 1, off + n) /\ written' = taken + n
                  /\ Returns("Truncate", <<>>, None)

\* n bytes are put back if they still are in front of the contents: a Grow
\* that has moved these leaves lastRead alone and nothing to go back to.
Unread(op, n) ==
    /\ UNCHANGED <<kind, written, buf, cap>>
    /\ lastRead' = opInvalid
    /\ LET back == IF off >= n THEN n ELSE 0 IN off' = off - back /\ taken' = taken - back
    /\ Returns(op, <<>>, None)

UnreadFails(op) ==
    /\ Returns(op, <<>>, "other")
    /\ UNCHANGED <<kind, written, taken, buf, cap, off, lastRead>>

UnreadByte == IF lastRead = opInvalid THEN UnreadFails("UnreadByte") ELSE Unread("UnreadByte", 1)
UnreadRune == IF lastRead <= opInvalid THEN UnreadFails("UnreadRune")
                                       ELSE Unread("UnreadRune", lastRead)

Next ==
    \/ \E n \in 0..MaxBytes : Write(n) \/ Grow(n) \/ Read(n) \/ NextBytes(n) \/ Truncate(n)
    \/ \E k \in 2..UTFMax : WriteRune(k)
    \/ ReadFrom \/ ReadByte \/ ReadRune \/ ReadBytes \/ WriteTo
    \/ UnreadByte \/ UnreadRune

Spec == Init /\ [][Next]_vars

-----------------------------------------------------------------------------
(* Properties.                                                             *)

\* However the buffer grows, slides, is truncated or fails to grow, its
\* contents are the bytes written and not read, and what a call returns is
\* the bytes up to the last one read; what is put back is read again.
Stream ==
    /\ Window = Bytes(taken, written - taken)
    /\ ret.data = Bytes(taken - Len(ret.data), Len(ret.data))

\* The comments of UnreadByte and UnreadRune: after a read that returned
\* bytes and no error exactly the last of them is put back, and exactly the
\* rune after ReadRune; nothing is after a write, a truncation, an UnreadByte
\* or a read that found nothing, and no rune after another call than ReadRune,
\* but for a Grow that follows it.  A ReadBytes that returned an error is left
\* out: the comment says UnreadByte fails after it, and it does not.
CanUnread ==
    /\ ret.op \in {"Read", "Next", "ReadByte", "ReadRune", "ReadBytes"} /\ ret.err = None =>
        IF ret.data = <<>> THEN lastRead = opInvalid
                           ELSE lastRead # opInvalid /\ off >= 1 /\ buf[off] = taken
    /\ ret.op = "ReadRune" /\ ret.data # <<>> =>
        lastRead \in 1..off /\ SubSeq(buf, off - lastRead + 1, off) = ret.data
    /\ ret.op \in {"Write", "WriteRune", "ReadFrom", "WriteTo", "Truncate", "UnreadByte"} =>
        lastRead = opInvalid
    /\ lastRead > opInvalid => ret.op \in {"ReadRune", "Grow"}
=============================================================================
