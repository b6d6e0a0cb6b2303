----------------------------- MODULE BufioWriter -----------------------------
(***************************************************************************)
(* bufio.Writer: a buffer between one caller and an io.Writer, which may   *)
(* write less than it is asked to, with an error or, against its contract, *)
(* without one.  A call is one action, repeated for each turn of its loop. *)
(***************************************************************************)
EXTENDS ByteStream

CONSTANTS
    MaxSize,        \* the buffers have 1, ..., MaxSize bytes
    UTFMax,         \* utf8.UTFMax
    MaxBytes        \* how many bytes the caller writes; a bound

\* What the constants have to be.
WriterAssumption == MaxSize \in Nat \ {0} /\ UTFMax \in Nat \ {0} /\ MaxBytes \in Nat

VARIABLES
    size,           \* len(b.buf)
    buf,            \* b.buf[0:b.n]
    err,            \* b.err
    accepted,       \* how many bytes the caller was told are written
    wire,           \* the bytes that have reached the underlying writer
    call,           \* the call in progress, with the bytes that remain
    ret             \* what the last call returned

vars == <<size, buf, err, accepted, wire, call, ret>>

None == "none"
Idle == [op |-> None, n |-> 0]

TypeOK ==
    /\ size \in 1..MaxSize
    /\ Len(buf) <= size
    /\ err \in {None, "short", "other"}

Init ==
    /\ size \in 1..MaxSize
    /\ buf = <<>> /\ err = None
    /\ accepted = 0 /\ wire = <<>>
    /\ call = Idle /\ ret = [op |-> None, err |-> None]

Available == size - Len(buf)

\* A call begins, within the bound, or goes on with its next turn.
Turn(op, n)  == (call = Idle /\ accepted + n <= MaxBytes) \/ call = [op |-> op, n |-> n]
Again(op, n) == call' = [op |-> op, n |-> n] /\ UNCHANGED ret
Returns(op, e) == call' = Idle /\ ret' = [op |-> op, err |-> e]

\* The next n bytes of the caller.
Given(n) == Bytes(accepted, n)
Accept(n) == accepted + n <= MaxBytes /\ accepted' = accepted + n

\* A Write of the underlying writer takes the first m of the bytes.
Underlying(bytes, m, e) ==
    /\ m \in 0..Len(bytes) /\ e \in {None, "other"}
    /\ wire' = wire \o SubSeq(bytes, 1, m)

\* Flush with these bytes in the buffer: those not written stay.
FlushOf(bytes) ==
    IF bytes = <<>> THEN buf' = bytes /\ UNCHANGED <<err, wire>>
    ELSE \E m \in 0..Len(bytes), e \in {None, "other"} :
            /\ Underlying(bytes, m, e)
            /\ err' = IF m < Len(bytes) /\ e = None THEN "short" ELSE e
            /\ buf' = SubSeq(bytes, m + 1, Len(bytes))

-----------------------------------------------------------------------------
(* The calls.                                                              *)

\* Mutant of Flush: it tries again after an error.
FlushRetries ==
    /\ call = Idle
    /\ UNCHANGED <<size, accepted>>
    /\ FlushOf(buf)
    /\ Returns("Flush", err')

Flush ==
    /\ call = Idle
    /\ UNCHANGED <<size, accepted>>
    /\ IF err # None THEN UNCHANGED <<buf, err, wire>> ELSE FlushOf(buf)
    /\ Returns("Flush", err')

\* The end of Write and WriteString: the rest fits.
Fits(op, n) ==
    /\ err = None /\ n <= Available
    /\ Accept(n) /\ buf' = buf \o Given(n)
    /\ Returns(op, None) /\ UNCHANGED <<err, wire>>

Fails(op, e) == e # None /\ Returns(op, e) /\ UNCHANGED <<buf, err, accepted, wire>>

\* A turn fills the buffer and flushes it.
FillAndFlush(op, n) ==
    /\ err = None /\ n > Available
    /\ Accept(Available) /\ FlushOf(buf \o Given(Available))
    /\ Again(op, n - Available)

\* Into an empty buffer, too long a p is written past it.
WriteDirectly(n) ==
    /\ err = None /\ n > Available /\ buf = <<>>
    /\ \E m \in 0..n, e \in {None, "other"} :
          Underlying(Given(n), m, e) /\ Accept(m) /\ err' = e /\ Again("Write", n - m)
    /\ UNCHANGED buf

Write(n) ==
    /\ Turn("Write", n)
    /\ UNCHANGED size
    /\ \/ Fails("Write", err)
       \/ Fits("Write", n)
       \/ WriteDirectly(n)
       \/ buf # <<>> /\ FillAndFlush("Write", n)

WriteString(n) ==
    /\ Turn("WriteString", n)
    /\ UNCHANGED size
    /\ Fails("WriteString", err) \/ Fits("WriteString", n) \/ FillAndFlush("WriteString", n)

WriteByte ==
    /\ call = Idle
    /\ UNCHANGED size
    /\ \/ Fails("WriteByte", err)
       \/ Available > 0 /\ Fits("WriteByte", 1)
       \/ /\ err = None /\ Available = 0
          /\ \/ /\ FlushOf(buf) /\ err' # None
                /\ Returns("WriteByte", err') /\ UNCHANGED accepted
             \/ /\ Underlying(buf, Len(buf), None)
                /\ buf' = Given(1) /\ Accept(1)
                /\ Returns("WriteByte", None) /\ UNCHANGED err

\* A rune of several bytes, k of them; one of a single byte is WriteByte.  It
\* is written as a whole unless the buffer can never hold the longest rune.
WriteRune(k) ==
    /\ call = Idle /\ k > 1 /\ accepted + k <= MaxBytes
    /\ UNCHANGED size
    /\ \/ Fails("WriteRune", err)
       \/ Available >= UTFMax /\ Fits("WriteRune", k)
       \/ /\ err = None /\ Available < UTFMax
          /\ \/ /\ FlushOf(buf) /\ err' # None
                /\ Returns("WriteRune", err') /\ UNCHANGED accepted
             \/ /\ Underlying(buf, Len(buf), None) /\ UNCHANGED err
                /\ IF size < UTFMax
                   THEN buf' = <<>> /\ Again("WriteString", k) /\ UNCHANGED accepted
                   ELSE buf' = Given(k) /\ Accept(k) /\ Returns("WriteRune", None)

\* The writer may know ReadFrom: an empty buffer is then passed by.  The
\* error is kept even when it is the reader's.
ReadFromDirectly ==
    /\ call = Idle /\ err = None /\ buf = <<>>
    /\ \E n \in 0..(MaxBytes - accepted), e \in {None, "other"} :
          /\ Accept(n) /\ wire' = wire \o Given(n)
          /\ err' = e /\ Returns("ReadFrom", e)
    /\ UNCHANGED buf

\* A turn of the loop: a Read of m bytes into the buffer.
ReadInto ==
    /\ Turn("ReadFrom", 0) /\ err = None /\ Available > 0
    /\ \E m \in 0..Available, e \in {None, "EOF", "other"} :
          LET bytes == buf \o Given(m) IN
          /\ Accept(m)
          /\ \/ /\ m > 0 /\ e = None /\ Again("ReadFrom", 0)
                /\ buf' = bytes /\ UNCHANGED <<err, wire>>
             \/ /\ e = "other" /\ Returns("ReadFrom", e)
                /\ buf' = bytes /\ UNCHANGED <<err, wire>>
             \/ /\ e = "EOF" /\ Len(bytes) < size /\ Returns("ReadFrom", None)
                /\ buf' = bytes /\ UNCHANGED <<err, wire>>
             \/ /\ e = "EOF" /\ Len(bytes) = size
                /\ FlushOf(bytes) /\ Returns("ReadFrom", err')

ReadFrom ==
    /\ UNCHANGED size
    /\ \/ call = Idle /\ Fails("ReadFrom", err)
       \/ ReadFromDirectly
       \/ ReadInto
       \/ /\ Turn("ReadFrom", 0) /\ err = None /\ Available = 0
          /\ FlushOf(buf) /\ UNCHANGED accepted
          /\ IF err' = None THEN Again("ReadFrom", 0) ELSE Returns("ReadFrom", err')

\* A new stream, to another writer.
Reset ==
    /\ call = Idle
    /\ buf' = <<>> /\ err' = None /\ accepted' = 0 /\ wire' = <<>>
    /\ Returns("Reset", None) /\ UNCHANGED size

Calls ==
    \/ \E n \in 0..MaxBytes : Write(n) \/ WriteString(n)
    \/ \E k \in 2..UTFMax : WriteRune(k)
    \/ Flush \/ WriteByte \/ ReadFrom \/ Reset

Spec == Init /\ [][Calls]_vars

-----------------------------------------------------------------------------
(* Properties.                                                             *)

\* Whatever the writer does and wherever an error strikes, what has reached
\* it is the bytes accepted, in their order and each once, but for those still
\* in the buffer; a Flush without an error leaves none there.
Stream ==
    /\ wire \o buf = Bytes(0, accepted)
    /\ ret = [op |-> "Flush", err |-> None] /\ call = Idle => buf = <<>>

\* The comment of Writer: after an error "no more data will be accepted and
\* all subsequent writes, and Flush, will return the error".
ErrorStep ==
    err # None /\ ret'.op # "Reset" =>
        /\ UNCHANGED <<err, accepted, wire>>
        /\ call' = Idle => ret'.err = err

ErrorSticks == [][ErrorStep]_vars
=============================================================================
