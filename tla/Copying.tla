------------------------------ MODULE Copying ------------------------------
(***************************************************************************)
(* What handlers and servers move bodies with: io.Copy, CopyN, ReadAtLeast *)
(* and ReadAll over a LimitedReader, a SectionReader, a teeReader, the     *)
(* maxBytesReader of http.MaxBytesReader or a net.Buffers.                 *)
(*                                                                         *)
(* A byte is its position in what is read.  Every Read may be short, may   *)
(* return its last bytes with or before the error, and every Write may be  *)
(* short, fail, or claim too much.                                         *)
(***************************************************************************)
EXTENDS Integers, Sequences, SequencesExt

CONSTANTS Jobs,      \* what is to be done: records as in Job
          BufLen     \* the length of the buffer copied through

None == "none"
Job == [op : {"Copy", "CopyN", "ReadAtLeast", "ReadAll"},
        to : {"writer", "Discard"},                    \* where Copy and CopyN go
        wrap : {"none", "LimitedReader", "maxBytesReader", "teeReader"},
        limit : Nat,                                   \* of either of the two
        min : Nat,                                     \* of ReadAtLeast
        source : {"reader", "SectionReader", "Buffers"},
        parts : Seq(Nat),                              \* of Buffers, else one
        base : Nat, length : Nat,                      \* of SectionReader
        end : {"EOF", "other"}]                        \* how the reader ends

\* CopyN makes its own LimitedReader.
CopyingAssumption ==
    /\ Jobs \subseteq Job /\ BufLen \in Nat \ {0}
    /\ \A j \in Jobs : j.op = "CopyN" => j.wrap = "LimitedReader"

VARIABLES
    job,      \* what is being done
    from, at, \* where the source is read from, and how far it has been
    v,        \* net.Buffers: the lengths of what is left
    left,     \* LimitedReader.N or maxBytesReader.n
    stuck,    \* maxBytesReader.err
    teed,     \* what the teeReader has written
    dst,      \* what has arrived
    n, result \* the bytes counted by the call that runs, and its error or "running"

vars == <<job, from, at, v, left, stuck, teed, dst, n, result>>

MinOf(a, b) == IF a < b THEN a ELSE b
\* How many bytes the first i runs of a net.Buffers have, and all of them.
Sums(s) == LET f[i \in 0..Len(s)] == IF i = 0 THEN 0 ELSE f[i - 1] + s[i] IN f
Sum(s) == Sums(s)[Len(s)]
Positions(p, k) == [i \in 1..k |-> p + i]
size == Sum(job.parts)
limitAt == job.base + job.length

Init ==
    /\ job \in Jobs
    /\ from = IF job.source = "SectionReader" THEN job.base ELSE 0
    /\ at = from /\ v = job.parts
    /\ left = job.limit /\ stuck = None /\ teed = <<>> /\ dst = <<>>
    /\ n = 0 /\ result = "running"
-----------------------------------------------------------------------------
(* Readers.  A Read into a buffer of k bytes has a set of outcomes.        *)

\* Any reader: some bytes, or the last ones with the error that follows them.
ReaderReads(k) ==
    {[n |-> i, err |-> None] : i \in 1..MinOf(k, size - at)}
    \cup IF size - at <= k THEN {[n |-> size - at, err |-> job.end]} ELSE {}

\* SectionReader.Read through ReadAt, which fills the buffer or fails.
SectionReads(k) ==
    LET p == MinOf(k, limitAt - at)
        have == IF at > size THEN 0 ELSE size - at
    IN  IF at >= limitAt THEN {[n |-> 0, err |-> "EOF"]}
        ELSE IF p > have THEN {[n |-> have, err |-> job.end]}
        ELSE {[n |-> p, err |-> None]} \cup (IF p = have THEN {[n |-> p, err |-> "EOF"]} ELSE {})

\* Buffers.Read copies from one run of bytes after the other.
BuffersReads(k) ==
    LET i == MinOf(k, Sum(v)) IN {[n |-> i, err |-> IF i = Sum(v) THEN "EOF" ELSE None]}

SourceReads(k) ==
    CASE job.source = "reader" -> ReaderReads(k)
      [] job.source = "SectionReader" -> SectionReads(k)
      [] job.source = "Buffers" -> BuffersReads(k)

\* Buffers.consume: runs that are used up go, the next is cut.
consume(s, k) ==
    LET Used == {i \in 0..Len(s) : Sums(s)[i] <= k}
        j == CHOOSE i \in Used : \A o \in Used : o <= i
        rest == SubSeq(s, j + 1, Len(s))
    IN  IF rest = <<>> THEN <<>>
        ELSE [rest EXCEPT ![1] = @ - (k - Sums(s)[j])]

Taken(k) == at' = at + k /\ v' = IF job.source = "Buffers" THEN consume(v, k) ELSE v
Passes(r) == Taken(r.n) /\ UNCHANGED <<left, stuck, teed>>

\* LimitedReader.Read
LimitedRead(k, r) ==
    IF left = 0 THEN r = [n |-> 0, err |-> "EOF"] /\ UNCHANGED <<at, v, left, stuck, teed>>
    ELSE /\ r \in SourceReads(MinOf(k, left))
         /\ Taken(r.n) /\ left' = left - r.n
         /\ UNCHANGED <<stuck, teed>>

\* maxBytesReader.Read asks for one byte more than it may return.
MaxBytesRead(k, r) ==
    IF stuck # None THEN r = [n |-> 0, err |-> stuck] /\ UNCHANGED <<at, v, left, stuck, teed>>
    ELSE \E s \in SourceReads(MinOf(k, left + 1)) :
            /\ r = IF s.n <= left THEN s ELSE [n |-> left, err |-> "too large"]
            /\ Taken(s.n) /\ left' = left - r.n /\ stuck' = r.err
            /\ UNCHANGED teed

\* teeReader.Read: an error of the writer is one of the read.
TeeRead(k, r) ==
    \E s \in SourceReads(k), fails \in BOOLEAN :
        /\ IF fails /\ s.n > 0
           THEN r.err = "write" /\ r.n \in 0..s.n ELSE r = s
        /\ Taken(s.n) /\ teed' = teed \o Positions(at, r.n)
        /\ UNCHANGED <<left, stuck>>

\* One Read of k bytes, as it comes out of the reader the caller has.
Outcomes == [n : 0..(size + 1), err : {None, "EOF", "other", "too large", "write"}]
Read(k, r) ==
    CASE job.wrap = "none" -> r \in SourceReads(k) /\ Passes(r)
      [] job.wrap = "LimitedReader" -> LimitedRead(k, r)
      [] job.wrap = "maxBytesReader" -> MaxBytesRead(k, r)
      [] job.wrap = "teeReader" -> TeeRead(k, r)
-----------------------------------------------------------------------------
(* Callers.  Each step is one turn of a loop. *)

Copying == result = "running" /\ job.op \in {"Copy", "CopyN"}
Arrive(k) == dst' = dst \o Positions(at, k) /\ n' = n + k

\* Copy returns no EOF; CopyN returns one unless it has copied all it should.
CopyResult(written, err) ==
    LET e == IF err = "EOF" THEN None ELSE err
    IN  IF job.op = "Copy" THEN e
        ELSE IF written = job.limit THEN None
        ELSE IF written < job.limit /\ e = None THEN "EOF" ELSE e

\* A Write of k bytes, as copyBuffer understands it.
Written(k) ==
    {z \in [n : 0..k, err : {None, "write", "short", "invalid write"}] :
        /\ z.err = None => z.n = k
        /\ z.err = "short" => z.n < k
        /\ z.err = "invalid write" => z.n = 0}

\* copyBuffer through a buffer, which a LimitedReader may make smaller.
TransferSize == IF job.wrap = "LimitedReader" THEN MinOf(BufLen, IF job.limit < 1 THEN 1 ELSE job.limit)
                ELSE BufLen
UsesWriterTo == job.source = "Buffers" /\ job.wrap = "none"
CopyBuffer ==
    /\ Copying /\ job.to = "writer" /\ ~UsesWriterTo
    /\ \E r \in Outcomes :
          /\ Read(TransferSize, r)
          /\ \E w \in (IF r.n = 0 THEN {[n |-> 0, err |-> None]} ELSE Written(r.n)) :
                /\ Arrive(w.n)
                /\ result' = IF w.err # None THEN CopyResult(n', w.err)
                             ELSE IF r.err # None THEN CopyResult(n', r.err) ELSE "running"
    /\ UNCHANGED <<job, from>>

\* To io.Discard it goes by discard.ReadFrom, where nothing can fail.
DiscardReadFrom ==
    /\ Copying /\ job.to = "Discard" /\ ~UsesWriterTo
    /\ \E r \in Outcomes :
          /\ Read(BufLen, r)
          /\ Arrive(r.n)
          /\ result' = IF r.err = None THEN "running" ELSE CopyResult(n', r.err)
    /\ UNCHANGED <<job, from>>

\* From net.Buffers it goes by Buffers.WriteTo, run by run (an empty run
\* writes nothing); what has been written is consumed when it ends.
BuffersWriteTo ==
    /\ Copying /\ UsesWriterTo
    /\ LET Unwritten == {i \in DOMAIN v : Sums(v)[i] > n}
           k == CHOOSE i \in Unwritten : \A o \in Unwritten : i <= o
       IN  IF Unwritten = {} THEN
                result' = CopyResult(n, None) /\ v' = consume(v, n) /\ UNCHANGED <<at, dst, n>>
           ELSE \E i \in 0..v[k], fails \in BOOLEAN :
                    /\ i < v[k] => fails
                    /\ job.to = "Discard" => ~fails
                    /\ Arrive(i) /\ at' = at + i
                    /\ result' = IF fails THEN CopyResult(n', "write") ELSE "running"
                    /\ v' = IF fails THEN consume(v, n') ELSE v
    /\ UNCHANGED <<job, from, left, stuck, teed>>

\* ReadAtLeast into a buffer of BufLen bytes: an error after enough is dropped.
ReadAtLeast ==
    /\ result = "running" /\ job.op = "ReadAtLeast"
    /\ IF BufLen < job.min THEN
            result' = "short buffer" /\ UNCHANGED <<at, v, left, stuck, teed, dst, n>>
       ELSE IF n >= job.min THEN
            result' = None /\ UNCHANGED <<at, v, left, stuck, teed, dst, n>>
       ELSE \E r \in Outcomes :
            /\ Read(BufLen - n, r)
            /\ Arrive(r.n)
            /\ result' = IF r.err = None THEN "running"
                         ELSE IF n' >= job.min THEN None
                         ELSE IF n' > 0 /\ r.err = "EOF" THEN "unexpected EOF" ELSE r.err
    /\ UNCHANGED <<job, from>>

\* ReadAll, whose buffer has whatever room append gave it.
ReadAll ==
    /\ result = "running" /\ job.op = "ReadAll"
    /\ \E k \in 1..(BufLen + 1), r \in Outcomes :
          /\ Read(k, r)
          /\ Arrive(r.n)
          /\ result' = IF r.err = None THEN "running" ELSE IF r.err = "EOF" THEN None ELSE r.err
    /\ UNCHANGED <<job, from>>

\* The caller reads on, whatever ReadAtLeast returned, unless a teeReader lost
\* what its writer did not take: ReadAtLeast may drop that error.
Lost == job.wrap = "teeReader" /\ Len(teed) < at - from
ReadOn ==
    /\ result # "running" /\ job.op = "ReadAtLeast" /\ ~Lost
    /\ job' = [job EXCEPT !.op = "ReadAll"]
    /\ n' = 0 /\ result' = "running"
    /\ UNCHANGED <<from, at, v, left, stuck, teed, dst>>

\* SectionReader.Seek, at any time between calls; not before the section.
Seek(offset) ==
    /\ job.source = "SectionReader" /\ result = "running" /\ n = 0 /\ dst = <<>>
    /\ job.wrap = "none" /\ offset >= 0
    /\ at' = job.base + offset /\ from' = at'
    /\ UNCHANGED <<job, v, left, stuck, teed, dst, n, result>>

Next ==
    \/ CopyBuffer \/ DiscardReadFrom \/ BuffersWriteTo \/ ReadAtLeast \/ ReadAll \/ ReadOn
    \/ \E offset \in 0..(job.length + 1) : Seek(offset)

Spec == Init /\ [][Next]_vars
-----------------------------------------------------------------------------
Content ==
    LET end == IF job.source = "SectionReader" THEN MinOf(limitAt, size) ELSE size
    IN  Positions(from, IF end > from THEN end - from ELSE 0)
Whole ==
    IF job.wrap \in {"LimitedReader", "maxBytesReader"}
    THEN SubSeq(Content, 1, MinOf(job.limit, Len(Content))) ELSE Content

\* What arrives is what was there, from the beginning and in order, never
\* past a limit or a section, and an error means what the documentation says:
\* no error from Copy and ReadAll, all of it; from CopyN and ReadAtLeast, as
\* much as was asked for, and EOF from ReadAtLeast only with nothing.  A body
\* is too large for maxBytesReader only if it is, and then always.  A
\* teeReader's writer has got what its reader was given.
Copied ==
    /\ IsPrefix(dst, Whole)
    /\ job.wrap = "teeReader" => IsPrefix(dst, teed)
    /\ result # "running" =>
        /\ job.op \in {"Copy", "ReadAll"} /\ result = None =>
                dst = Whole /\ (job.wrap = "maxBytesReader" => Whole = Content)
        /\ job.op = "CopyN" =>
                /\ (result = None) = (n = job.limit)
                /\ result = "EOF" => dst = Content
        /\ job.op = "ReadAtLeast" =>
                /\ (result = None) = (n >= job.min)
                /\ result = "EOF" => n = 0
        /\ "too large" \in {stuck, result} => Len(Content) > job.limit
        /\ result = "too large" => dst = Whole
        /\ job.source = "Buffers" => Sum(v) = size - at
=============================================================================
