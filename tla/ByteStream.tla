----------------------------- MODULE ByteStream -----------------------------
(***************************************************************************)
(* What the buffers of bufio and bytes have in common.  A stream is a      *)
(* sequence of bytes; a byte is named by its position in the stream, so    *)
(* that a byte lost, repeated, overwritten or out of its place shows.      *)
(* What a byte is (a line end, a part of a rune) matters to a few          *)
(* operations only: its kind.                                              *)
(***************************************************************************)
EXTENDS Integers, Sequences

\* A line feed, a carriage return, the first byte of a rune of several and
\* the bytes that continue it, and the other bytes.
Kinds == {"nl", "cr", "lead", "cont", "plain"}

\* The bytes after the first k of the stream, n of them.
Bytes(k, n) == [i \in 1..n |-> k + i]

\* The array holds the bytes after the first k in the places lo, ..., hi-1.
Holds(array, lo, hi, k) == \A i \in lo..(hi - 1) : array[i] = k + 1 + (i - lo)

\* The contents of the places lo, ..., hi-1.
Slice(array, lo, hi) == [i \in 1..(hi - lo) |-> array[lo + i - 1]]

\* copy(array[at:], bytes).
Copy(array, at, bytes) ==
    [i \in DOMAIN array |-> IF i \in at..(at + Len(bytes) - 1) THEN bytes[i - at + 1]
                                                              ELSE array[i]]

\* utf8.FullRune and the size of what utf8.DecodeRune decodes, for runes of
\* one and two bytes: a lead without its continuation is a rune of one byte,
\* an invalid one.
FullRune(kind, bytes) ==
    bytes # <<>> /\ (kind[bytes[1]] = "lead" => Len(bytes) > 1)

RuneSize(kind, bytes) ==
    IF kind[bytes[1]] = "lead" /\ Len(bytes) > 1 /\ kind[bytes[2]] = "cont" THEN 2 ELSE 1

\* bytes.IndexByte: the index of the first byte of the kind, or 0.
IndexByte(kind, bytes, k) ==
    IF \E i \in DOMAIN bytes : kind[bytes[i]] = k
    THEN CHOOSE i \in DOMAIN bytes :
            kind[bytes[i]] = k /\ \A j \in 1..(i - 1) : kind[bytes[j]] # k
    ELSE 0
=============================================================================
