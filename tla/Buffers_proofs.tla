---------------------------- MODULE Buffers_proofs ----------------------------
(***************************************************************************)
(* Proofs about the buffers and the helpers of package io, for every size, *)
(* every input and every length of either: no byte is lost, repeated or    *)
(* out of order, what was read can be put back, and the error of           *)
(* bufio.Writer sticks.                                                    *)
(*                                                                         *)
(* First, induction, recursion and sums.  Sets and functions stand for the *)
(* predicates and definitions so that a proof need not give an operator as *)
(* a parameter: a predicate P is the set {k \in Nat : P(k)}, the step of a *)
(* recursion a function of the index and the value before.                 *)
(***************************************************************************)
EXTENDS Buffers, FiniteSetTheorems, SequenceTheorems, TLAPS

(* A set of numbers has a least one: the initial segments below its        *)
(* members are finite sets, on which strict inclusion is well founded.     *)
LEMMA LeastNumber ==
    ASSUME NEW A, A \subseteq Nat, A # {}
    PROVE  \E x \in A : \A y \in A : x <= y
<1> DEFINE U == {1..t : t \in A}
<1>1. U # {} /\ U \subseteq FiniteSubsetsOf(Nat)
    <2>1. ASSUME NEW t \in A PROVE 1..t \in FiniteSubsetsOf(Nat)
        <3>1. t \in Nat /\ 1..t \subseteq Nat
            OBVIOUS
        <3> QED
            BY <3>1, FS_Interval DEF FiniteSubsetsOf
    <2> QED
        BY <2>1
<1>2. PICK u \in U : \A s \in U : ~(<<s, u>> \in StrictSubsetOrdering(Nat))
    <2>1. IsWellFoundedOn(StrictSubsetOrdering(Nat), FiniteSubsetsOf(Nat))
        BY FS_StrictSubsetOrderingWellFounded
    <2> QED
        BY <1>1, <2>1, WFMin
<1>3. PICK x \in A : u = 1..x
    OBVIOUS
<1>4. ASSUME NEW y \in A, ~(x <= y) PROVE FALSE
    <2>1. x \in Nat /\ y \in Nat /\ y < x
        BY <1>4
    <2>2. 1..y \subseteq 1..x /\ 1..y # 1..x /\ 1..x \subseteq Nat
        <3>1. x \in 1..x /\ x \notin 1..y
            BY <2>1
        <3> QED
            BY <2>1, <3>1
    <2>3. <<1..y, 1..x>> \in StrictSubsetOrdering(Nat)
        BY <2>2 DEF StrictSubsetOrdering
    <2> QED
        BY <1>2, <1>3, <2>3
<1> QED
    BY <1>4

(* Induction.                                                              *)
LEMMA SetInduction ==
    ASSUME NEW S, 0 \in S, \A k \in Nat : k \in S => k + 1 \in S
    PROVE  Nat \subseteq S
<1> DEFINE A == {k \in Nat : k \notin S}
<1>1. SUFFICES ASSUME A # {} PROVE FALSE
    OBVIOUS
<1>2. PICK x \in A : \A y \in A : x <= y
    <2>1. A \subseteq Nat
        OBVIOUS
    <2> HIDE DEF A
    <2> QED
        BY <1>1, <2>1, LeastNumber
<1>3. x \in Nat /\ x # 0 /\ x - 1 \in Nat /\ ~(x <= x - 1)
    OBVIOUS
<1>4. x - 1 \in A
    <2>1. x - 1 \in S => x - 1 + 1 \in S
        BY <1>3
    <2> QED
        BY <2>1, <1>3
<1> QED
    BY <1>2, <1>3, <1>4

(* A function on 0..n whose value at i comes from its value at i-1.        *)
Recursive(n, V, base, step, f) ==
    f \in [0..n -> V] /\ f[0] = base /\ \A i \in 1..n : f[i] = step[<<i, f[i - 1]>>]

LEMMA Recursion ==
    ASSUME NEW n \in Nat, NEW V, NEW base \in V, NEW step \in [(1..n) \X V -> V]
    PROVE  \E f : Recursive(n, V, base, step, f)
<1> DEFINE Upto(k, f) == f[0] = base /\ \A i \in 1..k : f[i] = step[<<i, f[i - 1]>>]
           S == {k \in Nat : k <= n => \E f \in [0..k -> V] : Upto(k, f)}
<1>1. 0 \in S
    <2>1. [i \in 0..0 |-> base] \in [0..0 -> V] /\ Upto(0, [i \in 0..0 |-> base])
        OBVIOUS
    <2> QED
        BY <2>1
<1>2. ASSUME NEW k \in Nat, k \in S PROVE k + 1 \in S
    <2>1. SUFFICES ASSUME k + 1 <= n PROVE \E f \in [0..(k + 1) -> V] : Upto(k + 1, f)
        OBVIOUS
    <2>2. PICK f \in [0..k -> V] : Upto(k, f)
        BY <1>2, <2>1
    <2> DEFINE g == [i \in 0..(k + 1) |-> IF i = k + 1 THEN step[<<k + 1, f[k]>>] ELSE f[i]]
    <2>3. f[k] \in V /\ <<k + 1, f[k]>> \in (1..n) \X V
        BY <2>1
    <2>4. step[<<k + 1, f[k]>>] \in V
        BY <2>3
    <2>5. g \in [0..(k + 1) -> V]
        BY <2>4
    <2>6. ASSUME NEW i \in 1..(k + 1) PROVE g[i] = step[<<i, g[i - 1]>>]
        <3>1. i - 1 \in 0..k /\ i - 1 # k + 1 /\ g[i - 1] = f[i - 1]
            OBVIOUS
        <3>2. CASE i = k + 1
            <4>1. i - 1 = k /\ k + 1 \in 0..(k + 1)
                BY <3>2
            <4>2. g[k + 1] = step[<<k + 1, f[k]>>]
                BY <4>1
            <4>3. g[i - 1] = f[k]
                BY <3>1, <4>1
            <4> HIDE DEF g
            <4> QED
                BY <3>2, <4>1, <4>2, <4>3
        <3>3. CASE i \in 1..k
            <4>1. g[i] = f[i] /\ f[i] = step[<<i, f[i - 1]>>]
                BY <2>2, <3>3
            <4> QED
                BY <3>1, <4>1
        <3> QED
            BY <3>2, <3>3
    <2>7. g[0] = base
        BY <2>2
    <2> QED
        BY <2>5, <2>6, <2>7
<1>3. Nat \subseteq S
    <2> HIDE DEF S
    <2> QED
        BY <1>1, <1>2, SetInduction
<1>4. n \in S
    <2> HIDE DEF S
    <2> QED
        BY <1>3
<1>5. n <= n
    OBVIOUS
<1> QED
    BY <1>4, <1>5 DEF Recursive

(* The sums of a sequence of numbers, from its start.                      *)
RunningSums(s) == LET f[i \in 0..Len(s)] == IF i = 0 THEN 0 ELSE f[i - 1] + s[i] IN f

SumsOf(s, f) ==
    /\ f \in [0..Len(s) -> Nat]
    /\ f[0] = 0
    /\ \A i \in 1..Len(s) : f[i] = f[i - 1] + s[i]

LEMMA RunningSumsAre ==
    ASSUME NEW s \in Seq(Nat)
    PROVE  SumsOf(s, RunningSums(s))
<1> DEFINE n == Len(s)
           F == CHOOSE f : f = [i \in 0..n |-> IF i = 0 THEN 0 ELSE f[i - 1] + s[i]]
           step == [d \in (1..n) \X Nat |-> d[2] + s[d[1]]]
<1>1. n \in Nat /\ step \in [(1..n) \X Nat -> Nat]
    OBVIOUS
<1>2. PICK f \in [0..n -> Nat] : f[0] = 0 /\ \A i \in 1..n : f[i] = step[<<i, f[i - 1]>>]
    <2> DEFINE base == 0
               V == Nat
    <2>1. n \in Nat /\ base \in V /\ step \in [(1..n) \X V -> V]
        BY <1>1
    <2>2. \E f : Recursive(n, V, base, step, f)
        <3> HIDE DEF step, n, base, V, F
        <3> QED
            BY <2>1, Recursion
    <2> QED
        BY <2>2 DEF Recursive
<1>3. ASSUME NEW i \in 1..n PROVE f[i] = f[i - 1] + s[i]
    <2>1. i - 1 \in 0..n /\ f[i - 1] \in Nat
        BY <1>1
    <2>2. step[<<i, f[i - 1]>>] = f[i - 1] + s[i]
        BY <2>1
    <2> HIDE DEF step
    <2> QED
        BY <1>2, <2>2
<1>4. f = [i \in 0..n |-> IF i = 0 THEN 0 ELSE f[i - 1] + s[i]]
    BY <1>1, <1>2, <1>3
<1>5. F = [i \in 0..n |-> IF i = 0 THEN 0 ELSE F[i - 1] + s[i]]
    BY <1>4
<1>6. RunningSums(s) = F
    BY DEF RunningSums
<1>7. F[0] = 0 /\ \A i \in 1..n : F[i] = F[i - 1] + s[i]
    <2> HIDE DEF F
    <2> QED
        BY <1>1, <1>5
<1>8. Nat \subseteq {i \in Nat : i <= n => F[i] \in Nat}
    <2> DEFINE S == {i \in Nat : i <= n => F[i] \in Nat}
    <2> HIDE DEF F
    <2>1. 0 \in S
        BY <1>7
    <2>2. ASSUME NEW k \in Nat, k \in S PROVE k + 1 \in S
        <3>1. CASE k + 1 <= n
            <4>1. k + 1 \in 1..n /\ F[k + 1] = F[k + 1 - 1] + s[k + 1] /\ s[k + 1] \in Nat
                BY <1>1, <1>7, <3>1
            <4> QED
                BY <1>1, <2>2, <3>1, <4>1
        <3> QED
            BY <1>1, <3>1
    <2> HIDE DEF S
    <2>3. Nat \subseteq S
        BY <2>1, <2>2, SetInduction
    <2> QED
        BY <2>3 DEF S
<1>9. F \in [0..n -> Nat]
    <2>1. \A i \in 0..n : i \in Nat /\ i <= n
        BY <1>1
    <2> HIDE DEF F
    <2> QED
        BY <1>5, <1>8, <2>1
<1> QED
    BY <1>6, <1>7, <1>9 DEF SumsOf

-----------------------------------------------------------------------------
(* Sequences.                                                              *)

LEMMA Split ==
    ASSUME NEW S, NEW s \in Seq(S), NEW n \in 0..Len(s)
    PROVE  /\ SubSeq(s, 1, n) \in Seq(S) /\ Len(SubSeq(s, 1, n)) = n
           /\ SubSeq(s, n + 1, Len(s)) \in Seq(S)
           /\ Len(SubSeq(s, n + 1, Len(s))) = Len(s) - n
           /\ SubSeq(s, 1, n) \o SubSeq(s, n + 1, Len(s)) = s
<1>1. Len(s) \in Nat /\ n \in Nat /\ n <= Len(s)
    OBVIOUS
<1>2. 1 \in 1..(Len(s) + 1) /\ n \in (1 - 1)..Len(s) /\ Len(s) \in n..Len(s)
    BY <1>1
<1>3. SubSeq(s, 1, n) \o SubSeq(s, n + 1, Len(s)) = SubSeq(s, 1, Len(s))
    BY <1>1, <1>2, ConcatAdjacentSubSeq
<1>4. SubSeq(s, 1, n) \o SubSeq(s, n + 1, Len(s)) = s
    BY <1>3, SubSeqFull
<1>5. \A i \in 1..Len(s) : s[i] \in S
    OBVIOUS
<1>6. SubSeq(s, 1, n) \in Seq(S) /\ Len(SubSeq(s, 1, n)) = n
    <2>1. 1 \in Int /\ n \in Int /\ \A i \in 1..n : s[i] \in S
        BY <1>1, <1>5
    <2> QED
        BY <1>1, <2>1, SubSeqProperties
<1>7. SubSeq(s, n + 1, Len(s)) \in Seq(S) /\ Len(SubSeq(s, n + 1, Len(s))) = Len(s) - n
    <2>1. n + 1 \in Int /\ Len(s) \in Int /\ \A i \in (n + 1)..Len(s) : s[i] \in S
        BY <1>1, <1>5
    <2> QED
        BY <1>1, <2>1, SubSeqProperties
<1> QED
    BY <1>4, <1>6, <1>7

LEMMA RunningSumsGrow ==
    ASSUME NEW s \in Seq(Nat), NEW o, SumsOf(s, o), NEW i \in 0..Len(s), NEW j \in i..Len(s)
    PROVE  o[i] \in Nat /\ o[j] \in Nat /\ o[i] <= o[j]
<1> DEFINE H == {q \in Nat : i + q <= Len(s) => o[i] <= o[i + q]}
<1>1. Len(s) \in Nat /\ i \in Nat /\ i <= Len(s) /\ \A q \in 1..Len(s) : s[q] \in Nat
    OBVIOUS
<1>2. \A q \in 0..Len(s) : o[q] \in Nat
    BY DEF SumsOf
<1>3. 0 \in H
    <2>1. i + 0 = i /\ o[i] \in Nat
        BY <1>1, <1>2
    <2> QED
        BY <2>1
<1>4. ASSUME NEW q \in Nat, q \in H PROVE q + 1 \in H
    <2>1. SUFFICES ASSUME i + (q + 1) <= Len(s) PROVE o[i] <= o[i + (q + 1)]
        OBVIOUS
    <2>2. i + (q + 1) \in 1..Len(s) /\ i + (q + 1) - 1 = i + q /\ i + q <= Len(s) /\ i + q \in 0..Len(s)
        BY <1>1, <2>1
    <2>3. o[i + (q + 1)] = o[i + q] + s[i + (q + 1)] /\ s[i + (q + 1)] \in Nat
        BY <1>1, <2>2 DEF SumsOf
    <2>4. o[i] <= o[i + q] /\ o[i] \in Nat /\ o[i + q] \in Nat
        BY <1>2, <1>4, <2>2
    <2> QED
        BY <2>3, <2>4
<1>5. Nat \subseteq H
    <2> HIDE DEF H
    <2> QED
        BY <1>3, <1>4, SetInduction
<1>6. j - i \in Nat /\ i + (j - i) = j /\ j <= Len(s) /\ j \in 0..Len(s)
    BY <1>1
<1> QED
    BY <1>2, <1>5, <1>6


-----------------------------------------------------------------------------

\* A byte is its position in the stream.
Positions == Nat

(* Bytes of a stream that follow each other.                               *)
LEMMA BytesType ==
    ASSUME NEW k \in Nat, NEW n \in Nat
    PROVE  /\ Bytes(k, n) \in Seq(Positions) /\ Len(Bytes(k, n)) = n
           /\ \A i \in 1..n : Bytes(k, n)[i] = k + i
BY DEF Bytes, Positions

LEMMA Joined ==
    ASSUME NEW s \in Seq(Positions), NEW t \in Seq(Positions)
    PROVE  /\ s \o t \in Seq(Positions) /\ Len(s \o t) = Len(s) + Len(t)
           /\ \A i \in 1..(Len(s) + Len(t)) : (s \o t)[i] = IF i <= Len(s) THEN s[i] ELSE t[i - Len(s)]
BY ConcatProperties, SMTT(60)

LEMMA JoinedTwice ==
    ASSUME NEW s \in Seq(Positions), NEW t \in Seq(Positions), NEW u \in Seq(Positions)
    PROVE  (s \o t) \o u = s \o (t \o u)
BY ConcatAssociative, SMTT(60)

LEMMA BytesConcat ==
    ASSUME NEW k \in Nat, NEW l \in Nat, NEW n \in Nat
    PROVE  Bytes(k, l) \o Bytes(k + l, n) = Bytes(k, l + n)
<1> DEFINE a == Bytes(k, l)
           b == Bytes(k + l, n)
           c == Bytes(k, l + n)
<1>1. /\ a \in Seq(Positions) /\ Len(a) = l /\ \A i \in 1..l : a[i] = k + i
      /\ b \in Seq(Positions) /\ Len(b) = n /\ \A i \in 1..n : b[i] = k + l + i
      /\ c \in Seq(Positions) /\ Len(c) = l + n /\ \A i \in 1..(l + n) : c[i] = k + i
    <2>1. k + l \in Nat /\ l + n \in Nat
        OBVIOUS
    <2> QED
        BY <2>1, BytesType
<1> HIDE DEF a, b, c
<1>2. /\ a \o b \in Seq(Positions) /\ Len(a \o b) = l + n
      /\ \A i \in 1..(l + n) : (a \o b)[i] = IF i <= l THEN a[i] ELSE b[i - l]
    BY <1>1, Joined
<1>3. ASSUME NEW i \in 1..(l + n) PROVE (a \o b)[i] = c[i]
    <2>1. CASE i <= l
        BY <1>1, <1>2, <2>1
    <2>2. CASE i > l
        <3>1. i - l \in 1..n /\ k + l + (i - l) = k + i
            BY <2>2
        <3> QED
            BY <1>1, <1>2, <2>2, <3>1
    <2>3. i \in Nat /\ (i <= l \/ i > l)
        OBVIOUS
    <2> QED
        BY <2>1, <2>2, <2>3
<1>4. \A i \in 1..Len(a \o b) : (a \o b)[i] = c[i]
    BY <1>2, <1>3
<1>5. a \o b \in Seq(Positions) /\ c \in Seq(Positions) /\ Len(a \o b) = Len(c)
    BY <1>1, <1>2
<1>6. a \o b = c
    BY <1>4, <1>5, SeqEqual
<1> QED
    BY <1>6 DEF a, b, c

\* The first byte of a kind; 0 when there is none.
LEMMA IndexByteIs ==
    ASSUME NEW kd, NEW bytes \in Seq(Positions), NEW k
    PROVE  /\ IndexByte(kd, bytes, k) \in 0..Len(bytes)
           /\ IndexByte(kd, bytes, k) # 0 =>
                /\ kd[bytes[IndexByte(kd, bytes, k)]] = k
                /\ \A j \in 1..(IndexByte(kd, bytes, k) - 1) : kd[bytes[j]] # k
           /\ IndexByte(kd, bytes, k) = 0 => \A i \in 1..Len(bytes) : kd[bytes[i]] # k
<1> DEFINE Found(i) == kd[bytes[i]] = k
           First(i) == Found(i) /\ \A j \in 1..(i - 1) : ~Found(j)
           Hits == {i \in DOMAIN bytes : Found(i)}
<1>1. DOMAIN bytes = 1..Len(bytes) /\ Len(bytes) \in Nat
    BY LenProperties
<1>2. CASE Hits = {}
    <2>1. ~\E i \in DOMAIN bytes : Found(i)
        BY <1>2
    <2>2. IndexByte(kd, bytes, k) = 0
        BY <2>1 DEF IndexByte
    <2> QED
        BY <1>1, <2>1, <2>2
<1>3. CASE Hits # {}
    <2>1. PICK i \in Hits : \A j \in Hits : i <= j
        <3>1. Hits \subseteq Nat
            BY <1>1
        <3> HIDE DEF Hits
        <3> QED
            BY <1>3, <3>1, LeastNumber
    <2>2. i \in DOMAIN bytes /\ First(i)
        <3>1. i \in DOMAIN bytes /\ Found(i) /\ i \in Nat
            BY <1>1
        <3>2. ASSUME NEW j \in 1..(i - 1), Found(j) PROVE FALSE
            <4>1. j \in Hits /\ j < i
                BY <1>1, <3>1, <3>2
            <4> QED
                BY <2>1, <3>1, <4>1
        <3> QED
            BY <3>1, <3>2
    <2>3. IndexByte(kd, bytes, k) = CHOOSE j \in DOMAIN bytes : First(j)
        BY <2>2 DEF IndexByte
    <2> DEFINE e == CHOOSE j \in DOMAIN bytes : First(j)
    <2>4. e \in DOMAIN bytes /\ First(e)
        <3> HIDE DEF First
        <3> QED
            BY <2>2
    <2>5. e \in 1..Len(bytes) /\ e # 0 /\ e \in 0..Len(bytes)
        BY <1>1, <2>4
    <2> HIDE DEF e
    <2> QED
        BY <2>3, <2>4, <2>5 DEF e
<1> QED
    BY <1>2, <1>3

\* Bytes in their order; bytes in their order up to e.
Run(d) == \E k \in Nat, n \in Nat : d = Bytes(k, n)
EndsAt(d, e) == \E n \in 0..e : d = Bytes(e - n, n)

LEMMA RunFacts ==
    /\ Run(<<>>) /\ \A e \in Nat : EndsAt(<<>>, e)
    /\ \A k, n \in Nat : Run(Bytes(k, n)) /\ EndsAt(Bytes(k, n), k + n)
    /\ \A k \in Nat : Bytes(k, 0) = <<>>
    /\ \A k \in Nat, n \in Nat \ {0} : Bytes(k, n) # <<>> /\ R!Last(Bytes(k, n)) = k + n
<1>1. ASSUME NEW k \in Nat PROVE Bytes(k, 0) = <<>>
    BY BytesType
<1>2. Run(<<>>)
    BY <1>1 DEF Run
<1>3. ASSUME NEW e \in Nat PROVE EndsAt(<<>>, e)
    <2>1. 0 \in 0..e /\ e - 0 \in Nat
        OBVIOUS
    <2> QED
        BY <1>1, <2>1 DEF EndsAt
<1>4. ASSUME NEW k \in Nat, NEW n \in Nat PROVE Run(Bytes(k, n)) /\ EndsAt(Bytes(k, n), k + n)
    <2>1. n \in 0..(k + n) /\ (k + n) - n = k
        OBVIOUS
    <2> QED
        BY <2>1 DEF Run, EndsAt
<1>5. ASSUME NEW k \in Nat, NEW n \in Nat \ {0}
      PROVE  Bytes(k, n) # <<>> /\ R!Last(Bytes(k, n)) = k + n
    <2>1. Len(Bytes(k, n)) = n /\ n \in 1..n /\ Bytes(k, n)[n] = k + n
        BY BytesType
    <2> QED
        BY <2>1 DEF R!Last
<1> QED
    BY <1>1, <1>2, <1>3, <1>4, <1>5

LEMMA SameBytes ==
    \A k, n : W!Bytes(k, n) = Bytes(k, n) /\ R!Bytes(k, n) = Bytes(k, n) /\ B!Bytes(k, n) = Bytes(k, n)
BY DEF W!Bytes, R!Bytes, B!Bytes, Bytes

-----------------------------------------------------------------------------
(* bufio.Writer.                                                           *)

WriterOK ==
    /\ size \in 1..MaxSize /\ accepted \in Nat
    /\ wire \in Seq(Positions) /\ buf \in Seq(Positions) /\ Len(buf) <= size
    /\ call.n \in Nat /\ err \in {W!None, "short", "other"}
    /\ wire \o buf = Bytes(0, accepted)
    /\ ret = [op |-> "Flush", err |-> W!None] /\ call = W!Idle => buf = <<>>
WriterInv == which = "writer" => WriterOK

LEMMA WriterInit == Init => WriterInv
<1> SUFFICES ASSUME W!Init PROVE WriterInv
    BY DEF Init, WriterInv
<1>1. <<>> \in Seq(Positions) /\ <<>> \o <<>> = <<>> /\ Len(<<>>) = 0
    OBVIOUS
<1>2. Bytes(0, 0) = <<>>
    BY BytesType
<1> QED
    BY <1>1, <1>2, SizesAssumption DEF W!Init, WriterInv, WriterOK, W!Idle, W!None, W!WriterAssumption

\* What a Flush leaves in the buffer follows what it sends.
LEMMA WriterFlush ==
    ASSUME NEW bytes \in Seq(Positions), wire \in Seq(Positions), W!FlushOf(bytes), err = W!None
    PROVE  /\ wire' \in Seq(Positions) /\ buf' \in Seq(Positions) /\ Len(buf') <= Len(bytes)
           /\ wire' \o buf' = wire \o bytes
           /\ err' \in {W!None, "short", "other"}
           /\ err' = W!None => buf' = <<>>
<1>1. CASE bytes = <<>>
    BY <1>1 DEF W!FlushOf
<1>2. CASE bytes # <<>>
    <2>1. PICK n \in 0..Len(bytes), e \in {W!None, "other"} :
            /\ wire' = wire \o SubSeq(bytes, 1, n)
            /\ err' = IF n < Len(bytes) /\ e = W!None THEN "short" ELSE e
            /\ buf' = SubSeq(bytes, n + 1, Len(bytes))
        BY <1>2 DEF W!FlushOf, W!Underlying
    <2> DEFINE a == SubSeq(bytes, 1, n)
               b == SubSeq(bytes, n + 1, Len(bytes))
    <2>2. a \in Seq(Positions) /\ b \in Seq(Positions) /\ Len(b) = Len(bytes) - n /\ a \o b = bytes
        BY Split
    <2>3. err' = W!None => n = Len(bytes)
        BY <2>1 DEF W!None
    <2>4. wire' = wire \o a /\ buf' = b
        BY <2>1
    <2> HIDE DEF a, b
    <2>5. (wire \o a) \o b = wire \o (a \o b) /\ wire \o a \in Seq(Positions)
        <3>1. wire \in Seq(Positions) /\ a \in Seq(Positions) /\ b \in Seq(Positions)
            BY <2>2
        <3>2. (wire \o a) \o b = wire \o (a \o b)
            BY <3>1, JoinedTwice
        <3>3. wire \o a \in Seq(Positions)
            BY <3>1, Joined
        <3> QED
            BY <3>2, <3>3
    <2>6. Len(b) = 0 => b = <<>>
        BY <2>2, EmptySeq
    <2>7. err' \in {W!None, "short", "other"}
        BY <2>1
    <2> QED
        BY <2>2, <2>3, <2>4, <2>5, <2>6, <2>7
<1> QED
    BY <1>1, <1>2

\* The next bytes of the caller follow those in the buffer.
LEMMA WriterAccept ==
    ASSUME WriterOK, NEW n \in Nat
    PROVE  /\ buf \o W!Given(n) \in Seq(Positions) /\ Len(buf \o W!Given(n)) = Len(buf) + n
           /\ wire \o (buf \o W!Given(n)) = Bytes(0, accepted + n)
<1> DEFINE g == W!Given(n)
<1>1. g = Bytes(accepted, n)
    BY SameBytes DEF W!Given
<1>2. g \in Seq(Positions) /\ Len(g) = n
    BY <1>1, BytesType DEF WriterOK
<1>3. Bytes(0, accepted) \o Bytes(accepted, n) = Bytes(0, accepted + n)
    <2>1. accepted \in Nat
        BY DEF WriterOK
    <2>2. PICK z \in Nat : z = 0
        OBVIOUS
    <2>3. Bytes(z, accepted) \o Bytes(z + accepted, n) = Bytes(z, accepted + n)
        BY <2>1, BytesConcat
    <2>4. z + accepted = accepted
        BY <2>1, <2>2
    <2> QED
        BY <2>2, <2>3, <2>4
<1> HIDE DEF g
<1>4. wire \in Seq(Positions) /\ buf \in Seq(Positions) /\ wire \o buf = Bytes(0, accepted)
    BY DEF WriterOK
<1>5. (wire \o buf) \o g = wire \o (buf \o g)
    <2>1. wire \in Seq(Positions) /\ buf \in Seq(Positions) /\ g \in Seq(Positions)
        BY <1>2, <1>4
    <2> QED
        BY <2>1, JoinedTwice
<1>6. buf \o g \in Seq(Positions) /\ Len(buf \o g) = Len(buf) + n
    BY <1>2, <1>4, Joined
<1> QED
    BY <1>1, <1>3, <1>4, <1>5, <1>6 DEF g

\* A step that takes n bytes more and sends some.
LEMMA WriterTurn ==
    ASSUME WriterOK, NEW n \in Nat, UNCHANGED size, accepted' = accepted + n,
           \/ buf' = buf \o W!Given(n) /\ UNCHANGED <<err, wire>>
           \/ err = W!None /\ W!FlushOf(buf \o W!Given(n)),
           Len(buf) + n <= size,
           call'.n \in Nat,
           ret' = [op |-> "Flush", err |-> W!None] /\ call' = W!Idle => buf' = <<>>
    PROVE  WriterOK'
<1>1. /\ buf \o W!Given(n) \in Seq(Positions) /\ Len(buf \o W!Given(n)) = Len(buf) + n
      /\ wire \o (buf \o W!Given(n)) = Bytes(0, accepted + n)
    BY WriterAccept
<1>2. wire \in Seq(Positions) /\ size \in Nat /\ accepted + n \in Nat
    BY SizesAssumption DEF WriterOK, W!WriterAssumption
<1>3. CASE buf' = buf \o W!Given(n) /\ UNCHANGED <<err, wire>>
    BY <1>1, <1>2, <1>3 DEF WriterOK
<1>4. CASE err = W!None /\ W!FlushOf(buf \o W!Given(n))
    <2> DEFINE b == buf \o W!Given(n)
    <2> HIDE DEF b
    <2>1. b \in Seq(Positions) /\ err = W!None /\ W!FlushOf(b)
        BY <1>1, <1>4 DEF b
    <2>2. /\ wire' \in Seq(Positions) /\ buf' \in Seq(Positions) /\ Len(buf') <= Len(b)
          /\ wire' \o buf' = wire \o b
          /\ err' \in {W!None, "short", "other"}
        BY <1>2, <2>1, WriterFlush
    <2>3. Len(buf') \in Nat /\ Len(b) \in Nat
        BY <2>1, <2>2, LenProperties
    <2>4. Len(b) <= size /\ wire \o b = Bytes(0, accepted')
        BY <1>1 DEF b
    <2>5. Len(buf') <= size'
        BY <1>2, <2>2, <2>3, <2>4
    <2>6. wire' \o buf' = Bytes(0, accepted')
        BY <2>2, <2>4
    <2> QED
        BY <1>2, <2>2, <2>5, <2>6 DEF WriterOK
<1> QED
    BY <1>3, <1>4

LEMMA WriterGiven ==
    ASSUME WriterOK, NEW n \in Nat
    PROVE  /\ W!Given(n) = Bytes(accepted, n) /\ W!Given(n) \in Seq(Positions)
           /\ Len(W!Given(n)) = n
           /\ \A k \in 0..n : SubSeq(W!Given(n), 1, k) = W!Given(k)
<1>1. accepted \in Nat
    BY DEF WriterOK
<1>2. \A k \in Nat : W!Given(k) = Bytes(accepted, k)
    BY SameBytes DEF W!Given
<1>3. Bytes(accepted, n) \in Seq(Positions) /\ Len(Bytes(accepted, n)) = n
    BY <1>1, BytesType
<1>4. ASSUME NEW k \in 0..n PROVE SubSeq(Bytes(accepted, n), 1, k) = Bytes(accepted, k)
    BY <1>1, <1>4 DEF Bytes
<1> QED
    BY <1>2, <1>3, <1>4

\* All of the buffer is sent, and n bytes begin a new one; or they pass an
\* empty buffer by.
LEMMA WriterSends ==
    ASSUME WriterOK, NEW n \in Nat, UNCHANGED size, accepted' = accepted + n,
           \/ wire' = wire \o buf /\ buf' = W!Given(n) /\ n <= size
           \/ buf = <<>> /\ buf' = <<>> /\ wire' = wire \o W!Given(n),
           err' \in {W!None, "short", "other"}, call'.n \in Nat,
           ret' = [op |-> "Flush", err |-> W!None] /\ call' = W!Idle => buf' = <<>>
    PROVE  WriterOK'
<1> DEFINE g == W!Given(n)
<1>1. g \in Seq(Positions) /\ Len(g) = n
    BY WriterGiven
<1>2. /\ wire \in Seq(Positions) /\ buf \in Seq(Positions) /\ accepted \in Nat
      /\ size \in 1..MaxSize /\ <<>> \in Seq(Positions)
    BY DEF WriterOK
<1>3. buf \o g \in Seq(Positions) /\ wire \o (buf \o g) = Bytes(0, accepted')
    BY WriterAccept
<1> HIDE DEF g
<1>4. CASE wire' = wire \o buf /\ buf' = g /\ n <= size
    <2>1. wire' \in Seq(Positions)
        BY <1>2, <1>4, Joined
    <2>2. (wire \o buf) \o g = wire \o (buf \o g)
        <3>1. wire \in Seq(Positions) /\ buf \in Seq(Positions)
            BY <1>2
        <3>2. g \in Seq(Positions)
            BY <1>1
        <3> QED
            BY <3>1, <3>2, JoinedTwice
    <2>3. wire' \o buf' = Bytes(0, accepted')
        BY <1>3, <1>4, <2>2
    <2>4. accepted' \in Nat
        BY <1>2
    <2> QED
        BY <1>1, <1>2, <1>4, <2>1, <2>3, <2>4 DEF WriterOK
<1>5. CASE buf = <<>> /\ buf' = <<>> /\ wire' = wire \o g
    <2>1. wire' \in Seq(Positions) /\ wire' \o <<>> = wire' /\ <<>> \o g = g
        BY <1>1, <1>2, <1>5, Joined, ConcatEmptySeq
    <2>2. wire' \o buf' = Bytes(0, accepted')
        BY <1>3, <1>5, <2>1
    <2>3. Len(buf') <= size' /\ accepted' \in Nat
        BY <1>2, <1>5, SizesAssumption DEF W!WriterAssumption
    <2> QED
        BY <1>2, <1>5, <2>1, <2>2, <2>3 DEF WriterOK
<1> QED
    BY <1>4, <1>5 DEF g

\* FlushOf what is in the buffer, and no more.
LEMMA WriterFlushes ==
    ASSUME WriterOK, err = W!None, W!FlushOf(buf), UNCHANGED <<size, accepted>>,
           call'.n \in Nat,
           ret' = [op |-> "Flush", err |-> W!None] => err' = W!None
    PROVE  WriterOK'
<1>1. W!Given(0) = <<>> /\ buf \in Seq(Positions) /\ wire \in Seq(Positions)
    BY WriterGiven, EmptySeq DEF WriterOK
<1>2. buf \o W!Given(0) = buf
    BY <1>1, ConcatEmptySeq
<1>3. err' = W!None => buf' = <<>>
    BY <1>1, WriterFlush
<1>4. accepted' = accepted + 0 /\ Len(buf) + 0 <= size
    BY <1>1 DEF WriterOK
<1>5. W!FlushOf(buf \o W!Given(0))
    BY <1>2
<1> QED
    BY <1>3, <1>4, <1>5, WriterTurn

LEMMA WriterSizes ==
    ASSUME WriterOK
    PROVE  /\ size \in Nat \ {0} /\ Len(buf) \in Nat /\ W!Available \in Nat
           /\ Len(buf) + W!Available = size
           /\ W!Idle.n = 0 /\ \A op, n : [op |-> op, n |-> n].n = n
           /\ \A op, n : op # W!None => [op |-> op, n |-> n] # W!Idle
<1>1. Len(buf) \in Nat
    BY LenProperties DEF WriterOK
<1>2. size \in Nat \ {0} /\ Len(buf) <= size
    BY SizesAssumption DEF WriterOK, W!WriterAssumption
<1>3. \A op, n : op # W!None => [op |-> op, n |-> n] # W!Idle
    BY DEF W!Idle
<1> QED
    BY <1>1, <1>2, <1>3 DEF W!Available, W!Idle

LEMMA WriterFits ==
    ASSUME WriterOK, NEW op \in {"Write", "WriteString", "WriteByte", "WriteRune"},
           NEW n \in Nat, W!Fits(op, n), UNCHANGED size
    PROVE  WriterOK'
<1>1. /\ accepted' = accepted + n /\ buf' = buf \o W!Given(n) /\ UNCHANGED <<err, wire>>
      /\ n <= W!Available /\ call' = W!Idle /\ ret' = [op |-> op, err |-> W!None]
    BY DEF W!Fits, W!Accept, W!Returns
<1>2. Len(buf) + n <= size /\ call'.n \in Nat
    BY <1>1, WriterSizes
<1>3. ret' # [op |-> "Flush", err |-> W!None]
    BY <1>1
<1> QED
    BY <1>1, <1>2, <1>3, WriterTurn

LEMMA WriterFails ==
    ASSUME WriterOK, NEW op, NEW e, op # "Flush", W!Fails(op, e), UNCHANGED size
    PROVE  WriterOK'
<1>1. /\ UNCHANGED <<size, buf, err, accepted, wire>> /\ call' = W!Idle
      /\ ret' = [op |-> op, err |-> e]
    BY DEF W!Fails, W!Returns
<1>2. call'.n \in Nat
    BY <1>1, WriterSizes
<1> QED
    BY <1>1, <1>2 DEF WriterOK

LEMMA WriterFillAndFlush ==
    ASSUME WriterOK, NEW op \in {"Write", "WriteString"}, NEW n \in Nat, W!FillAndFlush(op, n),
           UNCHANGED size
    PROVE  WriterOK'
<1> DEFINE a == W!Available
<1>1. /\ err = W!None /\ n > a /\ accepted' = accepted + a
      /\ W!FlushOf(buf \o W!Given(a))
      /\ call' = [op |-> op, n |-> n - a]
    BY DEF W!FillAndFlush, W!Accept, W!Again
<1>2. a \in Nat /\ Len(buf) + a <= size
    BY WriterSizes
<1>3. call'.n \in Nat /\ call' # W!Idle
    BY <1>1, <1>2, WriterSizes DEF W!None
<1> HIDE DEF a
<1> QED
    BY <1>1, <1>2, <1>3, WriterTurn

LEMMA WriterWriteDirectly ==
    ASSUME WriterOK, NEW n \in Nat, W!WriteDirectly(n), UNCHANGED size
    PROVE  WriterOK'
<1>1. PICK k \in 0..n, e \in {W!None, "other"} :
        W!Underlying(W!Given(n), k, e) /\ W!Accept(k) /\ err' = e /\ W!Again("Write", n - k)
    BY DEF W!WriteDirectly
<1>2. buf = <<>> /\ buf' = <<>>
    BY DEF W!WriteDirectly
<1>3. wire' = wire \o W!Given(k) /\ accepted' = accepted + k /\ call' = [op |-> "Write", n |-> n - k]
    BY <1>1, WriterGiven DEF W!Underlying, W!Accept, W!Again
<1>4. call'.n \in Nat /\ k \in Nat
    BY <1>3
<1> QED
    BY <1>1, <1>2, <1>3, <1>4, WriterSends

\* The buffer has been sent as a whole.
LEMMA WriterSentAll ==
    ASSUME WriterOK, W!Underlying(buf, Len(buf), W!None)
    PROVE  wire' = wire \o buf
BY SubSeqFull DEF WriterOK, W!Underlying

LEMMA WriterWriteByte ==
    ASSUME WriterOK, W!WriteByte
    PROVE  WriterOK'
<1>1. UNCHANGED size
    BY DEF W!WriteByte
<1>2. CASE W!Fails("WriteByte", err)
    BY <1>1, <1>2, WriterFails
<1>3. CASE W!Fits("WriteByte", 1)
    BY <1>1, <1>3, WriterFits
<1>4. CASE /\ err = W!None /\ W!FlushOf(buf) /\ err' # W!None
           /\ W!Returns("WriteByte", err') /\ UNCHANGED accepted
    <2>1. call'.n \in Nat /\ ret' = [op |-> "WriteByte", err |-> err']
        BY <1>4, WriterSizes DEF W!Returns
    <2> QED
        BY <1>1, <1>4, <2>1, WriterFlushes
<1>5. CASE /\ W!Underlying(buf, Len(buf), W!None) /\ buf' = W!Given(1) /\ W!Accept(1)
           /\ W!Returns("WriteByte", W!None) /\ UNCHANGED err
    <2>1. call'.n \in Nat /\ ret' = [op |-> "WriteByte", err |-> W!None] /\ 1 <= size
        BY <1>5, WriterSizes DEF W!Returns
    <2>2. wire' = wire \o buf /\ accepted' = accepted + 1 /\ 1 \in Nat
        BY <1>5, WriterSentAll DEF W!Accept
    <2>3. err' \in {W!None, "short", "other"} /\ ret' # [op |-> "Flush", err |-> W!None]
        BY <1>5, <2>1 DEF WriterOK
    <2> QED
        BY <1>1, <1>5, <2>1, <2>2, <2>3, WriterSends
<1> QED
    BY <1>2, <1>3, <1>4, <1>5 DEF W!WriteByte

LEMMA WriterWriteRune ==
    ASSUME WriterOK, NEW k \in 2..UTFMax, W!WriteRune(k)
    PROVE  WriterOK'
<1>1. UNCHANGED size /\ k \in Nat
    BY DEF W!WriteRune
<1>2. CASE W!Fails("WriteRune", err)
    BY <1>1, <1>2, WriterFails
<1>3. CASE W!Fits("WriteRune", k)
    BY <1>1, <1>3, WriterFits
<1>4. CASE /\ err = W!None /\ W!FlushOf(buf) /\ err' # W!None
           /\ W!Returns("WriteRune", err') /\ UNCHANGED accepted
    <2>1. call'.n \in Nat /\ ret' = [op |-> "WriteRune", err |-> err']
        BY <1>4, WriterSizes DEF W!Returns
    <2> QED
        BY <1>1, <1>4, <2>1, WriterFlushes
<1>5. CASE /\ W!Underlying(buf, Len(buf), W!None) /\ UNCHANGED err
           /\ size < UTFMax /\ buf' = <<>> /\ W!Again("WriteString", k) /\ UNCHANGED accepted
    <2>1. call'.n \in Nat
        BY <1>1, <1>5, WriterSizes DEF W!Again
    <2>2. wire' = wire \o buf /\ accepted' = accepted + 0 /\ 0 <= size
        BY <1>5, WriterSentAll, WriterSizes DEF WriterOK
    <2>3. err' \in {W!None, "short", "other"}
        BY <1>5 DEF WriterOK
    <2>4. buf' = W!Given(0)
        BY <1>5, WriterGiven, EmptySeq
    <2> QED
        BY <1>1, <1>5, <2>1, <2>2, <2>3, <2>4, WriterSends
<1>6. CASE /\ W!Underlying(buf, Len(buf), W!None) /\ UNCHANGED err
           /\ ~(size < UTFMax) /\ buf' = W!Given(k) /\ W!Accept(k)
           /\ W!Returns("WriteRune", W!None)
    <2>1. call'.n \in Nat /\ ret' = [op |-> "WriteRune", err |-> W!None]
        BY <1>6, WriterSizes DEF W!Returns
    <2>2. wire' = wire \o buf /\ accepted' = accepted + k
        BY <1>6, WriterSentAll DEF W!Accept
    <2>3. err' \in {W!None, "short", "other"} /\ ret' # [op |-> "Flush", err |-> W!None]
        BY <1>6, <2>1 DEF WriterOK
    <2>4. k <= size
        BY <1>1, <1>6, WriterSizes, SizesAssumption DEF W!WriterAssumption
    <2> QED
        BY <1>1, <1>6, <2>1, <2>2, <2>3, <2>4, WriterSends
<1> QED
    BY <1>2, <1>3, <1>4, <1>5, <1>6 DEF W!WriteRune

LEMMA WriterReadFrom ==
    ASSUME WriterOK, W!ReadFrom
    PROVE  WriterOK'
<1>1. UNCHANGED size
    BY DEF W!ReadFrom
<1>2. CASE W!Fails("ReadFrom", err)
    BY <1>1, <1>2, WriterFails
<1>3. CASE W!ReadFromDirectly
    <2>1. PICK n \in 0..(MaxBytes - accepted), e \in {W!None, "other"} :
            /\ W!Accept(n) /\ wire' = wire \o W!Given(n)
            /\ err' = e /\ W!Returns("ReadFrom", e)
        BY <1>3 DEF W!ReadFromDirectly
    <2>2. buf = <<>> /\ buf' = <<>>
        BY <1>3 DEF W!ReadFromDirectly
    <2>3. n \in Nat
        OBVIOUS
    <2>4. call'.n \in Nat /\ accepted' = accepted + n
        BY <2>1, WriterSizes DEF W!Returns, W!Accept
    <2> QED
        BY <1>1, <2>1, <2>2, <2>3, <2>4, WriterSends
<1>4. CASE W!ReadInto
    <2>1. PICK n \in 0..W!Available, e \in {W!None, "EOF", "other"} :
            /\ W!Accept(n)
            /\ \/ /\ n > 0 /\ e = W!None /\ W!Again("ReadFrom", 0)
                  /\ buf' = buf \o W!Given(n) /\ UNCHANGED <<err, wire>>
               \/ /\ e = "other" /\ W!Returns("ReadFrom", e)
                  /\ buf' = buf \o W!Given(n) /\ UNCHANGED <<err, wire>>
               \/ /\ e = "EOF" /\ W!Returns("ReadFrom", W!None)
                  /\ buf' = buf \o W!Given(n) /\ UNCHANGED <<err, wire>>
               \/ /\ e = "EOF" /\ W!FlushOf(buf \o W!Given(n)) /\ W!Returns("ReadFrom", err')
        BY <1>4 DEF W!ReadInto
    <2>2. n \in Nat /\ Len(buf) + n <= size
        BY WriterSizes
    <2>3. err = W!None /\ accepted' = accepted + n
        BY <1>4, <2>1 DEF W!ReadInto, W!Accept
    <2>4. call'.n \in Nat
        BY <2>1, WriterSizes DEF W!Returns, W!Again
    <2>5. call' # W!Idle \/ ret'.op = "ReadFrom"
        BY <2>1, WriterSizes DEF W!Returns, W!Again, W!None
    <2>6. ~(ret' = [op |-> "Flush", err |-> W!None] /\ call' = W!Idle)
        BY <2>5
    <2>7. \/ buf' = buf \o W!Given(n) /\ UNCHANGED <<err, wire>>
          \/ err = W!None /\ W!FlushOf(buf \o W!Given(n))
        BY <2>1, <2>3
    <2> QED
        BY <1>1, <2>2, <2>3, <2>4, <2>6, <2>7, WriterTurn
<1>5. CASE /\ err = W!None /\ W!FlushOf(buf) /\ UNCHANGED accepted
           /\ IF err' = W!None THEN W!Again("ReadFrom", 0) ELSE W!Returns("ReadFrom", err')
    <2>1. call'.n \in Nat
        BY <1>5, WriterSizes DEF W!Returns, W!Again
    <2>2. err' # W!None => ret' = [op |-> "ReadFrom", err |-> err']
        BY <1>5 DEF W!Returns
    <2>3. ret' = [op |-> "Flush", err |-> W!None] => err' = W!None
        BY <2>2
    <2> QED
        BY <1>1, <1>5, <2>1, <2>3, WriterFlushes
<1> QED
    BY <1>2, <1>3, <1>4, <1>5 DEF W!ReadFrom

LEMMA WriterStepOK ==
    ASSUME WriterOK, W!Calls
    PROVE  WriterOK'
<1>1. ASSUME NEW n \in 0..MaxBytes, W!Write(n) PROVE WriterOK'
    <2>1. UNCHANGED size /\ n \in Nat
        BY <1>1 DEF W!Write
    <2> QED
        BY <1>1, <2>1, WriterFails, WriterFits, WriterWriteDirectly, WriterFillAndFlush DEF W!Write
<1>2. ASSUME NEW n \in 0..MaxBytes, W!WriteString(n) PROVE WriterOK'
    <2>1. UNCHANGED size /\ n \in Nat
        BY <1>2 DEF W!WriteString
    <2> QED
        BY <1>2, <2>1, WriterFails, WriterFits, WriterFillAndFlush DEF W!WriteString
<1>3. CASE W!Flush
    <2>1. call'.n \in Nat /\ ret' = [op |-> "Flush", err |-> err'] /\ UNCHANGED <<size, accepted>>
        BY <1>3, WriterSizes DEF W!Flush, W!Returns
    <2>2. CASE err = W!None
        BY <1>3, <2>1, <2>2, WriterFlushes DEF W!Flush
    <2>3. CASE err # W!None
        BY <1>3, <2>1, <2>3 DEF W!Flush, WriterOK
    <2> QED
        BY <2>2, <2>3
<1>4. CASE W!Reset
    <2>1. <<>> \in Seq(Positions) /\ <<>> \o <<>> = <<>> /\ Len(<<>>) = 0 /\ Bytes(0, 0) = <<>>
        BY BytesType, EmptySeq DEF Positions
    <2>2. call'.n \in Nat
        BY <1>4, WriterSizes DEF W!Reset, W!Returns
    <2> QED
        BY <1>4, <2>1, <2>2, WriterSizes DEF W!Reset, WriterOK
<1> QED
    BY <1>1, <1>2, <1>3, <1>4, WriterWriteByte, WriterWriteRune, WriterReadFrom DEF W!Calls

LEMMA WriterStepInv == WriterInv /\ [Next]_vars => WriterInv'
<1> SUFFICES ASSUME WriterInv, [Next]_vars, which' = "writer" PROVE WriterOK'
    BY DEF WriterInv
<1>1. CASE WriterStep
    BY <1>1, WriterStepOK DEF WriterStep, WriterInv
<1>2. CASE UNCHANGED vars
    BY <1>2 DEF vars, shared, writerOnly, WriterInv, WriterOK
<1> QED
    BY <1>1, <1>2 DEF Next, ReaderStep, BufferStep, TextStep, CopyStep

\* A call that finds an error makes no other step than to fail.
LEMMA WriterErrorStep ==
    ASSUME W!Calls
    PROVE  W!ErrorStep
<1> SUFFICES ASSUME err # W!None, ret'.op # "Reset"
             PROVE  UNCHANGED <<err, accepted, wire>> /\ (call' = W!Idle => ret'.err = err)
    BY DEF W!ErrorStep
<1>1. ASSUME NEW op, W!Fails(op, err)
      PROVE  UNCHANGED <<err, accepted, wire>> /\ (call' = W!Idle => ret'.err = err)
    BY <1>1 DEF W!Fails, W!Returns
<1>2. ASSUME NEW n, W!Write(n) PROVE W!Fails("Write", err)
    BY <1>2 DEF W!Write, W!Fits, W!WriteDirectly, W!FillAndFlush
<1>3. ASSUME NEW n, W!WriteString(n) PROVE W!Fails("WriteString", err)
    BY <1>3 DEF W!WriteString, W!Fits, W!FillAndFlush
<1>4. ASSUME NEW k, W!WriteRune(k) PROVE W!Fails("WriteRune", err)
    BY <1>4 DEF W!WriteRune, W!Fits
<1>5. CASE W!WriteByte
    <2>1. W!Fails("WriteByte", err)
        BY <1>5 DEF W!WriteByte, W!Fits
    <2> QED
        BY <1>1, <2>1
<1>6. CASE W!ReadFrom
    <2>1. W!Fails("ReadFrom", err)
        BY <1>6 DEF W!ReadFrom, W!ReadFromDirectly, W!ReadInto
    <2> QED
        BY <1>1, <2>1
<1>7. CASE W!Flush
    BY <1>7 DEF W!Flush, W!Returns
<1>8. CASE W!Reset
    BY <1>8 DEF W!Reset, W!Returns
<1> QED
    BY <1>1, <1>2, <1>3, <1>4, <1>5, <1>6, <1>7, <1>8 DEF W!Calls

\* After an error of the underlying writer a bufio.Writer accepts and sends
\* nothing more, and every call returns that error, until a Reset (bufio.go,
\* the comment of Writer).
THEOREM WriterErrorSticks == Spec => ErrorSticks
<1>1. [Next]_vars => [which = "writer" => W!ErrorStep]_vars
    <2> SUFFICES ASSUME [Next]_vars, ~UNCHANGED vars, which = "writer" PROVE W!ErrorStep
        OBVIOUS
    <2> QED
        BY WriterErrorStep DEF Next, ReaderStep, WriterStep, BufferStep, TextStep, CopyStep
<1> QED
    BY <1>1, PTL DEF Spec, ErrorSticks

-----------------------------------------------------------------------------
(* bytes.Buffer.                                                           *)

\* The places of b behind o hold the bytes written and not taken, those before
\* it the bytes taken last.
Contents(b, o) ==
    /\ b \in Seq(Positions) /\ o \in 0..Len(b) /\ o <= taken
    /\ Len(b) - o = written - taken
    /\ \A i \in 1..Len(b) : b[i] = taken + (i - o)

\* lastRead tells what may be put back.
BufferReads == {"Read", "Next", "ReadByte", "ReadRune", "ReadBytes"}
BufferWrites == {"Write", "WriteRune", "ReadFrom", "WriteTo", "Truncate", "UnreadByte"}
Marked ==
    /\ lastRead \in Int
    /\ ret.op \in BufferReads /\ ret.err = B!None =>
        IF ret.data = <<>> THEN lastRead = 0 ELSE lastRead # 0 /\ off >= 1
    /\ ret.op = "ReadRune" /\ ret.data # <<>> => lastRead = Len(ret.data) /\ lastRead \in 1..off
    /\ ret.op \in BufferWrites => lastRead = 0
    /\ lastRead > 0 => ret.op \in {"ReadRune", "Grow"}

BufferOK ==
    /\ taken \in Nat /\ written \in Nat
    /\ Contents(buf, off)
    /\ Len(ret.data) \in Nat
    /\ ret.data = Bytes(taken - Len(ret.data), Len(ret.data))
BufferInv == which = "buffer" => BufferOK /\ Marked

LEMMA BufferWindow ==
    ASSUME BufferOK
    PROVE  /\ Len(buf) \in Nat /\ off \in Nat /\ off <= Len(buf) /\ taken <= written
           /\ Len(B!Window) = Len(buf) - off /\ Len(B!Window) = written - taken
           /\ Len(B!Window) \in Nat
           /\ B!Window = Bytes(taken, written - taken)
           /\ B!Window = <<>> <=> written = taken
<1>1. Len(buf) \in Nat /\ off \in Nat /\ off <= Len(buf) /\ taken <= written
    BY DEF BufferOK, Contents
<1>2. B!Window = [i \in 1..(Len(buf) - off) |-> buf[off + i]]
    BY <1>1 DEF B!Window, B!Slice
<1>3. \A i \in 1..(Len(buf) - off) : buf[off + i] = taken + i
    <2> SUFFICES ASSUME NEW i \in 1..(Len(buf) - off) PROVE buf[off + i] = taken + i
        OBVIOUS
    <2>1. off + i \in (off + 1)..Len(buf) /\ taken + ((off + i) - off) = taken + i
        BY <1>1 DEF BufferOK
    <2> QED
        BY <2>1 DEF BufferOK, Contents
<1>4. B!Window = Bytes(taken, written - taken)
    BY <1>1, <1>2, <1>3 DEF Bytes, BufferOK, Contents
<1>5. written - taken \in Nat /\ Len(buf) - off = written - taken /\ taken \in Nat
    BY <1>1 DEF BufferOK, Contents
<1>6. Len(B!Window) = written - taken /\ B!Window \in Seq(Positions)
    BY <1>4, <1>5, BytesType
<1>7. B!Window = <<>> <=> written = taken
    <2>1. B!Window = <<>> <=> Len(B!Window) = 0
        BY <1>6, EmptySeq
    <2>2. written - taken = 0 <=> written = taken
        BY <1>1 DEF BufferOK
    <2> QED
        BY <1>6, <2>1, <2>2
<1> QED
    BY <1>1, <1>4, <1>5, <1>6, <1>7

LEMMA BufferInit == Init => BufferInv
<1> SUFFICES ASSUME B!Init PROVE BufferOK /\ Marked
    BY DEF Init, BufferInv
<1>1. written \in Nat /\ taken = 0 /\ off = 0 /\ buf = Bytes(0, written)
    BY SizesAssumption, SameBytes DEF B!Init, B!BufferAssumption
<1>2. buf \in Seq(Positions) /\ Len(buf) = written /\ \A i \in 1..written : buf[i] = 0 + i
    BY <1>1, BytesType
<1>3. Contents(buf, off)
    BY <1>1, <1>2 DEF Contents
<1>4. ret.data = <<>> /\ Len(ret.data) = 0 /\ Bytes(0, 0) = <<>>
    BY BytesType DEF B!Init
<1>5. Marked
    BY DEF B!Init, Marked, BufferReads, BufferWrites, B!None, B!opInvalid
<1> QED
    BY <1>1, <1>3, <1>4, <1>5 DEF BufferOK

\* A call that returns nothing has only to keep the contents.
LEMMA BufferReturnsNothing ==
    ASSUME NEW op, NEW e, B!Returns(op, <<>>, e), taken' \in Nat, written' \in Nat,
           Contents(buf, off)'
    PROVE  BufferOK'
<1>1. ret'.data = <<>> /\ Len(<<>>) = 0 /\ Bytes(taken', 0) = <<>>
    BY BytesType DEF B!Returns
<1>2. \A n \in Nat : n - 0 = n
    OBVIOUS
<1> QED
    BY <1>1, <1>2 DEF BufferOK

LEMMA BufferGrown ==
    ASSUME BufferOK, NEW n
    PROVE  /\ Contents(B!Grown(n).buf, B!Grown(n).off)
           /\ B!Grown(n).reset => written = taken
<1> DEFINE reset == Len(B!Window) = 0 /\ off # 0
           used == IF reset THEN <<>> ELSE buf
           room == IF reset THEN 0 ELSE off
<1>1. Contents(buf, off) /\ taken \in Nat
    BY DEF BufferOK
<1>2. reset => written = taken
    BY BufferWindow DEF BufferOK
<1>3. Contents(used, room)
    <2>1. CASE reset
        <3>1. written - taken = 0
            BY <1>2, <2>1 DEF BufferOK
        <3>2. <<>> \in Seq(Positions) /\ Len(<<>>) = 0 /\ 0 - 0 = written - taken /\ 0 <= taken
            BY <1>1, <3>1, EmptySeq
        <3> QED
            BY <2>1, <3>2 DEF Contents
    <2>2. CASE ~reset
        BY <1>1, <2>2
    <2> QED
        BY <2>1, <2>2
<1>4. Contents(B!Window, 0)
    <2>1. written - taken \in Nat
        BY BufferWindow DEF BufferOK
    <2>2. /\ B!Window \in Seq(Positions) /\ Len(B!Window) = written - taken
          /\ \A i \in 1..(written - taken) : B!Window[i] = taken + i
        <3> DEFINE k == written - taken
        <3>1. /\ Bytes(taken, k) \in Seq(Positions) /\ Len(Bytes(taken, k)) = k
              /\ \A i \in 1..k : Bytes(taken, k)[i] = taken + i
            BY <1>1, <2>1, BytesType
        <3>2. B!Window = Bytes(taken, k)
            BY BufferWindow
        <3> HIDE DEF k
        <3>3. /\ B!Window \in Seq(Positions) /\ Len(B!Window) = k
              /\ \A i \in 1..k : B!Window[i] = taken + i
            BY <3>1, <3>2
        <3> QED
            BY <3>3 DEF k
    <2>3. ASSUME NEW i \in 1..(written - taken) PROVE B!Window[i] = taken + (i - 0)
        <3>1. i - 0 = i
            BY <2>1
        <3> QED
            BY <2>2, <3>1
    <2>4. 0 \in 0..(written - taken) /\ 0 <= taken /\ (written - taken) - 0 = written - taken
        BY <1>1, <2>1
    <2> HIDE DEF B!Window
    <2> QED
        BY <2>2, <2>3, <2>4 DEF Contents
<1>5. \/ B!Grown(n).buf = used /\ B!Grown(n).off = room /\ B!Grown(n).reset = reset
      \/ B!Grown(n).buf = B!Window /\ B!Grown(n).off = 0 /\ B!Grown(n).reset = reset
    BY DEF B!Grown
<1> QED
    BY <1>2, <1>3, <1>4, <1>5

LEMMA BufferRoom ==
    ASSUME BufferOK, NEW n
    PROVE  /\ Contents(B!Room(n).buf, B!Room(n).off)
           /\ B!Room(n).reset => written = taken
BY BufferGrown DEF B!Room, BufferOK

LEMMA BufferPut ==
    ASSUME BufferOK, NEW room, Contents(room.buf, room.off), NEW n \in Nat,
           B!Put(room, B!Given(n)), UNCHANGED taken
    PROVE  Contents(buf, off)' /\ written' \in Nat
<1> DEFINE b == room.buf
           o == room.off
           g == B!Given(n)
<1>1. g \in Seq(Positions) /\ Len(g) = n /\ \A i \in 1..n : g[i] = written + i
    BY SameBytes, BytesType DEF B!Given, BufferOK
<1>2. buf' = b \o g /\ off' = o /\ written' = written + n
    BY <1>1 DEF B!Put
<1>3. /\ b \in Seq(Positions) /\ o \in 0..Len(b) /\ o <= taken /\ Len(b) - o = written - taken
      /\ \A i \in 1..Len(b) : b[i] = taken + (i - o)
    BY DEF Contents
<1>4. taken \in Nat /\ written \in Nat
    BY DEF BufferOK
<1> HIDE DEF b, o, g
<1>5. Len(b) \in Nat
    BY <1>3, LenProperties
<1>6. /\ b \o g \in Seq(Positions) /\ Len(b \o g) = Len(b) + n
      /\ \A i \in 1..(Len(b) + n) : (b \o g)[i] = IF i <= Len(b) THEN b[i] ELSE g[i - Len(b)]
    BY <1>1, <1>3, Joined
<1>7. ASSUME NEW i \in 1..(Len(b) + n) PROVE (b \o g)[i] = taken + (i - o)
    <2>1. i \in 1..(Len(b) + n) /\ i \in Nat
        BY <1>3, <1>5
    <2>2. CASE i <= Len(b)
        BY <1>3, <1>5, <1>6, <2>1, <2>2
    <2>3. CASE i > Len(b)
        <3>1. i - Len(b) \in 1..n
            BY <1>5, <2>1, <2>3
        <3>2. (b \o g)[i] = written + (i - Len(b))
            BY <1>1, <1>5, <1>6, <2>1, <2>3, <3>1
        <3>3. Len(b) \in Int /\ o \in Int /\ i \in Int /\ taken \in Int /\ written \in Int
            BY <1>3, <1>4, <1>5, <2>1
        <3>4. Len(b) - o = written - taken
            BY <1>3
        <3>5. written + (i - Len(b)) = taken + (i - o)
            BY ONLY <3>3, <3>4
        <3> QED
            BY <3>2, <3>5
    <2>4. i <= Len(b) \/ i > Len(b)
        BY <1>5, <2>1
    <2> QED
        BY <2>2, <2>3, <2>4
<1>8. written' \in Nat /\ o \in 0..(Len(b) + n) /\ Len(b) + n - o = written' - taken
    <2>1. /\ n \in Nat /\ Len(b) \in Nat /\ o \in Nat /\ o <= Len(b) /\ taken \in Nat
          /\ written \in Nat /\ Len(b) - o = written - taken /\ written' = written + n
        BY <1>2, <1>3, <1>4, <1>5
    <2> QED
        BY ONLY <2>1
<1>9. Len(buf') = Len(b) + n /\ buf' \in Seq(Positions)
    BY <1>2, <1>6
<1>10. \A i \in 1..Len(buf') : buf'[i] = taken' + (i - off')
    BY <1>2, <1>7, <1>9
<1>11. off' \in 0..Len(buf') /\ off' <= taken' /\ Len(buf') - off' = written' - taken'
    BY <1>2, <1>3, <1>8, <1>9
<1> QED
    BY <1>8, <1>9, <1>10, <1>11 DEF Contents

LEMMA BufferTooLarge ==
    ASSUME BufferOK, NEW op, NEW room, room.reset => written = taken, B!TooLarge(op, room),
           UNCHANGED taken
    PROVE  BufferOK'
<1>1. B!Returns(op, <<>>, "ErrTooLarge") /\ UNCHANGED written
    BY DEF B!TooLarge
<1>2. Contents(buf, off) /\ taken \in Nat /\ written \in Nat
    BY DEF BufferOK
<1>3. Contents(buf, off)'
    <2>1. CASE room.reset
        <3>1. buf' = <<>> /\ off' = 0 /\ <<>> \in Seq(Positions) /\ Len(<<>>) = 0
            BY <2>1, EmptySeq DEF B!TooLarge
        <3>2. written' - taken' = 0 - 0 /\ 0 <= taken'
            BY <1>1, <1>2, <2>1
        <3> QED
            BY <3>1, <3>2 DEF Contents
    <2>2. CASE ~room.reset
        BY <1>1, <1>2, <2>2 DEF B!TooLarge, Contents
    <2> QED
        BY <2>1, <2>2
<1> QED
    BY <1>1, <1>2, <1>3, BufferReturnsNothing

\* The first n bytes of the contents go to the caller, of a call that may or
\* may not be undone.
LEMMA BufferTake ==
    ASSUME BufferOK, NEW n \in 0..Len(B!Window), NEW op, NEW last, NEW e,
           off' = off + n, taken' = taken + n, lastRead' = last,
           B!Returns(op, SubSeq(B!Window, 1, n), e), UNCHANGED <<written, buf>>
    PROVE  /\ BufferOK' /\ ret'.op = op /\ ret'.err = e /\ Len(ret'.data) = n
           /\ ret'.data = <<>> <=> n = 0
           /\ off' \in Nat /\ n <= off'
<1>1. taken \in Nat /\ written \in Nat /\ Contents(buf, off)
    BY DEF BufferOK
<1>2. /\ Len(buf) \in Nat /\ off \in Nat /\ off <= Len(buf) /\ n <= Len(buf) - off
      /\ n \in Nat /\ n <= written - taken /\ Len(buf) - off = written - taken
    BY BufferWindow
<1>3. SubSeq(B!Window, 1, n) = Bytes(taken, n)
    <2>1. B!Window = Bytes(taken, written - taken)
        BY BufferWindow
    <2>2. SubSeq(Bytes(taken, written - taken), 1, n) = Bytes(taken, n)
        BY <1>1, <1>2 DEF Bytes
    <2> QED
        BY <2>1, <2>2
<1>4. ret'.data = Bytes(taken, n) /\ Len(ret'.data) = n /\ ret'.op = op
    <2>1. ret'.data = SubSeq(B!Window, 1, n) /\ ret'.op = op
        BY DEF B!Returns
    <2>2. Len(Bytes(taken, n)) = n
        BY <1>1, <1>2, BytesType
    <2> QED
        BY <1>3, <2>1, <2>2
<1>5. \A i \in 1..Len(buf) : buf[i] = taken + (i - off)
    BY <1>1 DEF Contents
<1>6. Contents(buf, off)'
    <2>1. ASSUME NEW i \in 1..Len(buf) PROVE buf[i] = taken' + (i - off')
        <3>1. taken + (i - off) = taken' + (i - off')
            BY <1>1, <1>2
        <3> QED
            BY <1>5, <3>1
    <2>2. off' \in 0..Len(buf') /\ off' <= taken' /\ Len(buf') - off' = written' - taken'
        BY <1>1, <1>2 DEF Contents
    <2>3. buf' \in Seq(Positions)
        BY <1>1 DEF Contents
    <2> QED
        BY <2>1, <2>2, <2>3 DEF Contents
<1>7. ret'.err = e /\ (ret'.data = <<>> <=> n = 0) /\ off' \in Nat /\ n <= off'
    <2>1. ret'.err = e /\ off' \in Nat /\ n <= off'
        BY <1>2 DEF B!Returns
    <2>2. Bytes(taken, 0) = <<>> /\ (n # 0 => Bytes(taken, n) # <<>>)
        BY <1>1, <1>2, RunFacts
    <2> QED
        BY <1>4, <2>1, <2>2
<1>8. taken' - n = taken /\ taken' \in Nat /\ written' \in Nat
    BY <1>1, <1>2
<1> QED
    BY <1>2, <1>4, <1>6, <1>7, <1>8 DEF BufferOK

\* How many bytes a read takes.
LEMMA BufferCounts ==
    ASSUME BufferOK
    PROVE  /\ \A n \in Nat : B!AtMost(n) \in 0..Len(B!Window)
           /\ B!Window # <<>> => /\ 1 \in 0..Len(B!Window)
                                /\ B!RuneSize(kind, B!Window) \in 0..Len(B!Window)
                                /\ B!RuneSize(kind, B!Window) # 0
           /\ B!IndexByte(kind, B!Window, "nl") \in 0..Len(B!Window)
<1>1. /\ taken \in Nat /\ written - taken \in Nat /\ B!Window = Bytes(taken, written - taken)
      /\ Len(B!Window) \in Nat /\ Len(B!Window) = written - taken
      /\ B!Window = <<>> <=> written = taken
    BY BufferWindow DEF BufferOK
<1>2. B!Window \in Seq(Positions)
    BY <1>1, BytesType
<1>3. B!IndexByte(kind, B!Window, "nl") = IndexByte(kind, B!Window, "nl")
    BY DEF B!IndexByte, IndexByte
<1>4. IndexByte(kind, B!Window, "nl") \in 0..Len(B!Window)
    BY <1>2, IndexByteIs
<1>5. written \in Nat /\ taken \in Nat
    BY DEF BufferOK
<1> HIDE DEF B!Window
<1>6. B!Window # <<>> => Len(B!Window) >= 1
    BY <1>1, <1>5
<1>7. ASSUME NEW n \in Nat PROVE B!AtMost(n) \in 0..Len(B!Window)
    BY <1>1 DEF B!AtMost
<1>8. B!Window # <<>> => /\ B!RuneSize(kind, B!Window) \in 0..Len(B!Window)
                         /\ B!RuneSize(kind, B!Window) # 0
    BY <1>1, <1>6 DEF B!RuneSize
<1> QED
    BY <1>1, <1>3, <1>4, <1>6, <1>7, <1>8

LEMMA BufferPutStep ==
    ASSUME BufferOK, NEW room, Contents(room.buf, room.off), NEW n \in Nat,
           B!Put(room, B!Given(n)), UNCHANGED taken, NEW op, NEW e, B!Returns(op, <<>>, e)
    PROVE  BufferOK'
<1>1. Contents(buf, off)' /\ written' \in Nat
    BY BufferPut
<1>2. taken' \in Nat
    BY DEF BufferOK
<1> QED
    BY <1>1, <1>2, BufferReturnsNothing

LEMMA BufferWriteCall ==
    ASSUME BufferOK, NEW op, NEW reserve, NEW n \in Nat, B!WriteCall(op, reserve, n)
    PROVE  BufferOK'
<1>1. Contents(B!Room(reserve).buf, B!Room(reserve).off) /\ (B!Room(reserve).reset => written = taken)
    BY BufferRoom
<1>2. UNCHANGED taken
    BY DEF B!WriteCall
<1>3. CASE B!Put(B!Room(reserve), B!Given(n)) /\ B!Returns(op, <<>>, B!None)
    BY <1>1, <1>2, <1>3, BufferPutStep
<1>4. CASE B!TooLarge(op, B!Room(reserve))
    BY <1>1, <1>2, <1>4, BufferTooLarge
<1> QED
    BY <1>3, <1>4 DEF B!WriteCall

LEMMA BufferGrow ==
    ASSUME BufferOK, NEW n, B!Grow(n)
    PROVE  BufferOK'
<1>1. Contents(B!Grown(n).buf, B!Grown(n).off) /\ (B!Grown(n).reset => written = taken)
    BY BufferGrown
<1>2. UNCHANGED taken
    BY DEF B!Grow
<1>3. CASE B!Put(B!Grown(n), <<>>) /\ B!Returns("Grow", <<>>, B!None)
    <2>1. B!Given(0) = <<>>
        BY SameBytes, BytesType DEF B!Given, BufferOK
    <2>2. B!Put(B!Grown(n), B!Given(0))
        BY <1>3, <2>1
    <2> QED
        BY <1>1, <1>2, <1>3, <2>2, BufferPutStep
<1>4. CASE B!TooLarge("Grow", B!Grown(n))
    BY <1>1, <1>2, <1>4, BufferTooLarge
<1> QED
    BY <1>3, <1>4 DEF B!Grow

LEMMA BufferReadFrom ==
    ASSUME BufferOK, B!ReadFrom
    PROVE  BufferOK'
<1> DEFINE room == B!Grown(MinRead)
<1>1. Contents(room.buf, room.off) /\ (room.reset => written = taken)
    BY BufferGrown
<1>2. UNCHANGED taken
    BY DEF B!ReadFrom
<1>3. CASE B!TooLarge("ReadFrom", room)
    BY <1>1, <1>2, <1>3, BufferTooLarge
<1>4. ASSUME NEW n \in 0..(room.cap - Len(room.buf)), NEW e \in {B!None, "other"},
             B!Put(room, B!Given(n)), B!Returns("ReadFrom", <<>>, e)
      PROVE  BufferOK'
    <2>1. n \in Nat
        OBVIOUS
    <2> HIDE DEF room
    <2> QED
        BY <1>1, <1>2, <1>4, <2>1, BufferPutStep
<1> QED
    BY <1>3, <1>4 DEF B!ReadFrom

LEMMA BufferAtEOF ==
    ASSUME BufferOK, NEW op, NEW e, B!AtEOF(op, e)
    PROVE  BufferOK'
<1>1. /\ B!Window = <<>> /\ buf' = <<>> /\ off' = 0 /\ B!Returns(op, <<>>, e)
      /\ UNCHANGED <<written, taken>>
    BY DEF B!AtEOF, B!Empty
<1>2. written - taken = 0 /\ taken \in Nat /\ written \in Nat
    BY <1>1, BufferWindow DEF BufferOK
<1>3. <<>> \in Seq(Positions) /\ Len(<<>>) = 0
    BY EmptySeq
<1>4. Contents(buf, off)'
    BY <1>1, <1>2, <1>3 DEF Contents
<1> QED
    BY <1>1, <1>2, <1>4, BufferReturnsNothing

\* The reads that may be undone.
LEMMA BufferRead ==
    ASSUME BufferOK, NEW op \in BufferReads, NEW n \in 0..Len(B!Window), NEW last, NEW e,
           B!Take(op, n, last, e)
    PROVE  /\ BufferOK'
           /\ /\ e = B!None \/ op = "ReadRune" =>
                    last = IF n = 0 THEN 0 ELSE IF op = "ReadRune" THEN n ELSE -1
              /\ last \in {-1, 0, n}
              /\ last = n /\ n > 0 => op = "ReadRune"
              => Marked'
<1>1. /\ off' = off + n /\ taken' = taken + n /\ lastRead' = last
      /\ B!Returns(op, SubSeq(B!Window, 1, n), e) /\ UNCHANGED <<written, buf>>
    BY DEF B!Take
<1>2. /\ BufferOK' /\ ret'.op = op /\ ret'.err = e /\ Len(ret'.data) = n
      /\ ret'.data = <<>> <=> n = 0
      /\ off' \in Nat /\ n <= off'
    BY <1>1, BufferTake
<1>3. n \in Nat
    BY BufferWindow
<1>4. SUFFICES ASSUME e = B!None \/ op = "ReadRune" =>
                        last = IF n = 0 THEN 0 ELSE IF op = "ReadRune" THEN n ELSE -1,
                      last \in {-1, 0, n}, last = n /\ n > 0 => op = "ReadRune"
               PROVE  Marked'
    BY <1>2
<1>5. lastRead' \in Int /\ lastRead' = last
    BY <1>1, <1>3, <1>4
<1>6. op \notin BufferWrites
    BY DEF BufferReads, BufferWrites
<1>7. e = B!None => IF n = 0 THEN lastRead' = 0 ELSE lastRead' # 0 /\ off' >= 1
    BY <1>2, <1>3, <1>4, <1>5
<1>8. op = "ReadRune" /\ n # 0 => lastRead' = n /\ lastRead' \in 1..off'
    BY <1>2, <1>3, <1>4, <1>5
<1>9. lastRead' > 0 => op = "ReadRune"
    BY <1>3, <1>4, <1>5
<1> QED
    BY <1>2, <1>5, <1>6, <1>7, <1>8, <1>9 DEF Marked

\* A call after which nothing may be put back.
LEMMA Unmarked ==
    ASSUME lastRead' = 0, ret'.op \in BufferReads => ret'.data = <<>>
    PROVE  Marked'
BY DEF Marked, BufferReads

LEMMA BufferWriteTo ==
    ASSUME BufferOK, B!WriteTo
    PROVE  BufferOK'
<1>1. PICK n \in 0..Len(B!Window), e \in {B!None, "other"} :
        /\ taken' = taken + n
        /\ B!Returns("WriteTo", SubSeq(B!Window, 1, n), IF n < Len(B!Window) THEN "other" ELSE e)
        /\ IF ret'.err = B!None THEN B!Empty
           ELSE lastRead' = B!opInvalid /\ off' = off + n /\ UNCHANGED buf
        /\ UNCHANGED <<kind, written, cap>>
    BY DEF B!WriteTo
<1>3. CASE ret'.err # B!None
    BY <1>1, <1>3, BufferTake
<1>4. CASE ret'.err = B!None
    <2>1. n = Len(B!Window)
        BY <1>1, <1>4, BufferWindow DEF B!Returns, B!None
    <2>2. taken \in Nat /\ written \in Nat /\ n = written - taken /\ n \in Nat
        BY <2>1, BufferWindow DEF BufferOK
    <2>3. taken' = written /\ taken' - n = taken /\ written' = written
        BY <1>1, <2>2
    <2>4. ret'.data = Bytes(taken, n) /\ Len(Bytes(taken, n)) = n
        <3>1. B!Window = Bytes(taken, n) /\ Bytes(taken, n) \in Seq(Positions)
              /\ Len(Bytes(taken, n)) = n
            BY <2>2, BufferWindow, BytesType
        <3>2. SubSeq(Bytes(taken, n), 1, n) = Bytes(taken, n)
            BY <3>1, SubSeqFull
        <3> QED
            BY <1>1, <3>1, <3>2 DEF B!Returns
    <2>5. buf' = <<>> /\ off' = 0 /\ <<>> \in Seq(Positions) /\ Len(<<>>) = 0
        BY <1>1, <1>4, EmptySeq DEF B!Empty
    <2>6. written' - taken' = 0 /\ 0 <= taken'
        BY <2>2, <2>3
    <2>7. Contents(buf, off)'
        BY <2>5, <2>6 DEF Contents
    <2> QED
        BY <2>2, <2>3, <2>4, <2>7 DEF BufferOK
<1> QED
    BY <1>3, <1>4

LEMMA BufferTruncate ==
    ASSUME BufferOK, NEW n \in Nat, B!Truncate(n)
    PROVE  BufferOK'
<1>1. UNCHANGED taken /\ taken \in Nat /\ written \in Nat /\ Contents(buf, off)
    BY DEF B!Truncate, BufferOK
<1>2. CASE n = 0 /\ B!Empty /\ written' = taken /\ B!Returns("Truncate", <<>>, B!None)
    <2>1. <<>> \in Seq(Positions) /\ Len(<<>>) = 0 /\ 0 - 0 = written' - taken' /\ 0 <= taken'
        BY <1>1, <1>2, EmptySeq
    <2>2. Contents(buf, off)'
        BY <1>2, <2>1 DEF Contents, B!Empty
    <2> QED
        BY <1>1, <1>2, <2>2, BufferReturnsNothing
<1>3. CASE UNCHANGED <<off, buf, written>> /\ B!Returns("Truncate", <<>>, "panic")
    <2>1. Contents(buf, off)'
        BY <1>1, <1>3 DEF Contents
    <2> QED
        BY <1>1, <1>3, <2>1, BufferReturnsNothing
<1>4. CASE /\ n > 0 /\ ~(n > Len(B!Window)) /\ UNCHANGED off /\ buf' = SubSeq(buf, 1, off + n)
           /\ written' = taken + n /\ B!Returns("Truncate", <<>>, B!None)
    <2>1. Len(buf) \in Nat /\ off \in Nat /\ off + n \in 0..Len(buf) /\ buf \in Seq(Positions)
        BY <1>4, BufferWindow DEF BufferOK, Contents
    <2>2. SubSeq(buf, 1, off + n) \in Seq(Positions) /\ Len(SubSeq(buf, 1, off + n)) = off + n
        BY <2>1, Split
    <2>3. \A i \in 1..(off + n) : SubSeq(buf, 1, off + n)[i] = buf[i]
        BY <2>1
    <2>4. \A i \in 1..(off + n) : buf'[i] = taken + (i - off)
        BY <1>1, <1>4, <2>1, <2>3 DEF Contents
    <2>5. /\ off' \in 0..(off + n) /\ off' <= taken' /\ off + n - off' = written' - taken'
          /\ written' \in Nat
        BY <1>1, <1>4, <2>1 DEF Contents
    <2>6. Contents(buf, off)'
        BY <1>1, <1>4, <2>2, <2>4, <2>5 DEF Contents
    <2> QED
        BY <1>1, <1>4, <2>5, <2>6, BufferReturnsNothing
<1> QED
    BY <1>2, <1>3, <1>4 DEF B!Truncate

LEMMA BufferUnread ==
    ASSUME BufferOK, NEW op, NEW n \in Nat, B!Unread(op, n)
    PROVE  BufferOK'
<1> DEFINE back == IF off >= n THEN n ELSE 0
<1>1. /\ UNCHANGED <<written, buf>> /\ taken' = taken - back /\ off' = off - back
      /\ B!Returns(op, <<>>, B!None)
    BY DEF B!Unread
<1>2. /\ taken \in Nat /\ written \in Nat /\ off <= taken
      /\ Len(buf) \in Nat /\ off \in Nat /\ off <= Len(buf) /\ Len(buf) - off = written - taken
      /\ \A i \in 1..Len(buf) : buf[i] = taken + (i - off) /\ buf \in Seq(Positions)
    BY BufferWindow DEF BufferOK, Contents
<1>3. back \in 0..off /\ back \in Nat
    BY <1>2
<1> HIDE DEF back
<1>4. off' \in 0..Len(buf) /\ taken' \in Nat /\ off' <= taken'
    BY <1>1, <1>2, <1>3
<1>5. ASSUME NEW i \in 1..Len(buf) PROVE buf[i] = taken' + (i - off')
    <2>1. taken' + (i - off') = taken + (i - off)
        BY <1>1, <1>2, <1>3
    <2> QED
        BY <1>2, <2>1
<1>6. Len(buf) - off' = written - taken'
    BY <1>1, <1>2, <1>3
<1>7. buf \in Seq(Positions)
    BY DEF BufferOK, Contents
<1>8. Contents(buf, off)'
    BY <1>1, <1>4, <1>5, <1>6, <1>7 DEF Contents
<1> QED
    BY <1>1, <1>2, <1>4, <1>8, BufferReturnsNothing

LEMMA BufferUnreadFails ==
    ASSUME BufferOK, NEW op, B!UnreadFails(op)
    PROVE  BufferOK'
<1>1. UNCHANGED <<written, taken, buf, off>> /\ B!Returns(op, <<>>, "other")
    BY DEF B!UnreadFails
<1>2. taken' \in Nat /\ written' \in Nat /\ Contents(buf, off)'
    BY <1>1 DEF BufferOK, Contents
<1> QED
    BY <1>1, <1>2, BufferReturnsNothing

LEMMA BufferStepOK ==
    ASSUME BufferOK, Marked, B!Next
    PROVE  BufferOK'
<1>1. /\ \A n \in Nat : B!AtMost(n) \in 0..Len(B!Window)
      /\ B!Window # <<>> => /\ 1 \in 0..Len(B!Window)
                           /\ B!RuneSize(kind, B!Window) \in 0..Len(B!Window)
      /\ B!IndexByte(kind, B!Window, "nl") \in 0..Len(B!Window)
      /\ Len(B!Window) \in 0..Len(B!Window)
    BY BufferCounts, BufferWindow
<1>2. ASSUME NEW n \in 0..MaxBytes,
             B!Write(n) \/ B!Grow(n) \/ B!Read(n) \/ B!NextBytes(n) \/ B!Truncate(n)
      PROVE  BufferOK'
    <2>1. n \in Nat /\ B!AtMost(n) \in 0..Len(B!Window)
        BY <1>1
    <2>2. CASE B!Write(n)
        BY <2>1, <2>2, BufferWriteCall DEF B!Write
    <2>3. CASE B!Grow(n)
        BY <2>3, BufferGrow
    <2>5. CASE B!Read(n)
        BY <2>1, <2>5, BufferAtEOF, BufferRead DEF B!Read, BufferReads
    <2>6. CASE B!NextBytes(n)
        BY <2>1, <2>6, BufferRead DEF B!NextBytes, BufferReads
    <2>7. CASE B!Truncate(n)
        BY <2>1, <2>7, BufferTruncate
    <2> QED
        BY <1>2, <2>2, <2>3, <2>5, <2>6, <2>7
<1>3. ASSUME NEW k \in 2..UTFMax, B!WriteRune(k) PROVE BufferOK'
    BY <1>3, BufferWriteCall DEF B!WriteRune
<1>4. CASE B!ReadFrom
    BY <1>4, BufferReadFrom
<1>5. CASE B!ReadByte
    BY <1>1, <1>5, BufferAtEOF, BufferRead DEF B!ReadByte, B!opRead, BufferReads
<1>6. CASE B!ReadRune
    BY <1>1, <1>6, BufferAtEOF, BufferRead DEF B!ReadRune, BufferReads
<1>7. CASE B!ReadBytes
    <2> DEFINE end == B!IndexByte(kind, B!Window, "nl")
    <2>1. B!Take("ReadBytes", Len(B!Window), -1, "EOF") \/ B!Take("ReadBytes", end, -1, B!None)
        BY <1>7 DEF B!ReadBytes, B!opRead
    <2>2. end \in 0..Len(B!Window) /\ Len(B!Window) \in 0..Len(B!Window)
        BY <1>1
    <2> HIDE DEF end
    <2> QED
        BY <2>1, <2>2, BufferRead DEF BufferReads
<1>8. CASE B!WriteTo
    BY <1>8, BufferWriteTo
<1>9. CASE B!UnreadByte
    BY <1>9, BufferUnreadFails, BufferUnread DEF B!UnreadByte
<1>10. CASE B!UnreadRune
    <2>1. CASE B!UnreadFails("UnreadRune")
        BY <2>1, BufferUnreadFails
    <2>2. CASE ~(lastRead <= 0) /\ B!Unread("UnreadRune", lastRead)
        <3>1. lastRead \in Nat
            BY <2>2 DEF Marked
        <3> QED
            BY <2>2, <3>1, BufferUnread
    <2> QED
        BY <1>10, <2>1, <2>2 DEF B!UnreadRune, B!opInvalid
<1> QED
    BY <1>2, <1>3, <1>4, <1>5, <1>6, <1>7, <1>8, <1>9, <1>10 DEF B!Next

\* lastRead after every call.
LEMMA BufferMarks ==
    ASSUME BufferOK, Marked, B!Next
    PROVE  Marked'
<1>1. /\ \A n \in Nat : B!AtMost(n) \in 0..Len(B!Window)
      /\ B!Window # <<>> => /\ 1 \in 0..Len(B!Window)
                           /\ B!RuneSize(kind, B!Window) \in 0..Len(B!Window)
                           /\ B!RuneSize(kind, B!Window) # 0
      /\ B!IndexByte(kind, B!Window, "nl") \in 0..Len(B!Window)
      /\ Len(B!Window) \in 0..Len(B!Window) /\ Len(B!Window) \in Nat
    BY BufferCounts, BufferWindow
<1>2. ASSUME NEW op, NEW reserve, NEW n, B!WriteCall(op, reserve, n), op \notin BufferReads
      PROVE  Marked'
    <2>1. lastRead' = 0 /\ ret'.op = op
        BY <1>2 DEF B!WriteCall, B!TooLarge, B!Returns, B!opInvalid
    <2> QED
        BY <1>2, <2>1, Unmarked
<1>3. ASSUME NEW op, NEW e, B!AtEOF(op, e) PROVE Marked'
    BY <1>3, Unmarked DEF B!AtEOF, B!Empty, B!Returns, B!opInvalid
<1>4. ASSUME NEW n \in 0..MaxBytes,
             B!Write(n) \/ B!Grow(n) \/ B!Read(n) \/ B!NextBytes(n) \/ B!Truncate(n)
      PROVE  Marked'
    <2>1. n \in Nat /\ B!AtMost(n) \in 0..Len(B!Window) /\ B!AtMost(n) \in Nat
        BY <1>1
    <2>2. CASE B!Write(n)
        BY <1>2, <2>2 DEF B!Write, BufferReads
    <2>3. CASE B!Grow(n)
        <3>1. lastRead' \in {0, lastRead} /\ ret'.op = "Grow"
            BY <2>3 DEF B!Grow, B!TooLarge, B!Returns, B!opInvalid
        <3> QED
            BY <3>1 DEF Marked, BufferReads, BufferWrites
    <2>4. ASSUME NEW op \in {"Read", "Next"},
                 B!Take(op, B!AtMost(n), B!ReadMark(B!AtMost(n)), B!None)
          PROVE  Marked'
        <3> DEFINE m == B!AtMost(n)
        <3>1. m \in 0..Len(B!Window) /\ m \in Nat
            BY <2>1
        <3> HIDE DEF m
        <3>2. B!ReadMark(m) = IF m = 0 THEN 0 ELSE -1
            BY <3>1 DEF B!ReadMark, B!opRead, B!opInvalid
        <3>3. B!Take(op, m, B!ReadMark(m), B!None) /\ op \in BufferReads /\ op # "ReadRune"
            BY <2>4 DEF m, BufferReads
        <3>4. /\ B!ReadMark(m) \in {-1, 0, m}
              /\ B!ReadMark(m) = m /\ m > 0 => op = "ReadRune"
            BY <3>1, <3>2
        <3> QED
            BY <3>1, <3>2, <3>3, <3>4, BufferRead
    <2>5. CASE B!Read(n)
        BY <1>3, <2>4, <2>5 DEF B!Read
    <2>6. CASE B!NextBytes(n)
        BY <2>4, <2>6 DEF B!NextBytes
    <2>7. CASE B!Truncate(n)
        <3>1. lastRead' = 0 /\ ret'.op = "Truncate"
            BY <2>7 DEF B!Truncate, B!Empty, B!Returns, B!opInvalid
        <3> QED
            BY <3>1, Unmarked DEF BufferReads
    <2> QED
        BY <1>4, <2>2, <2>3, <2>5, <2>6, <2>7
<1>5. ASSUME NEW k \in 2..UTFMax, B!WriteRune(k) PROVE Marked'
    BY <1>2, <1>5 DEF B!WriteRune, BufferReads
<1>6. CASE B!ReadFrom
    <2>1. lastRead' = 0 /\ ret'.op = "ReadFrom"
        BY <1>6 DEF B!ReadFrom, B!TooLarge, B!Returns, B!opInvalid
    <2> QED
        BY <2>1, Unmarked DEF BufferReads
<1>7. CASE B!ReadByte
    <2>1. CASE B!Window # <<>> /\ B!Take("ReadByte", 1, -1, B!None)
        <3>1. -1 \in {-1, 0, 1} /\ -1 # 1 /\ 1 # 0
            OBVIOUS
        <3> QED
            BY <1>1, <2>1, <3>1, BufferRead DEF BufferReads
    <2> QED
        BY <1>3, <1>7, <2>1 DEF B!ReadByte, B!opRead
<1>8. CASE B!ReadRune
    <2> DEFINE s == B!RuneSize(kind, B!Window)
    <2>1. CASE B!Window # <<>> /\ B!Take("ReadRune", s, s, B!None)
        <3>1. s \in 0..Len(B!Window) /\ s # 0
            BY <1>1, <2>1
        <3> HIDE DEF s
        <3> QED
            BY <2>1, <3>1, BufferRead DEF BufferReads
    <2> QED
        BY <1>3, <1>8, <2>1 DEF B!ReadRune
<1>9. CASE B!ReadBytes
    <2> DEFINE end == B!IndexByte(kind, B!Window, "nl")
    <2>1. \/ B!Take("ReadBytes", Len(B!Window), -1, "EOF")
          \/ end # 0 /\ B!Take("ReadBytes", end, -1, B!None)
        BY <1>9 DEF B!ReadBytes, B!opRead
    <2>2. end \in 0..Len(B!Window) /\ end \in Nat
        BY <1>1
    <2> HIDE DEF end
    <2>3. "EOF" # B!None /\ "ReadBytes" \in BufferReads /\ "ReadBytes" # "ReadRune"
        BY DEF B!None, BufferReads
    <2>4. \A n \in Nat : -1 \in {-1, 0, n} /\ -1 # n
        OBVIOUS
    <2>5. CASE B!Take("ReadBytes", Len(B!Window), -1, "EOF")
        BY <1>1, <2>3, <2>4, <2>5, BufferRead
    <2>6. CASE end # 0 /\ B!Take("ReadBytes", end, -1, B!None)
        BY <2>2, <2>3, <2>4, <2>6, BufferRead
    <2> QED
        BY <2>1, <2>5, <2>6
<1>10. CASE B!WriteTo
    <2>1. lastRead' = 0 /\ ret'.op = "WriteTo"
        BY <1>10 DEF B!WriteTo, B!Empty, B!Returns, B!opInvalid
    <2> QED
        BY <2>1, Unmarked DEF BufferReads
<1>11. ASSUME NEW op \in {"UnreadByte", "UnreadRune"}, NEW n, B!Unread(op, n) PROVE Marked'
    <2>1. lastRead' = 0 /\ ret'.op = op
        BY <1>11 DEF B!Unread, B!Returns, B!opInvalid
    <2> QED
        BY <1>11, <2>1, Unmarked DEF BufferReads
<1>12. CASE B!UnreadByte
    <2>1. CASE lastRead = 0 /\ B!UnreadFails("UnreadByte")
        <3>1. lastRead' = 0 /\ ret'.op = "UnreadByte"
            BY <2>1 DEF B!UnreadFails, B!Returns
        <3> QED
            BY <3>1, Unmarked DEF BufferReads
    <2> QED
        BY <1>11, <1>12, <2>1 DEF B!UnreadByte, B!opInvalid
<1>13. CASE B!UnreadRune
    <2>1. CASE lastRead <= 0 /\ B!UnreadFails("UnreadRune")
        <3>1. lastRead' = lastRead /\ ret'.op = "UnreadRune" /\ lastRead \in Int
            BY <2>1 DEF B!UnreadFails, B!Returns, Marked
        <3>2. ~(lastRead > 0)
            BY <2>1, <3>1
        <3> QED
            BY <3>1, <3>2 DEF Marked, BufferReads, BufferWrites
    <2> QED
        BY <1>11, <1>13, <2>1 DEF B!UnreadRune, B!opInvalid
<1> QED
    BY <1>4, <1>5, <1>6, <1>7, <1>8, <1>9, <1>10, <1>12, <1>13 DEF B!Next

LEMMA BufferStepInv == BufferInv /\ [Next]_vars => BufferInv'
<1> SUFFICES ASSUME BufferInv, [Next]_vars, which' = "buffer" PROVE BufferOK' /\ Marked'
    BY DEF BufferInv
<1>1. CASE BufferStep
    BY <1>1, BufferStepOK, BufferMarks DEF BufferStep, BufferInv
<1>2. CASE UNCHANGED vars
    <2>1. BufferOK /\ Marked /\ UNCHANGED <<buf, off, taken, written, lastRead, ret>>
        BY <1>2 DEF vars, shared, bufferOnly, BufferInv
    <2>2. BufferOK'
        BY <2>1 DEF BufferOK, Contents
    <2>3. Marked'
        BY <2>1 DEF Marked
    <2> QED
        BY <2>2, <2>3
<1> QED
    BY <1>1, <1>2 DEF Next, ReaderStep, WriterStep, TextStep, CopyStep

LEMMA BufferSafe ==
    ASSUME BufferOK, Marked
    PROVE  B!Stream /\ B!CanUnread
<1>1. B!Stream
    BY BufferWindow, SameBytes DEF BufferOK, B!Stream
<1>2. /\ taken \in Nat /\ off \in Nat /\ Len(buf) \in Nat /\ off <= Len(buf) /\ off <= taken
      /\ buf \in Seq(Positions) /\ \A i \in 1..Len(buf) : buf[i] = taken + (i - off)
    BY BufferWindow DEF BufferOK, Contents
<1>3. ASSUME off >= 1 PROVE buf[off] = taken
    <2>1. off \in 1..Len(buf) /\ taken + (off - off) = taken
        BY <1>2, <1>3
    <2> QED
        BY <1>2, <2>1
<1>4. ASSUME NEW n \in 1..off PROVE SubSeq(buf, off - n + 1, off) = Bytes(taken - n, n)
    <2>1. /\ off - n + 1 \in 1..Len(buf) /\ off \in 1..Len(buf) /\ off - n + 1 <= off
          /\ off - (off - n + 1) + 1 = n /\ n \in Nat /\ taken - n \in Nat
        BY <1>2
    <2>2. SubSeq(buf, off - n + 1, off) = [i \in 1..n |-> buf[i + (off - n + 1) - 1]]
        BY <1>2, <2>1
    <2>3. ASSUME NEW i \in 1..n PROVE buf[i + (off - n + 1) - 1] = (taken - n) + i
        <3>1. i + (off - n + 1) - 1 \in 1..Len(buf)
            BY <1>2, <2>1
        <3>2. taken + ((i + (off - n + 1) - 1) - off) = (taken - n) + i
            BY <1>2, <2>1
        <3> QED
            BY <1>2, <3>1, <3>2
    <2> QED
        BY <2>2, <2>3 DEF Bytes
<1>5. ret.data = Bytes(taken - Len(ret.data), Len(ret.data))
    BY DEF BufferOK
<1>6. ASSUME ret.op = "ReadRune", ret.data # <<>>
      PROVE  lastRead \in 1..off /\ SubSeq(buf, off - lastRead + 1, off) = ret.data
    <2>1. lastRead = Len(ret.data) /\ lastRead \in 1..off
        BY <1>6 DEF Marked
    <2> QED
        BY <1>4, <1>5, <2>1
<1>7. B!CanUnread
    BY <1>3, <1>6 DEF B!CanUnread, Marked, BufferReads, BufferWrites, B!opInvalid
<1> QED
    BY <1>1, <1>7

-----------------------------------------------------------------------------
(* bufio.Reader.                                                           *)

\* The struct: the window holds what was given and not taken.
Core ==
    /\ given \in Nat /\ taken \in Nat /\ r \in 0..Size /\ w \in r..Size
    /\ buf \in [R!Places -> Nat] /\ err \in R!Errors \cup {R!None}
    /\ given - taken = w - r
    /\ \A i \in r..(w - 1) : buf[i] = taken + 1 + (i - r)

\* What a call has gathered; ReadBytes remembers its last byte.
Gathered ==
    /\ EndsAt(frags, taken)
    /\ frags # <<>> => call.op \in {"ReadBytes", "WriteToFill", "WriteToLoop"}
    /\ frags # <<>> /\ call.op = "ReadBytes" =>
            lastByte = taken /\ lastRuneSize = -1 /\ kind[taken] # "nl"

\* What a read that may be undone has returned.
MayUndo == {"Read", "ReadByte", "ReadRune", "ReadSlice", "ReadBytes"}
Undoable ==
    ret.op \in MayUndo /\ ret.data # <<>> =>
        /\ lastByte = taken /\ taken >= 1 /\ ~(r = 0 /\ w > 0)
        /\ ret.op # "ReadRune" => lastRuneSize = -1
        /\ ret.op = "ReadRune" =>
                /\ lastRuneSize \in 1..r /\ lastRuneSize <= taken
                /\ Len(ret.data) = lastRuneSize
                /\ \A i \in (r - lastRuneSize)..(r - 1) : buf[i] = taken + 1 + (i - r)
LineUndoable ==
    ret.op = "ReadLine" /\ ret.err = R!None /\ (ret.prefix => w - r = 0) =>
        lastByte = taken /\ taken >= 1 /\ ~(r = 0 /\ w > 0)

LineReturned ==
    ret.op = "ReadLine" /\ ret.data # <<>> =>
          LET last == R!Last(ret.data) IN
          IF ret.prefix
          THEN last = taken /\ (kind[last] = "cr" => kind[last + 1] # "nl")
          ELSE \/ last = taken /\ kind[last] # "nl"
               \/ last = taken - 1 /\ kind[taken] = "nl" /\ kind[last] # "cr"
               \/ last = taken - 2 /\ kind[taken] = "nl" /\ kind[taken - 1] = "cr"

SliceReturned ==
    ret.op \in {"ReadSlice", "ReadBytes"} =>
          (ret.err = R!None <=> ret.data # <<>> /\ kind[R!Last(ret.data)] = "nl")

Returned ==
    /\ Run(ret.data) /\ SliceReturned
    /\ call = R!Idle =>
            /\ ret.data # <<>> /\ ret.op # "ReadLine" => EndsAt(ret.data, taken)
            /\ Undoable /\ LineUndoable /\ LineReturned

\* Unless lastByte is stale, a rune that UnreadRune would put back lies in front
\* of the window.
Remembered ==
    /\ lastByte \in Int /\ lastByte # 0 /\ lastRuneSize \in Int /\ lastRuneSize # 0
    /\ lastRuneSize > 0 =>
        /\ lastByte <= taken
        /\ lastByte = taken /\ lastRuneSize <= r =>
            /\ lastRuneSize <= taken
            /\ \A i \in (r - lastRuneSize)..(r - 1) : buf[i] = taken + 1 + (i - r)

ReaderOK == Core /\ Gathered /\ Returned
ReaderInv == which = "reader" /\ ~stray => ReaderOK /\ Remembered

LEMMA ReaderWindow ==
    ASSUME Core
    PROVE  /\ R!Buffered = w - r /\ w - r \in 0..Size /\ r \in Nat /\ w \in Nat /\ r <= w
           /\ R!Window = Bytes(taken, w - r) /\ Len(R!Window) = w - r
           /\ \A n \in 0..(w - r) : SubSeq(R!Window, 1, n) = Bytes(taken, n)
           /\ Size \in Nat /\ Size > 1
<1>1. /\ Size \in Nat /\ Size > 1 /\ r \in Nat /\ w \in Nat /\ r <= w
      /\ w - r \in 0..Size /\ w - r \in Nat /\ taken \in Nat
    BY SizesAssumption DEF Core, R!ReaderAssumption
<1>2. R!Window = Bytes(taken, w - r)
    <2>1. ASSUME NEW i \in 1..(w - r) PROVE buf[r + i - 1] = taken + i
        <3>1. r + i - 1 \in r..(w - 1) /\ taken + 1 + ((r + i - 1) - r) = taken + i
            BY <1>1
        <3> QED
            BY <3>1 DEF Core
    <2> QED
        BY <2>1 DEF R!Window, R!Slice, Bytes
<1>3. Len(Bytes(taken, w - r)) = w - r
    BY <1>1, BytesType
<1>4. ASSUME NEW n \in 0..(w - r) PROVE SubSeq(Bytes(taken, w - r), 1, n) = Bytes(taken, n)
    BY <1>1 DEF Bytes
<1> QED
    BY <1>1, <1>2, <1>3, <1>4 DEF R!Buffered

LEMMA ReaderInit == Init => ReaderInv
<1> SUFFICES ASSUME R!Init PROVE ReaderOK /\ Remembered
    BY DEF Init, ReaderInv
<1>1. Core
    BY SizesAssumption DEF R!Init, Core, R!ReaderAssumption, R!Places, R!None
<1>2. Gathered
    BY RunFacts DEF R!Init, Gathered
<1>3. Returned
    BY RunFacts DEF R!Init, Returned, SliceReturned, Undoable, MayUndo, LineUndoable, LineReturned,
        R!None
<1>4. Remembered
    BY DEF R!Init, Remembered
<1> QED
    BY <1>1, <1>2, <1>3, <1>4 DEF ReaderOK

\* fill slides the window to the front and puts what it is given behind it.
LEMMA ReaderFill ==
    ASSUME Core, R!fill, UNCHANGED taken
    PROVE  Core'
<1>1. PICK n \in 0..Size, e \in R!Errors \cup {R!None} :
        /\ R!Underlying(Size - R!Buffered, n, e)
        /\ buf' = R!Copy(R!Copy(buf, 0, R!Window), R!Buffered, R!Bytes(given, n))
        /\ r' = 0 /\ w' = R!Buffered + n
        /\ err' = IF e = R!None THEN err ELSE e
    BY DEF R!fill
<1> DEFINE b == w - r
<1>2. /\ R!Buffered = b /\ b \in 0..Size /\ b \in Nat /\ R!Window = Bytes(taken, b)
      /\ Size \in Nat /\ R!Bytes(given, n) = Bytes(given, n)
    BY ReaderWindow, SameBytes
<1>3. n \in 0..(Size - b) /\ n \in Nat /\ given' = given + n /\ given' \in Nat
    BY <1>1, <1>2 DEF R!Underlying, Core
<1>4. taken \in Nat /\ given \in Nat /\ given = taken + b /\ buf \in [R!Places -> Nat]
    BY <1>2 DEF Core
<1> HIDE DEF b
<1>5. /\ Len(Bytes(taken, b)) = b /\ \A i \in 1..b : Bytes(taken, b)[i] = taken + i
      /\ Len(Bytes(given, n)) = n /\ \A i \in 1..n : Bytes(given, n)[i] = given + i
    BY <1>2, <1>3, <1>4, BytesType
<1> DEFINE c == R!Copy(buf, 0, Bytes(taken, b))
<1>6. c \in [R!Places -> Nat] /\ \A i \in R!Places : i < b => c[i] = taken + (i + 1)
    <2>1. c = [i \in R!Places |-> IF i \in 0..(0 + b - 1) THEN Bytes(taken, b)[i - 0 + 1] ELSE buf[i]]
        BY <1>4, <1>5 DEF R!Copy
    <2>2. ASSUME NEW i \in R!Places, i < b
          PROVE  c[i] = taken + (i + 1)
        <3>1. i \in 0..(0 + b - 1) /\ i - 0 + 1 = i + 1 /\ i + 1 \in 1..b
            BY <1>2, <2>2 DEF R!Places
        <3> QED
            BY <1>5, <2>1, <3>1
    <2>3. ASSUME NEW i \in R!Places PROVE c[i] \in Nat
        <3>1. CASE i < b
            BY <1>4, <2>2, <3>1 DEF R!Places
        <3>2. CASE ~(i < b)
            <4>1. i \notin 0..(0 + b - 1)
                BY <1>2, <3>2 DEF R!Places
            <4> QED
                BY <1>4, <2>1, <4>1
        <3> QED
            BY <3>1, <3>2
    <2> QED
        BY <2>1, <2>2, <2>3
<1>7. buf' = R!Copy(c, b, Bytes(given, n))
    BY <1>1, <1>2
<1> HIDE DEF c
<1>8. buf' = [i \in R!Places |-> IF i \in b..(b + n - 1) THEN Bytes(given, n)[i - b + 1] ELSE c[i]]
    BY <1>5, <1>6, <1>7 DEF R!Copy
<1>9. ASSUME NEW i \in R!Places, i \in b..(b + n - 1) PROVE buf'[i] = taken + 1 + i
    <2>1. i - b + 1 \in 1..n /\ given + (i - b + 1) = taken + 1 + i
        BY <1>2, <1>3, <1>4, <1>9
    <2> QED
        BY <1>5, <1>8, <1>9, <2>1
<1>10. ASSUME NEW i \in R!Places, i < b PROVE buf'[i] = taken + 1 + i
    <2>1. i \notin b..(b + n - 1) /\ i \in Nat
        BY <1>2, <1>3, <1>10 DEF R!Places
    <2>2. buf'[i] = c[i] /\ c[i] = taken + (i + 1)
        BY <1>6, <1>8, <1>10, <2>1
    <2> QED
        BY <1>4, <2>1, <2>2
<1>11. buf' \in [R!Places -> Nat]
    <2>1. ASSUME NEW i \in R!Places PROVE buf'[i] \in Nat
        <3>1. i \in Nat
            BY <1>2 DEF R!Places
        <3>2. CASE i \in b..(b + n - 1)
            BY <1>4, <1>9, <3>1, <3>2
        <3>3. CASE i \notin b..(b + n - 1)
            BY <1>6, <1>8, <3>3
        <3> QED
            BY <3>2, <3>3
    <2> QED
        BY <1>8, <2>1
<1>12. w' = b + n /\ w' \in Nat /\ r' = 0 /\ w' <= Size
    BY <1>1, <1>2, <1>3
<1>13. ASSUME NEW i \in 0..(w' - 1) PROVE buf'[i] = taken + 1 + (i - 0)
    <2>1. i \in R!Places /\ (i < b \/ i \in b..(b + n - 1)) /\ i - 0 = i
        BY <1>2, <1>3, <1>12 DEF R!Places
    <2> QED
        BY <1>9, <1>10, <2>1
<1>14. err' \in R!Errors \cup {R!None}
    BY <1>1 DEF Core
<1>15. given' - taken' = w' - 0
    BY <1>3, <1>4, <1>12, <1>2
<1>16. r' \in 0..Size /\ w' \in r'..Size
    BY <1>2, <1>12
<1> QED
    BY <1>3, <1>4, <1>11, <1>12, <1>13, <1>14, <1>15, <1>16 DEF Core

\* The turn of a call that fills the buffer.
LEMMA ReaderMore ==
    ASSUME ReaderOK, R!fill, UNCHANGED <<kind, taken, frags, ret>>,
           NEW op, NEW n, R!Again(op, n), op # R!None,
           frags # <<>> =>
                \/ op \in {"WriteToFill", "WriteToLoop"}
                \/ op = "ReadBytes" /\ call.op = "ReadBytes" /\ UNCHANGED R!unread
    PROVE  ReaderOK'
<1>1. Core'
    BY ReaderFill DEF ReaderOK
<1>2. call' = [op |-> op, n |-> n] /\ call'.op = op /\ call' # R!Idle
    BY DEF R!Again, R!Idle
<1>3. Gathered'
    <2>1. EndsAt(frags', taken')
        BY DEF ReaderOK, Gathered, EndsAt
    <2>2. CASE frags = <<>>
        BY <2>1, <2>2 DEF Gathered
    <2>3. CASE frags # <<>>
        BY <1>2, <2>1, <2>3 DEF Gathered, ReaderOK, R!unread
    <2> QED
        BY <2>2, <2>3
<1>4. Returned'
    BY <1>2 DEF ReaderOK, Returned, Run, SliceReturned
<1> QED
    BY <1>1, <1>3, <1>4 DEF ReaderOK

\* The caller takes n bytes of the window.
LEMMA ReaderTake ==
    ASSUME Core, NEW n \in 0..(w - r), R!Take(n), UNCHANGED <<given, buf, w>>,
           err' \in R!Errors \cup {R!None}
    PROVE  /\ Core' /\ taken' = taken + n /\ r' = r + n /\ n \in Nat /\ taken \in Nat
           /\ \A i \in r..(r' - 1) : buf[i] = taken' + 1 + (i - r')
<1>1. /\ r \in Nat /\ w \in Nat /\ r <= w /\ w <= Size /\ Size \in Nat /\ taken \in Nat
      /\ given \in Nat /\ n \in Nat /\ n <= w - r /\ given - taken = w - r
      /\ \A i \in r..(w - 1) : buf[i] = taken + 1 + (i - r)
    BY ReaderWindow DEF Core
<1>2. taken' = taken + n /\ r' = r + n /\ r' <= w
    BY <1>1 DEF R!Take
<1>3. ASSUME NEW i \in Int PROVE taken + 1 + (i - r) = taken' + 1 + (i - r')
    BY <1>1, <1>2
<1>4. \A i \in r'..(w - 1) : buf[i] = taken' + 1 + (i - r')
    <2>1. ASSUME NEW i \in r'..(w - 1) PROVE i \in r..(w - 1) /\ i \in Int
        BY <1>1, <1>2
    <2> QED
        BY <1>1, <1>3, <2>1
<1>5. \A i \in r..(r' - 1) : buf[i] = taken' + 1 + (i - r')
    <2>1. ASSUME NEW i \in r..(r' - 1) PROVE i \in r..(w - 1) /\ i \in Int
        BY <1>1, <1>2
    <2> QED
        BY <1>1, <1>3, <2>1
<1>6. given - taken' = w - r'
    BY <1>1, <1>2
<1>7. r' \in 0..Size /\ w \in r'..Size /\ taken' \in Nat
    BY <1>1, <1>2
<1>8. Core'
    BY <1>1, <1>4, <1>6, <1>7 DEF Core
<1> QED
    BY <1>1, <1>2, <1>5, <1>8

\* A call returns.
LEMMA ReaderReturnsNothing ==
    ASSUME Core', NEW op, NEW e, R!Returns(op, <<>>, e),
           op \in {"ReadSlice", "ReadBytes", "ReadLine"} => e # R!None
    PROVE  ReaderOK'
<1>1. /\ call' = R!Idle /\ frags' = <<>> /\ ret'.op = op /\ ret'.data = <<>> /\ ret'.err = e
      /\ taken' \in Nat
    BY DEF R!Returns, Core
<1>2. Gathered'
    BY <1>1, RunFacts DEF Gathered
<1>3. Returned'
    BY <1>1, RunFacts DEF Returned, SliceReturned, Undoable, LineUndoable, LineReturned
<1> QED
    BY <1>2, <1>3 DEF ReaderOK

LEMMA ReaderReturnsBytes ==
    ASSUME Core', NEW op, NEW k \in Nat, NEW n \in Nat, NEW e,
           R!Returns(op, Bytes(k, n), e), taken' = k + n,
           op \in {"ReadSlice", "ReadBytes"} =>
                (e = R!None <=> n # 0 /\ kind'[taken'] = "nl"),
           op # "ReadLine",
           op \in MayUndo /\ n # 0 =>
                /\ lastByte' = taken' /\ ~(r' = 0 /\ w' > 0)
                /\ op # "ReadRune" => lastRuneSize' = -1
                /\ op = "ReadRune" =>
                        /\ lastRuneSize' = n /\ n <= r'
                        /\ \A i \in (r' - n)..(r' - 1) : buf'[i] = taken' + 1 + (i - r')
    PROVE  ReaderOK'
<1>1. /\ call' = R!Idle /\ frags' = <<>> /\ ret'.op = op /\ ret'.data = Bytes(k, n)
      /\ ret'.err = e /\ taken' \in Nat /\ r' \in Nat
    BY ReaderWindow DEF R!Returns, Core
<1>2. Gathered'
    BY <1>1, RunFacts DEF Gathered
<1>3. CASE n = 0
    <2>1. Bytes(k, n) = <<>>
        BY <1>3, RunFacts
    <2> QED
        BY <1>3, <2>1, ReaderReturnsNothing
<1>4. CASE n # 0
    <2>1. /\ Bytes(k, n) # <<>> /\ R!Last(Bytes(k, n)) = taken' /\ Run(Bytes(k, n))
          /\ EndsAt(Bytes(k, n), taken') /\ n >= 1 /\ taken' >= 1 /\ n <= taken'
          /\ Len(Bytes(k, n)) = n
        <3>1. n \in Nat \ {0} /\ n >= 1 /\ k + n >= 1 /\ n <= k + n
            BY <1>4
        <3>2. taken' = k + n
            OBVIOUS
        <3> HIDE DEF R!Last
        <3> QED
            BY <3>1, <3>2, RunFacts, BytesType
    <2>2. Undoable'
        <3>1. SUFFICES ASSUME op \in MayUndo PROVE Undoable'
            BY <1>1 DEF Undoable, MayUndo
        <3>2. CASE op # "ReadRune"
            BY <1>1, <1>4, <2>1, <3>1, <3>2 DEF Undoable
        <3>3. CASE op = "ReadRune"
            <4>1. lastRuneSize' = n /\ n \in 1..r'
                BY <1>1, <1>4, <3>1, <3>3
            <4> QED
                BY <1>1, <1>4, <2>1, <3>1, <3>3, <4>1 DEF Undoable
        <3> QED
            BY <3>2, <3>3
    <2>3. LineReturned' /\ LineUndoable'
        BY <1>1 DEF LineReturned, LineUndoable
    <2>4. SliceReturned'
        BY <1>1, <1>4, <2>1 DEF SliceReturned
    <2> QED
        BY <1>1, <1>2, <2>1, <2>2, <2>3, <2>4 DEF ReaderOK, Returned
<1> QED
    BY <1>3, <1>4

\* Between calls nothing is gathered.
LEMMA ReaderIdle ==
    ASSUME ReaderOK
    PROVE  /\ call = R!Idle => frags = <<>>
           /\ \A op, n : R!Turn(op, n) /\ op \notin {"ReadBytes", "WriteToFill", "WriteToLoop"} =>
                    frags = <<>>
           /\ \A n : R!Turn("ReadBytes", n) /\ frags # <<>> =>
                    /\ call.op = "ReadBytes" /\ lastByte = taken /\ lastRuneSize = -1
                    /\ kind[taken] # "nl"
           /\ \A op, n : [op |-> op, n |-> n].op = op
           /\ R!None = "none"
<1>1. R!Idle.op = "none" /\ \A op, n : [op |-> op, n |-> n].op = op
    BY DEF R!Idle, R!None
<1>2. call = R!Idle => frags = <<>>
    BY <1>1 DEF ReaderOK, Gathered
<1>3. ASSUME NEW op, NEW n, R!Turn(op, n), op \notin {"ReadBytes", "WriteToFill", "WriteToLoop"}
      PROVE  frags = <<>>
    BY <1>1, <1>2, <1>3 DEF ReaderOK, Gathered, R!Turn
<1>4. ASSUME NEW n, R!Turn("ReadBytes", n), frags # <<>>
      PROVE  /\ call.op = "ReadBytes" /\ lastByte = taken /\ lastRuneSize = -1
             /\ kind[taken] # "nl"
    <2>1. call.op = "ReadBytes"
        BY <1>1, <1>2, <1>4 DEF R!Turn
    <2> QED
        BY <1>4, <2>1 DEF ReaderOK, Gathered
<1> QED
    BY <1>1, <1>2, <1>3, <1>4 DEF R!None

\* Core does not depend on what the calls remember.
LEMMA CoreStays ==
    ASSUME Core, UNCHANGED <<given, taken, buf, r, w>>, err' \in R!Errors \cup {R!None}
    PROVE  Core'
BY DEF Core

LEMMA ReaderPeek ==
    ASSUME ReaderOK, NEW n, R!Peek(n)
    PROVE  ReaderOK'
<1>1. R!Turn("Peek", n) /\ UNCHANGED <<kind, taken>> /\ frags = <<>>
    BY ReaderIdle DEF R!Peek
<1>2. CASE R!fill /\ R!Again("Peek", n) /\ UNCHANGED <<frags, ret>>
    BY <1>1, <1>2, ReaderMore DEF R!None
<1>3. CASE \E e : /\ R!Returns("Peek", <<>>, e) /\ err' \in {R!None, err}
                  /\ UNCHANGED <<given, buf, r, w>>
    <2>1. Core'
        BY <1>1, <1>3, CoreStays DEF ReaderOK, Core
    <2> QED
        BY <1>3, <2>1, ReaderReturnsNothing
<1>4. (R!fill /\ R!Again("Peek", n) /\ UNCHANGED <<frags, ret>>)
      \/ \E e : /\ R!Returns("Peek", <<>>, e) /\ err' \in {R!None, err}
                /\ UNCHANGED <<given, buf, r, w>>
    BY DEF R!Peek
<1> QED
    BY <1>2, <1>3, <1>4

LEMMA ReaderDiscard ==
    ASSUME ReaderOK, NEW n \in Nat, R!Discard(n)
    PROVE  ReaderOK'
<1>1. UNCHANGED <<kind, R!unread>>
    BY DEF R!Discard
<1>2. CASE /\ R!Turn("Discard", n)
           /\ R!fill /\ R!Again("DiscardFilled", n) /\ UNCHANGED <<taken, frags, ret>>
    <2>1. frags = <<>>
        BY <1>2, ReaderIdle
    <2> QED
        BY <1>1, <1>2, <2>1, ReaderMore DEF R!None
<1>3. CASE LET skip == IF R!Buffered > n THEN n ELSE R!Buffered IN
           /\ R!Turn("Discard", n) \/ call = [op |-> "DiscardFilled", n |-> n]
           /\ R!Take(skip)
           /\ UNCHANGED <<given, buf, w>>
           /\ \/ R!Returns("Discard", <<>>, R!None) /\ UNCHANGED err
              \/ R!Returns("Discard", <<>>, err) /\ err' = R!None
              \/ R!Again("Discard", n - skip) /\ UNCHANGED <<err, frags, ret>>
    <2> DEFINE skip == IF R!Buffered > n THEN n ELSE R!Buffered
    <2>1. skip \in 0..(w - r)
        BY ReaderWindow DEF ReaderOK
    <2>2. err' \in R!Errors \cup {R!None}
        BY <1>3 DEF ReaderOK, Core
    <2>3. Core'
        <3> HIDE DEF skip
        <3>1. R!Take(skip) /\ UNCHANGED <<given, buf, w>>
            BY <1>3 DEF skip
        <3> QED
            BY <2>1, <2>2, <3>1, ReaderTake DEF ReaderOK
    <2>4. CASE \E e : R!Returns("Discard", <<>>, e)
        BY <2>3, <2>4, ReaderReturnsNothing
    <2>5. CASE R!Again("Discard", n - skip) /\ UNCHANGED <<err, frags, ret>>
        <3>1. frags = <<>>
            <4>1. CASE R!Turn("Discard", n)
                BY <4>1, ReaderIdle
            <4>2. CASE call = [op |-> "DiscardFilled", n |-> n]
                BY <4>2 DEF ReaderOK, Gathered
            <4> QED
                BY <1>3, <4>1, <4>2
        <3>2. call' # R!Idle
            BY <2>5 DEF R!Again, R!Idle, R!None
        <3>3. Gathered'
            BY <2>3, <2>5, <3>1, RunFacts DEF Gathered, Core
        <3>4. Returned'
            BY <1>1, <2>5, <3>2 DEF ReaderOK, Returned, Run, SliceReturned
        <3> QED
            BY <2>3, <3>3, <3>4 DEF ReaderOK
    <2> QED
        BY <1>3, <2>4, <2>5
<1> QED
    BY <1>2, <1>3 DEF R!Discard

\* The last of n bytes is remembered.
LEMMA ReaderRemember ==
    ASSUME NEW k \in Nat, NEW n \in Nat, NEW s, R!Remember(Bytes(k, n), s)
    PROVE  n # 0 => lastByte' = k + n /\ lastRuneSize' = s
<1>1. SUFFICES ASSUME n # 0 PROVE lastByte' = k + n /\ lastRuneSize' = s
    OBVIOUS
<1>2. n \in Nat \ {0} /\ Len(Bytes(k, n)) = n /\ n \in 1..n /\ Bytes(k, n)[n] = k + n
    BY <1>1, BytesType
<1>3. Bytes(k, n) # <<>>
    BY <1>2, RunFacts
<1> QED
    BY <1>2, <1>3 DEF R!Remember

\* A call takes the first n bytes of the window and returns them.
LEMMA ReaderReturnsTaken ==
    ASSUME ReaderOK, NEW n \in 0..(w - r), R!Take(n), UNCHANGED <<given, buf, w>>,
           err' \in R!Errors \cup {R!None}, NEW op, NEW e, NEW s,
           R!Returns(op, Bytes(taken, n), e),
           op \in {"ReadSlice", "ReadBytes"} =>
                (e = R!None <=> n # 0 /\ kind'[taken + n] = "nl"),
           op # "ReadLine",
           n # 0 => lastByte' = taken + n /\ lastRuneSize' = s,
           s = IF op = "ReadRune" THEN n ELSE -1
    PROVE  ReaderOK'
<1>1. /\ Core' /\ taken' = taken + n /\ r' = r + n /\ n \in Nat /\ taken \in Nat
      /\ r \in Nat /\ \A i \in r..(r' - 1) : buf[i] = taken' + 1 + (i - r')
    BY ReaderTake, ReaderWindow DEF ReaderOK
<1>2. (n # 0 => r' # 0) /\ n <= r' /\ r' - n = r
    <2>1. r' = r + n /\ r \in Nat /\ n \in Nat
        BY <1>1
    <2> QED
        BY ONLY <2>1
<1>3. n # 0 => ~(r' = 0 /\ w' > 0)
    BY <1>2
<1>4. n # 0 => /\ lastByte' = taken' /\ (op # "ReadRune" => lastRuneSize' = -1)
               /\ op = "ReadRune" => lastRuneSize' = n
    BY <1>1
<1>5. \A i \in (r' - n)..(r' - 1) : buf'[i] = taken' + 1 + (i - r')
    BY <1>1, <1>2
<1> QED
    BY <1>1, <1>2, <1>3, <1>4, <1>5, ReaderReturnsBytes

LEMMA ReaderRead ==
    ASSUME ReaderOK, NEW n \in Nat, R!Read(n)
    PROVE  ReaderOK'
<1>1. call = R!Idle /\ UNCHANGED kind /\ frags = <<>> /\ Core /\ Size \in Nat /\ Size > 1
    BY ReaderIdle, ReaderWindow DEF R!Read, ReaderOK
<1>2. /\ taken \in Nat /\ given \in Nat /\ w \in Nat /\ r \in Nat /\ given - taken = w - r
      /\ err \in R!Errors \cup {R!None} /\ R!Buffered = w - r /\ w - r \in Nat
      /\ R!None \in R!Errors \cup {R!None}
    BY <1>1, ReaderWindow DEF Core
<1>3. CASE R!ReadBuffered(n)
    <2> DEFINE m == IF R!Buffered > n THEN n ELSE R!Buffered
    <2>1. m \in 0..(w - r) /\ m \in Nat
        BY <1>2
    <2>2. SubSeq(R!Window, 1, m) = Bytes(taken, m)
        BY <1>1, <2>1, ReaderWindow
    <2>3. /\ R!Take(m) /\ R!Remember(Bytes(taken, m), -1)
          /\ R!Returns("Read", Bytes(taken, m), R!None) /\ UNCHANGED <<given, buf, w, err>>
        BY <1>3, <2>2 DEF R!ReadBuffered
    <2> HIDE DEF m
    <2>4. m # 0 => lastByte' = taken + m /\ lastRuneSize' = -1
        BY <1>2, <2>1, <2>3, ReaderRemember
    <2> QED
        BY <1>2, <2>1, <2>3, <2>4, ReaderReturnsTaken
<1>4. CASE R!ReadNothing(n)
    <2>1. \E e : R!Returns("Read", <<>>, e)
        BY <1>4 DEF R!ReadNothing
    <2>2. UNCHANGED <<given, taken, buf, r, w>> /\ err' \in {err, R!None}
        BY <1>4 DEF R!ReadNothing
    <2>3. Core'
        BY <1>1, <1>2, <2>2, CoreStays
    <2> QED
        BY <2>1, <2>3, ReaderReturnsNothing
<1>5. CASE R!ReadDirectly(n)
    <2>1. PICK m \in 0..n, e \in R!Errors \cup {R!None} :
            /\ R!Underlying(n, m, e) /\ taken' = taken + m
            /\ R!Remember(Bytes(given, m), -1) /\ R!Returns("Read", Bytes(given, m), e)
        BY <1>5, SameBytes DEF R!ReadDirectly
    <2>2. /\ w = r /\ given = taken /\ m \in Nat /\ given' = given + m
          /\ UNCHANGED <<buf, r, w, err>>
        BY <1>2, <1>5, <2>1 DEF R!ReadDirectly, R!Underlying
    <2>3. Core'
        <3>1. given' \in Nat /\ taken' \in Nat /\ given' - taken' = w - r
            BY <1>2, <2>1, <2>2
        <3>2. \A i \in r..(w - 1) : FALSE
            BY <1>2, <2>2
        <3> QED
            BY <1>1, <2>2, <3>1, <3>2 DEF Core
    <2>4. m # 0 => lastByte' = taken' /\ lastRuneSize' = -1
        BY <1>2, <2>1, <2>2, ReaderRemember
    <2>5. ~(r' = 0 /\ w' > 0)
        BY <2>2
    <2> QED
        BY <1>2, <2>1, <2>2, <2>3, <2>4, <2>5, ReaderReturnsBytes
<1>6. CASE R!ReadOnce(n)
    <2>1. PICK m \in 0..Size, e \in R!Errors \cup {R!None} :
            /\ R!Underlying(Size, m, e)
            /\ IF m = 0
               THEN /\ R!Returns("Read", <<>>, e)
                    /\ r' = 0 /\ w' = 0 /\ UNCHANGED <<taken, buf, err, R!unread>>
               ELSE LET k == IF m > n THEN n ELSE m IN
                    /\ buf' = R!Copy(buf, 0, R!Bytes(given, m))
                    /\ r' = k /\ w' = m /\ err' = e /\ taken' = taken + k
                    /\ R!Remember(R!Slice(buf', 0, k), -1)
                    /\ R!Returns("Read", R!Slice(buf', 0, k), R!None)
        BY <1>6 DEF R!ReadOnce
    <2>2. /\ w = r /\ given = taken /\ m \in Nat /\ given' = given + m /\ given' \in Nat /\ n > 0
        BY <1>1, <1>2, <1>6, <2>1 DEF R!ReadOnce, R!Underlying
    <2>3. CASE m = 0
        <3>1. r' = 0 /\ w' = 0 /\ UNCHANGED <<taken, buf, err>> /\ given' = given
            BY <1>2, <2>1, <2>2, <2>3
        <3>2. \A i \in 0..(0 - 1) : FALSE
            OBVIOUS
        <3>3. given - taken = 0 - 0 /\ 0 \in 0..Size
            BY <1>1, <1>2, <2>2
        <3>4. Core'
            BY <1>1, <3>1, <3>2, <3>3 DEF Core
        <3> QED
            BY <2>1, <2>3, <3>4, ReaderReturnsNothing
    <2>4. CASE m # 0
        <3> DEFINE k == IF m > n THEN n ELSE m
        <3>1. /\ buf' = R!Copy(buf, 0, Bytes(given, m))
              /\ r' = k /\ w' = m /\ err' = e /\ taken' = taken + k
              /\ R!Remember(R!Slice(buf', 0, k), -1)
              /\ R!Returns("Read", R!Slice(buf', 0, k), R!None)
            BY <2>1, <2>4, SameBytes
        <3>2. k \in 1..m /\ k \in Nat /\ k # 0 /\ m \in 1..Size
            BY <1>1, <2>2, <2>4
        <3> HIDE DEF k
        <3>3. buf' \in [R!Places -> Nat] /\ \A i \in 0..(m - 1) : buf'[i] = taken + 1 + i
            <4>1. /\ Len(Bytes(given, m)) = m /\ \A i \in 1..m : Bytes(given, m)[i] = given + i
                BY <1>2, <2>2, BytesType
            <4>2. buf \in [R!Places -> Nat]
                BY <1>1 DEF Core
            <4>3. buf' = [i \in R!Places |-> IF i \in 0..(0 + m - 1) THEN Bytes(given, m)[i - 0 + 1]
                                                                    ELSE buf[i]]
                BY <3>1, <4>1, <4>2 DEF R!Copy
            <4>4. ASSUME NEW i \in 0..(m - 1) PROVE i \in R!Places /\ buf'[i] = taken + 1 + i
                <5>1. i \in R!Places /\ i \in 0..(0 + m - 1) /\ i - 0 + 1 \in 1..m
                      /\ given + (i - 0 + 1) = taken + 1 + i
                    BY <1>1, <1>2, <2>2, <3>2 DEF R!Places
                <5> QED
                    BY <4>1, <4>3, <5>1
            <4>5. ASSUME NEW i \in R!Places PROVE buf'[i] \in Nat
                <5>1. CASE i \in 0..(m - 1)
                    BY <1>2, <4>4, <5>1
                <5>2. CASE i \notin 0..(m - 1)
                    <6>1. 0 + m - 1 = m - 1
                        BY <2>2
                    <6> QED
                        BY <4>2, <4>3, <5>2, <6>1
                <5> QED
                    BY <5>1, <5>2
            <4> QED
                BY <4>3, <4>4, <4>5
        <3>4. R!Slice(buf', 0, k) = Bytes(taken, k)
            <4>1. ASSUME NEW i \in 1..k PROVE buf'[0 + i - 1] = taken + i
                <5>1. 0 + i - 1 \in 0..(m - 1) /\ taken + 1 + (0 + i - 1) = taken + i
                    BY <1>2, <2>2, <3>2
                <5> QED
                    BY <3>3, <5>1
            <4>2. k - 0 = k
                BY <3>2
            <4> QED
                BY <4>1, <4>2 DEF R!Slice, Bytes
        <3>5. Core'
            <4>1. ASSUME NEW i \in k..(m - 1) PROVE buf'[i] = taken' + 1 + (i - k)
                <5>1. i \in 0..(m - 1) /\ taken + 1 + i = taken + k + 1 + (i - k)
                    BY <1>2, <2>2, <3>2
                <5> QED
                    BY <3>1, <3>3, <5>1
            <4>2. given' - taken' = m - k
                BY <1>2, <2>2, <3>1, <3>2
            <4>3. k \in 0..Size /\ m \in k..Size /\ taken' \in Nat
                BY <1>1, <1>2, <2>2, <3>1, <3>2
            <4>4. err' \in R!Errors \cup {R!None}
                BY <3>1
            <4> QED
                BY <2>2, <3>1, <3>3, <4>1, <4>2, <4>3, <4>4 DEF Core
        <3>6. lastByte' = taken' /\ lastRuneSize' = -1
            BY <1>2, <3>1, <3>2, <3>4, ReaderRemember
        <3>7. ~(r' = 0 /\ w' > 0)
            BY <3>1, <3>2
        <3>8. R!Returns("Read", Bytes(taken, k), R!None)
            BY <3>1, <3>4
        <3> QED
            BY <1>2, <3>1, <3>2, <3>5, <3>6, <3>7, <3>8, ReaderReturnsBytes
    <2> QED
        BY <2>3, <2>4
<1> QED
    BY <1>3, <1>4, <1>5, <1>6 DEF R!Read

LEMMA ReaderReadByte ==
    ASSUME ReaderOK, R!ReadByte
    PROVE  ReaderOK'
<1>1. /\ R!Turn("ReadByte", 1) /\ lastRuneSize' = -1 /\ UNCHANGED kind /\ frags = <<>> /\ Core
      /\ err \in R!Errors \cup {R!None} /\ R!None \in R!Errors \cup {R!None}
    BY ReaderIdle DEF R!ReadByte, ReaderOK, Core
<1>2. CASE /\ R!Buffered > 0
           /\ R!Take(1) /\ lastByte' = buf[r] /\ R!Returns("ReadByte", <<buf[r]>>, R!None)
           /\ UNCHANGED <<given, buf, w, err>>
    <2>1. 1 \in 0..(w - r) /\ r \in r..(w - 1) /\ r - r = 0
        BY <1>1, <1>2, ReaderWindow
    <2>2. taken \in Nat /\ taken + 1 + 0 = taken + 1
        BY <1>1 DEF Core
    <2>3. buf[r] = taken + 1
        <3>1. buf[r] = taken + 1 + (r - r)
            BY <1>1, <2>1 DEF Core
        <3> QED
            BY <2>1, <2>2, <3>1
    <2>4. <<buf[r]>> = Bytes(taken, 1)
        BY <2>3 DEF Bytes
    <2>5. R!Returns("ReadByte", Bytes(taken, 1), R!None)
        BY <1>2, <2>4
    <2> QED
        BY <1>1, <1>2, <2>1, <2>3, <2>5, ReaderReturnsTaken
<1>3. CASE /\ R!Returns("ReadByte", <<>>, err) /\ err' = R!None
           /\ UNCHANGED <<given, taken, buf, r, w, lastByte>>
    BY <1>1, <1>3, CoreStays, ReaderReturnsNothing
<1>4. CASE R!fill /\ R!Again("ReadByte", 1) /\ UNCHANGED <<taken, lastByte, frags, ret>>
    BY <1>1, <1>4, ReaderMore DEF R!None
<1> QED
    BY <1>2, <1>3, <1>4 DEF R!ReadByte

LEMMA ReaderReadRune ==
    ASSUME ReaderOK, R!ReadRune
    PROVE  ReaderOK'
<1>1. /\ R!Turn("ReadRune", 1) /\ UNCHANGED kind /\ frags = <<>> /\ Core
      /\ err \in R!Errors \cup {R!None} /\ R!None \in R!Errors \cup {R!None}
    BY ReaderIdle DEF R!ReadRune, ReaderOK, Core
<1>2. CASE R!fill /\ R!Again("ReadRune", 1) /\ UNCHANGED <<taken, R!unread, frags, ret>>
    BY <1>1, <1>2, ReaderMore DEF R!None
<1>3. CASE /\ R!Returns("ReadRune", <<>>, err) /\ err' = R!None
           /\ UNCHANGED <<given, taken, buf, r, w, lastByte>>
    BY <1>1, <1>3, CoreStays, ReaderReturnsNothing
<1>4. CASE LET size_ == R!RuneSize(kind, R!Window)
               data == SubSeq(R!Window, 1, size_)
           IN  /\ R!Buffered # 0
               /\ R!Take(size_) /\ R!Remember(data, size_)
               /\ R!Returns("ReadRune", data, R!None)
               /\ UNCHANGED <<given, buf, w, err>>
    <2> DEFINE s == R!RuneSize(kind, R!Window)
    <2>1. w - r \in Nat /\ Len(R!Window) = w - r /\ w - r # 0
        BY <1>1, <1>4, ReaderWindow
    <2>2. s \in 0..(w - r) /\ s \in Nat
        BY <2>1 DEF R!RuneSize
    <2> HIDE DEF s
    <2>3. SubSeq(R!Window, 1, s) = Bytes(taken, s) /\ taken \in Nat
        BY <1>1, <2>2, ReaderWindow DEF Core
    <2>4. /\ R!Take(s) /\ R!Remember(Bytes(taken, s), s)
          /\ R!Returns("ReadRune", Bytes(taken, s), R!None) /\ UNCHANGED <<given, buf, w, err>>
        BY <1>4, <2>3 DEF s
    <2>5. s # 0 => lastByte' = taken + s /\ lastRuneSize' = s
        BY <2>2, <2>3, <2>4, ReaderRemember
    <2> QED
        BY <1>1, <2>2, <2>4, <2>5, ReaderReturnsTaken
<1> QED
    BY <1>2, <1>3, <1>4 DEF R!ReadRune

\* What ReadSlice finds: the window up to the line feed, or all of it.
LEMMA ReaderSlice ==
    ASSUME Core, R!SliceReady
    PROVE  \E n \in 0..(w - r) :
            /\ R!SliceFound = Bytes(taken, n) /\ Len(R!SliceFound) = n
            /\ \A m \in 0..n : SubSeq(R!SliceFound, 1, m) = Bytes(taken, m)
            /\ R!SliceError = R!None <=> n # 0 /\ kind[taken + n] = "nl"
            /\ R!SliceError = "BufferFull" => n > 1
<1>1. /\ w - r \in Nat /\ R!Buffered = w - r /\ taken \in Nat /\ R!Window = Bytes(taken, w - r)
      /\ \A n \in 0..(w - r) : SubSeq(R!Window, 1, n) = Bytes(taken, n)
      /\ Size \in Nat /\ Size > 1 /\ err \in R!Errors \cup {R!None}
    BY ReaderWindow DEF Core
<1>2. /\ R!Window \in Seq(Positions) /\ Len(R!Window) = w - r
      /\ \A i \in 1..(w - r) : R!Window[i] = taken + i
    BY <1>1, BytesType
<1>3. \A a, b, c : R!IndexByte(a, b, c) = IndexByte(a, b, c)
    BY DEF R!IndexByte, IndexByte
<1>4. /\ R!LineEnd \in 0..(w - r)
      /\ R!LineEnd # 0 => kind[R!Window[R!LineEnd]] = "nl"
      /\ R!LineEnd = 0 => \A i \in 1..(w - r) : kind[R!Window[i]] # "nl"
    BY <1>2, <1>3, IndexByteIs DEF R!LineEnd
<1> DEFINE n == IF R!LineEnd > 0 THEN R!LineEnd ELSE w - r
<1>5. n \in 0..(w - r) /\ n \in Nat
    BY <1>1, <1>4
<1>6. R!SliceFound = Bytes(taken, n)
    <2>1. CASE R!LineEnd > 0
        BY <1>1, <1>4, <2>1 DEF R!SliceFound
    <2>2. CASE ~(R!LineEnd > 0)
        BY <1>1, <2>2 DEF R!SliceFound
    <2> QED
        BY <2>1, <2>2
<1>7. ASSUME NEW m \in 0..n PROVE SubSeq(Bytes(taken, n), 1, m) = Bytes(taken, m)
    BY <1>1, <1>5 DEF Bytes
<1>8. R!SliceError = R!None <=> n # 0 /\ kind[taken + n] = "nl"
    <2>1. CASE R!LineEnd > 0
        <3>1. n = R!LineEnd /\ R!LineEnd # 0 /\ R!LineEnd \in 1..(w - r)
            BY <1>4, <2>1
        <3>2. kind[taken + n] = "nl"
            BY <1>2, <1>4, <3>1
        <3> QED
            BY <2>1, <3>1, <3>2 DEF R!SliceError
    <2>2. CASE ~(R!LineEnd > 0)
        <3>1. R!LineEnd = 0 /\ n = w - r
            BY <1>4, <2>2
        <3>2. R!SliceError # R!None
            BY <2>2 DEF R!SliceError, R!None
        <3>3. n # 0 => n \in 1..(w - r)
            BY <1>1, <3>1
        <3>4. n # 0 => kind[taken + n] # "nl"
            BY <1>2, <1>4, <3>1, <3>3
        <3> QED
            BY <3>2, <3>4
    <2> QED
        BY <2>1, <2>2
<1>9. R!SliceError = "BufferFull" => n > 1
    <2>1. SUFFICES ASSUME R!SliceError = "BufferFull" PROVE n > 1
        OBVIOUS
    <2>2. ~(R!LineEnd > 0) /\ ~(err # R!None)
        BY <1>1, <2>1 DEF R!SliceError, R!Errors, R!None
    <2>3. R!Buffered = Size
        BY <2>2 DEF R!SliceReady
    <2> QED
        BY <1>1, <2>2, <2>3
<1>10. Len(Bytes(taken, n)) = n
    BY <1>1, <1>5, BytesType
<1> HIDE DEF n
<1> QED
    BY <1>5, <1>6, <1>7, <1>8, <1>9, <1>10

\* A turn that fills, of ReadSlice and of the calls built on it.
LEMMA ReaderSliceFills ==
    ASSUME ReaderOK, NEW op \in {"ReadSlice", "ReadLine", "ReadBytes"}, R!Turn(op, 1),
           R!SliceFills(op), UNCHANGED kind
    PROVE  ReaderOK'
<1>1. /\ R!fill /\ R!Again(op, 1) /\ UNCHANGED <<taken, frags, ret, R!unread>> /\ op # R!None
    BY DEF R!SliceFills, R!None
<1>2. frags # <<>> => op = "ReadBytes" /\ call.op = "ReadBytes"
    BY ReaderIdle
<1> QED
    BY <1>1, <1>2, ReaderMore

LEMMA ReaderReadSlice ==
    ASSUME ReaderOK, R!ReadSlice
    PROVE  ReaderOK'
<1>1. R!Turn("ReadSlice", 1) /\ UNCHANGED kind
    BY DEF R!ReadSlice
<1>2. CASE R!SliceFills("ReadSlice")
    BY <1>1, <1>2, ReaderSliceFills
<1>3. CASE /\ R!SliceReady /\ R!SliceTaken(0)
           /\ R!Returns("ReadSlice", R!SliceFound, R!SliceError)
    <2>1. PICK n \in 0..(w - r) :
            /\ R!SliceFound = Bytes(taken, n) /\ Len(R!SliceFound) = n
            /\ R!SliceError = R!None <=> n # 0 /\ kind[taken + n] = "nl"
        BY <1>3, ReaderSlice DEF ReaderOK
    <2>2. n \in Nat /\ n - 0 = n /\ taken \in Nat
        BY ReaderWindow DEF ReaderOK, Core
    <2>3. /\ R!Take(n) /\ R!Remember(Bytes(taken, n), -1) /\ UNCHANGED <<given, buf, w>>
          /\ err' \in {err, R!None}
        BY <1>3, <2>1, <2>2 DEF R!SliceTaken
    <2>4. err' \in R!Errors \cup {R!None}
        BY <2>3 DEF ReaderOK, Core
    <2>5. n # 0 => lastByte' = taken + n /\ lastRuneSize' = -1
        BY <2>2, <2>3, ReaderRemember
    <2>6. R!Returns("ReadSlice", Bytes(taken, n), R!SliceError)
        BY <1>3, <2>1
    <2> QED
        BY <1>1, <2>1, <2>3, <2>4, <2>5, <2>6, ReaderReturnsTaken
<1> QED
    BY <1>2, <1>3 DEF R!ReadSlice

\* ReadBytes goes on behind the bytes it has gathered.
LEMMA ReaderReadBytes ==
    ASSUME ReaderOK, R!ReadBytes
    PROVE  ReaderOK'
<1>1. R!Turn("ReadBytes", 1) /\ UNCHANGED kind
    BY DEF R!ReadBytes
<1>2. CASE R!SliceFills("ReadBytes")
    BY <1>1, <1>2, ReaderSliceFills
<1>3. CASE /\ R!SliceReady /\ R!SliceTaken(0)
           /\ IF R!SliceError = "BufferFull"
              THEN frags' = frags \o R!SliceFound /\ R!Again("ReadBytes", 1) /\ UNCHANGED ret
              ELSE R!Returns("ReadBytes", frags \o R!SliceFound, R!SliceError)
    <2>1. PICK n \in 0..(w - r) :
            /\ R!SliceFound = Bytes(taken, n) /\ Len(R!SliceFound) = n
            /\ R!SliceError = R!None <=> n # 0 /\ kind[taken + n] = "nl"
            /\ R!SliceError = "BufferFull" => n > 1
        BY <1>3, ReaderSlice DEF ReaderOK
    <2>2. n \in Nat /\ n - 0 = n /\ taken \in Nat
        BY ReaderWindow DEF ReaderOK, Core
    <2>3. /\ R!Take(n) /\ R!Remember(Bytes(taken, n), -1) /\ UNCHANGED <<given, buf, w>>
          /\ err' \in {err, R!None}
        BY <1>3, <2>1, <2>2 DEF R!SliceTaken
    <2>4. err' \in R!Errors \cup {R!None}
        BY <2>3 DEF ReaderOK, Core
    <2>5. n # 0 => lastByte' = taken + n /\ lastRuneSize' = -1
        BY <2>2, <2>3, ReaderRemember
    <2>6. Core' /\ taken' = taken + n /\ r' = r + n /\ r \in Nat
        BY <2>3, <2>4, ReaderTake, ReaderWindow DEF ReaderOK
    <2>7. PICK l \in 0..taken : frags = Bytes(taken - l, l)
        BY DEF ReaderOK, Gathered, EndsAt
    <2> DEFINE k == taken - l
    <2>8. k \in Nat /\ l \in Nat /\ k + l = taken /\ l + n \in Nat /\ k + (l + n) = taken'
        BY <2>2, <2>6
    <2>9. frags \o R!SliceFound = Bytes(k, l + n)
        <3>1. frags = Bytes(k, l) /\ R!SliceFound = Bytes(k + l, n)
            BY <2>1, <2>7, <2>8
        <3> HIDE DEF k
        <3>2. k \in Nat /\ l \in Nat /\ n \in Nat
            BY <2>2, <2>8
        <3>3. Bytes(k, l) \o Bytes(k + l, n) = Bytes(k, l + n)
            BY ONLY <3>2, BytesConcat
        <3> QED
            BY <3>1, <3>3
    <2>10. l # 0 => /\ frags # <<>> /\ lastByte = taken /\ lastRuneSize = -1
                    /\ kind[taken] # "nl"
        <3>1. l # 0 => frags # <<>>
            BY <2>7, <2>8, RunFacts
        <3> QED
            BY <1>1, <3>1, ReaderIdle
    <2> HIDE DEF k
    <2>11. l + n # 0 => lastByte' = taken' /\ lastRuneSize' = -1
        <3>1. CASE n # 0
            BY <2>5, <2>6, <3>1
        <3>2. CASE n = 0 /\ l # 0
            <4>1. UNCHANGED R!unread
                BY <2>2, <2>3, <3>2, RunFacts DEF R!Remember
            <4> QED
                BY <2>2, <2>6, <2>10, <3>2, <4>1 DEF R!unread
        <3> QED
            BY <2>2, <2>8, <3>1, <3>2
    <2>12. CASE R!SliceError = "BufferFull"
        <3>1. frags' = Bytes(k, l + n) /\ call' = [op |-> "ReadBytes", n |-> 1] /\ UNCHANGED ret
            BY <1>3, <2>9, <2>12 DEF R!Again
        <3>2. call'.op = "ReadBytes" /\ call' # R!Idle /\ l + n # 0 /\ n # 0
            BY <2>1, <2>2, <2>8, <2>12, <3>1 DEF R!Idle, R!None
        <3>3. kind[taken'] # "nl"
            BY <2>1, <2>6, <2>12, <3>2 DEF R!None
        <3>4. EndsAt(frags', taken')
            BY <2>8, <3>1, RunFacts
        <3>5. Gathered'
            BY <1>1, <2>11, <3>2, <3>3, <3>4 DEF Gathered
        <3>6. Returned'
            BY <1>1, <3>1, <3>2 DEF ReaderOK, Returned, Run, SliceReturned
        <3> QED
            BY <2>6, <3>5, <3>6 DEF ReaderOK
    <2>13. CASE R!SliceError # "BufferFull"
        <3>1. R!Returns("ReadBytes", Bytes(k, l + n), R!SliceError)
            BY <1>3, <2>9, <2>13
        <3>2. R!SliceError = R!None <=> l + n # 0 /\ kind'[taken'] = "nl"
            <4>1. CASE n # 0
                BY <1>1, <2>1, <2>2, <2>6, <2>8, <4>1
            <4>2. CASE n = 0
                <5>1. R!SliceError # R!None /\ taken' = taken /\ (l + n # 0 => l # 0)
                    BY <2>1, <2>2, <2>6, <2>8, <4>2
                <5> QED
                    BY <1>1, <2>10, <5>1
            <4> QED
                BY <4>1, <4>2
        <3>3. l + n # 0 => ~(r' = 0 /\ w' > 0)
            <4>1. CASE n # 0
                BY <2>2, <2>6, <4>1
            <4>2. CASE n = 0
                \* Nothing found and no full buffer: the window is empty.
                <5>1. R!SliceFound = R!Window
                    <6>1. R!SliceError # R!None
                        BY <2>1, <4>2
                    <6> QED
                        BY <6>1 DEF R!SliceError, R!SliceFound
                <5>2. w - r = 0 /\ w \in Nat
                    BY <2>1, <4>2, <5>1, ReaderWindow DEF ReaderOK
                <5>3. w' = r'
                    BY <2>3, <2>6, <4>2, <5>2
                <5> QED
                    BY <5>3
            <4> QED
                BY <4>1, <4>2
        <3> QED
            BY <2>6, <2>8, <2>11, <3>1, <3>2, <3>3, ReaderReturnsBytes
    <2> QED
        BY <2>12, <2>13
<1> QED
    BY <1>2, <1>3 DEF R!ReadBytes

\* A line without its end, or a prefix of a longer one.
LEMMA ReaderReturnsLine ==
    ASSUME Core', NEW k \in Nat, NEW n \in Nat, NEW p \in BOOLEAN, NEW e,
           call' = R!Idle, frags' = <<>>,
           ret' = [op |-> "ReadLine", data |-> Bytes(k, n), err |-> e, prefix |-> p],
           p => n > 0 /\ k + n = taken' /\ (kind'[taken'] = "cr" => kind'[taken' + 1] # "nl"),
           ~p /\ n > 0 =>
                \/ k + n = taken' /\ kind'[taken'] # "nl"
                \/ k + n = taken' - 1 /\ kind'[taken'] = "nl" /\ kind'[k + n] # "cr"
                \/ k + n = taken' - 2 /\ kind'[taken'] = "nl" /\ kind'[taken' - 1] = "cr",
           (p => w' - r' = 0) => lastByte' = taken' /\ taken' >= 1 /\ ~(r' = 0 /\ w' > 0)
    PROVE  ReaderOK'
<1>1. /\ ret'.op = "ReadLine" /\ ret'.data = Bytes(k, n) /\ ret'.prefix = p /\ taken' \in Nat
    BY DEF Core
<1>2. Gathered'
    BY <1>1, RunFacts DEF Gathered
<1>3. Run(ret'.data) /\ SliceReturned' /\ Undoable' /\ LineUndoable'
    BY <1>1, RunFacts DEF SliceReturned, Undoable, MayUndo, LineUndoable
<1>4. Bytes(k, n) # <<>> => n > 0 /\ R!Last(Bytes(k, n)) = k + n
    <2>1. n = 0 \/ n \in Nat \ {0}
        OBVIOUS
    <2>2. n # 0 => n > 0
        OBVIOUS
    <2> QED
        BY <2>1, <2>2, RunFacts
<1>5. LineReturned'
    <2>1. SUFFICES ASSUME Bytes(k, n) # <<>> PROVE LineReturned'
        BY <1>1 DEF LineReturned
    <2>2. R!Last(ret.data)' = k + n
        BY <1>1, <1>4, <2>1 DEF R!Last
    <2> QED
        BY <1>1, <1>4, <2>1, <2>2 DEF LineReturned
<1> QED
    BY <1>1, <1>2, <1>3, <1>5 DEF ReaderOK, Returned

LEMMA ReaderReadLine ==
    ASSUME ReaderOK, R!ReadLine
    PROVE  ReaderOK'
<1>1. R!Turn("ReadLine", 1) /\ UNCHANGED kind
    BY DEF R!ReadLine
<1>2. CASE R!SliceFills("ReadLine")
    BY <1>1, <1>2, ReaderSliceFills
<1>3. ASSUME R!SliceReady, NEW n \in 0..(w - r), R!SliceFound = Bytes(taken, n),
             Len(R!SliceFound) = n, NEW back \in 0..n, R!SliceTaken(back)
      PROVE  /\ Core' /\ taken' = taken + (n - back) /\ taken \in Nat /\ n \in Nat
             /\ r' = r + (n - back) /\ w' = w /\ r \in Nat /\ w \in Nat /\ n <= w - r
             /\ n # 0 => lastByte' = taken + n
             /\ \A i \in 1..n : R!SliceFound[i] = taken + i
    <2>1. n \in Nat /\ taken \in Nat /\ n - back \in 0..(w - r)
        BY ReaderWindow DEF ReaderOK, Core
    <2>2. /\ R!Take(n - back) /\ UNCHANGED <<given, buf, w>> /\ err' \in {err, R!None}
        BY <1>3 DEF R!SliceTaken
    <2>3. err' \in R!Errors \cup {R!None}
        BY <2>2 DEF ReaderOK, Core
    <2>4. Core' /\ taken' = taken + (n - back) /\ r' = r + (n - back)
        BY <2>1, <2>2, <2>3, ReaderTake DEF ReaderOK
    <2>5. \A i \in 1..n : R!SliceFound[i] = taken + i
        BY <1>3, <2>1, BytesType
    <2>6. n # 0 => lastByte' = taken + n
        <3>1. R!Remember(Bytes(taken, n), -1)
            BY <1>3 DEF R!SliceTaken
        <3> QED
            BY <2>1, <3>1, ReaderRemember
    <2>7. r \in Nat /\ w \in Nat /\ n <= w - r /\ w' = w
        BY <2>1, <2>2, ReaderWindow DEF ReaderOK
    <2> QED
        BY <2>1, <2>4, <2>5, <2>6, <2>7
<1>4. CASE R!ReadLinePrefix
    <2>1. R!SliceReady /\ R!SliceError = "BufferFull"
        BY <1>4 DEF R!ReadLinePrefix
    <2>2. PICK n \in 0..(w - r) :
            /\ R!SliceFound = Bytes(taken, n) /\ Len(R!SliceFound) = n
            /\ \A m \in 0..n : SubSeq(R!SliceFound, 1, m) = Bytes(taken, m)
            /\ R!SliceError = R!None <=> n # 0 /\ kind[taken + n] = "nl"
            /\ R!SliceError = "BufferFull" => n > 1
        BY <2>1, ReaderSlice DEF ReaderOK
    <2> DEFINE back == IF kind[R!SliceFound[n]] = "cr" THEN 1 ELSE 0
    <2>3. n > 1 /\ n \in Nat
        BY <2>1, <2>2, ReaderWindow DEF ReaderOK
    <2>4. back \in 0..n /\ n - back \in 0..n /\ n - back \in Nat /\ n - back > 0
        BY <2>3
    <2>5. /\ R!SliceTaken(back) /\ call' = R!Idle /\ frags' = <<>>
          /\ ret' = [op |-> "ReadLine", data |-> SubSeq(R!SliceFound, 1, n - back),
                     err |-> R!None, prefix |-> TRUE]
        BY <1>4, <2>2 DEF R!ReadLinePrefix
    <2>6. /\ Core' /\ taken' = taken + (n - back) /\ taken \in Nat
          /\ r' = r + (n - back) /\ w' = w /\ r \in Nat /\ w \in Nat /\ n <= w - r
          /\ lastByte' = taken + n
          /\ \A i \in 1..n : R!SliceFound[i] = taken + i
        <3>1. back \in 0..n
            BY <2>4
        <3> HIDE DEF back
        <3> QED
            BY <1>3, <2>1, <2>2, <2>3, <2>5, <3>1
    <2>7. kind[taken'] = "cr" => kind[taken' + 1] # "nl"
        <3>1. R!SliceFound[n] = taken + n
            BY <2>3, <2>6
        <3>2. CASE kind[R!SliceFound[n]] = "cr"
            <4>1. taken' + 1 = taken + n
                BY <2>3, <2>6, <3>2
            <4> QED
                BY <3>1, <3>2, <4>1
        <3>3. CASE kind[R!SliceFound[n]] # "cr"
            <4>1. taken' = taken + n
                BY <2>3, <2>6, <3>3
            <4> QED
                BY <3>1, <3>3, <4>1
        <3> QED
            BY <3>2, <3>3
    <2>8. ret' = [op |-> "ReadLine", data |-> Bytes(taken, n - back),
                  err |-> R!None, prefix |-> TRUE]
        <3>1. n - back \in 0..n
            BY <2>4
        <3> HIDE DEF back
        <3> QED
            BY <2>2, <2>5, <3>1
    <2>9. n - back \in Nat /\ n - back > 0
        BY <2>4
    <2>10. w' - r' = 0 => lastByte' = taken' /\ taken' >= 1 /\ ~(r' = 0 /\ w' > 0)
        \* A carriage return that was put back is left in the window.
        <3>1. back \in {0, 1}
            OBVIOUS
        <3> HIDE DEF back
        <3>2. CASE back = 0
            BY <2>3, <2>6, <3>2
        <3>3. CASE back = 1
            <4>1. w' - r' # 0
                BY <2>3, <2>6, <3>3
            <4> QED
                BY <4>1
        <3> QED
            BY <3>1, <3>2, <3>3
    <2> HIDE DEF back
    <2> QED
        BY <1>1, <2>5, <2>6, <2>7, <2>8, <2>9, <2>10, ReaderReturnsLine
<1>5. CASE /\ R!SliceReady /\ R!SliceError # "BufferFull"
           /\ R!SliceTaken(0)
           /\ IF R!SliceFound = <<>> THEN R!Returns("ReadLine", <<>>, R!SliceError)
                                   ELSE R!Returns("ReadLine", R!Trim(R!SliceFound), R!None)
    <2>1. PICK n \in 0..(w - r) :
            /\ R!SliceFound = Bytes(taken, n) /\ Len(R!SliceFound) = n
            /\ \A m \in 0..n : SubSeq(R!SliceFound, 1, m) = Bytes(taken, m)
            /\ R!SliceError = R!None <=> n # 0 /\ kind[taken + n] = "nl"
        BY <1>5, ReaderSlice DEF ReaderOK
    <2>2. /\ Core' /\ taken' = taken + (n - 0) /\ taken \in Nat /\ n \in Nat
          /\ r' = r + (n - 0) /\ w' = w /\ r \in Nat /\ w \in Nat
          /\ n # 0 => lastByte' = taken + n
          /\ \A i \in 1..n : R!SliceFound[i] = taken + i
        <3>1. 0 \in 0..n
            BY ReaderWindow DEF ReaderOK
        <3> QED
            BY <1>3, <1>5, <2>1, <3>1
    <2>3. taken' = taken + n
        BY <2>2
    <2>4. CASE R!SliceFound = <<>>
        <3>1. R!SliceError # R!None
            <4>1. n = 0 \/ n \in Nat \ {0}
                BY <2>2
            <4> QED
                BY <2>1, <2>2, <2>4, <4>1, RunFacts
        <3> QED
            BY <1>5, <2>2, <2>4, <3>1, ReaderReturnsNothing
    <2>5. CASE R!SliceFound # <<>>
        <3>1. n # 0 /\ n >= 1 /\ n \in 1..n
            BY <2>1, <2>2, <2>5, RunFacts
        <3> DEFINE drop == IF kind[R!SliceFound[n]] # "nl" THEN 0
                           ELSE IF n > 1 /\ kind[R!SliceFound[n - 1]] = "cr" THEN 2 ELSE 1
        <3>2. drop \in 0..n /\ n - drop \in 0..n /\ n - drop \in Nat
            BY <3>1, <2>2
        <3>3. R!Trim(R!SliceFound) = Bytes(taken, n - drop)
            BY <2>1, <3>2 DEF R!Trim
        <3>4. R!SliceFound[n] = taken + n
            BY <2>2, <3>1
        <3>5. n - drop > 0 =>
                \/ taken + (n - drop) = taken' /\ kind[taken'] # "nl"
                \/ /\ taken + (n - drop) = taken' - 1 /\ kind[taken'] = "nl"
                   /\ kind[taken + (n - drop)] # "cr"
                \/ taken + (n - drop) = taken' - 2 /\ kind[taken'] = "nl" /\ kind[taken' - 1] = "cr"
            <4>1. SUFFICES ASSUME n - drop > 0
                  PROVE  \/ taken + (n - drop) = taken' /\ kind[taken'] # "nl"
                         \/ /\ taken + (n - drop) = taken' - 1 /\ kind[taken'] = "nl"
                            /\ kind[taken + (n - drop)] # "cr"
                         \/ taken + (n - drop) = taken' - 2 /\ kind[taken'] = "nl" /\ kind[taken' - 1] = "cr"
                BY <4>1
            <4>2. CASE kind[taken + n] # "nl"
                <5>1. drop = 0 /\ taken + (n - 0) = taken'
                    BY <2>2, <2>3, <3>4, <4>2
                <5> HIDE DEF drop
                <5> QED
                    BY <2>3, <4>2, <5>1
            <4>3. CASE kind[taken + n] = "nl"
                <5>1. drop # 0 /\ n - 1 \in 1..n /\ R!SliceFound[n - 1] = taken + (n - 1)
                    <6>1. drop # 0 /\ drop >= 1
                        BY <3>4, <4>3
                    <6>2. n - 1 \in 1..n
                        <7>1. drop \in Nat
                            BY <3>2
                        <7> HIDE DEF drop
                        <7> QED
                            BY <2>2, <4>1, <6>1, <7>1
                    <6> QED
                        BY <2>2, <6>1, <6>2
                <5>2. n > 1
                    BY <2>2, <5>1
                <5>3. taken + (n - 1) = taken' - 1 /\ taken + (n - 2) = taken' - 2
                    BY <2>2, <2>3
                <5>4. CASE kind[taken + (n - 1)] = "cr"
                    <6>1. drop = 2
                        BY <3>4, <4>3, <5>1, <5>2, <5>4
                    <6> HIDE DEF drop
                    <6> QED
                        BY <2>3, <4>3, <5>3, <5>4, <6>1
                <5>5. CASE kind[taken + (n - 1)] # "cr"
                    <6>1. drop = 1
                        BY <3>4, <4>3, <5>1, <5>2, <5>5
                    <6> HIDE DEF drop
                    <6> QED
                        BY <2>3, <4>3, <5>3, <5>5, <6>1
                <5> QED
                    BY <5>4, <5>5
            <4> QED
                BY <4>2, <4>3
        <3>6. n - drop \in Nat
            BY <3>2
        <3> HIDE DEF drop
        <3>7. R!Returns("ReadLine", Bytes(taken, n - drop), R!None)
            BY <1>5, <2>5, <3>3
        <3>8. /\ call' = R!Idle /\ frags' = <<>>
              /\ ret' = [op |-> "ReadLine", data |-> Bytes(taken, n - drop),
                         err |-> R!None, prefix |-> FALSE]
            BY <3>7 DEF R!Returns
        <3>9. lastByte' = taken' /\ taken' >= 1 /\ ~(r' = 0 /\ w' > 0)
            BY <2>2, <2>3, <3>1
        <3> QED
            BY <1>1, <2>2, <3>5, <3>6, <3>8, <3>9, ReaderReturnsLine
    <2> QED
        BY <2>4, <2>5
<1> QED
    BY <1>2, <1>4, <1>5 DEF R!ReadLine

\* WriteTo writes m bytes of the window behind those it has written.
LEMMA ReaderWrites ==
    ASSUME ReaderOK, NEW m \in 0..(w - r), R!writeBuf(m), UNCHANGED kind
    PROVE  /\ Core' /\ taken' = taken + m /\ m \in Nat /\ taken \in Nat
           /\ \E k \in Nat, n \in Nat : k + n = taken' /\ R!Written(m) = Bytes(k, n)
<1>1. R!Take(m) /\ UNCHANGED <<given, buf, w>> /\ err' \in R!Errors \cup {R!None}
    BY DEF R!writeBuf, ReaderOK, Core
<1>2. Core' /\ taken' = taken + m /\ m \in Nat /\ taken \in Nat
    BY <1>1, ReaderTake DEF ReaderOK
<1>3. PICK l \in 0..taken : frags = Bytes(taken - l, l)
    BY DEF ReaderOK, Gathered, EndsAt
<1>4. taken - l \in Nat /\ l \in Nat /\ (taken - l) + l = taken /\ l + m \in Nat
      /\ (taken - l) + (l + m) = taken'
    BY <1>2
<1>5. R!Written(m) = Bytes(taken - l, l) \o Bytes(taken, m)
    BY <1>3, ReaderWindow DEF R!Written, ReaderOK
<1>6. PICK k \in Nat : k = taken - l
    BY <1>4
<1>7. Bytes(k, l) \o Bytes(k + l, m) = Bytes(k, l + m)
    BY <1>2, <1>4, BytesConcat
<1>8. k + l = taken /\ k + (l + m) = taken'
    BY <1>4, <1>6
<1>9. R!Written(m) = Bytes(k, l + m)
    BY <1>5, <1>6, <1>7, <1>8
<1> QED
    BY <1>2, <1>4, <1>8, <1>9

LEMMA ReaderReturnsWritten ==
    ASSUME Core', NEW k \in Nat, NEW n \in Nat, k + n = taken', NEW e,
           R!Returns("WriteTo", Bytes(k, n), e)
    PROVE  ReaderOK'
BY ReaderReturnsBytes DEF MayUndo

LEMMA ReaderWriteTo ==
    ASSUME ReaderOK, R!WriteTo
    PROVE  ReaderOK'
<1>1. UNCHANGED <<kind, R!unread>> /\ R!Buffered = w - r /\ w - r \in Nat
    BY ReaderWindow DEF R!WriteTo, ReaderOK
<1>2. ASSUME NEW m \in 0..R!Buffered, R!writeBuf(m), R!Returns("WriteTo", R!Written(m), "other")
      PROVE  ReaderOK'
    <2>1. Core' /\ \E k \in Nat, n \in Nat : k + n = taken' /\ R!Written(m) = Bytes(k, n)
        BY <1>1, <1>2, ReaderWrites
    <2> QED
        BY <1>2, <2>1, ReaderReturnsWritten
<1>3. CASE /\ R!writeBuf(R!Buffered) /\ frags' = R!Written(R!Buffered)
           /\ R!Again("WriteToFill", 1) /\ UNCHANGED ret
    <2>1. w - r \in 0..(w - r)
        BY <1>1
    <2>2. Core' /\ \E k \in Nat, n \in Nat : k + n = taken' /\ R!Written(w - r) = Bytes(k, n)
        BY <1>1, <1>3, <2>1, ReaderWrites
    <2>3. EndsAt(frags', taken')
        BY <1>1, <1>3, <2>2, RunFacts
    <2>4. call'.op = "WriteToFill" /\ call' # R!Idle
        BY <1>3 DEF R!Again, R!Idle, R!None
    <2>5. Gathered'
        BY <2>3, <2>4 DEF Gathered
    <2>6. Returned'
        BY <1>1, <1>3, <2>4 DEF ReaderOK, Returned, Run, SliceReturned
    <2> QED
        BY <2>2, <2>5, <2>6 DEF ReaderOK
<1>4. ASSUME NEW n \in 0..(MaxBytes - given), NEW e,
             R!Turn("WriteTo", 1),
             r' = w, given' = given + n, taken' = taken + R!Buffered + n,
             R!Returns("WriteTo", R!Written(R!Buffered) \o Bytes(given, n), e),
             UNCHANGED <<buf, w, err>>
      PROVE  ReaderOK'
    <2>1. /\ taken \in Nat /\ given \in Nat /\ given - taken = w - r /\ frags = <<>>
          /\ buf \in [R!Places -> Nat] /\ err \in R!Errors \cup {R!None} /\ w \in 0..Size
          /\ Size \in Nat /\ n \in Nat
        <3>1. Core /\ r \in Nat /\ w \in Nat /\ w \in r..Size /\ Size \in Nat
            BY ReaderWindow DEF ReaderOK, Core
        <3>2. frags = <<>>
            BY <1>4, ReaderIdle
        <3> QED
            BY <3>1, <3>2 DEF Core
    <2>2. given = taken + (w - r)
        BY <1>1, <2>1
    <2>3. given' \in Nat /\ taken' \in Nat /\ given' - taken' = w - w /\ taken' = given'
        <3>1. given' = given + n /\ taken' = taken + (w - r) + n
            BY <1>1, <1>4
        <3>2. given' = taken' /\ given' \in Nat
            BY <2>1, <2>2, <3>1
        <3>3. given' - given' = 0 /\ w - w = 0
            <4>1. given' \in Int /\ w \in Int
                BY <2>1, <3>2
            <4>2. \A x \in Int : x - x = 0
                OBVIOUS
            <4> QED
                BY <4>1, <4>2
        <3> QED
            BY <3>2, <3>3
    <2>4. \A i \in w..(w - 1) : FALSE
        BY <2>1
    <2>5. Core'
        <3>1. r' \in 0..Size /\ w' \in r'..Size
            BY <1>4, <2>1
        <3> QED
            BY <1>4, <2>1, <2>3, <2>4, <3>1 DEF Core
    <2>6. R!Written(w - r) = Bytes(taken, w - r)
        <3>1. w - r \in 0..(w - r) /\ Bytes(taken, w - r) \in Seq(Positions)
            <4>1. w - r \in Nat /\ taken \in Nat
                BY <1>1, <2>1
            <4>2. PICK b \in Nat : b = w - r
                BY <4>1
            <4>3. b \in 0..b /\ Bytes(taken, b) \in Seq(Positions)
                BY <4>1, BytesType
            <4> QED
                BY <4>2, <4>3
        <3>2. SubSeq(R!Window, 1, w - r) = Bytes(taken, w - r)
            BY <3>1, ReaderWindow DEF ReaderOK
        <3>3. <<>> \o Bytes(taken, w - r) = Bytes(taken, w - r)
            BY <3>1, ConcatEmptySeq
        <3> QED
            BY <2>1, <3>2, <3>3 DEF R!Written
    <2>7. Bytes(taken, w - r) \o Bytes(taken + (w - r), n) = Bytes(taken, (w - r) + n)
        <3>1. PICK b \in Nat : b = w - r
            BY <1>1, <2>1
        <3>2. taken \in Nat /\ n \in Nat
            BY <1>1, <2>1
        <3>3. Bytes(taken, b) \o Bytes(taken + b, n) = Bytes(taken, b + n)
            BY ONLY <3>1, <3>2, BytesConcat
        <3> QED
            BY <3>1, <3>3
    <2>8. R!Returns("WriteTo", Bytes(taken, (w - r) + n), e)
        BY <1>1, <1>4, <2>2, <2>6, <2>7
    <2>9. (w - r) + n \in Nat /\ taken + ((w - r) + n) = taken'
        BY <1>1, <1>4, <2>1
    <2> QED
        BY <2>1, <2>5, <2>8, <2>9, ReaderReturnsWritten
<1>5. CASE R!fill /\ R!Again("WriteToLoop", 1) /\ UNCHANGED <<taken, frags, ret>>
    BY <1>1, <1>5, ReaderMore DEF R!None
<1>6. CASE \E e : R!Returns("WriteTo", frags, e) /\ err' = R!None /\ UNCHANGED <<given, taken, buf, r, w>>
    <2>1. Core'
        BY <1>6, CoreStays DEF ReaderOK
    <2>2. PICK l \in 0..taken : frags = Bytes(taken - l, l)
        BY DEF ReaderOK, Gathered, EndsAt
    <2>3. taken - l \in Nat /\ l \in Nat /\ (taken - l) + l = taken'
        BY <1>6 DEF ReaderOK, Core
    <2> QED
        BY <1>6, <2>1, <2>2, <2>3, ReaderReturnsWritten
<1>7. \/ \E m \in 0..R!Buffered : R!writeBuf(m) /\ R!Returns("WriteTo", R!Written(m), "other")
      \/ /\ R!writeBuf(R!Buffered) /\ frags' = R!Written(R!Buffered)
         /\ R!Again("WriteToFill", 1) /\ UNCHANGED ret
      \/ \E n \in 0..(MaxBytes - given), e \in {"other", R!None} :
            /\ R!Turn("WriteTo", 1)
            /\ r' = w /\ given' = given + n /\ taken' = taken + R!Buffered + n
            /\ R!Returns("WriteTo", R!Written(R!Buffered) \o Bytes(given, n), e)
            /\ UNCHANGED <<buf, w, err>>
      \/ R!fill /\ R!Again("WriteToLoop", 1) /\ UNCHANGED <<taken, frags, ret>>
      \/ \E e : R!Returns("WriteTo", frags, e) /\ err' = R!None /\ UNCHANGED <<given, taken, buf, r, w>>
    BY SameBytes DEF R!WriteTo
<1> QED
    BY <1>2, <1>3, <1>4, <1>5, <1>6, <1>7

LEMMA ReaderUnreadByte ==
    ASSUME ReaderOK, Remembered, R!UnreadByte, ~stray'
    PROVE  ReaderOK' /\ Remembered'
<1>1. /\ call = R!Idle /\ UNCHANGED <<kind, given, err>> /\ Core
    BY DEF R!UnreadByte, ReaderOK
<1>2. CASE R!Returns("UnreadByte", <<>>, "other") /\ UNCHANGED <<taken, buf, r, w, R!unread>>
    <2>1. Core'
        BY <1>1, <1>2, CoreStays DEF Core
    <2>2. Remembered'
        BY <1>2 DEF Remembered, R!unread
    <2> QED
        BY <1>2, <2>1, <2>2, ReaderReturnsNothing
<1>3. CASE /\ ~R!UnreadByteFails
           /\ LET place == IF r > 0 THEN r - 1 ELSE 0 IN
              r' = place /\ buf' = [buf EXCEPT ![place] = lastByte]
           /\ w' = IF r > 0 THEN w ELSE 1
           /\ taken' = taken - 1 /\ ~R!Stale /\ R!Forget
           /\ R!Returns("UnreadByte", <<>>, R!None)
    <2>0. lastByte = taken /\ taken >= 1 /\ ~(r = 0 /\ w > 0)
        <3>1. lastByte = taken /\ ~(lastByte < 0) /\ lastByte \in Int /\ lastByte # 0
              /\ ~(r = 0 /\ w > 0)
            BY <1>3 DEF R!Stale, R!UnreadByteFails, Remembered
        <3> QED
            BY <3>1
    <2>1. /\ r \in Nat /\ w \in Nat /\ r <= w /\ w <= Size /\ Size \in Nat /\ Size > 1
          /\ taken \in Nat /\ given \in Nat /\ given - taken = w - r
          /\ buf \in [R!Places -> Nat] /\ err \in R!Errors \cup {R!None}
          /\ \A i \in r..(w - 1) : buf[i] = taken + 1 + (i - r)
        BY <1>1, ReaderWindow DEF Core
    <2>2. taken' \in Nat /\ taken' + 1 = taken
        BY <2>0, <1>3, <2>1
    <2>3. r' \in R!Places /\ buf' = [buf EXCEPT ![r'] = taken] /\ r' \in 0..Size
        BY <2>0, <1>3, <2>1 DEF R!Places
    <2>4. buf' \in [R!Places -> Nat] /\ buf'[r'] = taken
          /\ \A i \in R!Places : i # r' => buf'[i] = buf[i]
        BY <2>1, <2>3
    <2>5. given' - taken' = w' - r' /\ w' \in r'..Size /\ w' \in Nat
        <3>1. CASE r > 0
            <4>1. r' = r - 1 /\ w' = w /\ given' = given /\ taken' = taken - 1
                BY <1>1, <1>3, <3>1
            <4> QED
                BY <2>1, <3>1, <4>1
        <3>2. CASE ~(r > 0)
            <4>1. r = 0 /\ w = 0 /\ r' = 0 /\ w' = 1 /\ given' = given /\ taken' = taken - 1
                BY <1>1, <2>0, <1>3, <2>1, <3>2
            <4> QED
                BY <2>1, <4>1
        <3> QED
            BY <3>1, <3>2
    <2>6. ASSUME NEW i \in r'..(w' - 1) PROVE buf'[i] = taken' + 1 + (i - r')
        <3>1. CASE i = r'
            BY <2>2, <2>3, <2>4, <3>1
        <3>2. CASE i # r'
            <4>1. r > 0 /\ r' = r - 1 /\ w' = w
                <5>1. CASE r > 0
                    BY <1>3, <5>1
                <5>2. CASE ~(r > 0)
                    BY <2>0, <1>3, <2>1, <3>2, <5>2
                <5> QED
                    BY <5>1, <5>2
            <4>2. i \in r..(w - 1) /\ i \in R!Places
                BY <2>1, <3>2, <4>1 DEF R!Places
            <4>3. taken + 1 + (i - r) = taken' + 1 + (i - r')
                <5>1. taken \in Int /\ taken' = taken - 1 /\ r \in Int /\ r' = r - 1 /\ i \in Int
                    BY <1>3, <2>1, <4>1, <4>2
                <5> QED
                    BY ONLY <5>1
            <4> QED
                BY <2>1, <2>4, <3>2, <4>2, <4>3
        <3> QED
            BY <3>1, <3>2
    <2>7. Core'
        BY <1>1, <2>1, <2>2, <2>3, <2>4, <2>5, <2>6 DEF Core
    <2>8. Remembered'
        BY <1>3 DEF R!Forget, Remembered
    <2> QED
        BY <1>3, <2>7, <2>8, ReaderReturnsNothing
<1> QED
    BY <1>2, <1>3 DEF R!UnreadByte

LEMMA ReaderUnreadRune ==
    ASSUME ReaderOK, Remembered, R!UnreadRune, ~stray'
    PROVE  ReaderOK' /\ Remembered'
<1>1. call = R!Idle /\ UNCHANGED <<kind, given, buf, w, err>> /\ Core
    BY DEF R!UnreadRune, ReaderOK
<1>2. CASE R!Returns("UnreadRune", <<>>, "other") /\ UNCHANGED <<taken, r, R!unread>>
    <2>1. Core'
        BY <1>1, <1>2, CoreStays DEF Core
    <2>2. Remembered'
        BY <1>1, <1>2 DEF Remembered, R!unread
    <2> QED
        BY <1>2, <2>1, <2>2, ReaderReturnsNothing
<1>3. CASE /\ ~R!UnreadRuneFails
           /\ r' = r - lastRuneSize /\ taken' = taken - lastRuneSize /\ ~R!Stale /\ R!Forget
           /\ R!Returns("UnreadRune", <<>>, R!None)
    <2>1. /\ r \in Nat /\ w \in Nat /\ r <= w /\ w <= Size /\ Size \in Nat
          /\ taken \in Nat /\ given \in Nat /\ given - taken = w - r
          /\ \A i \in r..(w - 1) : buf[i] = taken + 1 + (i - r)
        BY <1>1, ReaderWindow DEF Core
    <2>2. /\ lastRuneSize \in 1..r /\ lastRuneSize <= taken
          /\ \A i \in (r - lastRuneSize)..(r - 1) : buf[i] = taken + 1 + (i - r)
        <3>1. lastByte = taken /\ ~(lastRuneSize < 0) /\ ~(r < lastRuneSize)
            BY <1>3 DEF R!Stale, R!UnreadRuneFails
        <3>2. lastRuneSize \in Int /\ lastRuneSize > 0 /\ lastRuneSize <= r /\ lastRuneSize \in 1..r
            BY <2>1, <3>1 DEF Remembered
        <3> QED
            BY <3>1, <3>2 DEF Remembered
    <2>3. PICK s \in 1..r : s = lastRuneSize
        BY <2>2
    <2>4. s \in Nat /\ r' = r - s /\ taken' = taken - s /\ s <= taken
        BY <1>3, <2>1, <2>2, <2>3
    <2>5. r' \in 0..Size /\ w \in r'..Size /\ taken' \in Nat /\ given - taken' = w - r'
        BY <2>1, <2>4
    <2>6. ASSUME NEW i \in r'..(w - 1) PROVE buf[i] = taken' + 1 + (i - r')
        <3>1. taken + 1 + (i - r) = taken' + 1 + (i - r')
            BY <2>1, <2>4
        <3>2. i \in (r - s)..(r - 1) \/ i \in r..(w - 1)
            BY <2>1, <2>4
        <3> QED
            BY <2>1, <2>2, <2>3, <3>1, <3>2
    <2>7. Core'
        BY <1>1, <2>5, <2>6 DEF Core
    <2>8. Remembered'
        BY <1>3 DEF R!Forget, Remembered
    <2> QED
        BY <1>3, <2>7, <2>8, ReaderReturnsNothing
<1> QED
    BY <1>2, <1>3 DEF R!UnreadRune

LEMMA ReaderReset ==
    ASSUME R!Reset
    PROVE  ReaderOK' /\ Remembered'
<1>1. Core'
    BY SizesAssumption DEF R!Reset, Core, R!ReaderAssumption, R!Places, R!None
<1>2. Remembered'
    BY DEF R!Reset, R!Forget, Remembered
<1> QED
    BY <1>1, <1>2, ReaderReturnsNothing DEF R!Reset, R!None

\* What a call that goes forward makes of what was remembered: it forgets the
\* rune, or fills the buffer, which leaves nothing in front of the window, or
\* takes bytes, which makes what is remembered stale.
LEMMA RememberedLast ==
    ASSUME lastByte' \in Int, lastByte' # 0, lastRuneSize' = -1
    PROVE  Remembered'
BY DEF Remembered

\* A read that has returned bytes has left what it has to remember.
LEMMA RememberedReturns ==
    ASSUME ReaderOK', call' = R!Idle, ret'.op \in MayUndo, ret'.data # <<>>
    PROVE  Remembered'
<1>1. /\ Undoable' /\ taken' \in Nat /\ r' \in Nat
    BY ReaderWindow DEF ReaderOK, Returned, Core
<1>2. lastByte' = taken' /\ taken' >= 1 /\ (ret'.op # "ReadRune" => lastRuneSize' = -1)
    BY <1>1 DEF Undoable
<1>3. CASE ret'.op # "ReadRune"
    BY <1>1, <1>2, <1>3, RememberedLast
<1>4. CASE ret'.op = "ReadRune"
    <2>1. /\ lastRuneSize' \in 1..r' /\ lastRuneSize' <= taken'
          /\ \A i \in (r' - lastRuneSize')..(r' - 1) : buf'[i] = taken' + 1 + (i - r')
        BY <1>1, <1>4 DEF Undoable
    <2> QED
        BY <1>1, <1>2, <2>1 DEF Remembered
<1> QED
    BY <1>3, <1>4

LEMMA RememberedFill ==
    ASSUME Remembered, r' = 0, UNCHANGED <<R!unread, taken>>
    PROVE  Remembered'
<1>1. UNCHANGED <<lastByte, lastRuneSize, taken>>
    BY DEF R!unread
<1>2. lastRuneSize' > 0 => ~(lastRuneSize' <= r')
    BY <1>1 DEF Remembered
<1> QED
    BY <1>1, <1>2 DEF Remembered

LEMMA RememberedMoves ==
    ASSUME Remembered, taken \in Nat, NEW n \in Nat, taken' = taken + n, n = 0 => r' = r,
           UNCHANGED <<R!unread, buf>>
    PROVE  Remembered'
<1>1. UNCHANGED <<lastByte, lastRuneSize, buf>>
    BY DEF R!unread
<1>2. CASE n = 0
    <2>1. taken' = taken /\ r' = r
        BY <1>2
    <2> QED
        BY <1>1, <2>1 DEF Remembered
<1>3. CASE n # 0
    <2>1. lastRuneSize' > 0 => lastByte' <= taken' /\ lastByte' # taken'
        BY <1>1, <1>3 DEF Remembered
    <2> QED
        BY <1>1, <2>1 DEF Remembered
<1> QED
    BY <1>2, <1>3

LEMMA RememberedBytes ==
    ASSUME Remembered, taken \in Nat, NEW k \in Nat, NEW n \in Nat, R!Remember(Bytes(k, n), -1),
           n = 0 => UNCHANGED <<taken, r, buf>>
    PROVE  Remembered'
<1>1. CASE n = 0
    <2>1. UNCHANGED R!unread /\ taken' = taken + 0
        BY <1>1, RunFacts DEF R!Remember
    <2> QED
        BY <1>1, <2>1, RememberedMoves
<1>2. CASE n # 0
    <2>1. lastByte' = k + n /\ lastRuneSize' = -1 /\ k + n \in Int /\ k + n # 0
        BY <1>2, ReaderRemember
    <2> QED
        BY <2>1, RememberedLast
<1> QED
    BY <1>1, <1>2

LEMMA RememberedSlice ==
    ASSUME ReaderOK, Remembered, R!SliceReady, NEW keep \in Nat, R!SliceTaken(keep),
           keep # 0 => R!SliceFound # <<>>
    PROVE  Remembered'
<1>1. PICK n \in 0..(w - r) : R!SliceFound = Bytes(taken, n) /\ Len(R!SliceFound) = n
    BY ReaderSlice DEF ReaderOK
<1>2. n \in Nat /\ taken \in Nat /\ r \in Nat
    BY ReaderWindow DEF ReaderOK, Core
<1>3. R!Remember(Bytes(taken, n), -1) /\ R!Take(n - keep) /\ UNCHANGED buf
    BY <1>1 DEF R!SliceTaken
<1>4. n = 0 => UNCHANGED <<taken, r>>
    <2>1. SUFFICES ASSUME n = 0 PROVE UNCHANGED <<taken, r>>
        OBVIOUS
    <2>2. keep = 0 /\ n - keep = 0
        BY <1>1, <1>2, <2>1, RunFacts
    <2> QED
        BY <1>2, <1>3, <2>2 DEF R!Take
<1> QED
    BY <1>2, <1>3, <1>4, RememberedBytes

LEMMA RememberedSliceFills ==
    ASSUME Remembered, NEW op, R!SliceFills(op)
    PROVE  Remembered'
<1>1. r' = 0 /\ UNCHANGED <<R!unread, taken>>
    BY DEF R!SliceFills, R!fill
<1> QED
    BY <1>1, RememberedFill

LEMMA RememberedDiscard ==
    ASSUME ReaderOK, Remembered, NEW n \in Nat, R!Discard(n)
    PROVE  Remembered'
<1>1. UNCHANGED R!unread /\ taken \in Nat /\ r \in Nat /\ R!Buffered \in Nat
    BY ReaderWindow DEF R!Discard, ReaderOK, Core
<1>2. CASE R!fill /\ UNCHANGED taken
    <2>1. r' = 0
        BY <1>2 DEF R!fill
    <2> QED
        BY <1>1, <1>2, <2>1, RememberedFill
<1>3. CASE R!Take(IF R!Buffered > n THEN n ELSE R!Buffered) /\ UNCHANGED buf
    <2> DEFINE skip == IF R!Buffered > n THEN n ELSE R!Buffered
    <2>1. skip \in Nat /\ R!Take(skip)
        BY <1>1, <1>3
    <2> HIDE DEF skip
    <2>2. taken' = taken + skip /\ (skip = 0 => r' = r)
        BY <1>1, <2>1 DEF R!Take
    <2> QED
        BY <1>1, <1>3, <2>1, <2>2, RememberedMoves
<1> QED
    BY <1>2, <1>3 DEF R!Discard

LEMMA RememberedRead ==
    ASSUME ReaderOK, Remembered, NEW n \in Nat, R!Read(n)
    PROVE  Remembered'
<1>1. /\ taken \in Nat /\ given \in Nat /\ r \in Nat /\ w - r \in Nat /\ R!Buffered = w - r
      /\ Core
    BY ReaderWindow DEF ReaderOK, Core
<1>2. CASE R!ReadBuffered(n)
    <2> DEFINE m == IF R!Buffered > n THEN n ELSE R!Buffered
    <2>1. m \in 0..(w - r) /\ m \in Nat /\ m # 0
        BY <1>1, <1>2 DEF R!ReadBuffered
    <2>2. SubSeq(R!Window, 1, m) = Bytes(taken, m)
        BY <1>1, <2>1, ReaderWindow
    <2>3. R!Remember(Bytes(taken, m), -1)
        BY <1>2, <2>2 DEF R!ReadBuffered
    <2> HIDE DEF m
    <2> QED
        BY <1>1, <2>1, <2>3, RememberedBytes
<1>3. CASE R!ReadNothing(n)
    <2>1. UNCHANGED <<R!unread, buf, r>> /\ taken' = taken + 0
        BY <1>1, <1>3 DEF R!ReadNothing
    <2> QED
        BY <1>1, <2>1, RememberedMoves
<1>4. CASE R!ReadDirectly(n)
    <2>1. PICK m \in 0..n : taken' = taken + m /\ R!Remember(Bytes(given, m), -1)
        BY <1>4, SameBytes DEF R!ReadDirectly
    <2>2. UNCHANGED <<buf, r>> /\ m \in Nat /\ (m = 0 => taken' = taken)
        BY <1>1, <1>4, <2>1 DEF R!ReadDirectly
    <2> QED
        BY <1>1, <2>1, <2>2, RememberedBytes
<1>5. CASE R!ReadOnce(n)
    <2>1. PICK m \in 0..Size :
            IF m = 0 THEN r' = 0 /\ UNCHANGED <<taken, R!unread>>
            ELSE R!Returns("Read", R!Slice(buf', 0, IF m > n THEN n ELSE m), R!None)
        BY <1>5 DEF R!ReadOnce
    <2>2. CASE m = 0
        BY <2>1, <2>2, RememberedFill
    <2>3. CASE m # 0
        <3> DEFINE k == IF m > n THEN n ELSE m
        <3>1. k \in Nat /\ k >= 1 /\ 1 \in 1..(k - 0)
            BY <1>5, <2>3, ReaderWindow DEF R!ReadOnce, ReaderOK
        <3>2. R!Returns("Read", R!Slice(buf', 0, k), R!None)
            BY <2>1, <2>3
        <3> HIDE DEF k
        <3>3. DOMAIN R!Slice(buf', 0, k) # {}
            BY <3>1 DEF R!Slice
        <3>4. call' = R!Idle /\ ret'.op = "Read" /\ ret'.data # <<>>
            BY <3>2, <3>3 DEF R!Returns
        <3>5. ReaderOK'
            BY ReaderRead
        <3> QED
            BY <3>4, <3>5, RememberedReturns DEF MayUndo
    <2> QED
        BY <2>2, <2>3
<1> QED
    BY <1>2, <1>3, <1>4, <1>5 DEF R!Read

LEMMA RememberedReadByte ==
    ASSUME ReaderOK, Remembered, R!ReadByte
    PROVE  Remembered'
<1>1. lastRuneSize' = -1 /\ taken \in Nat
    BY DEF R!ReadByte, ReaderOK, Core
<1>2. CASE R!Returns("ReadByte", <<buf[r]>>, R!None)
    <2>1. call' = R!Idle /\ ret'.op = "ReadByte" /\ ret'.data = <<buf[r]>>
        BY <1>2 DEF R!Returns
    <2>2. <<buf[r]>> # <<>>
        OBVIOUS
    <2>3. ReaderOK'
        BY ReaderReadByte
    <2> QED
        BY <2>1, <2>2, <2>3, RememberedReturns DEF MayUndo
<1>3. CASE UNCHANGED lastByte
    BY <1>1, <1>3, RememberedLast DEF Remembered
<1> QED
    BY <1>2, <1>3 DEF R!ReadByte

LEMMA RememberedReadRune ==
    ASSUME ReaderOK, Remembered, R!ReadRune
    PROVE  Remembered'
<1>1. taken \in Nat
    BY DEF ReaderOK, Core
<1>2. CASE R!fill /\ UNCHANGED <<taken, R!unread>>
    BY <1>2, RememberedFill DEF R!fill
<1>3. CASE lastRuneSize' = -1 /\ UNCHANGED lastByte
    BY <1>3, RememberedLast DEF Remembered
<1>4. CASE /\ R!Buffered # 0
           /\ R!Returns("ReadRune", SubSeq(R!Window, 1, R!RuneSize(kind, R!Window)), R!None)
    <2> DEFINE s == R!RuneSize(kind, R!Window)
    <2>1. w - r \in Nat /\ Len(R!Window) = w - r /\ w - r # 0
        BY <1>4, ReaderWindow DEF ReaderOK
    <2>2. s \in 0..(w - r) /\ s \in Nat \ {0}
        BY <2>1 DEF R!RuneSize
    <2> HIDE DEF s
    <2>3. R!Returns("ReadRune", Bytes(taken, s), R!None) /\ Bytes(taken, s) # <<>>
        BY <1>1, <1>4, <2>2, ReaderWindow, RunFacts DEF s, ReaderOK
    <2>4. call' = R!Idle /\ ret'.op = "ReadRune" /\ ret'.data # <<>>
        BY <2>3 DEF R!Returns
    <2>5. ReaderOK'
        BY ReaderReadRune
    <2> QED
        BY <2>4, <2>5, RememberedReturns DEF MayUndo
<1> QED
    BY <1>2, <1>3, <1>4 DEF R!ReadRune

\* The calls built on ReadSlice.
LEMMA RememberedLines ==
    ASSUME ReaderOK, Remembered, R!ReadSlice \/ R!ReadLine \/ R!ReadBytes
    PROVE  Remembered'
<1>1. CASE \E op \in {"ReadSlice", "ReadLine", "ReadBytes"} : R!SliceFills(op)
    BY <1>1, RememberedSliceFills
<1>2. CASE R!SliceReady /\ R!SliceTaken(0)
    BY <1>2, RememberedSlice
<1>3. CASE R!ReadLinePrefix
    <2>1. R!SliceReady /\ R!SliceError = "BufferFull"
        BY <1>3 DEF R!ReadLinePrefix
    <2>2. PICK n \in 0..(w - r) : R!SliceFound = Bytes(taken, n) /\ n > 1
        BY <2>1, ReaderSlice DEF ReaderOK
    <2>3. R!SliceFound # <<>>
        <3>1. n \in Nat \ {0} /\ taken \in Nat
            BY <2>2, ReaderWindow DEF ReaderOK, Core
        <3> QED
            BY <2>2, <3>1, RunFacts
    <2>4. R!SliceTaken(0) \/ R!SliceTaken(1)
        BY <1>3 DEF R!ReadLinePrefix
    <2> QED
        BY <2>1, <2>3, <2>4, RememberedSlice
<1> QED
    BY <1>1, <1>2, <1>3 DEF R!ReadSlice, R!ReadLine, R!ReadBytes

LEMMA RememberedWriteTo ==
    ASSUME ReaderOK, Remembered, R!WriteTo
    PROVE  Remembered'
<1>1. UNCHANGED R!unread /\ taken \in Nat /\ r \in Nat /\ R!Buffered = w - r /\ w - r \in Nat
      /\ w \in Nat
    BY ReaderWindow DEF R!WriteTo, ReaderOK, Core
<1>2. ASSUME NEW m \in 0..R!Buffered, R!writeBuf(m) PROVE Remembered'
    <2>1. m \in Nat /\ taken' = taken + m /\ (m = 0 => r' = r) /\ UNCHANGED buf
        BY <1>1, <1>2 DEF R!writeBuf, R!Take
    <2> QED
        BY <1>1, <2>1, RememberedMoves
<1>3. ASSUME NEW n \in 0..(MaxBytes - given), r' = w, taken' = taken + R!Buffered + n,
             UNCHANGED buf
      PROVE  Remembered'
    <2>1. n \in Nat /\ (w - r) + n \in Nat /\ taken' = taken + ((w - r) + n)
        BY <1>1, <1>3
    <2>2. (w - r) + n = 0 => r' = r
        BY <1>1, <1>3, <2>1
    <2> QED
        BY <1>1, <1>3, <2>1, <2>2, RememberedMoves
<1>4. CASE R!fill /\ UNCHANGED taken
    BY <1>1, <1>4, RememberedFill DEF R!fill
<1>5. CASE UNCHANGED <<taken, buf, r>>
    <2>1. taken' = taken + 0
        BY <1>1, <1>5
    <2> QED
        BY <1>1, <1>5, <2>1, RememberedMoves
<1>6. R!Buffered \in 0..R!Buffered
    BY <1>1
<1> QED
    BY <1>2, <1>3, <1>4, <1>5, <1>6 DEF R!WriteTo

LEMMA ReaderForward ==
    ASSUME ReaderOK, Remembered, R!Forward
    PROVE  ReaderOK' /\ Remembered'
<1>1. ASSUME NEW n \in 1..(Size + 1), R!Peek(n) \/ R!Discard(n)
      PROVE  ReaderOK' /\ Remembered'
    <2>1. n \in Nat
        OBVIOUS
    <2>2. CASE R!Peek(n)
        <3>1. Remembered'
            BY <2>2, RememberedLast DEF R!Peek, R!Forget
        <3> QED
            BY <2>1, <2>2, <3>1, ReaderPeek
    <2>3. CASE R!Discard(n)
        BY <2>1, <2>3, ReaderDiscard, RememberedDiscard
    <2> QED
        BY <1>1, <2>2, <2>3
<1>2. ASSUME NEW n \in 0..(Size + 1), R!Read(n) PROVE ReaderOK' /\ Remembered'
    <2>1. n \in Nat
        OBVIOUS
    <2> QED
        BY <1>2, <2>1, ReaderRead, RememberedRead
<1>3. CASE R!ReadByte \/ R!ReadRune
    BY <1>3, ReaderReadByte, ReaderReadRune, RememberedReadByte, RememberedReadRune
<1>4. CASE R!ReadSlice \/ R!ReadLine \/ R!ReadBytes
    BY <1>4, ReaderReadSlice, ReaderReadLine, ReaderReadBytes, RememberedLines
<1>5. CASE R!WriteTo
    BY <1>5, ReaderWriteTo, RememberedWriteTo
<1> QED
    BY <1>1, <1>2, <1>3, <1>4, <1>5 DEF R!Forward

LEMMA ReaderStepInv == ReaderInv /\ [Next]_vars => ReaderInv'
<1> SUFFICES ASSUME ReaderInv, [Next]_vars, which' = "reader", ~stray'
             PROVE  ReaderOK' /\ Remembered'
    BY DEF ReaderInv
<1>1. CASE ReaderStep /\ R!Reset
    BY <1>1, ReaderReset
<1>2. CASE ReaderStep /\ ~R!Reset
    <2>1. ~stray
        BY <1>2 DEF ReaderStep, R!Next, R!UnreadByte, R!UnreadRune
    <2>2. ReaderOK /\ Remembered
        BY <1>2, <2>1 DEF ReaderStep, ReaderInv
    <2> QED
        BY <1>2, <2>2, ReaderForward, ReaderUnreadByte, ReaderUnreadRune DEF ReaderStep, R!Next
<1>3. CASE UNCHANGED vars
    <2>1. ReaderOK /\ Remembered
        BY <1>3 DEF vars, readerOnly, ReaderInv
    <2>2. ReaderOK'
        BY <1>3, <2>1 DEF vars, shared, readerOnly, ReaderOK, Core, Gathered, EndsAt, Returned,
            Run, SliceReturned, Undoable, LineUndoable, LineReturned
    <2>3. Remembered'
        BY <1>3, <2>1 DEF vars, shared, readerOnly, Remembered
    <2> QED
        BY <2>2, <2>3
<1> QED
    BY <1>1, <1>2, <1>3 DEF Next, WriterStep, BufferStep, TextStep, CopyStep

LEMMA ReaderSafe ==
    ASSUME ReaderOK
    PROVE  R!Stream /\ R!Lines /\ R!CanUnread
<1>1. ASSUME NEW d, Run(d) PROVE \A i \in 1..(Len(d) - 1) : d[i + 1] = d[i] + 1
    <2>1. PICK k \in Nat, n \in Nat : d = Bytes(k, n)
        BY <1>1 DEF Run
    <2>2. Len(d) = n /\ \A i \in 1..n : d[i] = k + i
        BY <2>1, BytesType
    <2>3. ASSUME NEW i \in 1..(Len(d) - 1) PROVE d[i + 1] = d[i] + 1
        <3>1. i \in 1..n /\ i + 1 \in 1..n /\ k + (i + 1) = (k + i) + 1
            BY <2>2
        <3> QED
            BY <2>2, <3>1
    <2> QED
        BY <2>3
<1>2. ASSUME NEW d, EndsAt(d, taken) PROVE Run(d) /\ (d # <<>> => R!Last(d) = taken)
    <2>1. PICK n \in 0..taken : d = Bytes(taken - n, n)
        BY <1>2 DEF EndsAt
    <2>2. n \in Nat /\ taken - n \in Nat /\ (taken - n) + n = taken /\ (n = 0 \/ n \in Nat \ {0})
        BY DEF ReaderOK, Core
    <2>3. PICK k \in Nat : k = taken - n
        BY <2>2
    <2>4. d = Bytes(k, n) /\ k + n = taken
        BY <2>1, <2>2, <2>3
    <2>5. n = 0 => d = <<>>
        BY <2>4, RunFacts
    <2>6. d # <<>> => R!Last(d) = taken
        BY <2>2, <2>4, <2>5, RunFacts
    <2> QED
        BY <2>2, <2>4, <2>6 DEF Run
<1>3. R!Stream
    <2>1. given - taken = R!Buffered /\ R!Holds(buf, r, w, taken)
        BY ReaderWindow DEF ReaderOK, Core, R!Holds
    <2>2. \A data \in {ret.data, frags} : \A i \in 1..(Len(data) - 1) : data[i + 1] = data[i] + 1
        BY <1>1, <1>2 DEF ReaderOK, Returned, Gathered
    <2>3. frags # <<>> => R!Last(frags) = taken
        BY <1>2 DEF ReaderOK, Gathered
    <2>4. ret.data # <<>> /\ ret.op # "ReadLine" /\ call = R!Idle => R!Last(ret.data) = taken
        BY <1>2 DEF ReaderOK, Returned
    <2> QED
        BY <2>1, <2>2, <2>3, <2>4 DEF R!Stream
<1>4. R!Lines
    <2>1. SliceReturned /\ (call = R!Idle => LineReturned)
        BY DEF ReaderOK, Returned
    <2> HIDE DEF R!Last
    <2> QED
        BY <2>1 DEF R!Lines, SliceReturned, LineReturned
<1>5. R!CanUnread
    <2>1. SUFFICES ASSUME call = R!Idle
          PROVE  /\ R!HasRead => ~R!UnreadByteFails /\ lastByte = taken
                 /\ ret.op = "ReadRune" /\ ret.data # <<>> =>
                        ~R!UnreadRuneFails /\ R!Slice(buf, r - lastRuneSize, r) = ret.data
        BY DEF R!CanUnread
    <2>2. Undoable /\ LineUndoable /\ r \in Nat /\ taken \in Nat
        BY <2>1, ReaderWindow DEF ReaderOK, Returned, Core
    <2>3. ASSUME R!HasRead PROVE ~R!UnreadByteFails /\ lastByte = taken
        <3>1. lastByte = taken /\ taken >= 1 /\ ~(r = 0 /\ w > 0)
            BY <2>2, <2>3 DEF R!HasRead, R!Buffered, Undoable, LineUndoable, MayUndo
        <3> QED
            BY <2>2, <3>1 DEF R!UnreadByteFails
    <2>4. ASSUME ret.op = "ReadRune", ret.data # <<>>
          PROVE  ~R!UnreadRuneFails /\ R!Slice(buf, r - lastRuneSize, r) = ret.data
        <3>1. /\ lastRuneSize \in 1..r /\ lastRuneSize <= taken /\ Len(ret.data) = lastRuneSize
              /\ \A i \in (r - lastRuneSize)..(r - 1) : buf[i] = taken + 1 + (i - r)
            BY <2>2, <2>4 DEF Undoable, MayUndo
        <3>2. PICK n \in 0..taken : ret.data = Bytes(taken - n, n)
            BY <2>1, <2>4 DEF ReaderOK, Returned, EndsAt
        <3>3. n = lastRuneSize /\ n \in 1..r /\ n \in Nat /\ taken - n \in Nat
            <4>1. n \in Nat /\ taken - n \in Nat
                BY <2>2
            <4>2. Len(ret.data) = n
                BY <3>2, <4>1, BytesType
            <4> QED
                BY <3>1, <4>1, <4>2
        <3>4. ASSUME NEW i \in 1..n PROVE buf[(r - n) + i - 1] = (taken - n) + i
            <4>1. /\ (r - n) + i - 1 \in (r - n)..(r - 1)
                  /\ taken + 1 + (((r - n) + i - 1) - r) = (taken - n) + i
                BY <2>2, <3>3
            <4> QED
                BY <3>1, <3>3, <4>1
        <3>5. r - (r - n) = n
            BY <2>2, <3>3
        <3>6. R!Slice(buf, r - n, r) = Bytes(taken - n, n)
            BY <3>4, <3>5 DEF R!Slice, Bytes
        <3> QED
            BY <2>2, <3>1, <3>2, <3>3, <3>6 DEF R!UnreadRuneFails
    <2> QED
        BY <2>3, <2>4
<1> QED
    BY <1>3, <1>4, <1>5

\* What a read has returned can be put back: UnreadByte of bufio.Reader and of
\* bytes.Buffer puts exactly the last byte back, and UnreadRune exactly the
\* rune, whatever was read and put back before.  For bufio.Reader that is so
\* after every read, ReadLine without a carriage return put back included,
\* until something is put back that was not taken last; for bytes.Buffer after
\* every read that returned bytes and no error.
THEOREM ReadsCanBeUndone == Spec => []CanUnread
<1>1. Init => ReaderInv /\ BufferInv
    BY ReaderInit, BufferInit
<1>2. ReaderInv /\ BufferInv /\ [Next]_vars => ReaderInv' /\ BufferInv'
    BY ReaderStepInv, BufferStepInv
<1>3. ReaderInv /\ BufferInv => CanUnread
    BY ReaderSafe, BufferSafe DEF ReaderInv, BufferInv, CanUnread, R!CanUnread
<1> QED
    BY <1>1, <1>2, <1>3, PTL DEF Spec

(* Sums over the runs of a net.Buffers.                                    *)
LEMMA SumsAre ==
    ASSUME NEW s \in Seq(Nat)
    PROVE  SumsOf(s, C!Sums(s))
<1>1. C!Sums(s) = RunningSums(s)
    BY DEF C!Sums, RunningSums
<1> QED
    BY <1>1, RunningSumsAre

\* What is left of a net.Buffers of which k bytes have been read.
LEMMA Consumed ==
    ASSUME NEW s \in Seq(Nat), NEW k \in Nat, k <= C!Sum(s)
    PROVE  C!consume(s, k) \in Seq(Nat) /\ C!Sum(C!consume(s, k)) = C!Sum(s) - k
<1> DEFINE f == C!Sums(s)
           n == Len(s)
           Used == {i \in 0..n : f[i] <= k}
           j == CHOOSE i \in Used : \A o \in Used : o <= i
           rest == SubSeq(s, j + 1, n)
           c == C!consume(s, k)
<1>1. /\ SumsOf(s, f) /\ C!Sum(s) = f[n] /\ n \in Nat
      /\ c = IF rest = <<>> THEN <<>> ELSE [rest EXCEPT ![1] = @ - (k - f[j])]
    BY SumsAre DEF C!Sum, C!consume
<1> HIDE DEF f, c
<1>2. /\ f[0] = 0 /\ \A i \in 0..n : f[i] \in Nat
      /\ \A i \in 1..n : f[i] = f[i - 1] + s[i] /\ s[i] \in Nat
    <2>1. \A i \in 1..n : s[i] \in Nat
        OBVIOUS
    <2>2. /\ f[0] = 0 /\ \A i \in 0..n : f[i] \in Nat
          /\ \A i \in 1..n : f[i] = f[i - 1] + s[i]
        BY <1>1 DEF SumsOf
    <2> QED
        BY <2>1, <2>2
<1>3. j \in Used /\ \A o \in Used : o <= j
    <2> DEFINE D == {d \in Nat : d <= n /\ f[n - d] <= k}
    <2>1. n \in D
        <3>1. n - n = 0
            BY <1>1
        <3> QED
            BY <1>1, <1>2, <3>1
    <2>2. PICK d \in D : \A o \in D : d <= o
        <3>1. D \subseteq Nat /\ D # {}
            BY <2>1
        <3> HIDE DEF D
        <3> QED
            BY <3>1, LeastNumber
    <2>3. n - d \in Used
        BY <1>1
    <2>4. ASSUME NEW o \in Used PROVE o <= n - d
        <3>1. o \in Nat /\ o <= n /\ n - o \in Nat /\ n - o <= n /\ n - (n - o) = o
            BY <1>1
        <3>2. n - o \in D
            BY <3>1
        <3>3. d <= n - o /\ d \in Nat
            BY <2>2, <3>2
        <3> QED
            BY ONLY <1>1, <3>1, <3>3
    <2>5. \E i \in Used : \A o \in Used : o <= i
        BY <2>3, <2>4
    <2> HIDE DEF Used
    <2> QED
        BY <2>5
<1>4. j \in 0..n /\ f[j] <= k /\ (j < n => k < f[j + 1])
    <2> HIDE DEF j
    <2>1. ASSUME j < n PROVE k < f[j + 1]
        <3>1. j + 1 \in 0..n /\ ~(j + 1 <= j)
            BY <1>1, <1>3, <2>1
        <3>2. j + 1 \notin Used
            BY <1>3, <3>1
        <3> QED
            BY <1>2, <3>1, <3>2
    <2> QED
        BY <1>3, <2>1
<1> HIDE DEF j
<1>5. /\ rest \in Seq(Nat) /\ Len(rest) = n - j /\ n - j \in Nat
      /\ \A i \in 1..(n - j) : rest[i] = s[j + i]
    <2>1. j \in Nat /\ j <= n
        BY <1>1, <1>4
    <2>2. \A i \in (j + 1)..n : s[i] \in Nat
        BY <1>2, <2>1
    <2>3. j + 1 \in Int /\ n \in Int
        BY <1>1, <2>1
    <2>4. /\ rest \in Seq(Nat)
          /\ Len(rest) = IF j + 1 <= n THEN n - (j + 1) + 1 ELSE 0
          /\ \A i \in 1..(n - (j + 1) + 1) : rest[i] = s[j + 1 + i - 1]
        BY <2>2, <2>3, SubSeqProperties
    <2>5. n - (j + 1) + 1 = n - j /\ (~(j + 1 <= n) => n - j = 0) /\ n - j \in Nat
        BY <1>1, <2>1
    <2>6. \A i \in 1..(n - j) : j + 1 + i - 1 = j + i
        BY <1>1, <2>1
    <2> QED
        BY <2>4, <2>5, <2>6
<1> HIDE DEF rest
<1>6. CASE rest = <<>>
    <2>1. n = j
        BY <1>1, <1>4, <1>5, <1>6
    <2>2. k = f[n]
        BY <1>1, <1>2, <1>4, <2>1
    <2>3. c = <<>> /\ c \in Seq(Nat) /\ Len(c) = 0
        BY <1>1, <1>6
    <2>4. SumsOf(c, C!Sums(c))
        BY <2>3, SumsAre
    <2>5. C!Sum(c) = 0
        BY <2>3, <2>4 DEF C!Sum, SumsOf
    <2>6. f[n] - k = 0
        BY <1>1, <1>2, <2>2
    <2> QED
        BY <1>1, <2>3, <2>5, <2>6 DEF c
<1>7. CASE rest # <<>>
    <2>1. n - j \in Nat \ {0} /\ j \in Nat /\ j < n
        BY <1>1, <1>4, <1>5, <1>7
    <2>2. rest[1] = s[j + 1] /\ f[j + 1] = f[j] + s[j + 1] /\ f[j] \in Nat /\ s[j + 1] \in Nat /\ k < f[j + 1]
          /\ f[j] <= k
        <3>1. j + 1 \in 1..n /\ j + 1 - 1 = j /\ 1 \in 1..(n - j) /\ j \in 0..n
            BY <1>1, <2>1
        <3> QED
            BY <1>2, <1>4, <1>5, <2>1, <3>1
    <2>3. PICK cut \in Nat : cut = rest[1] - (k - f[j]) /\ cut = f[j + 1] - k
        <3>1. rest[1] - (k - f[j]) \in Nat /\ rest[1] - (k - f[j]) = f[j + 1] - k
            BY <2>2
        <3> QED
            BY <3>1
    <2>4. c = [rest EXCEPT ![1] = cut]
        BY <1>1, <1>7, <2>3
    <2>5. /\ c \in Seq(Nat) /\ Len(c) = n - j /\ c[1] = cut
          /\ \A i \in 2..(n - j) : c[i] = s[j + i]
        <3>1. 1 \in DOMAIN rest /\ Len(rest) = n - j
            BY <1>5, <2>1
        <3>2. c \in Seq(Nat) /\ Len(c) = Len(rest) /\ c[1] = cut /\ \A i \in 2..Len(rest) : c[i] = rest[i]
            BY <1>5, <2>4, <3>1
        <3>3. \A i \in 2..(n - j) : i \in 1..(n - j)
            OBVIOUS
        <3> QED
            BY <1>5, <3>1, <3>2, <3>3
    <2> DEFINE g == C!Sums(c)
               S == {i \in Nat : i + 1 <= n - j => g[i + 1] = f[j + (i + 1)] - k}
    <2>6. /\ g[0] = 0 /\ \A i \in 0..(n - j) : g[i] \in Nat
          /\ \A i \in 1..(n - j) : g[i] = g[i - 1] + c[i]
        <3>1. SumsOf(c, g)
            BY <2>5, SumsAre
        <3> HIDE DEF g
        <3> QED
            BY <2>5, <3>1 DEF SumsOf
    <2> HIDE DEF g
    <2>7. 0 \in S
        <3>1. 1 \in 1..(n - j) /\ 1 - 1 = 0 /\ j + (0 + 1) = j + 1 /\ 0 + 1 = 1
            BY <2>1
        <3>2. g[1] = 0 + cut
            BY <2>5, <2>6, <3>1
        <3>3. g[0 + 1] = f[j + (0 + 1)] - k
            BY <2>2, <2>3, <3>1, <3>2
        <3> QED
            BY <3>3
    <2>8. ASSUME NEW i \in Nat, i \in S PROVE i + 1 \in S
        <3>1. SUFFICES ASSUME (i + 1) + 1 <= n - j PROVE g[(i + 1) + 1] = f[j + ((i + 1) + 1)] - k
            OBVIOUS
        <3>2. /\ i + 1 <= n - j /\ (i + 1) + 1 \in 2..(n - j) /\ (i + 1) + 1 \in 1..(n - j)
              /\ (i + 1) + 1 - 1 = i + 1 /\ j + ((i + 1) + 1) \in 1..n /\ j + (i + 1) \in 0..n
              /\ j + ((i + 1) + 1) - 1 = j + (i + 1)
            BY <1>1, <2>1, <3>1
        <3>3. g[i + 1] = f[j + (i + 1)] - k
            BY <2>8, <3>2
        <3>4. g[(i + 1) + 1] = g[i + 1] + s[j + ((i + 1) + 1)]
            <4>1. g[(i + 1) + 1] = g[(i + 1) + 1 - 1] + c[(i + 1) + 1]
                BY ONLY <2>6, <3>2
            <4>2. c[(i + 1) + 1] = s[j + ((i + 1) + 1)]
                BY ONLY <2>5, <3>2
            <4> QED
                BY ONLY <3>2, <4>1, <4>2
        <3>5. /\ f[j + ((i + 1) + 1)] = f[j + (i + 1)] + s[j + ((i + 1) + 1)]
              /\ f[j + (i + 1)] \in Nat /\ s[j + ((i + 1) + 1)] \in Nat
            <4>1. PICK o \in 1..n : o = j + ((i + 1) + 1)
                BY <3>2
            <4>2. o - 1 = j + (i + 1)
                <5>1. i \in Nat
                    OBVIOUS
                <5> QED
                    BY ONLY <2>1, <4>1, <5>1
            <4>3. f[o] = f[o - 1] + s[o] /\ s[o] \in Nat /\ f[j + (i + 1)] \in Nat
                BY <1>2, <3>2
            <4> QED
                BY <4>1, <4>2, <4>3
        <3> QED
            BY <3>3, <3>4, <3>5
    <2>9. Nat \subseteq S
        <3> HIDE DEF S
        <3> QED
            BY <2>7, <2>8, SetInduction
    <2>10. g[n - j] = f[n] - k
        <3>1. PICK i \in Nat : i = (n - j) - 1
            <4>1. (n - j) - 1 \in Nat
                BY ONLY <2>1
            <4> QED
                BY <4>1
        <3>2. i + 1 = n - j /\ j + (i + 1) = n /\ i + 1 <= n - j
            BY <1>1, <2>1, <3>1
        <3>3. i \in S
            <4> HIDE DEF S
            <4> QED
                BY <2>9
        <3> QED
            BY <3>2, <3>3
    <2>11. C!Sum(c) = g[n - j]
        BY <2>5 DEF C!Sum, g
    <2> QED
        BY <1>1, <2>5, <2>10, <2>11 DEF c
<1> QED
    BY <1>6, <1>7

(* Package io: how far the source goes, and how far the caller may read.   *)
EndOfSource == IF job.source = "SectionReader" THEN C!MinOf(C!limitAt, C!size) ELSE C!size
Available == IF EndOfSource > start THEN EndOfSource - start ELSE 0
Allowed ==
    IF job.wrap \in {"LimitedReader", "maxBytesReader"} THEN C!MinOf(job.limit, Available) ELSE Available

JobOK == job \in C!Job /\ (job.op = "CopyN" => job.wrap = "LimitedReader")

\* Buffers.WriteTo is on its way.
Direct ==
    /\ job.source = "Buffers" /\ job.wrap = "none" /\ job.op \in {"Copy", "CopyN"}
    /\ result = "running"

SourceOK ==
    /\ start \in Nat /\ at \in Nat /\ start <= at /\ at - start <= Available
    /\ job.source # "SectionReader" => start = 0
    /\ v \in Seq(Nat)
    /\ Direct => v = job.parts /\ at = count /\ \E i \in 0..Len(v) : count = C!Sums(v)[i]
    /\ job.source = "Buffers" /\ ~Direct => C!Sum(v) = C!size - at

WrapOK ==
    /\ stuck \in {"none", "EOF", "other", "too large"}
    /\ job.wrap # "maxBytesReader" => stuck = "none"
    /\ job.wrap = "LimitedReader" => left \in Nat /\ left = job.limit - (at - start)
    /\ job.wrap = "maxBytesReader" /\ stuck = "none" => left \in Nat /\ left = job.limit - (at - start)
    /\ stuck = "too large" => at - start = job.limit + 1
    /\ stuck \in {"EOF", "other"} => at - start = Available /\ Available <= job.limit

\* How much the caller has been given.
Delivered == IF stuck = "too large" THEN job.limit ELSE at - start

DataOK ==
    /\ count \in Nat
    /\ Len(dst) \in Nat /\ dst = Bytes(start, Len(dst)) /\ Len(dst) <= Allowed
    /\ result = "running" => Len(dst) = Delivered
    /\ job.op = "ReadAtLeast" /\ job.wrap # "teeReader" => Len(dst) = Delivered
    /\ job.op \in {"Copy", "CopyN"} => count = Len(dst)
    /\ job.wrap = "teeReader" =>
        /\ Len(teed) \in Nat /\ teed = Bytes(start, Len(teed))
        /\ Len(dst) <= Len(teed) /\ Len(teed) <= at - start
        /\ job.op \in {"ReadAtLeast", "ReadAll"} => Len(dst) = Len(teed)
        /\ result = "running" => Len(teed) = at - start

ResultOK ==
    /\ job.op \in {"Copy", "ReadAll"} /\ result = "none" =>
        Len(dst) = Allowed /\ (job.wrap = "maxBytesReader" => Allowed = Available)
    /\ job.op = "CopyN" /\ result # "running" =>
        /\ result = "none" <=> count = job.limit
        /\ result = "EOF" => Len(dst) = Available
    /\ job.op = "ReadAtLeast" =>
        /\ result = "running" /\ BufLen < job.min => count = 0
        /\ result # "running" => (result = "none" <=> count >= job.min)
        /\ result = "EOF" => count = 0
    /\ result = "too large" => stuck = "too large" /\ Len(dst) = Allowed

CopyOK == JobOK /\ SourceOK /\ WrapOK /\ DataOK /\ ResultOK
CopyInv == which = "copy" => CopyOK

LEMMA JobFacts ==
    ASSUME JobOK
    PROVE  /\ job.op \in {"Copy", "CopyN", "ReadAtLeast", "ReadAll"}
           /\ job.to \in {"writer", "Discard"}
           /\ job.wrap \in {"none", "LimitedReader", "maxBytesReader", "teeReader"}
           /\ job.limit \in Nat /\ job.min \in Nat
           /\ job.source \in {"reader", "SectionReader", "Buffers"}
           /\ job.parts \in Seq(Nat) /\ job.base \in Nat /\ job.length \in Nat
           /\ job.end \in {"EOF", "other"}
           /\ C!size \in Nat /\ C!limitAt \in Nat
           /\ job.op = "CopyN" => job.wrap = "LimitedReader"
<1>1. /\ job.op \in {"Copy", "CopyN", "ReadAtLeast", "ReadAll"}
      /\ job.to \in {"writer", "Discard"}
      /\ job.wrap \in {"none", "LimitedReader", "maxBytesReader", "teeReader"}
      /\ job.limit \in Nat /\ job.min \in Nat
      /\ job.source \in {"reader", "SectionReader", "Buffers"}
      /\ job.parts \in Seq(Nat) /\ job.base \in Nat /\ job.length \in Nat
      /\ job.end \in {"EOF", "other"}
      /\ job.op = "CopyN" => job.wrap = "LimitedReader"
    BY DEF JobOK, C!Job
<1>2. PICK s \in Seq(Nat) : s = job.parts
    BY <1>1
<1>3. SumsOf(s, C!Sums(s)) /\ Len(s) \in 0..Len(s)
    BY SumsAre
<1>4. C!size \in Nat
    BY <1>2, <1>3 DEF C!size, C!Sum, SumsOf
<1>5. C!limitAt \in Nat
    BY <1>1 DEF C!limitAt
<1> QED
    BY <1>1, <1>4, <1>5

LEMMA AvailableType ==
    ASSUME JobOK, start \in Nat
    PROVE  EndOfSource \in Nat /\ Available \in Nat /\ Allowed \in Nat /\ Allowed <= Available
           /\ (job.wrap \in {"LimitedReader", "maxBytesReader"} =>
                /\ Allowed <= job.limit /\ (Allowed = job.limit \/ Allowed = Available))
           /\ (job.wrap \in {"none", "teeReader"} => Allowed = Available)
<1>1. job.limit \in Nat /\ C!size \in Nat /\ C!limitAt \in Nat
    BY JobFacts
<1>2. EndOfSource \in Nat
    BY <1>1 DEF EndOfSource, C!MinOf
<1>3. Available \in Nat
    BY <1>2 DEF Available
<1> QED
    BY <1>1, <1>2, <1>3 DEF Allowed, C!MinOf

\* One read of the source: so many bytes, and an error only behind the last.
LEMMA SourceStep ==
    ASSUME NEW k \in Nat, NEW s, JobOK, SourceOK, ~Direct, k # 0, s \in C!SourceReads(k)
    PROVE  /\ s.n \in Nat /\ s.n <= k /\ s.n <= Available - (at - start)
           /\ s.err \in {"none", "EOF", "other"}
           /\ s.err # "none" => s.n = Available - (at - start)
<1> DEFINE rest == Available - (at - start)
<1>1. /\ start \in Nat /\ at \in Nat /\ start <= at /\ at - start <= Available /\ v \in Seq(Nat)
      /\ job.source # "SectionReader" => start = 0
      /\ job.source = "Buffers" => C!Sum(v) = C!size - at
    BY DEF SourceOK
<1>2. /\ C!size \in Nat /\ C!limitAt \in Nat /\ job.end \in {"EOF", "other"}
      /\ job.source \in {"reader", "SectionReader", "Buffers"}
      /\ EndOfSource \in Nat /\ Available \in Nat
    BY <1>1, JobFacts, AvailableType
<1>3. CASE job.source = "reader"
    <2>1. s \in C!ReaderReads(k)
        BY <1>3 DEF C!SourceReads
    <2>2. rest = C!size - at /\ rest \in Nat
        BY <1>1, <1>2, <1>3 DEF Available, EndOfSource
    <2> HIDE DEF rest
    <2>3. \/ \E i \in 1..C!MinOf(k, rest) : s = [n |-> i, err |-> "none"]
          \/ s = [n |-> rest, err |-> job.end] /\ rest <= k
        BY <2>1, <2>2 DEF C!ReaderReads, C!None
    <2>4. CASE \E i \in 1..C!MinOf(k, rest) : s = [n |-> i, err |-> "none"]
        BY <2>2, <2>4 DEF C!MinOf, rest
    <2>5. CASE s = [n |-> rest, err |-> job.end] /\ rest <= k
        BY <1>2, <2>2, <2>5 DEF rest
    <2> QED
        BY <2>3, <2>4, <2>5
<1>4. CASE job.source = "SectionReader"
    <2>1. s \in C!SectionReads(k)
        BY <1>4 DEF C!SourceReads
    <2> DEFINE p == C!MinOf(k, C!limitAt - at)
               have == IF at > C!size THEN 0 ELSE C!size - at
    <2>2. \/ at >= C!limitAt /\ s = [n |-> 0, err |-> "EOF"]
          \/ at < C!limitAt /\ p > have /\ s = [n |-> have, err |-> job.end]
          \/ at < C!limitAt /\ p <= have /\ s = [n |-> p, err |-> "none"]
          \/ at < C!limitAt /\ p = have /\ s = [n |-> p, err |-> "EOF"]
        BY <1>1, <1>2, <2>1 DEF C!SectionReads, C!None, C!MinOf
    <2>3. EndOfSource = C!MinOf(C!limitAt, C!size)
        BY <1>4 DEF EndOfSource
    <2>4. CASE at >= C!limitAt /\ s = [n |-> 0, err |-> "EOF"]
        <3>1. rest = 0
            BY <1>1, <1>2, <2>3, <2>4 DEF Available, C!MinOf
        <3> QED
            BY <2>4, <3>1
    <2>5. CASE at < C!limitAt /\ p > have /\ s = [n |-> have, err |-> job.end]
        <3>1. rest = have /\ have \in Nat /\ have <= k
            BY <1>1, <1>2, <2>3, <2>5 DEF Available, C!MinOf
        <3> QED
            BY <1>2, <2>5, <3>1
    <2>6. CASE at < C!limitAt /\ p <= have /\ s = [n |-> p, err |-> "none"]
        <3>1. p \in Nat /\ p <= k /\ p <= rest
            BY <1>1, <1>2, <2>3, <2>6 DEF Available, C!MinOf
        <3> QED
            BY <2>6, <3>1
    <2>7. CASE at < C!limitAt /\ p = have /\ s = [n |-> p, err |-> "EOF"]
        <3>1. p \in Nat /\ p <= k /\ p = rest
            BY <1>1, <1>2, <2>3, <2>7 DEF Available, C!MinOf
        <3> QED
            BY <2>7, <3>1
    <2> QED
        BY <2>2, <2>4, <2>5, <2>6, <2>7
<1>5. CASE job.source = "Buffers"
    <2>1. s \in C!BuffersReads(k)
        BY <1>5 DEF C!SourceReads
    <2>2. rest = C!size - at /\ rest \in Nat /\ C!Sum(v) = rest
        BY <1>1, <1>2, <1>5 DEF Available, EndOfSource
    <2> HIDE DEF rest
    <2>3. s = [n |-> C!MinOf(k, rest), err |-> IF C!MinOf(k, rest) = rest THEN "EOF" ELSE "none"]
        BY <2>1, <2>2 DEF C!BuffersReads, C!None
    <2>4. C!MinOf(k, rest) \in Nat /\ C!MinOf(k, rest) <= k /\ C!MinOf(k, rest) <= rest
        BY <2>2 DEF C!MinOf
    <2> QED
        BY <2>3, <2>4 DEF rest
<1> QED
    BY <1>2, <1>3, <1>4, <1>5

LEMMA TakenStep ==
    ASSUME NEW k \in Nat, JobOK, SourceOK, ~Direct, k <= Available - (at - start), C!Taken(k)
    PROVE  /\ at' \in Nat /\ at' = at + k /\ v' \in Seq(Nat)
           /\ job.source = "Buffers" => C!Sum(v') = C!size - at'
<1>1. /\ start \in Nat /\ at \in Nat /\ start <= at /\ at - start <= Available /\ v \in Seq(Nat)
      /\ job.source # "SectionReader" => start = 0
      /\ job.source = "Buffers" => C!Sum(v) = C!size - at
    BY DEF SourceOK
<1>2. C!size \in Nat /\ Available \in Nat
    BY <1>1, JobFacts, AvailableType
<1>3. at' = at + k /\ v' = IF job.source = "Buffers" THEN C!consume(v, k) ELSE v
    BY DEF C!Taken
<1>4. CASE job.source = "Buffers"
    <2>1. C!Sum(v) = C!size - at /\ k <= C!Sum(v)
        BY <1>1, <1>2, <1>4 DEF Available, EndOfSource
    <2>2. v' \in Seq(Nat) /\ C!Sum(v') = C!Sum(v) - k
        BY <1>1, <1>3, <1>4, <2>1, Consumed
    <2> QED
        BY <1>1, <1>2, <1>3, <2>1, <2>2
<1>5. CASE job.source # "Buffers"
    BY <1>1, <1>3, <1>5
<1> QED
    BY <1>4, <1>5

\* What a Read of the caller's reader does, whatever that reader is.
ReadFrom(u) ==
    /\ u.n \in Nat /\ Delivered + u.n <= Allowed
    /\ stuck = "too large" => u.n = 0
    /\ u.err \in {"none", "EOF", "other", "too large", "write"}
    /\ u.err \in {"EOF", "other", "too large"} => Delivered + u.n = Allowed
    /\ u.err \in {"EOF", "other"} /\ job.wrap = "maxBytesReader" => Allowed = Available
    /\ u.err = "write" => job.wrap = "teeReader"

Moved(u) ==
    /\ at' \in Nat /\ start <= at' /\ at' - start <= Available
    /\ v' \in Seq(Nat)
    /\ job.source = "Buffers" => C!Sum(v') = C!size - at'
    /\ u.err = "too large" => stuck' = "too large"
    /\ job.wrap # "teeReader" => Delivered' = Delivered + u.n
    /\ job.wrap = "teeReader" =>
        /\ teed' = teed \o Bytes(at, u.n) /\ at + u.n <= at'
        /\ u.err # "write" => at' = at + u.n

Starting == JobOK /\ SourceOK /\ WrapOK /\ ~Direct /\ UNCHANGED <<job, start>>

\* The source has been read g bytes far and has m left.
Halfway(g, m) ==
    /\ g \in Nat /\ m \in Nat /\ start \in Nat /\ at \in Nat
    /\ at = start + g /\ at - start = g
    /\ Available = g + m /\ Available - (at - start) = m

LEMMA SourceHalfway ==
    ASSUME JobOK, SourceOK
    PROVE  \E g, m : Halfway(g, m)
<1>1. start \in Nat /\ at \in Nat /\ start <= at /\ at - start <= Available /\ Available \in Nat
    BY AvailableType DEF SourceOK
<1>2. PICK g \in Nat : g = at - start
    BY <1>1
<1>3. PICK m \in Nat : m = Available - g
    BY <1>1, <1>2
<1>4. at = start + g /\ Available = g + m
    BY ONLY <1>1, <1>2, <1>3
<1>5. Halfway(g, m)
    BY <1>1, <1>2, <1>3, <1>4 DEF Halfway
<1> QED
    BY <1>5

LEMMA SourceGives ==
    ASSUME NEW k \in Nat, NEW u, NEW g, NEW m, JobOK, SourceOK, ~Direct, k # 0, u \in C!SourceReads(k),
           Halfway(g, m)
    PROVE  /\ u.n \in Nat /\ u.n <= k /\ u.n <= m
           /\ u.err \in {"none", "EOF", "other"}
           /\ u.err # "none" => u.n = m
<1>1. Available - (at - start) = m
    BY DEF Halfway
<1>2. /\ u.n \in Nat /\ u.n <= k /\ u.n <= Available - (at - start)
      /\ u.err \in {"none", "EOF", "other"}
      /\ u.err # "none" => u.n = Available - (at - start)
    BY SourceStep
<1> QED
    BY <1>1, <1>2

LEMMA SourceMoves ==
    ASSUME NEW n \in Nat, NEW g, NEW m, JobOK, SourceOK, ~Direct, Halfway(g, m), n <= m, C!Taken(n)
    PROVE  /\ at' \in Nat /\ at' = at + n /\ start <= at' /\ at' - start = g + n /\ g + n <= Available
           /\ v' \in Seq(Nat)
           /\ job.source = "Buffers" => C!Sum(v') = C!size - at'
<1>1. /\ g \in Nat /\ m \in Nat /\ start \in Nat /\ at = start + g /\ Available = g + m
      /\ Available - (at - start) = m
    BY DEF Halfway
<1>2. n <= Available - (at - start)
    BY <1>1
<1>3. /\ at' = at + n /\ v' \in Seq(Nat)
      /\ job.source = "Buffers" => C!Sum(v') = C!size - at'
    BY <1>2, TakenStep
<1>4. at' \in Nat /\ start <= at' /\ at' - start = g + n /\ g + n <= Available
    BY ONLY <1>1, <1>3, n \in Nat, n <= m
<1> QED
    BY <1>3, <1>4

LEMMA AvailableStays ==
    ASSUME UNCHANGED <<job, start>>
    PROVE  Available' = Available /\ Allowed' = Allowed /\ JobOK' = JobOK
BY DEF Available, EndOfSource, Allowed, C!limitAt, C!size, JobOK

LEMMA PlainReads ==
    ASSUME Starting, job.wrap = "none", NEW k \in Nat, k # 0, NEW u, u \in C!SourceReads(k), C!Passes(u)
    PROVE  ReadFrom(u) /\ Moved(u) /\ WrapOK'
<1>1. JobOK /\ SourceOK /\ WrapOK /\ ~Direct /\ UNCHANGED <<job, start>>
    BY DEF Starting
<1>2. PICK g, m : Halfway(g, m)
    BY <1>1, SourceHalfway
<1>3. g \in Nat /\ m \in Nat /\ at - start = g /\ Available = g + m
    BY <1>2 DEF Halfway
<1>4. /\ u.n \in Nat /\ u.n <= m /\ u.err \in {"none", "EOF", "other"}
      /\ u.err # "none" => u.n = m
    BY <1>1, <1>2, SourceGives
<1>5. C!Taken(u.n) /\ UNCHANGED <<left, stuck, teed>>
    BY DEF C!Passes
<1>6. /\ at' \in Nat /\ at' = at + u.n /\ start <= at' /\ at' - start = g + u.n /\ g + u.n <= Available
      /\ v' \in Seq(Nat)
      /\ job.source = "Buffers" => C!Sum(v') = C!size - at'
    BY <1>1, <1>2, <1>4, <1>5, SourceMoves
<1>7. stuck = "none" /\ Delivered = g /\ Allowed = g + m /\ Delivered' = g + u.n
    BY <1>1, <1>3, <1>5, <1>6 DEF WrapOK, Delivered, Allowed
<1>8. ReadFrom(u)
    <2>1. Delivered + u.n <= Allowed /\ (u.err # "none" => Delivered + u.n = Allowed)
        BY <1>3, <1>4, <1>7
    <2>2. u.err # "write" /\ u.err # "too large"
        BY <1>4
    <2> QED
        BY <1>4, <1>7, <2>1, <2>2 DEF ReadFrom
<1>9. Moved(u)
    <2>1. Delivered' = Delivered + u.n /\ at' - start <= Available
        BY <1>6, <1>7
    <2>2. u.err # "too large" /\ job.wrap # "teeReader"
        BY <1>4
    <2> QED
        BY <1>6, <2>1, <2>2 DEF Moved
<1>10. WrapOK'
    BY <1>1, <1>5, <1>7 DEF WrapOK
<1> QED
    BY <1>8, <1>9, <1>10

LEMMA LimitedReads ==
    ASSUME Starting, job.wrap = "LimitedReader", NEW k \in Nat, k # 0, NEW u, C!LimitedRead(k, u)
    PROVE  ReadFrom(u) /\ Moved(u) /\ WrapOK'
<1>1. JobOK /\ SourceOK /\ WrapOK /\ ~Direct /\ UNCHANGED <<job, start>>
    BY DEF Starting
<1>2. PICK g, m : Halfway(g, m)
    BY <1>1, SourceHalfway
<1>3. g \in Nat /\ m \in Nat /\ at - start = g /\ Available = g + m /\ at \in Nat /\ start \in Nat
    BY <1>2 DEF Halfway
<1>4. stuck = "none" /\ left \in Nat /\ left = job.limit - g /\ job.limit \in Nat /\ Delivered = g
    BY <1>1, <1>3, JobFacts DEF WrapOK, Delivered
<1>5. job.limit = g + left
    BY ONLY <1>3, <1>4
<1>6. Allowed = IF left < m THEN g + left ELSE g + m
    <2>1. Allowed = IF job.limit < Available THEN job.limit ELSE Available
        BY DEF Allowed, C!MinOf
    <2>2. (job.limit < Available) <=> (left < m)
        BY ONLY <1>3, <1>4, <1>5
    <2> QED
        BY <1>3, <1>5, <2>1, <2>2
<1>7. CASE left = 0
    <2>1. u.n = 0 /\ u.err = "EOF" /\ UNCHANGED <<at, v, left, stuck, teed>>
        BY <1>7 DEF C!LimitedRead
    <2>2. Delivered' = g /\ Allowed = g
        BY <1>1, <1>3, <1>4, <1>6, <1>7, <2>1 DEF Delivered
    <2>3. ReadFrom(u)
        <3>1. Delivered + u.n = Allowed /\ Delivered + u.n <= Allowed /\ u.n \in Nat
            BY <1>3, <1>4, <2>1, <2>2
        <3> QED
            BY <2>1, <3>1 DEF ReadFrom
    <2>4. Moved(u)
        <3>1. /\ at' \in Nat /\ start <= at' /\ at' - start <= Available /\ v' \in Seq(Nat)
              /\ job.source = "Buffers" => C!Sum(v') = C!size - at'
            BY <1>1, <2>1 DEF SourceOK
        <3>2. Delivered' = Delivered + u.n
            BY <1>3, <1>4, <2>1, <2>2
        <3> QED
            BY <2>1, <3>1, <3>2 DEF Moved
    <2>5. WrapOK'
        BY <1>1, <2>1 DEF WrapOK
    <2> QED
        BY <2>3, <2>4, <2>5
<1>8. CASE left # 0
    <2>1. PICK l \in Nat : l = C!MinOf(k, left) /\ l # 0 /\ l <= left
        BY <1>4, <1>8 DEF C!MinOf
    <2>2. /\ u \in C!SourceReads(l) /\ C!Taken(u.n) /\ left' = left - u.n
          /\ UNCHANGED <<stuck, teed>>
        BY <1>8, <2>1 DEF C!LimitedRead
    <2>3. /\ u.n \in Nat /\ u.n <= l /\ u.n <= m /\ u.err \in {"none", "EOF", "other"}
          /\ u.err # "none" => u.n = m
        BY <1>1, <1>2, <2>1, <2>2, SourceGives
    <2>4. /\ at' \in Nat /\ at' = at + u.n /\ start <= at' /\ at' - start = g + u.n /\ g + u.n <= Available
          /\ v' \in Seq(Nat)
          /\ job.source = "Buffers" => C!Sum(v') = C!size - at'
        BY <1>1, <1>2, <2>2, <2>3, SourceMoves
    <2>5. PICK n \in Nat : n = u.n
        BY <2>3
    <2>6. n <= left /\ n <= m /\ (u.err # "none" => n = m)
        BY <1>4, <2>1, <2>3, <2>5
    <2>7. Delivered' = g + n
        BY <1>1, <1>4, <2>2, <2>4, <2>5 DEF Delivered
    <2>8. ReadFrom(u)
        <3>1. g + n <= Allowed
            BY ONLY <1>3, <1>4, <1>6, <2>6, n \in Nat
        <3>2. n = m => g + n = Allowed
            BY ONLY <1>3, <1>4, <1>6, <2>6, n \in Nat
        <3>3. u.err # "write" /\ u.err # "too large"
            BY <2>3
        <3> QED
            BY <1>4, <2>3, <2>5, <2>6, <3>1, <3>2, <3>3 DEF ReadFrom
    <2>9. Moved(u)
        <3>1. Delivered' = Delivered + u.n /\ at' - start <= Available
            BY <1>4, <2>4, <2>5, <2>7
        <3>2. u.err # "too large" /\ job.wrap # "teeReader"
            BY <2>3
        <3> QED
            BY <2>4, <3>1, <3>2 DEF Moved
    <2>10. left' \in Nat /\ left' = job.limit - (at' - start)
        <3>1. left' = left - n /\ at' - start = g + n
            BY <2>2, <2>4, <2>5
        <3>2. left - n \in Nat /\ left - n = job.limit - (g + n)
            BY ONLY <1>3, <1>4, <1>5, <2>6, n \in Nat
        <3> QED
            BY <3>1, <3>2
    <2>11. WrapOK'
        BY <1>1, <1>4, <2>2, <2>10 DEF WrapOK
    <2> QED
        BY <2>8, <2>9, <2>11
<1> QED
    BY <1>7, <1>8

LEMMA MaxBytesReads ==
    ASSUME Starting, job.wrap = "maxBytesReader", NEW k \in Nat, k # 0, NEW u, C!MaxBytesRead(k, u)
    PROVE  ReadFrom(u) /\ Moved(u) /\ WrapOK'
<1>1. JobOK /\ SourceOK /\ WrapOK /\ ~Direct /\ UNCHANGED <<job, start>>
    BY DEF Starting
<1>2. PICK g, m : Halfway(g, m)
    BY <1>1, SourceHalfway
<1>3. g \in Nat /\ m \in Nat /\ at - start = g /\ Available = g + m /\ at \in Nat /\ start \in Nat
    BY <1>2 DEF Halfway
<1>4. /\ stuck \in {"none", "EOF", "other", "too large"} /\ job.limit \in Nat
      /\ stuck = "none" => left \in Nat /\ left = job.limit - g
      /\ stuck = "too large" => g = job.limit + 1
      /\ stuck \in {"EOF", "other"} => g = Available /\ Available <= job.limit
    BY <1>1, <1>3, JobFacts DEF WrapOK
<1>5. Allowed = IF job.limit < Available THEN job.limit ELSE Available
    BY DEF Allowed, C!MinOf
<1>6. UNCHANGED Available
    BY <1>1, AvailableStays
<1>7. CASE stuck # "none"
    <2>1. u.n = 0 /\ u.err = stuck /\ UNCHANGED <<at, v, left, stuck, teed>>
        BY <1>7 DEF C!MaxBytesRead, C!None
    <2>2. Delivered' = Delivered
        BY <1>1, <2>1 DEF Delivered
    <2>3. ASSUME stuck = "too large" PROVE Delivered = Allowed /\ Delivered \in Nat
        <3>1. Delivered = job.limit /\ g = job.limit + 1 /\ job.limit \in Nat
            BY <1>4, <2>3 DEF Delivered
        <3>2. job.limit < Available
            BY ONLY <1>3, <3>1
        <3> QED
            BY <1>5, <3>1, <3>2
    <2>4. ASSUME stuck \in {"EOF", "other"}
          PROVE  Delivered = Allowed /\ Delivered \in Nat /\ Allowed = Available
        <3>1. stuck # "too large" /\ g = Available /\ Available <= job.limit /\ job.limit \in Nat
            BY <1>4, <2>4
        <3>2. Delivered = g
            BY <1>3, <3>1 DEF Delivered
        <3>3. Available \in Nat /\ ~(job.limit < Available)
            <4>1. Available \in Nat /\ job.limit \in Nat /\ Available <= job.limit
                BY <1>3, <3>1
            <4> QED
                BY ONLY <4>1
        <3> QED
            BY <1>5, <3>1, <3>2, <3>3
    <2>5. Delivered = Allowed /\ Delivered \in Nat
        BY <1>4, <1>7, <2>3, <2>4
    <2>6. stuck \in {"EOF", "other"} => Allowed = Available
        BY <2>4
    <2>7. ReadFrom(u)
        <3>1. u.n \in Nat /\ Delivered + u.n <= Allowed /\ Delivered + u.n = Allowed
            BY <2>1, <2>5
        <3> QED
            BY <1>4, <2>1, <2>6, <3>1 DEF ReadFrom
    <2>8. Moved(u)
        <3>1. /\ at' \in Nat /\ start <= at' /\ at' - start <= Available /\ v' \in Seq(Nat)
              /\ job.source = "Buffers" => C!Sum(v') = C!size - at'
            BY <1>1, <2>1 DEF SourceOK
        <3>2. Delivered' = Delivered + u.n
            BY <2>1, <2>2, <2>5
        <3> QED
            BY <2>1, <3>1, <3>2 DEF Moved
    <2>9. WrapOK'
        BY <1>1, <1>6, <2>1 DEF WrapOK
    <2> QED
        BY <2>7, <2>8, <2>9
<1>8. CASE stuck = "none"
    <2>1. left \in Nat /\ job.limit = g + left /\ Delivered = g
        <3>1. left \in Nat /\ left = job.limit - g
            BY <1>4, <1>8
        <3>2. job.limit = g + left
            <4>1. job.limit \in Nat
                BY <1>4
            <4> QED
                BY ONLY <1>3, <3>1, <4>1
        <3> QED
            BY <1>3, <1>8, <3>1, <3>2 DEF Delivered
    <2>2. Allowed = IF left < m THEN g + left ELSE g + m
        <3>1. (job.limit < Available) <=> (left < m)
            BY ONLY <1>3, <2>1
        <3> QED
            BY <1>3, <1>5, <2>1, <3>1
    <2>3. PICK l \in Nat : l = C!MinOf(k, left + 1) /\ l # 0 /\ l <= left + 1
        BY <2>1 DEF C!MinOf
    <2>4. PICK s \in C!SourceReads(l) :
            /\ u = IF s.n <= left THEN s ELSE [n |-> left, err |-> "too large"]
            /\ C!Taken(s.n) /\ left' = left - u.n /\ stuck' = u.err
            /\ UNCHANGED teed
        BY <1>8, <2>3 DEF C!MaxBytesRead, C!None
    <2>5. /\ s.n \in Nat /\ s.n <= l /\ s.n <= m /\ s.err \in {"none", "EOF", "other"}
          /\ s.err # "none" => s.n = m
        BY <1>1, <1>2, <2>3, SourceGives
    <2>6. /\ at' \in Nat /\ at' = at + s.n /\ start <= at' /\ at' - start = g + s.n /\ g + s.n <= Available
          /\ v' \in Seq(Nat)
          /\ job.source = "Buffers" => C!Sum(v') = C!size - at'
        BY <1>1, <1>2, <2>4, <2>5, SourceMoves
    <2>7. PICK n \in Nat : n = s.n
        BY <2>5
    <2>8. n <= m /\ n <= left + 1 /\ (s.err # "none" => n = m)
        BY <2>1, <2>3, <2>5, <2>7
    <2>9. CASE n <= left
        <3>1. u.n = n /\ u.err = s.err /\ left' = left - n /\ stuck' = s.err
            BY <2>4, <2>7, <2>9
        <3>2. Delivered' = g + n
            BY <1>1, <2>5, <2>6, <2>7, <3>1 DEF Delivered
        <3>3. g + n <= Allowed
            BY ONLY <1>3, <2>1, <2>2, <2>8, <2>9, n \in Nat
        <3>4. n = m => g + n = Allowed /\ Allowed = Available /\ g + n = Available /\ Available <= job.limit
            BY ONLY <1>3, <2>1, <2>2, <2>8, <2>9, n \in Nat
        <3>5. ReadFrom(u)
            <4>1. u.err # "write" /\ u.err # "too large"
                BY <2>5, <3>1
            <4>2. u.err # "none" => n = m
                BY <2>8, <3>1
            <4>3. u.n \in Nat /\ Delivered + u.n <= Allowed
                BY <2>1, <3>1, <3>3
            <4>4. u.err # "none" => Delivered + u.n = Allowed /\ Allowed = Available
                BY <2>1, <3>1, <3>4, <4>2
            <4> QED
                BY <1>8, <2>5, <3>1, <4>1, <4>3, <4>4 DEF ReadFrom
        <3>6. Moved(u)
            <4>1. Delivered' = Delivered + u.n /\ at' - start <= Available
                BY <2>1, <2>6, <2>7, <3>1, <3>2
            <4>2. u.err # "too large" /\ job.wrap # "teeReader"
                BY <2>5, <3>1
            <4> QED
                BY <2>6, <4>1, <4>2 DEF Moved
        <3>7. left' \in Nat /\ left' = job.limit - (at' - start)
            <4>1. at' - start = g + n
                BY <2>6, <2>7
            <4>2. left - n \in Nat /\ left - n = job.limit - (g + n)
                BY ONLY <1>3, <2>1, <2>9, n \in Nat
            <4> QED
                BY <3>1, <4>1, <4>2
        <3>8. s.err # "none" => at' - start = Available /\ Available <= job.limit
            BY <2>6, <2>7, <2>8, <3>4
        <3>9. WrapOK'
            BY <1>1, <1>6, <2>5, <3>1, <3>7, <3>8 DEF WrapOK
        <3> QED
            BY <3>5, <3>6, <3>9
    <2>10. CASE ~(n <= left)
        <3>1. u.n = left /\ u.err = "too large" /\ stuck' = "too large"
            BY <2>4, <2>7, <2>10
        <3>2. n = left + 1 /\ g + n = job.limit + 1 /\ Allowed = job.limit /\ g + left = Allowed
            BY ONLY <1>3, <2>1, <2>2, <2>8, <2>10, n \in Nat
        <3>3. Delivered' = job.limit
            BY <1>1, <3>1 DEF Delivered
        <3>4. ReadFrom(u)
            <4>1. Allowed \in Nat /\ Allowed <= Allowed
                BY <1>3, <2>1, <3>2
            <4>2. u.n \in Nat /\ Delivered + u.n = Allowed
                BY <2>1, <3>1, <3>2
            <4> QED
                BY <1>8, <3>1, <4>1, <4>2 DEF ReadFrom
        <3>5. Moved(u)
            <4>1. Delivered' = Delivered + u.n /\ at' - start <= Available
                BY <2>1, <2>6, <3>1, <3>3
            <4> QED
                BY <2>6, <3>1, <4>1 DEF Moved
        <3>6. at' - start = job.limit + 1
            BY <2>6, <2>7, <3>2
        <3>7. WrapOK'
            BY <1>1, <3>1, <3>6 DEF WrapOK
        <3> QED
            BY <3>4, <3>5, <3>7
    <2> QED
        BY <2>9, <2>10
<1> QED
    BY <1>7, <1>8

LEMMA TeeReads ==
    ASSUME Starting, job.wrap = "teeReader", NEW k \in Nat, k # 0, NEW u, C!TeeRead(k, u)
    PROVE  ReadFrom(u) /\ Moved(u) /\ WrapOK'
<1>1. JobOK /\ SourceOK /\ WrapOK /\ ~Direct /\ UNCHANGED <<job, start>>
    BY DEF Starting
<1>2. PICK g, m : Halfway(g, m)
    BY <1>1, SourceHalfway
<1>3. g \in Nat /\ m \in Nat /\ at - start = g /\ Available = g + m /\ at \in Nat /\ start \in Nat
    BY <1>2 DEF Halfway
<1>4. stuck = "none" /\ Delivered = g /\ Allowed = g + m
    BY <1>1, <1>3 DEF WrapOK, Delivered, Allowed
<1>5. PICK s \in C!SourceReads(k), fails \in BOOLEAN :
        /\ IF fails /\ s.n > 0 THEN u.err = "write" /\ u.n \in 0..s.n ELSE u = s
        /\ C!Taken(s.n) /\ teed' = teed \o Bytes(at, u.n)
        /\ UNCHANGED <<left, stuck>>
    BY DEF C!TeeRead, C!Positions, Bytes
<1>6. /\ s.n \in Nat /\ s.n <= m /\ s.err \in {"none", "EOF", "other"}
      /\ s.err # "none" => s.n = m
    BY <1>1, <1>2, <1>5, SourceGives
<1>7. /\ at' \in Nat /\ at' = at + s.n /\ start <= at' /\ at' - start = g + s.n /\ g + s.n <= Available
      /\ v' \in Seq(Nat)
      /\ job.source = "Buffers" => C!Sum(v') = C!size - at'
    BY <1>1, <1>2, <1>5, <1>6, SourceMoves
<1>8. /\ u.n \in Nat /\ u.n <= s.n /\ u.err \in {"none", "EOF", "other", "write"}
      /\ u.err # "write" => u.n = s.n /\ u.err = s.err
    BY <1>5, <1>6
<1>9. ReadFrom(u)
    <2>1. PICK n \in Nat : n = u.n
        BY <1>8
    <2>2. n <= m /\ (u.err \notin {"none", "write"} => n = m)
        <3>1. n <= m
            BY <1>3, <1>6, <1>8, <2>1
        <3>2. u.err \notin {"none", "write"} => n = m
            BY <1>6, <1>8, <2>1
        <3> QED
            BY <3>1, <3>2
    <2>3. g + n <= g + m /\ (n = m => g + n = g + m)
        BY <1>3, <2>2
    <2>4. Delivered + u.n <= Allowed /\ (u.err \notin {"none", "write"} => Delivered + u.n = Allowed)
        BY <1>4, <2>1, <2>2, <2>3
    <2>5. u.n \in Nat /\ u.err \in {"none", "EOF", "other", "too large", "write"} /\ u.err # "too large"
        BY <1>8
    <2>6. u.err \in {"EOF", "other", "too large"} => Delivered + u.n = Allowed
        BY <2>4
    <2>7. stuck # "too large" /\ job.wrap = "teeReader" /\ job.wrap # "maxBytesReader"
        BY <1>4
    <2>8. stuck = "too large" => u.n = 0
        BY <2>7
    <2>9. u.err \in {"EOF", "other"} /\ job.wrap = "maxBytesReader" => Allowed = Available
        BY <2>7
    <2>10. u.err = "write" => job.wrap = "teeReader"
        BY <2>7
    <2>11. u.n \in Nat /\ Delivered + u.n <= Allowed
        BY <2>4, <2>5
    <2>12. u.err \in {"none", "EOF", "other", "too large", "write"}
        BY <2>5
    <2> QED
        BY <2>6, <2>8, <2>9, <2>10, <2>11, <2>12, Zenon DEF ReadFrom
<1>10. Moved(u)
    <2>1. at + u.n <= at' /\ (u.err # "write" => at' = at + u.n)
        <3> DEFINE n == u.n
                   l == s.n
        <3>1. n \in Nat /\ l \in Nat /\ n <= l /\ at' = at + l /\ at \in Nat /\ (u.err # "write" => n = l)
            BY <1>3, <1>6, <1>7, <1>8
        <3> HIDE DEF n, l
        <3>2. at + n <= at' /\ (u.err # "write" => at' = at + n)
            BY ONLY <3>1
        <3> QED
            BY <3>2 DEF n
    <2>2. u.err # "too large" /\ at' - start <= Available
        BY <1>7, <1>8
    <2> QED
        BY <1>5, <1>7, <2>1, <2>2 DEF Moved
<1>11. WrapOK'
    BY <1>1, <1>4, <1>5 DEF WrapOK
<1> QED
    BY <1>9, <1>10, <1>11

LEMMA ReadStep ==
    ASSUME Starting, NEW k \in Nat, k # 0, NEW u, C!Read(k, u)
    PROVE  ReadFrom(u) /\ Moved(u) /\ WrapOK'
<1>1. job.wrap \in {"none", "LimitedReader", "maxBytesReader", "teeReader"}
    BY JobFacts DEF Starting
<1> QED
    BY <1>1, PlainReads, LimitedReads, MaxBytesReads, TeeReads DEF C!Read

Running == CopyOK /\ result = "running"

LEMMA RunningType ==
    ASSUME Running
    PROVE  /\ start \in Nat /\ at \in Nat /\ count \in Nat /\ Allowed \in Nat /\ Available \in Nat
           /\ Len(dst) \in Nat /\ Len(dst) = Delivered /\ dst = Bytes(start, Len(dst))
           /\ stuck # "too large" => at = start + Len(dst)
           /\ JobOK /\ SourceOK /\ WrapOK /\ DataOK /\ ResultOK /\ result = "running"
<1>1. JobOK /\ SourceOK /\ WrapOK /\ DataOK /\ ResultOK /\ result = "running"
    BY DEF Running, CopyOK
<1>2. PICK g, m : Halfway(g, m)
    BY <1>1, SourceHalfway
<1>3. start \in Nat /\ at \in Nat /\ Available \in Nat /\ at = start + g /\ at - start = g
    BY <1>2 DEF Halfway
<1>4. Allowed \in Nat
    BY <1>1, <1>3, AvailableType
<1>5. count \in Nat /\ Len(dst) \in Nat /\ Len(dst) = Delivered /\ dst = Bytes(start, Len(dst))
    BY <1>1 DEF DataOK
<1>6. stuck # "too large" => at = start + Len(dst)
    BY <1>3, <1>5 DEF Delivered
<1> QED
    BY <1>1, <1>3, <1>4, <1>5, <1>6

\* So many bytes arrive where they belong.
Fits(i) == stuck = "too large" => i = 0

LEMMA ArriveStep ==
    ASSUME NEW i \in Nat, Running, Fits(i), C!Arrive(i)
    PROVE  /\ dst' = Bytes(start, Len(dst) + i) /\ Len(dst') = Len(dst) + i /\ Len(dst') \in Nat
           /\ count' = count + i /\ count' \in Nat
<1>1. start \in Nat /\ at \in Nat /\ count \in Nat /\ Len(dst) \in Nat /\ dst = Bytes(start, Len(dst))
    BY RunningType
<1>2. dst' = dst \o Bytes(at, i) /\ count' = count + i
    BY DEF C!Arrive, C!Positions, Bytes
<1>3. PICK l \in Nat : l = Len(dst)
    BY <1>1
<1>4. Bytes(at, i) = Bytes(start + l, i)
    <2>1. CASE i = 0
        <3>1. start + l \in Nat
            BY <1>1, <1>3
        <3>2. Bytes(at, 0) = Bytes(start + l, 0)
            BY DEF Bytes
        <3> QED
            BY <2>1, <3>2
    <2>2. CASE i # 0
        <3>1. stuck # "too large"
            BY <2>2 DEF Fits
        <3>2. at = start + l
            BY <1>3, <3>1, RunningType
        <3> QED
            BY <3>2
    <2> QED
        BY <2>1, <2>2
<1>5. dst' = Bytes(start, l + i)
    <2>1. dst' = Bytes(start, l) \o Bytes(start + l, i)
        BY <1>1, <1>2, <1>3, <1>4
    <2>2. start \in Nat /\ l \in Nat /\ i \in Nat
        BY <1>1
    <2>3. Bytes(start, l) \o Bytes(start + l, i) = Bytes(start, l + i)
        BY ONLY <2>2, BytesConcat
    <2> QED
        BY ONLY <2>1, <2>3
<1>6. Len(Bytes(start, l + i)) = l + i /\ l + i \in Nat
    <2>1. l + i \in Nat
        BY <1>3
    <2> QED
        BY <1>1, <2>1, BytesType
<1>7. count + i \in Nat
    BY <1>1
<1> QED
    BY <1>2, <1>3, <1>5, <1>6, <1>7

LEMMA SourceStays ==
    ASSUME NEW u, Starting, result = "running", Moved(u)
    PROVE  SourceOK' /\ ~Direct'
<1>1. SourceOK /\ ~Direct /\ UNCHANGED <<job, start>>
    BY DEF Starting
<1>2. ~Direct'
    BY <1>1 DEF Direct
<1>3. Available' = Available /\ UNCHANGED C!size
    BY <1>1, AvailableStays DEF C!size
<1>4. start' \in Nat /\ (job'.source # "SectionReader" => start' = 0)
    BY <1>1 DEF SourceOK
<1> QED
    BY <1>1, <1>2, <1>3, <1>4 DEF SourceOK, Moved

\* What has been read arrives, or a part of it.
LEMMA ArriveCounts ==
    ASSUME NEW u, NEW i \in Nat, Running, ReadFrom(u), C!Arrive(i), i <= u.n
    PROVE  /\ dst' = Bytes(start, Len(dst')) /\ Len(dst') = Len(dst) + i /\ Len(dst') \in Nat
           /\ Len(dst') <= Allowed /\ count' = count + i /\ count' \in Nat
           /\ job.op \in {"Copy", "CopyN"} => count' = Len(dst')
<1>1. /\ start \in Nat /\ at \in Nat /\ count \in Nat /\ Len(dst) \in Nat /\ Len(dst) = Delivered
      /\ Allowed \in Nat /\ DataOK
    BY RunningType
<1>2. u.n \in Nat /\ Delivered + u.n <= Allowed
    BY DEF ReadFrom
<1>3. Fits(i)
    <2>1. ASSUME stuck = "too large" PROVE i = 0
        <3>1. u.n = 0
            BY <2>1 DEF ReadFrom
        <3> QED
            BY <3>1
    <2> QED
        BY <2>1 DEF Fits
<1>4. /\ dst' = Bytes(start, Len(dst) + i) /\ Len(dst') = Len(dst) + i /\ Len(dst') \in Nat
      /\ count' = count + i /\ count' \in Nat
    BY <1>3, ArriveStep
<1>5. PICK l \in Nat, n \in Nat : l = Len(dst) /\ n = u.n
    BY <1>1, <1>2
<1>6. Len(dst') <= Allowed
    <2>1. l + n <= Allowed /\ i <= n /\ Allowed \in Nat
        BY <1>1, <1>2, <1>5
    <2>2. l + i <= Allowed
        BY ONLY <2>1, l \in Nat, n \in Nat, i \in Nat
    <2> QED
        BY <1>4, <1>5, <2>2
<1>7. job.op \in {"Copy", "CopyN"} => count' = Len(dst')
    BY <1>1, <1>4 DEF DataOK
<1> QED
    BY <1>4, <1>6, <1>7

\* The caller gets what was read, or a copy to a failing writer ends.
GotAll(u, i) == i = u.n \/ (job.op \in {"Copy", "CopyN"} /\ result' # "running")
AllRight(u) == result' = "running" => u.err = "none"

LEMMA DataStep ==
    ASSUME NEW u, NEW i \in Nat, Running, Starting, ReadFrom(u), Moved(u), WrapOK', C!Arrive(i), i <= u.n,
           GotAll(u, i), AllRight(u)
    PROVE  DataOK'
<1>1. JobOK /\ SourceOK /\ WrapOK /\ UNCHANGED <<job, start>> /\ DataOK /\ result = "running"
    BY RunningType DEF Starting
<1>2. /\ start \in Nat /\ at \in Nat /\ count \in Nat /\ Len(dst) \in Nat /\ Len(dst) = Delivered
      /\ Allowed \in Nat
    BY RunningType
<1>3. u.n \in Nat
    BY DEF ReadFrom
<1>5. /\ dst' = Bytes(start, Len(dst')) /\ Len(dst') = Len(dst) + i /\ Len(dst') \in Nat
      /\ count' = count + i /\ count' \in Nat
    BY ArriveCounts
<1>6. PICK l \in Nat, n \in Nat : l = Len(dst) /\ n = u.n
    BY <1>2, <1>3
<1>7. Len(dst') <= Allowed
    BY ArriveCounts
<1>8. Allowed' = Allowed /\ Available' = Available
    BY <1>1, AvailableStays
<1>9. job.op \in {"Copy", "CopyN"} => count' = Len(dst')
    BY ArriveCounts
<1>10. dst' = Bytes(start', Len(dst'))
    BY <1>1, <1>5
<1>11. job.wrap # "teeReader" /\ i = u.n => Len(dst') = Delivered'
    BY <1>2, <1>5 DEF Moved
<1>12. job.op \in {"ReadAtLeast", "ReadAll"} => i = u.n
    BY <1>1 DEF GotAll
<1>13. result' = "running" => i = u.n
    BY DEF GotAll
<1>14. ASSUME job.wrap = "teeReader"
       PROVE  /\ Len(teed') \in Nat /\ teed' = Bytes(start, Len(teed'))
              /\ Len(dst') <= Len(teed') /\ Len(teed') <= at' - start
              /\ job.op \in {"ReadAtLeast", "ReadAll"} => Len(dst') = Len(teed')
              /\ result' = "running" => Len(teed') = at' - start /\ Len(dst') = Delivered'
    <2>1. /\ Len(teed) \in Nat /\ teed = Bytes(start, Len(teed)) /\ Len(teed) = at - start
          /\ stuck = "none" /\ stuck' = "none"
        BY <1>1, <1>14 DEF DataOK, WrapOK
    <2>2. /\ teed' = teed \o Bytes(at, u.n) /\ at + u.n <= at' /\ at' \in Nat /\ start <= at'
          /\ u.err # "write" => at' = at + u.n
        BY <1>14 DEF Moved
    <2>3. at = start + l /\ Len(teed) = l
        <3>1. at = start + l
            BY <1>6, <2>1, RunningType
        <3>2. Delivered = at - start
            BY <2>1 DEF Delivered
        <3> QED
            BY <1>2, <1>6, <2>1, <3>1, <3>2
    <2>4. teed' = Bytes(start, l + n)
        <3>1. teed' = Bytes(start, l) \o Bytes(start + l, n)
            BY <1>6, <2>1, <2>2, <2>3
        <3>2. start \in Nat /\ l \in Nat /\ n \in Nat
            BY <1>2
        <3>3. Bytes(start, l) \o Bytes(start + l, n) = Bytes(start, l + n)
            BY ONLY <3>2, BytesConcat
        <3> QED
            BY ONLY <3>1, <3>3
    <2>5. Len(teed') = l + n /\ l + n \in Nat
        <3>1. l + n \in Nat
            OBVIOUS
        <3> QED
            BY <1>2, <2>4, <3>1, BytesType
    <2>6. l + n <= at' - start
        <3>1. (start + l) + n <= at' /\ at' \in Nat /\ start \in Nat
            BY <1>2, <1>6, <2>2, <2>3
        <3>2. PICK a \in Nat, b \in Nat : a = at' /\ b = start
            BY <3>1
        <3>3. l + n <= a - b
            <4>1. (b + l) + n <= a
                BY <3>1, <3>2
            <4> QED
                BY ONLY <4>1, l \in Nat, n \in Nat, a \in Nat, b \in Nat
        <3> QED
            BY <3>2, <3>3
    <2>7. Len(dst') = l + i /\ i <= n /\ l + i <= l + n
        <3>1. i <= n
            BY <1>6
        <3>2. l + i <= l + n
            BY ONLY <3>1, l \in Nat, n \in Nat, i \in Nat
        <3> QED
            BY <1>5, <1>6, <3>1, <3>2
    <2>8. ASSUME result' = "running" PROVE Len(teed') = at' - start /\ Len(dst') = Delivered'
        <3>1. i = n /\ u.err # "write" /\ at' = (start + l) + n
            BY <1>6, <1>13, <2>2, <2>3, <2>8 DEF AllRight
        <3>2. at' - start = l + n
            BY ONLY <1>2, <3>1, l \in Nat, n \in Nat
        <3>3. Delivered' = at' - start
            BY <1>1, <2>1 DEF Delivered
        <3> QED
            BY <2>5, <2>7, <3>1, <3>2, <3>3
    <2>9. job.op \in {"ReadAtLeast", "ReadAll"} => Len(dst') = Len(teed')
        BY <1>6, <1>12, <2>5, <2>7
    <2> QED
        BY <2>4, <2>5, <2>6, <2>7, <2>8, <2>9
<1>15. result' = "running" => Len(dst') = Delivered'
    BY <1>11, <1>13, <1>14
<1>16. job.op = "ReadAtLeast" /\ job.wrap # "teeReader" => Len(dst') = Delivered'
    BY <1>11, <1>12
<1>17. DataOK'
    BY <1>1, <1>5, <1>7, <1>8, <1>9, <1>10, <1>14, <1>15, <1>16 DEF DataOK
<1> QED
    BY <1>5, <1>7, <1>9, <1>17

Wrong == {"write", "short", "invalid write"}
WithinLimit(n) == job.op = "CopyN" => n <= job.limit

LEMMA CopyResultIs ==
    ASSUME NEW n \in Nat, NEW e, JobOK, job.op \in {"Copy", "CopyN"}, WithinLimit(n),
           e \in {"none", "EOF", "other", "too large"} \cup Wrong
    PROVE  /\ C!CopyResult(n, e) # "running"
           /\ C!CopyResult(n, e) = "too large" => e = "too large"
           /\ job.op = "Copy" => (C!CopyResult(n, e) = "none" => e \in {"none", "EOF"})
           /\ job.op = "CopyN" => ((C!CopyResult(n, e) = "none") <=> n = job.limit)
           /\ job.op = "CopyN" => (C!CopyResult(n, e) = "EOF" => n # job.limit /\ e \in {"none", "EOF"})
<1>1. job.limit \in Nat
    BY JobFacts
<1>2. e # "running"
    BY DEF Wrong
<1>3. CASE job.op = "Copy"
    BY <1>2, <1>3 DEF C!CopyResult, C!None
<1>4. CASE job.op = "CopyN"
    <2>1. CASE n = job.limit
        <3>1. C!CopyResult(n, e) = "none"
            BY <1>4, <2>1 DEF C!CopyResult, C!None
        <3> QED
            BY <1>4, <2>1, <3>1
    <2>2. CASE n # job.limit
        <3>1. n < job.limit
            <4>1. n <= job.limit
                BY <1>4 DEF WithinLimit
            <4> QED
                BY ONLY <1>1, <2>2, <4>1, n \in Nat
        <3>2. CASE e \in {"none", "EOF"}
            <4>1. C!CopyResult(n, e) = "EOF"
                BY <1>4, <2>2, <3>1, <3>2 DEF C!CopyResult, C!None
            <4> QED
                BY <1>4, <2>2, <3>2, <4>1
        <3>3. CASE e \notin {"none", "EOF"}
            <4>1. C!CopyResult(n, e) = e
                BY <1>4, <2>2, <3>1, <3>3 DEF C!CopyResult, C!None
            <4> QED
                BY <1>2, <1>4, <2>2, <3>3, <4>1
        <3> QED
            BY <3>2, <3>3
    <2> QED
        BY <2>1, <2>2
<1> QED
    BY <1>3, <1>4

\* A copy ends: with the error of the read when all was written, or with
\* the writer's.
LEMMA CopyEnds ==
    ASSUME NEW u, NEW e, Running, Starting, ReadFrom(u), Moved(u),
           job.op \in {"Copy", "CopyN"},
           count' \in Nat, Len(dst') <= Allowed, count' = Len(dst'),
           (e = u.err /\ e # "none" /\ e # "write" /\ Len(dst') = Len(dst) + u.n) \/ e \in Wrong,
           result' = C!CopyResult(count', e)
    PROVE  ResultOK' /\ result' # "running"
<1>1. JobOK /\ SourceOK /\ WrapOK /\ UNCHANGED <<job, start>> /\ Len(dst) = Delivered
      /\ Allowed \in Nat /\ start \in Nat
    BY RunningType DEF Starting
<1>2. PICK c \in Nat : c = count'
    OBVIOUS
<1>3. job.limit \in Nat /\ (job.op = "CopyN" => job.wrap = "LimitedReader")
    BY <1>1, JobFacts
<1>4. job.op = "CopyN" => Allowed <= job.limit /\ (Allowed = job.limit \/ Allowed = Available)
    BY <1>1, <1>3, AvailableType
<1>5. WithinLimit(c)
    <2>1. ASSUME job.op = "CopyN" PROVE c <= job.limit
        <3>1. Allowed <= job.limit /\ c <= Allowed
            BY <1>2, <1>4, <2>1
        <3> QED
            BY ONLY <1>1, <1>3, <3>1, c \in Nat
    <2> QED
        BY <2>1 DEF WithinLimit
<1>6. e \in {"none", "EOF", "other", "too large"} \cup Wrong
    BY DEF ReadFrom, Wrong
<1>7. /\ C!CopyResult(c, e) # "running"
      /\ C!CopyResult(c, e) = "too large" => e = "too large"
      /\ job.op = "Copy" => (C!CopyResult(c, e) = "none" => e \in {"none", "EOF"})
      /\ job.op = "CopyN" => ((C!CopyResult(c, e) = "none") <=> c = job.limit)
      /\ job.op = "CopyN" => (C!CopyResult(c, e) = "EOF" => c # job.limit /\ e \in {"none", "EOF"})
    BY <1>1, <1>5, <1>6, CopyResultIs
<1>8. result' = C!CopyResult(c, e)
    BY <1>2
<1>9. e \in {"EOF", "too large", "none"} => e = u.err /\ e # "none" /\ Len(dst') = Len(dst) + u.n
    BY DEF Wrong
<1>10. e \in {"EOF", "too large", "none"} => Len(dst') = Allowed
    BY <1>1, <1>9 DEF ReadFrom
<1>11. e \in {"EOF", "none"} /\ job.wrap = "maxBytesReader" => Allowed = Available
    BY <1>9 DEF ReadFrom
<1>12. e = "too large" => stuck' = "too large"
    BY <1>9 DEF Moved
<1>13. Allowed' = Allowed /\ Available' = Available
    BY <1>1, AvailableStays
<1>14. job.op = "CopyN" /\ result' = "EOF" => Len(dst') = Available
    BY <1>2, <1>4, <1>7, <1>8, <1>10
<1>15. job.op = "Copy" /\ result' = "none" =>
        Len(dst') = Allowed /\ (job.wrap = "maxBytesReader" => Allowed = Available)
    BY <1>7, <1>8, <1>10, <1>11
<1>16. job.op = "CopyN" => (result' = "none" <=> count' = job.limit)
    BY <1>2, <1>7, <1>8
<1>17. result' = "too large" => stuck' = "too large" /\ Len(dst') = Allowed
    BY <1>7, <1>8, <1>10, <1>12
<1>18. job' = job /\ job.op # "ReadAtLeast" /\ job.op # "ReadAll" /\ result' # "running"
    BY <1>1, <1>7, <1>8
<1> QED
    BY <1>13, <1>14, <1>15, <1>16, <1>17, <1>18 DEF ResultOK

LEMMA Starts ==
    ASSUME Running, UNCHANGED <<job, start>>, ~(job.source = "Buffers" /\ job.wrap = "none" /\
           job.op \in {"Copy", "CopyN"})
    PROVE  Starting
BY RunningType DEF Starting, Direct

LEMMA JobStays ==
    ASSUME Running, UNCHANGED <<job, start>>
    PROVE  JobOK' /\ Allowed' = Allowed /\ Available' = Available
BY RunningType, AvailableStays

LEMMA BufLenType == BufLen \in Nat /\ BufLen # 0
BY SizesAssumption DEF C!CopyingAssumption

LEMMA CopyBufferOK ==
    ASSUME Running, C!CopyBuffer
    PROVE  CopyOK'
<1>1. /\ job.op \in {"Copy", "CopyN"} /\ ~C!UsesWriterTo /\ UNCHANGED <<job, start>>
    BY DEF C!CopyBuffer, C!Copying
<1>2. PICK u, z :
        /\ C!Read(C!TransferSize, u)
        /\ z \in (IF u.n = 0 THEN {[n |-> 0, err |-> C!None]} ELSE C!Written(u.n))
        /\ C!Arrive(z.n)
        /\ result' = IF z.err # C!None THEN C!CopyResult(count', z.err)
                     ELSE IF u.err # C!None THEN C!CopyResult(count', u.err) ELSE "running"
    BY DEF C!CopyBuffer
<1>3. Starting
    BY <1>1, Starts DEF C!UsesWriterTo
<1>4. PICK k \in Nat : k = C!TransferSize /\ k # 0
    <2>1. job.limit \in Nat
        BY RunningType, JobFacts
    <2> QED
        BY <2>1, BufLenType DEF C!TransferSize, C!MinOf
<1>5. ReadFrom(u) /\ Moved(u) /\ WrapOK'
    BY <1>2, <1>3, <1>4, ReadStep
<1>6. u.n \in Nat
    BY <1>5 DEF ReadFrom
<1>7. z.n \in Nat /\ z.n <= u.n /\ z.err \in {"none"} \cup Wrong /\ (z.err = "none" => z.n = u.n)
    <2>1. CASE u.n = 0
        BY <1>2, <2>1 DEF C!None
    <2>2. CASE u.n # 0
        <3>1. z \in C!Written(u.n)
            BY <1>2, <2>2
        <3>2. z \in [n : 0..u.n, err : {"none", "write", "short", "invalid write"}]
            BY <3>1 DEF C!Written, C!None
        <3>3. z.err = "none" => z.n = u.n
            BY <3>1 DEF C!Written, C!None
        <3>4. z.n \in 0..u.n /\ z.err \in {"none"} \cup Wrong
            BY <3>2 DEF Wrong
        <3>5. z.n \in Nat /\ z.n <= u.n
            BY <1>6, <3>4
        <3> QED
            BY <3>3, <3>4, <3>5
    <2> QED
        BY <2>1, <2>2
<1>8. PICK n \in Nat : n = z.n
    BY <1>7
<1>9. C!Arrive(n) /\ n <= u.n
    BY <1>2, <1>7, <1>8
<1>10. /\ Len(dst') = Len(dst) + n /\ Len(dst') \in Nat /\ Len(dst') <= Allowed
       /\ count' \in Nat /\ count' = Len(dst')
    BY <1>1, <1>5, <1>9, ArriveCounts
<1>11. JobOK' /\ SourceOK'
    BY <1>1, <1>3, <1>5, JobStays, SourceStays, RunningType
<1>12. CASE z.err = "none" /\ u.err = "none"
    <2>1. result' = "running" /\ n = u.n
        BY <1>2, <1>7, <1>8, <1>12 DEF C!None
    <2>2. GotAll(u, n) /\ AllRight(u)
        BY <1>12, <2>1 DEF GotAll, AllRight
    <2>3. DataOK'
        BY <1>3, <1>5, <1>9, <2>2, DataStep
    <2>4. ResultOK'
        BY <1>1, <2>1 DEF ResultOK
    <2> QED
        BY <1>5, <1>11, <2>3, <2>4 DEF CopyOK
<1>13. CASE ~(z.err = "none" /\ u.err = "none")
    <2>1. PICK e : /\ result' = C!CopyResult(count', e)
                   /\ (e = u.err /\ e # "none" /\ n = u.n) \/ e \in Wrong
        <3>1. CASE z.err = "none"
            BY <1>2, <1>7, <1>8, <1>13, <3>1 DEF C!None
        <3>2. CASE z.err # "none"
            BY <1>2, <1>7, <3>2 DEF C!None
        <3> QED
            BY <3>1, <3>2
    <2>2. (e = u.err /\ e # "none" /\ e # "write" /\ Len(dst') = Len(dst) + u.n) \/ e \in Wrong
        BY <1>10, <2>1 DEF Wrong
    <2>3. ResultOK' /\ result' # "running"
        BY <1>1, <1>3, <1>5, <1>10, <2>1, <2>2, CopyEnds
    <2>4. GotAll(u, n) /\ AllRight(u)
        BY <1>1, <2>3 DEF GotAll, AllRight
    <2>5. DataOK'
        BY <1>3, <1>5, <1>9, <2>4, DataStep
    <2> QED
        BY <1>5, <1>11, <2>3, <2>5 DEF CopyOK
<1> QED
    BY <1>12, <1>13

LEMMA DiscardReadFromOK ==
    ASSUME Running, C!DiscardReadFrom
    PROVE  CopyOK'
<1>1. /\ job.op \in {"Copy", "CopyN"} /\ ~C!UsesWriterTo /\ UNCHANGED <<job, start>>
    BY DEF C!DiscardReadFrom, C!Copying
<1>2. PICK u :
        /\ C!Read(BufLen, u) /\ C!Arrive(u.n)
        /\ result' = IF u.err = C!None THEN "running" ELSE C!CopyResult(count', u.err)
    BY DEF C!DiscardReadFrom
<1>3. Starting
    BY <1>1, Starts DEF C!UsesWriterTo
<1>4. ReadFrom(u) /\ Moved(u) /\ WrapOK'
    BY <1>2, <1>3, BufLenType, ReadStep
<1>5. u.n \in Nat /\ u.n <= u.n
    <2>1. u.n \in Nat
        BY <1>4 DEF ReadFrom
    <2> QED
        BY ONLY <2>1
<1>6. /\ Len(dst') = Len(dst) + u.n /\ Len(dst') \in Nat /\ Len(dst') <= Allowed
      /\ count' \in Nat /\ count' = Len(dst')
    BY <1>1, <1>2, <1>4, <1>5, ArriveCounts
<1>7. ResultOK' /\ AllRight(u)
    <2>1. CASE u.err = "none"
        <3>1. result' = "running"
            BY <1>2, <2>1 DEF C!None
        <3> QED
            BY <1>1, <2>1, <3>1 DEF ResultOK, AllRight
    <2>2. CASE u.err # "none"
        <3>1. PICK e : e = u.err /\ e # "none" /\ result' = C!CopyResult(count', e)
            BY <1>2, <2>2 DEF C!None
        <3>2. (e = u.err /\ e # "none" /\ e # "write" /\ Len(dst') = Len(dst) + u.n) \/ e \in Wrong
            BY <1>6, <3>1 DEF Wrong
        <3>3. ResultOK' /\ result' # "running"
            BY <1>1, <1>3, <1>4, <1>6, <3>1, <3>2, CopyEnds
        <3> QED
            BY <3>3 DEF AllRight
    <2> QED
        BY <2>1, <2>2
<1>8. DataOK'
    <2>1. GotAll(u, u.n)
        BY DEF GotAll
    <2> QED
        BY <1>2, <1>3, <1>4, <1>5, <1>7, <2>1, DataStep
<1>9. JobOK' /\ SourceOK'
    BY <1>1, <1>3, <1>4, JobStays, SourceStays, RunningType
<1> QED
    BY <1>4, <1>7, <1>8, <1>9 DEF CopyOK

\* The other calls: one that reads nothing more.
LEMMA NothingRead ==
    ASSUME Running, UNCHANGED <<job, start, at, v, left, stuck, teed, dst, count>>,
           result' # "running", job.op = "ReadAtLeast", ResultOK'
    PROVE  CopyOK'
<1>1. JobOK /\ SourceOK /\ WrapOK /\ DataOK /\ result = "running"
    BY RunningType
<1>2. Allowed' = Allowed /\ Available' = Available /\ UNCHANGED C!size /\ JobOK'
    BY JobStays DEF C!size
<1>3. ~Direct /\ ~Direct'
    BY DEF Direct
<1>4. SourceOK'
    BY <1>1, <1>2, <1>3 DEF SourceOK
<1>5. WrapOK'
    BY <1>1, <1>2 DEF WrapOK
<1>6. Delivered' = Delivered
    BY DEF Delivered
<1>7. DataOK'
    BY <1>1, <1>2, <1>6 DEF DataOK
<1> QED
    BY <1>2, <1>4, <1>5, <1>7 DEF CopyOK

LEMMA ReadAtLeastOK ==
    ASSUME Running, C!ReadAtLeast
    PROVE  CopyOK'
<1>1. job.op = "ReadAtLeast" /\ result = "running" /\ UNCHANGED <<job, start>>
    BY DEF C!ReadAtLeast
<1>2. /\ count \in Nat /\ job.min \in Nat /\ BufLen \in Nat /\ BufLen # 0
      /\ JobOK /\ ResultOK /\ WrapOK /\ DataOK
    BY RunningType, JobFacts, BufLenType
<1>3. CASE BufLen < job.min
    <2>1. result' = "short buffer" /\ UNCHANGED <<at, v, left, stuck, teed, dst, count>>
        BY <1>3 DEF C!ReadAtLeast
    <2>2. count = 0
        BY <1>1, <1>2, <1>3 DEF ResultOK
    <2>3. ~(count' >= job.min)
        <3>1. count' = 0 /\ job.min \in Nat /\ BufLen \in Nat /\ BufLen < job.min
            BY <1>2, <1>3, <2>1, <2>2
        <3>2. ~(0 >= job.min)
            BY ONLY <3>1
        <3> QED
            BY ONLY <3>1, <3>2
    <2>4. ResultOK'
        BY <1>1, <2>1, <2>3 DEF ResultOK
    <2> QED
        BY <1>1, <2>1, <2>4, NothingRead
<1>4. CASE ~(BufLen < job.min) /\ count >= job.min
    <2>1. result' = "none" /\ UNCHANGED <<at, v, left, stuck, teed, dst, count>>
        BY <1>4 DEF C!ReadAtLeast, C!None
    <2>2. ResultOK'
        BY <1>1, <1>4, <2>1 DEF ResultOK
    <2> QED
        BY <1>1, <2>1, <2>2, NothingRead
<1>5. CASE ~(BufLen < job.min) /\ ~(count >= job.min)
    <2>1. PICK u :
            /\ C!Read(BufLen - count, u) /\ C!Arrive(u.n)
            /\ result' = IF u.err = C!None THEN "running"
                         ELSE IF count' >= job.min THEN C!None
                         ELSE IF count' > 0 /\ u.err = "EOF" THEN "unexpected EOF" ELSE u.err
        BY <1>5 DEF C!ReadAtLeast
    <2>2. PICK k \in Nat : k = BufLen - count /\ k # 0
        <3>1. BufLen - count \in Nat /\ BufLen - count # 0
            BY <1>2, <1>5
        <3> QED
            BY <3>1
    <2>3. Starting
        BY <1>1, Starts
    <2>4. ReadFrom(u) /\ Moved(u) /\ WrapOK'
        BY <2>1, <2>2, <2>3, ReadStep
    <2>5. u.n \in Nat /\ u.n <= u.n
        <3>1. u.n \in Nat
            BY <2>4 DEF ReadFrom
        <3> QED
            BY ONLY <3>1
    <2>6. Len(dst') = Len(dst) + u.n /\ count' \in Nat
        BY <2>1, <2>4, <2>5, ArriveCounts
    <2>7. GotAll(u, u.n) /\ AllRight(u)
        <3>1. u.err # "running"
            BY <2>4 DEF ReadFrom
        <3>2. result' = "running" => u.err = "none"
            BY <2>1, <3>1 DEF C!None
        <3> QED
            BY <3>2 DEF GotAll, AllRight
    <2>8. DataOK'
        BY <2>1, <2>3, <2>4, <2>5, <2>7, DataStep
    <2>9. ResultOK'
        <3>1. ASSUME result' # "running" PROVE result' = "none" <=> count' >= job.min
            BY <2>1, <3>1 DEF C!None
        <3>2. result' = "EOF" => count' = 0
            <4>1. ASSUME result' = "EOF" PROVE count' = 0
                <5>1. u.err = "EOF" /\ ~(count' > 0)
                    BY <2>1, <4>1 DEF C!None
                <5> QED
                    BY <2>6, <5>1
            <4> QED
                BY <4>1
        <3>3. result' = "too large" => stuck' = "too large" /\ Len(dst') = Allowed'
            <4>1. ASSUME result' = "too large" PROVE stuck' = "too large" /\ Len(dst') = Allowed'
                <5>1. u.err = "too large"
                    BY <2>1, <4>1 DEF C!None
                <5>2. stuck' = "too large" /\ Delivered + u.n = Allowed
                    BY <2>4, <5>1 DEF ReadFrom, Moved
                <5> QED
                    BY <1>1, <2>6, <5>2, JobStays, RunningType
            <4> QED
                BY <4>1
        <3>4. job' = job /\ ~(BufLen < job.min)
            BY <1>1, <1>5
        <3> QED
            BY <1>1, <3>1, <3>2, <3>3, <3>4 DEF ResultOK
    <2>10. JobOK' /\ SourceOK'
        BY <1>1, <2>3, <2>4, JobStays, SourceStays
    <2> QED
        BY <2>4, <2>8, <2>9, <2>10 DEF CopyOK
<1> QED
    BY <1>3, <1>4, <1>5

LEMMA ReadAllOK ==
    ASSUME Running, C!ReadAll
    PROVE  CopyOK'
<1>1. job.op = "ReadAll" /\ result = "running" /\ UNCHANGED <<job, start>>
    BY DEF C!ReadAll
<1>2. PICK k, u :
        /\ k \in 1..(BufLen + 1)
        /\ C!Read(k, u) /\ C!Arrive(u.n)
        /\ result' = IF u.err = C!None THEN "running" ELSE IF u.err = "EOF" THEN C!None ELSE u.err
    BY DEF C!ReadAll
<1>3. k \in Nat /\ k # 0
    BY <1>2, BufLenType
<1>4. Starting
    BY <1>1, Starts
<1>5. ReadFrom(u) /\ Moved(u) /\ WrapOK'
    BY <1>2, <1>3, <1>4, ReadStep
<1>6. u.n \in Nat /\ u.n <= u.n
    <2>1. u.n \in Nat
        BY <1>5 DEF ReadFrom
    <2> QED
        BY ONLY <2>1
<1>7. Len(dst') = Len(dst) + u.n
    BY <1>2, <1>5, <1>6, ArriveCounts
<1>8. GotAll(u, u.n) /\ AllRight(u)
    <2>1. u.err # "running"
        BY <1>5 DEF ReadFrom
    <2>2. result' = "running" => u.err = "none"
        BY <1>2, <2>1 DEF C!None
    <2> QED
        BY <2>2 DEF GotAll, AllRight
<1>9. DataOK'
    BY <1>2, <1>4, <1>5, <1>6, <1>8, DataStep
<1>10. Len(dst) = Delivered /\ Allowed' = Allowed /\ Available' = Available
    BY <1>1, JobStays, RunningType
<1>11. ASSUME result' = "none"
       PROVE  Len(dst') = Allowed' /\ (job.wrap = "maxBytesReader" => Allowed' = Available')
    <2>1. u.err = "EOF"
        BY <1>2, <1>11 DEF C!None
    <2>2. Delivered + u.n = Allowed /\ (job.wrap = "maxBytesReader" => Allowed = Available)
        BY <1>5, <2>1 DEF ReadFrom
    <2> QED
        BY <1>7, <1>10, <2>2
<1>12. ASSUME result' = "too large" PROVE stuck' = "too large" /\ Len(dst') = Allowed'
    <2>1. u.err = "too large"
        BY <1>2, <1>12 DEF C!None
    <2>2. stuck' = "too large" /\ Delivered + u.n = Allowed
        BY <1>5, <2>1 DEF ReadFrom, Moved
    <2> QED
        BY <1>7, <1>10, <2>2
<1>13. ResultOK'
    BY <1>1, <1>11, <1>12 DEF ResultOK
<1>14. JobOK' /\ SourceOK'
    BY <1>1, <1>4, <1>5, JobStays, SourceStays
<1> QED
    BY <1>5, <1>9, <1>13, <1>14 DEF CopyOK

LEMMA BuffersWriteToOK ==
    ASSUME Running, C!BuffersWriteTo
    PROVE  CopyOK'
<1> DEFINE f == C!Sums(v)
           Unwritten == {i \in DOMAIN v : f[i] > count}
           k == CHOOSE i \in Unwritten : \A o \in Unwritten : i <= o
<1>1. /\ job.op \in {"Copy", "CopyN"} /\ job.source = "Buffers" /\ job.wrap = "none"
      /\ UNCHANGED <<job, start, left, stuck, teed>>
    BY DEF C!BuffersWriteTo, C!Copying, C!UsesWriterTo
<1>2. JobOK /\ SourceOK /\ WrapOK /\ DataOK /\ result = "running"
    BY RunningType
<1>3. job.op = "Copy"
    BY <1>1, <1>2 DEF JobOK
<1>4. Direct
    BY <1>1, <1>2 DEF Direct
<1>5. v \in Seq(Nat) /\ v = job.parts /\ at = count /\ start = 0 /\ stuck = "none"
    BY <1>1, <1>2, <1>4 DEF SourceOK, WrapOK
<1>6. PICK j \in 0..Len(v) : count = f[j]
    BY <1>2, <1>4 DEF SourceOK
<1>7. C!size = f[Len(v)]
    BY <1>5 DEF C!size, C!Sum
<1>8. SumsOf(v, f)
    BY <1>5, SumsAre
<1> HIDE DEF f
<1>9. /\ Len(v) \in Nat /\ f[0] = 0 /\ \A i \in 0..Len(v) : f[i] \in Nat
      /\ \A i \in 1..Len(v) : f[i] = f[i - 1] + v[i]
    <2>1. Len(v) \in Nat
        BY <1>5
    <2>2. f \in [0..Len(v) -> Nat] /\ f[0] = 0 /\ \A i \in 1..Len(v) : f[i] = f[i - 1] + v[i]
        BY ONLY <1>8 DEF SumsOf
    <2> QED
        BY ONLY <2>1, <2>2
<1>10. DOMAIN v = 1..Len(v) /\ \A i \in 1..Len(v) : v[i] \in Nat
    BY <1>5
<1>11. \A i, o \in 0..Len(v) : i <= o => f[i] <= f[o]
    <2>1. ASSUME NEW i \in 0..Len(v), NEW o \in 0..Len(v), i <= o PROVE f[i] <= f[o]
        <3>1. o \in i..Len(v)
            BY <1>9, <2>1
        <3> QED
            BY <1>5, <1>8, <3>1, RunningSumsGrow
    <2> QED
        BY <2>1
<1>12. C!size \in Nat /\ f[Len(v)] \in Nat /\ count \in Nat /\ count <= f[Len(v)]
    <2>1. Len(v) \in 0..Len(v) /\ j \in 0..Len(v) /\ j <= Len(v)
        BY <1>9
    <2>2. f[j] \in Nat /\ f[Len(v)] \in Nat /\ f[j] <= f[Len(v)]
        BY <1>9, <1>11, <2>1
    <2> QED
        BY <1>6, <1>7, <2>2
<1>13. Available = C!size /\ Allowed = C!size
    <2>1. Available = IF C!size > 0 THEN C!size - 0 ELSE 0
        BY <1>1, <1>5 DEF Available, EndOfSource
    <2>2. Available = C!size
        BY <1>12, <2>1
    <2> QED
        BY <1>1, <2>2 DEF Allowed
<1>14. Len(dst) = count /\ Len(dst) \in Nat
    <2>1. Len(dst) = Delivered /\ Delivered = at - start /\ at \in Nat
        BY <1>5, RunningType DEF Delivered
    <2> QED
        BY <1>5, <2>1
<1>15. JobOK' /\ Allowed' = Allowed /\ Available' = Available /\ UNCHANGED C!size
    BY <1>1, JobStays DEF C!size
<1>16. \/ /\ Unwritten = {} /\ result' = C!CopyResult(count, C!None) /\ v' = C!consume(v, count)
          /\ UNCHANGED <<at, dst, count>>
       \/ /\ Unwritten # {}
          /\ \E i \in 0..v[k], fails \in BOOLEAN :
                /\ i < v[k] => fails
                /\ C!Arrive(i) /\ at' = at + i
                /\ result' = IF fails THEN C!CopyResult(count', "write") ELSE "running"
                /\ v' = IF fails THEN C!consume(v, count') ELSE v
    BY DEF C!BuffersWriteTo, f
<1>17. C!Sum(v) = f[Len(v)]
    BY DEF C!Sum, f
<1>18. ASSUME NEW c \in Nat, c <= f[Len(v)], at' = c, count' = c, Len(dst') = c,
              dst' = Bytes(start, Len(dst')), v' = C!consume(v, c), result' # "running", result' # "none" \/ c = f[Len(v)],
              result' # "too large"
       PROVE  CopyOK'
    <2>1. v' \in Seq(Nat) /\ C!Sum(v') = f[Len(v)] - c
        BY <1>5, <1>17, <1>18, Consumed
    <2>2. SourceOK'
        <3>1. ~Direct'
            BY <1>18 DEF Direct
        <3>2. C!Sum(v') = C!size - at'
            BY <1>7, <1>18, <2>1
        <3>3. start' = 0 /\ at' \in Nat /\ start' <= at' /\ at' - start' <= Available'
            <4>1. c - 0 = c /\ 0 <= c
                BY ONLY c \in Nat
            <4> QED
                BY <1>1, <1>5, <1>7, <1>13, <1>15, <1>18, <4>1
        <3> QED
            BY <1>15, <2>1, <3>1, <3>2, <3>3 DEF SourceOK
    <2>3. WrapOK'
        BY <1>1, <1>5 DEF WrapOK
    <2>4. DataOK'
        <3>1. Len(dst') <= Allowed' /\ count' = Len(dst') /\ count' \in Nat
            BY <1>7, <1>13, <1>15, <1>18
        <3> QED
            BY <1>1, <1>3, <1>18, <3>1 DEF DataOK
    <2>5. ResultOK'
        <3>1. result' = "none" => Len(dst') = Allowed'
            BY <1>7, <1>13, <1>15, <1>18
        <3> QED
            BY <1>1, <1>3, <1>18, <3>1 DEF ResultOK
    <2> QED
        BY <1>15, <2>2, <2>3, <2>4, <2>5 DEF CopyOK
<1>19. CASE /\ Unwritten = {} /\ result' = C!CopyResult(count, C!None) /\ v' = C!consume(v, count)
            /\ UNCHANGED <<at, dst, count>>
    <2>1. count = f[Len(v)]
        <3>1. CASE Len(v) = 0
            <4>1. j = 0
                BY <3>1
            <4> QED
                BY <1>6, <3>1, <4>1
        <3>2. CASE Len(v) # 0
            <4>1. Len(v) \in DOMAIN v
                BY <1>9, <1>10, <3>2
            <4>2. ~(f[Len(v)] > count)
                BY <1>19, <4>1
            <4> QED
                BY ONLY <1>12, <4>2
        <3> QED
            BY <3>1, <3>2
    <2>2. result' = "none"
        BY <1>3, <1>19 DEF C!CopyResult, C!None
    <2>3. dst = Bytes(start, Len(dst))
        BY RunningType
    <2>4. count <= count
        BY <1>12
    <2> QED
        BY <1>1, <1>5, <1>12, <1>14, <1>18, <1>19, <2>1, <2>2, <2>3, <2>4
<1>20. CASE /\ Unwritten # {}
            /\ \E i \in 0..v[k], fails \in BOOLEAN :
                /\ i < v[k] => fails
                /\ C!Arrive(i) /\ at' = at + i
                /\ result' = IF fails THEN C!CopyResult(count', "write") ELSE "running"
                /\ v' = IF fails THEN C!consume(v, count') ELSE v
    <2>1. k \in Unwritten /\ \A o \in Unwritten : k <= o
        <3>1. Unwritten \subseteq Nat
            BY ONLY <1>10
        <3>2. \E i \in Unwritten : \A o \in Unwritten : i <= o
            <4> HIDE DEF Unwritten
            <4> QED
                BY <1>20, <3>1, LeastNumber
        <3> HIDE DEF Unwritten
        <3> QED
            BY <3>2
    <2> HIDE DEF k
    <2>2. k \in 1..Len(v) /\ f[k] > count /\ k - 1 \in 0..Len(v) /\ k \in 0..Len(v) /\ v[k] \in Nat
        BY <1>9, <1>10, <2>1
    <2>3. f[k - 1] <= count
        <3>1. CASE k - 1 = 0
            BY <1>9, <1>12, <3>1
        <3>2. CASE k - 1 # 0
            <4>1. k - 1 \in DOMAIN v /\ ~(k <= k - 1)
                BY <1>10, <2>2, <3>2
            <4>2. ~(f[k - 1] > count)
                BY <2>1, <4>1
            <4>3. f[k - 1] \in Nat
                BY <1>9, <2>2
            <4> QED
                BY ONLY <1>12, <4>2, <4>3
        <3> QED
            BY <3>1, <3>2
    <2>4. j <= k - 1
        <3>1. SUFFICES ASSUME ~(j <= k - 1) PROVE FALSE
            OBVIOUS
        <3>2. k <= j
            BY <2>2, <3>1
        <3>3. f[k] <= f[j] /\ f[k] \in Nat /\ f[j] \in Nat
            BY <1>9, <1>11, <2>2, <3>2
        <3> QED
            BY <1>6, <2>2, <3>3
    <2>5. count = f[k - 1]
        <3>1. f[j] <= f[k - 1] /\ f[k - 1] \in Nat
            BY <1>9, <1>11, <2>2, <2>4
        <3> QED
            BY <1>6, <1>12, <2>3, <3>1
    <2>6. f[k] = count + v[k] /\ f[k] <= f[Len(v)] /\ f[k] \in Nat
        <3>1. Len(v) \in 0..Len(v) /\ k <= Len(v)
            BY <1>9, <2>2
        <3> QED
            BY <1>9, <1>11, <2>2, <2>5, <3>1
    <2>7. PICK i, fails :
            /\ i \in 0..v[k] /\ fails \in BOOLEAN /\ (i < v[k] => fails)
            /\ C!Arrive(i) /\ at' = at + i
            /\ result' = IF fails THEN C!CopyResult(count', "write") ELSE "running"
            /\ v' = IF fails THEN C!consume(v, count') ELSE v
        BY <1>20
    <2>8. i \in Nat /\ i <= v[k]
        BY <2>2, <2>7
    <2>9. /\ dst' = Bytes(start, Len(dst')) /\ Len(dst') = Len(dst) + i
          /\ count' = count + i /\ count' \in Nat
        <3>1. Fits(i)
            BY <1>5 DEF Fits
        <3> QED
            BY <2>7, <2>8, <3>1, ArriveStep
    <2>10. PICK c \in Nat : c = count + i /\ c <= f[k] /\ c <= f[Len(v)]
        <3>1. count + i \in Nat /\ count + i <= f[k]
            BY ONLY <1>12, <2>2, <2>6, <2>8
        <3>2. count + i <= f[Len(v)]
            BY ONLY <1>12, <2>6, <3>1
        <3> QED
            BY <3>1, <3>2
    <2>11. at' = c /\ count' = c /\ Len(dst') = c
        BY <1>5, <1>14, <2>7, <2>9, <2>10
    <2>12. CASE fails
        <3>1. result' = "write"
            BY <1>3, <2>7, <2>12 DEF C!CopyResult, C!None
        <3>2. v' = C!consume(v, c)
            BY <2>7, <2>11, <2>12
        <3> QED
            BY <1>18, <2>9, <2>10, <2>11, <3>1, <3>2
    <2>13. CASE ~fails
        <3>1. v' = v /\ result' = "running" /\ i = v[k]
            <4>1. ~(i < v[k])
                BY <2>7, <2>13
            <4>2. i = v[k]
                BY ONLY <2>2, <2>8, <4>1
            <4> QED
                BY <2>7, <2>13, <4>2
        <3>2. c = f[k]
            BY <2>6, <2>10, <3>1
        <3>3. SourceOK'
            <4>1. Direct'
                BY <1>4, <1>1, <3>1 DEF Direct
            <4>2. count' = C!Sums(v')[k] /\ k \in 0..Len(v')
                BY <2>2, <2>11, <3>1, <3>2 DEF f
            <4>3. start' = 0 /\ at' \in Nat /\ start' <= at' /\ at' - start' <= Available'
                <5>1. c - 0 = c /\ 0 <= c
                    OBVIOUS
                <5> QED
                    BY <1>1, <1>5, <1>7, <1>13, <1>15, <2>10, <2>11, <5>1
            <4>4. v' = job'.parts /\ at' = count' /\ v' \in Seq(Nat)
                BY <1>1, <1>5, <2>11, <3>1
            <4> QED
                BY <4>1, <4>2, <4>3, <4>4 DEF SourceOK
        <3>4. WrapOK'
            BY <1>1, <1>5 DEF WrapOK
        <3>5. DataOK'
            <4>1. Len(dst') <= Allowed' /\ count' = Len(dst') /\ count' \in Nat
                BY <1>7, <1>13, <1>15, <2>10, <2>11
            <4>2. Delivered' = c
                <5>1. c - 0 = c
                    OBVIOUS
                <5> QED
                    BY <1>1, <1>5, <2>11, <5>1 DEF Delivered
            <4> QED
                BY <1>1, <1>3, <2>9, <2>11, <4>1, <4>2 DEF DataOK
        <3>6. ResultOK'
            BY <1>1, <1>3, <3>1 DEF ResultOK
        <3> QED
            BY <1>15, <3>3, <3>4, <3>5, <3>6 DEF CopyOK
    <2> QED
        BY <2>7, <2>12, <2>13
<1> QED
    BY <1>16, <1>19, <1>20

LEMMA Passed ==
    ASSUME JobOK, SourceOK
    PROVE  at - start \in Nat /\ at - start <= Available /\ start \in Nat
BY SourceHalfway DEF Halfway

LEMMA ReadOnOK ==
    ASSUME CopyOK, C!ReadOn
    PROVE  CopyOK'
<1>1. /\ result # "running" /\ job.op = "ReadAtLeast" /\ ~C!Lost
      /\ job' = [job EXCEPT !.op = "ReadAll"] /\ count' = 0 /\ result' = "running"
      /\ UNCHANGED <<start, at, v, left, stuck, teed, dst>>
    BY DEF C!ReadOn
<1>2. JobOK /\ SourceOK /\ WrapOK /\ DataOK
    BY DEF CopyOK
<1>3. job' \in C!Job /\ job'.op = "ReadAll"
    BY <1>1, <1>2 DEF JobOK, C!Job
<1>4. /\ job'.to = job.to /\ job'.wrap = job.wrap /\ job'.limit = job.limit /\ job'.min = job.min
      /\ job'.source = job.source /\ job'.parts = job.parts /\ job'.base = job.base
      /\ job'.length = job.length /\ job'.end = job.end
    BY <1>1, <1>2 DEF JobOK, C!Job
<1>5. JobOK'
    BY <1>3 DEF JobOK
<1>6. UNCHANGED <<C!size, Available, Allowed, Delivered>>
    <2>1. UNCHANGED <<C!size, C!limitAt>>
        BY <1>4 DEF C!size, C!limitAt
    <2>2. UNCHANGED Available
        BY <1>1, <1>4, <2>1 DEF Available, EndOfSource
    <2>3. UNCHANGED Allowed
        BY <1>4, <2>2 DEF Allowed
    <2>4. UNCHANGED Delivered
        BY <1>1, <1>4 DEF Delivered
    <2> QED
        BY <2>1, <2>2, <2>3, <2>4
<1>7. ~Direct /\ ~Direct'
    BY <1>1, <1>3 DEF Direct
<1>8. SourceOK'
    BY <1>1, <1>2, <1>4, <1>6, <1>7 DEF SourceOK
<1>9. WrapOK'
    BY <1>1, <1>2, <1>4, <1>6 DEF WrapOK
<1>10. Len(dst) = Delivered /\ (job.wrap = "teeReader" => Len(teed) = at - start)
    <2>1. CASE job.wrap # "teeReader"
        BY <1>1, <1>2, <2>1 DEF DataOK
    <2>2. CASE job.wrap = "teeReader"
        <3>1. Len(teed) \in Nat /\ Len(teed) <= at - start /\ Len(dst) = Len(teed) /\ Delivered = at - start
            BY <1>1, <1>2, <2>2 DEF DataOK, WrapOK, Delivered
        <3>2. ~(Len(teed) < at - start) /\ at - start \in Nat
            BY <1>1, <1>2, <2>2, Passed DEF C!Lost
        <3>3. Len(teed) = at - start
            BY ONLY <3>1, <3>2
        <3> QED
            BY <3>1, <3>3
    <2> QED
        BY <2>1, <2>2
<1>11. DataOK'
    BY <1>1, <1>2, <1>3, <1>4, <1>6, <1>10 DEF DataOK
<1>12. ResultOK'
    BY <1>1, <1>3 DEF ResultOK
<1> QED
    BY <1>5, <1>8, <1>9, <1>11, <1>12 DEF CopyOK

\* At its beginning a helper has read nothing.
LEMMA Beginning ==
    ASSUME JobOK, start \in Nat, at = start, job.source # "SectionReader" => start = 0, v = job.parts,
           left = job.limit, stuck = "none", dst = <<>>, teed = <<>>, count = 0, result = "running"
    PROVE  CopyOK
<1>1. /\ Available \in Nat /\ Allowed \in Nat /\ job.parts \in Seq(Nat) /\ job.limit \in Nat /\ C!size \in Nat
    BY AvailableType, JobFacts
<1>2. at - start = 0
    OBVIOUS
<1>3. SumsOf(v, C!Sums(v)) /\ Len(v) \in Nat
    BY <1>1, SumsAre
<1>4. count = C!Sums(v)[0] /\ 0 \in 0..Len(v)
    BY <1>3 DEF SumsOf
<1>5. Direct => v = job.parts /\ at = count /\ \E i \in 0..Len(v) : count = C!Sums(v)[i]
    BY <1>4 DEF Direct
<1>6. job.source = "Buffers" => C!Sum(v) = C!size - at
    <2>1. C!size - 0 = C!size
        BY <1>1
    <2> QED
        BY <2>1 DEF C!size
<1>7. SourceOK
    BY <1>1, <1>2, <1>5, <1>6 DEF SourceOK
<1>8. job.limit - 0 = job.limit
    BY <1>1
<1>9. WrapOK
    BY <1>1, <1>2, <1>8 DEF WrapOK
<1>10. dst = Bytes(start, 0) /\ Len(dst) = 0 /\ teed = Bytes(start, 0) /\ Len(teed) = 0 /\ 0 <= Allowed
    BY <1>1 DEF Bytes
<1>11. Delivered = 0
    BY <1>2 DEF Delivered
<1>12. DataOK
    BY <1>1, <1>2, <1>10, <1>11 DEF DataOK
<1>13. ResultOK
    BY DEF ResultOK
<1> QED
    BY <1>7, <1>9, <1>12, <1>13 DEF CopyOK

LEMMA SeekOK ==
    ASSUME CopyOK, NEW o, C!Seek(o), o \in Int
    PROVE  CopyOK'
<1>1. /\ job.source = "SectionReader" /\ result = "running" /\ count = 0 /\ dst = <<>>
      /\ job.wrap = "none" /\ o >= 0 /\ at' = job.base + o /\ start' = at'
      /\ UNCHANGED <<job, v, left, stuck, teed, dst, count, result>>
    BY DEF C!Seek
<1>2. JobOK /\ SourceOK /\ WrapOK /\ DataOK /\ ResultOK
    BY DEF CopyOK
<1>3. JobOK'
    BY <1>1, <1>2 DEF JobOK
<1>4. start' \in Nat
    <2>1. job.base \in Nat
        BY <1>2, JobFacts
    <2>2. job.base + o \in Nat
        BY ONLY <1>1, <2>1, o \in Int
    <2> QED
        BY <1>1, <2>2
<1>5. Available' \in Nat /\ Allowed' \in Nat
    <2>1. JobOK /\ start \in Nat => Available \in Nat /\ Allowed \in Nat
        BY AvailableType
    <2>2. C!size \in Nat /\ C!limitAt \in Nat /\ UNCHANGED <<C!size, C!limitAt>>
        BY <1>1, <1>2, JobFacts DEF C!size, C!limitAt
    <2>3. EndOfSource' = EndOfSource /\ EndOfSource \in Nat
        BY <1>1, <2>2 DEF EndOfSource, C!MinOf
    <2>4. Available' \in Nat
        <3>1. PICK e \in Nat, p \in Nat : e = EndOfSource' /\ p = start'
            BY <1>4, <2>3
        <3>2. Available' = IF e > p THEN e - p ELSE 0
            BY <3>1 DEF Available
        <3>3. e > p => e - p \in Nat
            BY ONLY e \in Nat, p \in Nat
        <3> QED
            BY <3>2, <3>3
    <2>5. Allowed' = Available'
        BY <1>1 DEF Allowed
    <2> QED
        BY <2>4, <2>5
<1>6. at' - start' = 0
    BY <1>1, <1>4
<1>7. SourceOK'
    <2>1. ~Direct' /\ v' \in Seq(Nat) /\ job'.source = "SectionReader"
        BY <1>1, <1>2 DEF SourceOK, Direct
    <2>2. at' \in Nat /\ start' <= at' /\ at' - start' <= Available'
        BY <1>1, <1>4, <1>5, <1>6
    <2> QED
        BY <1>4, <2>1, <2>2 DEF SourceOK
<1>8. stuck = "none"
    BY <1>1, <1>2 DEF WrapOK
<1>9. WrapOK'
    BY <1>1, <1>8 DEF WrapOK
<1>10. dst' = Bytes(start', Len(dst')) /\ Len(dst') = 0
    BY <1>1 DEF Bytes
<1>11. Delivered' = 0
    BY <1>1, <1>6, <1>8 DEF Delivered
<1>12. DataOK'
    BY <1>1, <1>5, <1>10, <1>11 DEF DataOK
<1>13. ResultOK'
    BY <1>1, <1>2 DEF ResultOK
<1> QED
    BY <1>3, <1>7, <1>9, <1>12, <1>13 DEF CopyOK

LEMMA CopyInit == Init => CopyInv
<1> SUFFICES ASSUME Init, which = "copy" PROVE CopyOK
    BY DEF CopyInv
<1>1. C!Init
    BY DEF Init
<1>2. /\ job \in Jobs
      /\ start = IF job.source = "SectionReader" THEN job.base ELSE 0
      /\ at = start /\ v = job.parts /\ left = job.limit /\ stuck = "none" /\ teed = <<>> /\ dst = <<>>
      /\ count = 0 /\ result = "running"
    BY <1>1 DEF C!Init, C!None
<1>3. JobOK
    BY <1>2, SizesAssumption DEF C!CopyingAssumption, JobOK
<1>4. start \in Nat /\ (job.source # "SectionReader" => start = 0)
    BY <1>2, <1>3, JobFacts
<1> QED
    BY <1>2, <1>3, <1>4, Beginning

LEMMA CopyStepOK ==
    ASSUME CopyOK, C!Next
    PROVE  CopyOK'
<1>1. CASE C!CopyBuffer
    BY <1>1, CopyBufferOK DEF Running, C!CopyBuffer, C!Copying
<1>2. CASE C!DiscardReadFrom
    BY <1>2, DiscardReadFromOK DEF Running, C!DiscardReadFrom, C!Copying
<1>3. CASE C!BuffersWriteTo
    BY <1>3, BuffersWriteToOK DEF Running, C!BuffersWriteTo, C!Copying
<1>4. CASE C!ReadAtLeast
    BY <1>4, ReadAtLeastOK DEF Running, C!ReadAtLeast
<1>5. CASE C!ReadAll
    BY <1>5, ReadAllOK DEF Running, C!ReadAll
<1>6. CASE C!ReadOn
    BY <1>6, ReadOnOK
<1>7. ASSUME NEW o \in 0..(job.length + 1), C!Seek(o) PROVE CopyOK'
    <2>1. o \in Int
        OBVIOUS
    <2> QED
        BY <1>7, <2>1, SeekOK
<1> QED
    BY <1>1, <1>2, <1>3, <1>4, <1>5, <1>6, <1>7 DEF C!Next

LEMMA CopyStepInv == CopyInv /\ [Next]_vars => CopyInv'
<1> SUFFICES ASSUME CopyInv, [Next]_vars, which' = "copy" PROVE CopyOK'
    BY DEF CopyInv
<1>1. CASE CopyStep
    BY <1>1, CopyStepOK DEF CopyStep, CopyInv
<1>2. CASE UNCHANGED vars
    <2>1. CopyOK /\ UNCHANGED <<job, start, at, v, left, stuck, teed, dst, count, result>>
        BY <1>2 DEF vars, copyOnly, CopyInv
    <2>2. UNCHANGED <<C!size, C!limitAt>>
        BY <2>1 DEF C!size, C!limitAt
    <2>3. UNCHANGED <<Available, Allowed, Delivered, Direct>>
        BY <2>1, <2>2 DEF Available, EndOfSource, Allowed, Delivered, Direct
    <2>4. JobOK'
        BY <2>1 DEF CopyOK, JobOK
    <2>5. SourceOK'
        BY <2>1, <2>2, <2>3 DEF CopyOK, SourceOK
    <2>6. WrapOK'
        BY <2>1, <2>3 DEF CopyOK, WrapOK
    <2>7. DataOK'
        BY <2>1, <2>3 DEF CopyOK, DataOK
    <2>8. ResultOK'
        BY <2>1, <2>3 DEF CopyOK, ResultOK
    <2> QED
        BY <2>4, <2>5, <2>6, <2>7, <2>8 DEF CopyOK
<1> QED
    BY <1>1, <1>2 DEF Next, ReaderStep, WriterStep, BufferStep, TextStep

\* Bytes of a stream that begin others.
LEMMA BeginningOf ==
    ASSUME NEW k \in Nat, NEW l \in Nat, NEW n \in Nat, l <= n
    PROVE  C!IsPrefix(Bytes(k, l), Bytes(k, n)) /\ SubSeq(Bytes(k, n), 1, l) = Bytes(k, l)
<1> DEFINE s == Bytes(k, l)
           t == Bytes(k, n)
<1>1. /\ s \in Seq(Positions) /\ Len(s) = l /\ \A i \in 1..l : s[i] = k + i
      /\ t \in Seq(Positions) /\ Len(t) = n /\ \A i \in 1..n : t[i] = k + i
    BY BytesType
<1> HIDE DEF s, t
<1>2. SubSeq(s, 1, l) = s
    BY <1>1, SubSeqFull
<1>3. l \in 0..n
    OBVIOUS
<1>4. SubSeq(t, 1, l) \in Seq(Positions) /\ Len(SubSeq(t, 1, l)) = l
    BY <1>1, <1>3, Split
<1>5. \A i \in 1..l : SubSeq(t, 1, l)[i] = t[i]
    BY <1>1, <1>3
<1>6. \A i \in 1..Len(s) : SubSeq(t, 1, l)[i] = s[i]
    <2>1. \A i \in 1..l : i \in 1..n
        OBVIOUS
    <2> QED
        BY <1>1, <1>5, <2>1
<1>7. SubSeq(t, 1, l) = s
    BY <1>1, <1>4, <1>6, SeqEqual
<1> QED
    BY <1>1, <1>2, <1>7 DEF C!IsPrefix, s, t

LEMMA CopySafe ==
    ASSUME CopyOK
    PROVE  C!Copied
<1>1. JobOK /\ SourceOK /\ WrapOK /\ DataOK /\ ResultOK
    BY DEF CopyOK
<1>2. /\ start \in Nat /\ Available \in Nat /\ Allowed \in Nat /\ Allowed <= Available
      /\ job.limit \in Nat /\ at - start \in Nat
      /\ at - start <= Available
    BY <1>1, Passed, JobFacts, AvailableType
<1>3. C!Content = Bytes(start, Available)
    BY DEF C!Content, C!Positions, Bytes, Available, EndOfSource
<1>4. Len(C!Content) = Available
    BY <1>2, <1>3, BytesType
<1>5. C!Whole = Bytes(start, Allowed)
    <2>1. CASE job.wrap \in {"LimitedReader", "maxBytesReader"}
        <3>1. C!Whole = SubSeq(Bytes(start, Available), 1, Allowed)
            BY <1>3, <1>4, <2>1 DEF C!Whole, Allowed
        <3> QED
            BY <1>2, <3>1, BeginningOf
    <2>2. CASE job.wrap \notin {"LimitedReader", "maxBytesReader"}
        BY <1>3, <2>2 DEF C!Whole, Allowed
    <2> QED
        BY <2>1, <2>2
<1>6. PICK l \in Nat : l = Len(dst) /\ dst = Bytes(start, l) /\ l <= Allowed
    BY <1>1 DEF DataOK
<1>7. C!IsPrefix(dst, C!Whole)
    BY <1>2, <1>5, <1>6, BeginningOf
<1>8. ASSUME job.wrap = "teeReader" PROVE C!IsPrefix(dst, teed)
    <2>1. PICK m \in Nat : m = Len(teed) /\ teed = Bytes(start, m) /\ l <= m
        BY <1>1, <1>6, <1>8 DEF DataOK
    <2> QED
        BY <1>2, <1>6, <2>1, BeginningOf
<1>9. Len(dst) = Allowed => dst = C!Whole
    BY <1>5, <1>6
<1>10. Len(dst) = Available => dst = C!Content
    BY <1>3, <1>6
<1>11. Allowed = Available => C!Whole = C!Content
    BY <1>3, <1>5
<1>12. ASSUME job.op \in {"Copy", "ReadAll"}, result = C!None
       PROVE  dst = C!Whole /\ (job.wrap = "maxBytesReader" => C!Whole = C!Content)
    BY <1>1, <1>9, <1>11, <1>12 DEF ResultOK, C!None
<1>13. ASSUME result # "running", job.op = "CopyN"
       PROVE  (result = C!None) = (count = job.limit) /\ (result = "EOF" => dst = C!Content)
    <2>1. (result = "none" <=> count = job.limit) /\ (result = "EOF" => dst = C!Content)
        BY <1>1, <1>10, <1>13 DEF ResultOK
    <2> QED
        BY <2>1 DEF C!None
<1>14. ASSUME result # "running", job.op = "ReadAtLeast"
       PROVE  (result = C!None) = (count >= job.min) /\ (result = "EOF" => count = 0)
    <2>1. (result = "none" <=> count >= job.min) /\ (result = "EOF" => count = 0)
        BY <1>1, <1>14 DEF ResultOK
    <2> QED
        BY <2>1 DEF C!None
<1>15. ASSUME "too large" \in {stuck, result} PROVE Len(C!Content) > job.limit
    <2>1. stuck = "too large"
        BY <1>1, <1>15 DEF ResultOK
    <2>2. at - start = job.limit + 1
        BY <1>1, <2>1 DEF WrapOK
    <2>3. Available > job.limit
        BY ONLY <1>2, <2>2
    <2> QED
        BY <1>4, <2>3
<1>16. result = "too large" => dst = C!Whole
    BY <1>1, <1>9 DEF ResultOK
<1>17. ASSUME result # "running", job.source = "Buffers" PROVE C!Sum(v) = C!size - at
    BY <1>1, <1>17 DEF SourceOK, Direct
<1> QED
    BY <1>7, <1>8, <1>12, <1>13, <1>14, <1>15, <1>16, <1>17 DEF C!Copied

\* No byte is lost, repeated or out of order on its way through bufio.Reader,
\* bufio.Writer or bytes.Buffer, lines come whole, and the helpers of package io
\* deliver what the source holds up to the limit and report why they stopped:
\* for every size, input, length and way of splitting the bytes.  Of a
\* bufio.Reader this holds until its caller puts back what it had not taken last.
THEOREM StreamsAreKept == Spec => []Streams
<1>1. Init => ReaderInv /\ WriterInv /\ BufferInv /\ CopyInv
    BY ReaderInit, WriterInit, BufferInit, CopyInit
<1>2. ASSUME ReaderInv, WriterInv, BufferInv, CopyInv, [Next]_vars
      PROVE  ReaderInv' /\ WriterInv' /\ BufferInv' /\ CopyInv'
    BY <1>2, ReaderStepInv, WriterStepInv, BufferStepInv, CopyStepInv
<1>3. ASSUME ReaderInv, WriterInv, BufferInv, CopyInv PROVE Streams
    <2>1. WriterOK => W!Stream
        BY SameBytes DEF WriterOK, W!Stream
    <2> QED
        BY <1>3, <2>1, ReaderSafe, BufferSafe, CopySafe
        DEF ReaderInv, WriterInv, BufferInv, CopyInv, Streams, R!Stream, R!Lines
<1> QED
    BY <1>1, <1>2, <1>3, PTL DEF Spec
=============================================================================
