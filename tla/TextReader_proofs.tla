-------------------------- MODULE TextReader_proofs --------------------------
(***************************************************************************)
(* Proofs about textproto.Reader on any bufio.Reader: a dot-encoded text   *)
(* is read as it was sent, and a header as it means, for every text, every *)
(* header and every way in which the buffer cuts them into pieces.         *)
(*                                                                         *)
(* First, recursion down a measure and sequences put together from others. *)
(***************************************************************************)
EXTENDS Buffers_proofs

(* A function whose value at d comes from its value at a place of smaller  *)
(* measure, next[d], unless d is in Stop.                                  *)
Descends(D, V, M, m, Stop, val, next, step) ==
    /\ M \in Nat /\ V # {}
    /\ \A d \in D : m[d] \in Nat /\ m[d] <= M
    /\ \A d \in D : d \in Stop => val[d] \in V
    /\ \A d \in D : d \notin Stop =>
            next[d] \in D /\ m[next[d]] < m[d] /\ \A x \in V : step[<<d, x>>] \in V

LEMMA RecursionDown ==
    ASSUME NEW D, NEW V, NEW M, NEW m, NEW Stop, NEW val, NEW next, NEW step,
           Descends(D, V, M, m, Stop, val, next, step)
    PROVE  \E f \in [D -> V] : \A d \in D :
                f[d] = IF d \in Stop THEN val[d] ELSE step[<<d, f[next[d]]>>]
<1> DEFINE Value(f, d) == IF d \in Stop THEN val[d] ELSE step[<<d, f[next[d]]>>]
           Below(f, k) == \A d \in D : m[d] < k => f[d] = Value(f, d)
           S == {k \in Nat : \E f \in [D -> V] : Below(f, k)}
<1>1. 0 \in S
    <2>1. PICK x \in V : TRUE
        BY DEF Descends
    <2>2. [d \in D |-> x] \in [D -> V] /\ Below([d \in D |-> x], 0)
        BY <2>1 DEF Descends
    <2> QED
        BY <2>2
<1>2. ASSUME NEW k \in Nat, k \in S PROVE k + 1 \in S
    <2>1. PICK f \in [D -> V] : Below(f, k)
        BY <1>2
    <2> DEFINE g == [d \in D |-> Value(f, d)]
    <2>2. g \in [D -> V]
        BY DEF Descends
    <2>3. ASSUME NEW d \in D, m[d] < k + 1 PROVE g[d] = Value(g, d)
        <3>1. CASE d \in Stop
            BY <3>1
        <3>2. CASE d \notin Stop
            <4>1. next[d] \in D /\ m[next[d]] < k
                BY <2>3, <3>2 DEF Descends
            <4>2. g[next[d]] = f[next[d]]
                BY <2>1, <4>1
            <4> QED
                BY <3>2, <4>2
        <3> QED
            BY <3>1, <3>2
    <2>4. Below(g, k + 1)
        <3> HIDE DEF g
        <3> QED
            BY <2>3
    <2> HIDE DEF g, Below
    <2> QED
        BY <2>2, <2>4
<1>3. Nat \subseteq S
    <2> HIDE DEF S
    <2> QED
        BY <1>1, <1>2, SetInduction
<1>4. PICK f \in [D -> V] : Below(f, M + 1)
    BY <1>3 DEF Descends
<1>5. \A d \in D : m[d] < M + 1
    BY DEF Descends
<1> QED
    BY <1>4, <1>5

(* Induction on the measure of a place.                                    *)
LEMMA MeasureInduction ==
    ASSUME NEW D, NEW m, NEW G, \A d \in D : m[d] \in Nat,
           \A d \in D : (\A c \in D : m[c] < m[d] => c \in G) => d \in G
    PROVE  D \subseteq G
<1> DEFINE S == {k \in Nat : \A d \in D : m[d] < k => d \in G}
<1>1. 0 \in S
    OBVIOUS
<1>2. ASSUME NEW k \in Nat, k \in S PROVE k + 1 \in S
    <2>1. ASSUME NEW d \in D, m[d] < k + 1 PROVE d \in G
        <3>1. \A c \in D : m[c] < m[d] => c \in G
            BY <1>2, <2>1
        <3> QED
            BY <3>1
    <2> QED
        BY <2>1
<1>3. Nat \subseteq S
    <2> HIDE DEF S
    <2> QED
        BY <1>1, <1>2, SetInduction
<1>4. ASSUME NEW d \in D PROVE d \in G
    <2>1. m[d] + 1 \in Nat /\ m[d] < m[d] + 1
        OBVIOUS
    <2> QED
        BY <1>3, <2>1
<1> QED
    BY <1>4

(* Sequences one after another, as FlattenSeq of the community modules     *)
(* defines them: each begins where the lengths before it add up to.        *)
Strung(ss, n, o, x) == \A i \in 1..n : \A k \in 1..Len(ss[i]) : x[o[i - 1] + k] = ss[i][k]
Flattened(ss, F) == F = [i \in 1..Len(ss) |-> IF i = 1 THEN ss[i] ELSE F[i - 1] \o ss[i]]

LEMMA FlattenedExists ==
    ASSUME NEW S, NEW ss \in Seq(Seq(S))
    PROVE  \E F : Flattened(ss, F)
<1> DEFINE n == Len(ss)
           D == 1..n
           V == Seq(S)
           m == [i \in D |-> i]
           next == [i \in D |-> i - 1]
           step == [d \in D \X V |-> d[2] \o ss[d[1]]]
           Stop == {1}
<1>1. n \in Nat /\ \A i \in 1..n : ss[i] \in V
    OBVIOUS
<1>2. \E f \in [D -> V] : \A d \in D : f[d] = IF d \in Stop THEN ss[d] ELSE step[<<d, f[next[d]]>>]
    <2>1. V # {}
        <3>1. <<>> \in Seq(S)
            OBVIOUS
        <3> QED
            BY <3>1
    <2>2. \A d \in D : m[d] \in Nat /\ m[d] <= n
        BY <1>1
    <2>3. ASSUME NEW d \in D, d \notin Stop
          PROVE  next[d] \in D /\ m[next[d]] < m[d] /\ \A x \in V : step[<<d, x>>] \in V
        <3>1. d - 1 \in D /\ d - 1 < d
            BY <1>1, <2>3
        <3>2. \A x \in V : x \o ss[d] \in V
            BY <1>1
        <3> QED
            BY <3>1, <3>2
    <2>4. Descends(D, V, n, m, Stop, ss, next, step)
        <3> HIDE DEF V, m, next, step, Stop
        <3> QED
            BY <1>1, <2>1, <2>2, <2>3 DEF Descends
    <2> HIDE DEF D, V, m, next, step, n, Stop
    <2> QED
        BY <2>4, RecursionDown
<1>3. PICK f \in [D -> V] : \A d \in D : f[d] = IF d \in Stop THEN ss[d] ELSE step[<<d, f[next[d]]>>]
    BY <1>2
<1>4. ASSUME NEW d \in D PROVE f[d] = IF d = 1 THEN ss[d] ELSE f[d - 1] \o ss[d]
    <2>1. CASE d = 1
        BY <1>3, <2>1
    <2>2. CASE d # 1
        <3>1. d - 1 \in D
            BY <1>1, <2>2
        <3>2. next[d] = d - 1 /\ f[d - 1] \in V
            BY <3>1
        <3> DEFINE x == f[d - 1]
        <3> HIDE DEF x, V
        <3>3. step[<<d, x>>] = x \o ss[d]
            BY <3>2 DEF x
        <3> HIDE DEF step, next
        <3> QED
            BY <1>3, <2>2, <3>2, <3>3 DEF x
    <2> QED
        BY <2>1, <2>2
<1>5. f = [i \in 1..n |-> IF i = 1 THEN ss[i] ELSE f[i - 1] \o ss[i]]
    <2> HIDE DEF V
    <2> QED
        BY <1>4
<1> QED
    BY <1>5 DEF Flattened

LEMMA FlattenedPlaces ==
    ASSUME NEW S, NEW ss \in Seq(Seq(S)), NEW s \in Seq(Nat), Len(s) = Len(ss),
           \A i \in 1..Len(ss) : s[i] = Len(ss[i]),
           NEW o, SumsOf(s, o), NEW F, Flattened(ss, F), NEW n \in 1..Len(ss)
    PROVE  F[n] \in Seq(S) /\ Len(F[n]) = o[n] /\ Strung(ss, n, o, F[n])
<1> DEFINE Flat(i) == /\ F[i] \in Seq(S) /\ Len(F[i]) = o[i]
                      /\ \A j \in 1..i : \A k \in 1..Len(ss[j]) : F[i][o[j - 1] + k] = ss[j][k]
           G == {i \in Nat : i + 1 <= n => Flat(i + 1)}
<1>1. Len(ss) \in Nat /\ n \in Nat /\ n # 0 /\ n <= Len(ss)
      /\ \A i \in 1..Len(ss) : ss[i] \in Seq(S) /\ Len(ss[i]) \in Nat
    OBVIOUS
<1>2. \A i \in 1..n : i \in 1..Len(ss) /\ i \in 0..Len(ss) /\ i - 1 \in 0..Len(ss)
    BY <1>1
<1>3. o[0] = 0 /\ \A i \in 0..n : o[i] \in Nat
    <2>1. o[0] = 0 /\ \A i \in 0..Len(s) : o[i] \in Nat
        BY DEF SumsOf
    <2>2. \A i \in 0..n : i \in 0..Len(s)
        BY <1>1
    <2> QED
        BY <2>1, <2>2
<1>4. \A i \in 1..n : o[i] = o[i - 1] + Len(ss[i])
    BY <1>2 DEF SumsOf
<1>5. \A i \in 1..n : F[i] = IF i = 1 THEN ss[i] ELSE F[i - 1] \o ss[i]
    BY <1>2 DEF Flattened
<1>6. 0 \in G
    <2>1. 1 \in 1..n
        BY <1>1
    <2>2. F[1] = ss[1] /\ o[1] = o[0] + Len(ss[1])
        BY <1>4, <1>5, <2>1
    <2>3. ss[1] \in Seq(S) /\ Len(ss[1]) \in Nat
        BY <1>1, <1>2, <2>1
    <2>4. \A j \in 1..1 : j = 1 /\ o[j - 1] = 0
        BY <1>3
    <2>5. \A j \in 1..1 : \A k \in 1..Len(ss[j]) : F[1][o[j - 1] + k] = ss[j][k]
        <3>1. \A k \in 1..Len(ss[1]) : 0 + k = k
            OBVIOUS
        <3> QED
            BY <2>2, <2>4, <3>1
    <2>6. Flat(1)
        BY <1>3, <2>2, <2>3, <2>5
    <2> HIDE DEF Flat
    <2> QED
        BY <2>6
<1>7. ASSUME NEW i \in Nat, i \in G PROVE i + 1 \in G
    <2> DEFINE p == i + 1
               q == p + 1
    <2> HIDE DEF Flat
    <2>1. SUFFICES ASSUME q <= n PROVE Flat(q)
        OBVIOUS
    <2>2. Flat(p)
        BY <1>7, <2>1
    <2>3. p \in 1..n /\ q \in 1..n /\ q # 1 /\ q - 1 = p /\ p \in Nat
        BY <1>1, <2>1
    <2> HIDE DEF p, q
    <2> DEFINE a == F[p]
               b == ss[q]
    <2>4. F[q] = a \o b /\ o[q] = o[p] + Len(b)
        BY <1>4, <1>5, <2>3
    <2>5. a \in Seq(S) /\ b \in Seq(S) /\ Len(a) = o[p]
        BY <1>1, <1>2, <2>2, <2>3 DEF Flat
    <2>8. \A y \in 1..Len(b) : (a \o b)[Len(a) + y] = b[y]
        <3>1. a \in Seq(S) /\ b \in Seq(S)
            BY <2>5
        <3> HIDE DEF a, b
        <3> QED
            BY <3>1, ConcatProperties
    <2>6. ASSUME NEW j \in 1..q, NEW k \in 1..Len(ss[j]) PROVE F[q][o[j - 1] + k] = ss[j][k]
        <3>1. CASE j = q
            <4>1. k \in 1..Len(b) /\ o[j - 1] = Len(a) /\ ss[j][k] = b[k]
                BY <2>3, <2>5, <3>1
            <4> QED
                BY <2>4, <2>8, <4>1
        <3>2. CASE j # q
            <4>1. j \in 1..p /\ j \in 1..n
                BY <2>3, <3>2 DEF q
            <4>2. a[o[j - 1] + k] = ss[j][k]
                BY <2>2, <4>1 DEF Flat
            <4>3. o[j] = o[j - 1] + Len(ss[j]) /\ o[j - 1] \in Nat /\ o[j] \in Nat /\ o[p] \in Nat
                <5>1. j - 1 \in 0..n /\ j \in 0..n /\ p \in 0..n
                    BY <1>1, <2>3, <4>1
                <5> QED
                    BY <1>3, <1>4, <4>1, <5>1
            <4>4. j \in 0..Len(s) /\ p \in j..Len(s)
                BY <1>1, <1>2, <2>3, <4>1
            <4>5. o[j] <= o[p]
                BY <4>4, RunningSumsGrow
            <4> DEFINE x == o[j - 1] + k
            <4>6. x \in 1..Len(a)
                <5>1. k \in Nat /\ 1 <= k /\ k <= Len(ss[j]) /\ Len(ss[j]) \in Nat
                    BY <1>1, <1>2, <4>1
                <5>2. 1 <= x /\ x <= o[p] /\ x \in Nat
                    <6> DEFINE from == o[j - 1]
                               to == o[j]
                               last == o[p]
                               len == Len(ss[j])
                    <6>1. from \in Nat /\ to \in Nat /\ last \in Nat /\ to = from + len /\ to <= last
                        BY <4>3, <4>5
                    <6>2. k <= len /\ len \in Nat /\ k \in Nat /\ 1 <= k
                        BY <5>1
                    <6> HIDE DEF from, to, last, len
                    <6>3. 1 <= from + k /\ from + k <= last /\ from + k \in Nat
                        BY <6>1, <6>2
                    <6> QED
                        BY <6>3 DEF from, last
                <5> HIDE DEF a, x
                <5> QED
                    BY <2>5, <5>2
            <4> HIDE DEF a, b, x
            <4>7. (a \o b)[x] = a[x]
                BY <2>5, <4>6, ConcatProperties
            <4> QED
                BY <2>4, <4>2, <4>7 DEF x
        <3> QED
            BY <3>1, <3>2
    <2>7. F[q] \in Seq(S) /\ Len(F[q]) = o[q]
        <3> HIDE DEF a, b
        <3>1. a \o b \in Seq(S) /\ Len(a \o b) = Len(a) + Len(b)
            BY <2>5, ConcatProperties
        <3> QED
            BY <2>4, <2>5, <3>1
    <2> QED
        BY <2>6, <2>7 DEF Flat
<1>8. Nat \subseteq G
    <2> HIDE DEF G
    <2> QED
        BY <1>6, <1>7, SetInduction
<1>9. n - 1 \in Nat /\ n - 1 + 1 = n /\ n <= n
    BY <1>1
<1>10. Flat(n)
    <2> HIDE DEF Flat
    <2> QED
        BY <1>8, <1>9
<1> QED
    BY <1>10 DEF Strung

\* A part of a sequence, item by item.
LEMMA PartOf ==
    ASSUME NEW S, NEW s \in Seq(S), NEW a \in Nat, NEW b \in Nat, 1 <= a, a <= b + 1, b <= Len(s)
    PROVE  /\ SubSeq(s, a, b) \in Seq(S) /\ Len(SubSeq(s, a, b)) = b + 1 - a
           /\ \A k \in 1..(b + 1 - a) : SubSeq(s, a, b)[k] = s[a + k - 1]
<1> DEFINE z == SubSeq(s, a, b)
           L == Len(s)
<1>1. L \in Nat /\ b <= L
    OBVIOUS
<1>2. \A i \in a..b : i \in 1..L
    <2> HIDE DEF L
    <2> QED
        BY <1>1
<1>3. \A i \in a..b : s[i] \in S
    BY <1>2
<1>4. /\ z \in Seq(S) /\ Len(z) = IF a <= b THEN b - a + 1 ELSE 0
      /\ \A i \in 1..(b - a + 1) : z[i] = s[a + i - 1]
    BY <1>3, SubSeqProperties
<1>5. b - a + 1 = b + 1 - a /\ (IF a <= b THEN b - a + 1 ELSE 0) = b + 1 - a
    BY a \in Nat, b \in Nat, a <= b + 1
<1> HIDE DEF z
<1> QED
    BY <1>4, <1>5 DEF z

\* A sequence put together from the back.
Pieces(n, S, Go, front) == n \in Nat /\ Go \subseteq 1..n /\ \A j \in Go : front[j] \in Seq(S)
Chain(n, S, Go, front, f) ==
    /\ f \in [1..(n + 1) -> Seq(S)]
    /\ \A j \in 1..(n + 1) : f[j] = IF j \in Go THEN front[j] \o f[j + 1] ELSE <<>>

LEMMA ChainDown ==
    ASSUME NEW n, NEW S, NEW Go, NEW front, Pieces(n, S, Go, front)
    PROVE  \E f : Chain(n, S, Go, front, f)
<1>0. n \in Nat /\ Go \subseteq 1..n /\ \A j \in Go : front[j] \in Seq(S)
    BY DEF Pieces
<1> DEFINE D == 1..(n + 1)
           V == Seq(S)
           m == [j \in D |-> n + 1 - j]
           next == [j \in D |-> j + 1]
           Stop == D \ Go
           val == [j \in D |-> <<>>]
           step == [x \in D \X V |-> front[x[1]] \o x[2]]
<1>1. V # {} /\ <<>> \in V
    <2>1. <<>> \in V
        OBVIOUS
    <2> HIDE DEF V
    <2> QED
        BY <2>1
<1>2. \A j \in D : m[j] \in Nat /\ m[j] <= n + 1
    BY <1>0
<1>3. \A j \in D : j \in Stop => val[j] \in V
    <2> HIDE DEF V, D, Stop
    <2> QED
        BY <1>1
<1>4. ASSUME NEW j \in D, j \notin Stop
      PROVE  next[j] = j + 1 /\ j + 1 \in D /\ next[j] \in D /\ m[next[j]] < m[j] /\ \A x \in V : step[<<j, x>>] \in V
    <2>1. j \in Go /\ j \in 1..n /\ j + 1 \in D /\ next[j] = j + 1
        BY <1>0, <1>4
    <2>2. m[next[j]] < m[j]
        <3>1. m[j + 1] = n + 1 - (j + 1) /\ m[j] = n + 1 - j
            BY <2>1
        <3> HIDE DEF m
        <3> QED
            BY <1>0, <2>1, <3>1
    <2>3. ASSUME NEW x \in V PROVE step[<<j, x>>] \in V
        <3>1. step[<<j, x>>] = front[j] \o x
            <4> HIDE DEF V, D
            <4> QED
                OBVIOUS
        <3> DEFINE a == front[j]
        <3>2. a \in Seq(S)
            BY <1>0, <2>1
        <3> HIDE DEF a, step
        <3>3. a \o x \in Seq(S)
            BY <3>2
        <3> QED
            BY <3>1, <3>3 DEF a
    <2> HIDE DEF V, D, next, m, step
    <2> QED
        BY <2>1, <2>2, <2>3
<1>5. Descends(D, V, n + 1, m, Stop, val, next, step)
    <2>1. n + 1 \in Nat
        BY <1>0
    <2> HIDE DEF D, V, m, next, Stop, val, step
    <2> QED
        BY <1>1, <1>2, <1>3, <1>4, <2>1 DEF Descends
<1>6. PICK f \in [D -> V] : \A j \in D : f[j] = IF j \in Stop THEN val[j] ELSE step[<<j, f[next[j]]>>]
    <2> HIDE DEF D, V, m, next, Stop, val, step
    <2> QED
        BY <1>5, RecursionDown
<1>7. ASSUME NEW j \in D PROVE f[j] = IF j \in Go THEN front[j] \o f[j + 1] ELSE <<>>
    <2>1. CASE j \notin Go
        <3>1. j \in Stop /\ val[j] = <<>>
            BY <2>1
        <3> HIDE DEF D, V, m, next, Stop, val, step
        <3> QED
            BY <1>6, <2>1, <3>1
    <2>2. CASE j \in Go
        <3>1. j \notin Stop
            BY <2>2
        <3>2. next[j] = j + 1 /\ j + 1 \in D
            <4> HIDE DEF D, V, m, next, Stop, val, step
            <4> QED
                BY <1>4, <3>1
        <3> DEFINE x == f[j + 1]
        <3>3. x \in V
            <4> HIDE DEF D, V
            <4> QED
                BY <1>6, <3>2
        <3> HIDE DEF x, V
        <3>4. step[<<j, x>>] = front[j] \o x
            <4> HIDE DEF D
            <4> QED
                BY <3>3
        <3>5. f[j] = step[<<j, x>>]
            <4> HIDE DEF D, m, next, Stop, val, step
            <4> QED
                BY <1>6, <3>1, <3>2 DEF x
        <3> QED
            BY <2>2, <3>4, <3>5 DEF x
    <2> QED
        BY <2>1, <2>2
<1> HIDE DEF V
<1> QED
    BY <1>6, <1>7 DEF V, Chain

\* A sequence found in another one, behind its place p.
LEMMA FoundIn ==
    ASSUME NEW S, NEW s \in Seq(S), NEW p \in Nat, NEW l \in Seq(S), p + Len(l) <= Len(s),
           \A k \in 1..Len(l) : s[p + k] = l[k]
    PROVE  SubSeq(s, p + 1, p + Len(l)) = l
<1> DEFINE L == Len(s)
           len == Len(l)
           n == p + len
           z == SubSeq(s, p + 1, n)
<1>1. L \in Nat /\ len \in Nat /\ n <= L /\ n \in Nat
    OBVIOUS
<1>2. p + 1 \in Int /\ n \in Int /\ n - (p + 1) + 1 = len /\ (p + 1 <= n <=> len > 0)
    <2> HIDE DEF len
    <2> QED
        BY <1>1
<1>3. \A i \in (p + 1)..n : s[i] \in S
    <2>1. \A i \in (p + 1)..n : i \in 1..L
        <3> HIDE DEF L, n
        <3> QED
            BY <1>1
    <2> QED
        BY <2>1
<1> HIDE DEF n
<1>4. /\ z \in Seq(S) /\ Len(z) = IF p + 1 <= n THEN n - (p + 1) + 1 ELSE 0
      /\ \A i \in 1..(n - (p + 1) + 1) : z[i] = s[p + 1 + i - 1]
    BY <1>2, <1>3, SubSeqProperties
<1> HIDE DEF z, len
<1>5. z \in Seq(S) /\ Len(z) = len /\ \A i \in 1..len : z[i] = s[p + 1 + i - 1]
    BY <1>1, <1>2, <1>4
<1>6. \A i \in 1..len : z[i] = l[i]
    <2>1. ASSUME NEW i \in 1..len PROVE z[i] = l[i]
        <3>1. p + 1 + i - 1 = p + i
            BY <1>1
        <3>2. s[p + i] = l[i]
            BY DEF len
        <3> QED
            BY <1>5, <3>1, <3>2
    <2> QED
        BY <2>1
<1>7. z = l
    BY <1>5, <1>6, SeqEqual DEF len
<1> QED
    BY <1>7 DEF z, n, len

\* What is left of s without the spaces around it is what is between a and b.
Edges(s, a, b) ==
    /\ a \in 1..Len(s) /\ b \in a..Len(s) /\ s[a] # "sp" /\ s[b] # "sp"
    /\ \A k \in 1..Len(s) : s[k] # "sp" => a <= k /\ k <= b

LEMMA EdgesExist ==
    ASSUME NEW S, NEW s \in Seq(S), ~\A k \in 1..Len(s) : s[k] = "sp"
    PROVE  \E a, b : Edges(s, a, b)
<1> DEFINE L == Len(s)
           Solid == {k \in 1..L : s[k] # "sp"}
           Back == {j \in 0..L : L - j \in Solid}
<1>1. L \in Nat /\ Solid \subseteq Nat /\ Solid # {} /\ Solid \subseteq 1..L
    OBVIOUS
<1>2. PICK a \in Solid : \A k \in Solid : a <= k
    <2> HIDE DEF Solid
    <2> QED
        BY <1>1, LeastNumber
<1>3. \A k \in Solid : L - k \in Back /\ L - (L - k) = k
    <2>1. \A k \in Solid : L - k \in 0..L /\ L - (L - k) = k
        <3> HIDE DEF Solid, L
        <3> QED
            BY <1>1
    <2> HIDE DEF Solid
    <2> QED
        BY <2>1
<1>4. PICK j \in Back : \A i \in Back : j <= i
    <2>1. Back \subseteq Nat
        BY <1>1
    <2>2. Back # {}
        <3> HIDE DEF Back, Solid
        <3> QED
            BY <1>1, <1>3
    <2> HIDE DEF Back
    <2> QED
        BY <2>1, <2>2, LeastNumber
<1> DEFINE b == L - j
<1>5. b \in Solid /\ j \in 0..L
    BY <1>4
<1>6. \A k \in Solid : a <= k /\ k <= b
    <2>1. ASSUME NEW k \in Solid PROVE a <= k /\ k <= b
        <3>1. a <= k /\ j <= L - k /\ k \in 1..L
            <4> HIDE DEF Back, Solid, b
            <4> QED
                BY <1>1, <1>2, <1>3, <1>4
        <3> HIDE DEF L, Solid
        <3> QED
            BY <1>1, <1>5, <3>1
    <2> QED
        BY <2>1
<1> HIDE DEF b, L
<1>7. a \in 1..L /\ b \in 1..L /\ s[a] # "sp" /\ s[b] # "sp" /\ a <= b
    BY <1>2, <1>5, <1>6
<1>8. b \in a..L
    BY <1>1, <1>7
<1>9. \A k \in 1..L : s[k] # "sp" => a <= k /\ k <= b
    BY <1>6
<1> QED
    BY <1>7, <1>8, <1>9 DEF Edges, L

\* What is left of a sequence without its first h items.
LEMMA RestOf ==
    ASSUME NEW S, NEW s \in Seq(S), NEW h \in 0..Len(s)
    PROVE  LET z == SubSeq(s, h + 1, Len(s))
           IN  z \in Seq(S) /\ Len(z) = Len(s) - h /\ \A k \in 1..(Len(s) - h) : z[k] = s[h + k]
<1> DEFINE L == Len(s)
           c == h + 1
           z == SubSeq(s, c, L)
<1>1. L \in Nat /\ h \in Nat /\ h <= L /\ L <= Len(s)
    OBVIOUS
<1>2. c \in Nat /\ 1 <= c /\ c <= L + 1 /\ L + 1 - c = L - h /\ \A k \in 1..(L - h) : c + k - 1 = h + k
    <2> HIDE DEF L
    <2> QED
        BY <1>1
<1> HIDE DEF c
<1>3. z \in Seq(S) /\ Len(z) = L + 1 - c /\ \A k \in 1..(L + 1 - c) : z[k] = s[c + k - 1]
    BY <1>1, <1>2, PartOf
<1> HIDE DEF z, L
<1>4. z \in Seq(S) /\ Len(z) = L - h /\ \A k \in 1..(L - h) : z[k] = s[h + k]
    BY <1>2, <1>3
<1> QED
    BY <1>4 DEF z, c, L

\* Spaces before it make no difference to what is left.
Padded(s, h, a, b) == h \in 0..Len(s) /\ Edges(s, a, b) /\ \A k \in 1..h : s[k] = "sp"
Unpadded(s, h, a, b) ==
    LET z == SubSeq(s, h + 1, Len(s))
    IN  Edges(z, a - h, b - h) /\ SubSeq(z, a - h, b - h) = SubSeq(s, a, b)

LEMMA EdgesBehind ==
    ASSUME NEW S, NEW s \in Seq(S), NEW h, NEW a, NEW b, Padded(s, h, a, b)
    PROVE  Unpadded(s, h, a, b)
<1> USE DEF Padded
<1> DEFINE L == Len(s)
           z == SubSeq(s, h + 1, L)
           M == Len(z)
<1>1. L \in Nat /\ h \in Nat /\ h <= L
    OBVIOUS
<1>2. z \in Seq(S) /\ M = L - h /\ \A k \in 1..(L - h) : z[k] = s[h + k]
    BY RestOf
<1> HIDE DEF z
<1>3. a \in 1..L /\ b \in a..L /\ s[a] # "sp" /\ s[b] # "sp" /\ a \in Nat /\ b \in Nat
    BY <1>1 DEF Edges
<1> DEFINE c == a - h
           d == b - h
<1>4. a > h
    <2>1. a \notin 1..h
        BY <1>3
    <2> HIDE DEF L
    <2> QED
        BY <1>1, <1>3, <2>1
<1>5. /\ c \in 1..M /\ d \in c..M /\ h + c = a /\ h + d = b /\ c \in 1..(L - h) /\ d \in 1..(L - h)
      /\ c \in Nat /\ d \in Nat /\ M \in Nat
    <2> HIDE DEF L, M
    <2> QED
        BY <1>1, <1>2, <1>3, <1>4
<1> HIDE DEF c, d
<1>6. Edges(z, c, d)
    <2>1. z[c] # "sp" /\ z[d] # "sp"
        BY <1>2, <1>3, <1>5
    <2>2. ASSUME NEW k \in 1..M, z[k] # "sp" PROVE c <= k /\ k <= d
        <3>1. h + k \in 1..L /\ k \in 1..(L - h)
            <4> HIDE DEF L, M
            <4> QED
                BY <1>1, <1>2
        <3>2. a <= h + k /\ h + k <= b
            BY <1>2, <2>2, <3>1 DEF Edges
        <3> HIDE DEF L, M
        <3> QED
            BY <1>1, <1>5, <3>1, <3>2
    <2> QED
        BY <1>5, <2>1, <2>2 DEF Edges
<1> DEFINE x == SubSeq(s, a, b)
           y == SubSeq(z, c, d)
<1>7. 1 <= a /\ a <= b + 1 /\ b <= L /\ 1 <= c /\ c <= d + 1 /\ d <= M /\ d + 1 - c = b + 1 - a
    <2> HIDE DEF L, M
    <2> QED
        BY <1>1, <1>3, <1>5
<1>8. x \in Seq(S) /\ Len(x) = b + 1 - a /\ \A k \in 1..(b + 1 - a) : x[k] = s[a + k - 1]
    BY <1>3, <1>7, PartOf
<1>9. y \in Seq(S) /\ Len(y) = b + 1 - a /\ \A k \in 1..(b + 1 - a) : y[k] = z[c + k - 1]
    <2>1. y \in Seq(S) /\ Len(y) = d + 1 - c /\ \A k \in 1..(d + 1 - c) : y[k] = z[c + k - 1]
        BY <1>2, <1>5, <1>7, PartOf
    <2> QED
        BY <1>7, <2>1
<1>10. ASSUME NEW k \in 1..(b + 1 - a) PROVE x[k] = y[k]
    <2>1. c + k - 1 \in 1..(L - h) /\ h + (c + k - 1) = a + k - 1
        <3> HIDE DEF L, M
        <3> QED
            BY <1>1, <1>3, <1>5
    <2> QED
        BY <1>2, <1>8, <1>9, <2>1
<1> HIDE DEF x, y
<1>11. x = y
    BY <1>8, <1>9, <1>10, SeqEqual
<1> QED
    BY <1>6, <1>11 DEF Unpadded, x, y, c, d, z

-----------------------------------------------------------------------------
(* textproto.Reader: a text and its lines, dot-encoded.                    *)

Escaped(l) == IF l # <<>> /\ l[1] = "dot" THEN 1 ELSE 0

\* E is t dot-encoded and X is t as a text; its line i+1 begins after o[i] and d[i].
LineCoded(l, E, X, p, c) ==
    /\ Escaped(l) = 1 => E[p + 1] = "dot"
    /\ \A k \in 1..Len(l) : E[p + Escaped(l) + k] = l[k] /\ X[c + k] = l[k]
    /\ E[p + Escaped(l) + Len(l) + 1] = "cr"
    /\ E[p + Escaped(l) + Len(l) + 2] = "nl"
    /\ X[c + Len(l) + 1] = "nl"

Coded(t, E, X, o, d) ==
    /\ t \in Seq(Seq(T!LineBytes))
    /\ o \in [0..Len(t) -> Nat] /\ d \in [0..Len(t) -> Nat] /\ o[0] = 0 /\ d[0] = 0
    /\ E \in Seq(T!LineBytes \cup {"nl"}) /\ Len(E) = o[Len(t)] + 3
    /\ X \in Seq(T!LineBytes \cup {"nl"}) /\ Len(X) = d[Len(t)]
    /\ E[o[Len(t)] + 1] = "dot" /\ E[o[Len(t)] + 2] = "cr" /\ E[o[Len(t)] + 3] = "nl"
    /\ \A i \in 1..Len(t) :
        /\ o[i] = o[i - 1] + Escaped(t[i]) + Len(t[i]) + 2
        /\ d[i] = d[i - 1] + Len(t[i]) + 1
        /\ LineCoded(t[i], E, X, o[i - 1], d[i - 1])

TextOf(t) == T!FlattenSeq([i \in DOMAIN t |-> Append(t[i], "nl")])

\* FlattenSeq puts the sequences where the sums of their lengths say.
LEMMA FlattenIs ==
    ASSUME NEW S, NEW ss \in Seq(Seq(S))
    PROVE  LET s == [i \in 1..Len(ss) |-> Len(ss[i])]
               o == RunningSums(s)
           IN  /\ s \in Seq(Nat) /\ Len(s) = Len(ss)
               /\ o \in [0..Len(ss) -> Nat] /\ o[0] = 0
               /\ \A i \in 1..Len(ss) : o[i] = o[i - 1] + Len(ss[i])
               /\ T!FlattenSeq(ss) \in Seq(S) /\ Len(T!FlattenSeq(ss)) = o[Len(ss)]
               /\ Strung(ss, Len(ss), o, T!FlattenSeq(ss))
<1> DEFINE s == [i \in 1..Len(ss) |-> Len(ss[i])]
           o == RunningSums(s)
           n == Len(ss)
           F == CHOOSE f : f = [i \in 1..n |-> IF i = 1 THEN ss[i] ELSE f[i - 1] \o ss[i]]
<1>1. n \in Nat /\ \A i \in 1..n : ss[i] \in Seq(S) /\ Len(ss[i]) \in Nat
    OBVIOUS
<1>2. s \in Seq(Nat) /\ Len(s) = n /\ \A i \in 1..n : s[i] = Len(ss[i])
    BY <1>1
<1>3. SumsOf(s, o)
    <2> HIDE DEF s
    <2> QED
        BY <1>2, RunningSumsAre
<1>4. o \in [0..n -> Nat] /\ o[0] = 0 /\ \A i \in 1..n : o[i] = o[i - 1] + Len(ss[i])
    <2> HIDE DEF s, o
    <2> QED
        BY <1>2, <1>3 DEF SumsOf
<1>5. CASE n = 0
    <2>1. T!FlattenSeq(ss) = ss
        BY <1>5 DEF T!FlattenSeq
    <2> HIDE DEF s, o
    <2>2. Len(ss) = 0 /\ ss \in Seq(S) /\ o[0] = 0
        BY <1>4, <1>5
    <2>3. 1..Len(ss) = {}
        BY <2>2
    <2> QED
        BY <1>2, <1>4, <2>1, <2>2, <2>3 DEF s, o, Strung
<1>6. CASE n # 0
    <2>1. Flattened(ss, F)
        <3>1. \E f : f = [i \in 1..n |-> IF i = 1 THEN ss[i] ELSE f[i - 1] \o ss[i]]
            BY FlattenedExists DEF Flattened
        <3> QED
            BY <3>1 DEF Flattened
    <2>2. T!FlattenSeq(ss) = F[n]
        BY <1>6 DEF T!FlattenSeq
    <2>3. n \in 1..Len(ss)
        BY <1>1, <1>6
    <2> HIDE DEF s, o, F
    <2>4. F[n] \in Seq(S) /\ Len(F[n]) = o[n] /\ Strung(ss, n, o, F[n])
        <3>1. s \in Seq(Nat) /\ Len(s) = Len(ss) /\ \A i \in 1..Len(ss) : s[i] = Len(ss[i])
            BY <1>2
        <3> HIDE DEF n
        <3> QED
            BY <1>3, <2>1, <2>3, <3>1, FlattenedPlaces
    <2> HIDE DEF n
    <2> QED
        BY <1>2, <1>4, <2>2, <2>4 DEF s, o, n
<1> QED
    BY <1>5, <1>6

\* z is a followed by b.
Joins(S, a, b, z) ==
    /\ z \in Seq(S) /\ Len(z) = Len(a) + Len(b) /\ Len(a) \in Nat /\ Len(b) \in Nat
    /\ \A k \in 1..Len(a) : z[k] = a[k]
    /\ \A k \in 1..Len(b) : z[Len(a) + k] = b[k]

LEMMA ConcatJoins ==
    ASSUME NEW S, NEW a \in Seq(S), NEW b \in Seq(S)
    PROVE  Joins(S, a, b, a \o b)
    BY DEF Joins

TextBytes == T!LineBytes \cup {"nl"}

LEMMA EncodedLine ==
    ASSUME NEW l \in Seq(T!LineBytes)
    PROVE  LET e == (IF l # <<>> /\ l[1] = "dot" THEN <<"dot">> ELSE <<>>) \o l \o T!CRLF
               n == Escaped(l)
           IN  /\ e \in Seq(TextBytes) /\ Len(e) = n + Len(l) + 2 /\ n \in 0..1
               /\ n = 1 => e[1] = "dot"
               /\ \A k \in 1..Len(l) : e[n + k] = l[k]
               /\ e[n + Len(l) + 1] = "cr" /\ e[n + Len(l) + 2] = "nl"
<1> DEFINE a == IF l # <<>> /\ l[1] = "dot" THEN <<"dot">> ELSE <<>>
           n == Escaped(l)
           al == a \o l
           Vals == TextBytes
           c == <<"cr", "nl">>
<1>1. a \in Seq(Vals) /\ Len(a) = n /\ n \in 0..1 /\ (n = 1 => a[1] = "dot") /\ l \in Seq(Vals) /\ Len(l) \in Nat
    <2>1. "dot" \in Vals /\ T!LineBytes \subseteq Vals
        BY DEF T!LineBytes, T!Letters, TextBytes
    <2>2. <<"dot">> \in Seq(Vals) /\ <<>> \in Seq(Vals)
        BY <2>1
    <2>3. CASE l # <<>> /\ l[1] = "dot"
        BY <2>1, <2>2, <2>3 DEF Escaped
    <2>4. CASE ~(l # <<>> /\ l[1] = "dot")
        BY <2>1, <2>2, <2>4 DEF Escaped
    <2> QED
        BY <2>3, <2>4
<1>2. c \in Seq(Vals) /\ Len(c) = 2 /\ c[1] = "cr" /\ c[2] = "nl"
    <2>1. "cr" \in Vals /\ "nl" \in Vals
        BY DEF T!LineBytes, T!Letters, TextBytes
    <2> HIDE DEF Vals
    <2> QED
        BY <2>1
<1> HIDE DEF a, n, Vals
<1>3. /\ al \in Seq(Vals) /\ Len(al) = n + Len(l)
      /\ \A k \in 1..Len(l) : al[n + k] = l[k]
      /\ n = 1 => al[1] = "dot"
    BY <1>1
<1> HIDE DEF al, c
<1>4. /\ al \o c \in Seq(Vals) /\ Len(al \o c) = n + Len(l) + 2
      /\ \A k \in 1..(n + Len(l)) : (al \o c)[k] = al[k]
      /\ (al \o c)[n + Len(l) + 1] = "cr" /\ (al \o c)[n + Len(l) + 2] = "nl"
    <2> DEFINE z == al \o c
    <2>1. Joins(Vals, al, c, z)
        BY <1>2, <1>3, ConcatJoins
    <2> HIDE DEF z
    <2>2. z \in Seq(Vals) /\ Len(z) = n + Len(l) + 2 /\ \A k \in 1..(n + Len(l)) : z[k] = al[k]
        BY <1>1, <1>2, <1>3, <2>1 DEF Joins
    <2>3. z[Len(al) + 1] = "cr" /\ z[Len(al) + 2] = "nl"
        <3>1. 1 \in 1..Len(c) /\ 2 \in 1..Len(c)
            BY <1>2
        <3> QED
            BY <1>2, <2>1, <3>1 DEF Joins
    <2> QED
        BY <1>3, <2>2, <2>3 DEF z
<1>5. \A k \in 1..Len(l) : (al \o c)[n + k] = l[k]
    <2>1. ASSUME NEW k \in 1..Len(l) PROVE (al \o c)[n + k] = l[k]
        <3>1. n + k \in 1..(n + Len(l)) /\ al[n + k] = l[k]
            BY <1>1, <1>3
        <3> QED
            BY <1>4, <3>1
    <2> QED
        BY <2>1
<1>6. n = 1 => (al \o c)[1] = "dot"
    BY <1>1, <1>3, <1>4
<1> QED
    BY <1>1, <1>4, <1>5, <1>6 DEF al, c, a, n, Vals, T!CRLF

LEMMA CodedIs ==
    ASSUME NEW t \in Seq(Seq(T!LineBytes))
    PROVE  \E o, d : Coded(t, T!DotEncoded(t), TextOf(t), o, d)
<1> DEFINE Vals == TextBytes
           Enc(l) == (IF l # <<>> /\ l[1] = "dot" THEN <<"dot">> ELSE <<>>) \o l \o T!CRLF
           es == [i \in DOMAIN t |-> Enc(t[i])]
           ds == [i \in DOMAIN t |-> Append(t[i], "nl")]
           body == T!FlattenSeq(es)
           E == body \o <<"dot">> \o <<"cr", "nl">>
           n == Len(t)
<1>1. n \in Nat /\ DOMAIN t = 1..n /\ \A i \in 1..n : t[i] \in Seq(T!LineBytes) /\ Len(t[i]) \in Nat
    OBVIOUS
<1>2. T!DotEncoded(t) = E
    BY DEF T!DotEncoded, T!CRLF
<1>3. es \in Seq(Seq(Vals)) /\ Len(es) = n /\ \A i \in 1..n : es[i] = Enc(t[i])
    <2>1. \A i \in 1..n : Enc(t[i]) \in Seq(Vals)
        BY <1>1, EncodedLine
    <2> HIDE DEF Enc, Vals
    <2> QED
        BY <1>1, <2>1
<1>4. ds \in Seq(Seq(Vals)) /\ Len(ds) = n
      /\ \A i \in 1..n : /\ Len(ds[i]) = Len(t[i]) + 1 /\ ds[i][Len(t[i]) + 1] = "nl"
                         /\ \A k \in 1..Len(t[i]) : ds[i][k] = t[i][k]
    <2>1. \A l \in Seq(T!LineBytes) : /\ Append(l, "nl") \in Seq(Vals) /\ Len(Append(l, "nl")) = Len(l) + 1
                                    /\ Append(l, "nl")[Len(l) + 1] = "nl"
                                    /\ \A k \in 1..Len(l) : Append(l, "nl")[k] = l[k]
        BY DEF TextBytes
    <2> HIDE DEF Vals
    <2> QED
        BY <1>1, <2>1
<1> HIDE DEF es, ds
<1>5. PICK o : /\ o \in [0..n -> Nat] /\ o[0] = 0
               /\ \A i \in 1..n : o[i] = o[i - 1] + Len(es[i])
               /\ body \in Seq(Vals) /\ Len(body) = o[n]
               /\ Strung(es, n, o, body)
    <2> HIDE DEF Vals, n, Enc
    <2> QED
        BY <1>3, FlattenIs
<1>6. PICK d : /\ d \in [0..n -> Nat] /\ d[0] = 0
               /\ \A i \in 1..n : d[i] = d[i - 1] + Len(ds[i])
               /\ T!FlattenSeq(ds) \in Seq(Vals) /\ Len(T!FlattenSeq(ds)) = d[n]
               /\ Strung(ds, n, d, T!FlattenSeq(ds))
    <2> HIDE DEF Vals, n, Enc
    <2> QED
        BY <1>4, FlattenIs
<1> DEFINE X == T!FlattenSeq(ds)
           m == o[n]
<1> HIDE DEF body, X, Enc
<1>7. m \in Nat /\ \A i \in 1..n : o[i - 1] \in Nat /\ d[i - 1] \in Nat /\ o[i] \in Nat
    <2>1. n \in 0..n /\ \A i \in 1..n : i \in 0..n /\ i - 1 \in 0..n
        BY <1>1
    <2> HIDE DEF n, Vals
    <2> QED
        BY <1>5, <1>6, <2>1
<1>8. /\ E \in Seq(Vals) /\ Len(E) = m + 3
      /\ E[m + 1] = "dot" /\ E[m + 2] = "cr" /\ E[m + 3] = "nl"
      /\ \A k \in 1..m : E[k] = body[k]
    <2>1. "dot" \in Vals /\ "cr" \in Vals /\ "nl" \in Vals
        BY DEF T!LineBytes, T!Letters, TextBytes
    <2> DEFINE one == body \o <<"dot">>
    <2> HIDE DEF Vals, m, one
    <2>2. body \in Seq(Vals) /\ Len(body) = m
        BY <1>5 DEF m
    <2>3. one \in Seq(Vals) /\ Len(one) = m + 1 /\ one[m + 1] = "dot" /\ \A k \in 1..m : one[k] = body[k]
        <3> DEFINE a == <<"dot">>
        <3>1. a \in Seq(Vals) /\ Len(a) = 1 /\ a[1] = "dot"
            BY <2>1
        <3> HIDE DEF a
        <3>2. Joins(Vals, body, a, body \o a)
            BY <2>2, <3>1, ConcatJoins
        <3>3. Joins(Vals, body, a, one) /\ 1 \in 1..Len(a)
            BY <3>1, <3>2 DEF a, one
        <3> QED
            BY <2>2, <3>1, <3>3 DEF Joins
    <2> DEFINE c == <<"cr", "nl">>
    <2>4. c \in Seq(Vals) /\ Len(c) = 2 /\ c[1] = "cr" /\ c[2] = "nl"
        BY <2>1
    <2> HIDE DEF c
    <2>5. /\ one \o c \in Seq(Vals) /\ Len(one \o c) = m + 3
          /\ \A k \in 1..(m + 1) : (one \o c)[k] = one[k]
          /\ (one \o c)[m + 2] = "cr" /\ (one \o c)[m + 3] = "nl"
        <3> DEFINE z == one \o c
        <3>1. Joins(Vals, one, c, z) /\ 1 \in 1..Len(c) /\ 2 \in 1..Len(c)
            BY <2>3, <2>4, ConcatJoins
        <3> HIDE DEF z
        <3>2. z \in Seq(Vals) /\ Len(z) = m + 3 /\ \A k \in 1..(m + 1) : z[k] = one[k]
            BY <1>7, <2>3, <2>4, <3>1 DEF Joins
        <3>3. z[m + 1 + 1] = "cr" /\ z[m + 1 + 2] = "nl" /\ m + 1 + 1 = m + 2 /\ m + 1 + 2 = m + 3
            BY <1>7, <2>3, <2>4, <3>1 DEF Joins
        <3> QED
            BY <3>2, <3>3 DEF z
    <2>6. /\ (one \o c)[m + 1] = "dot" /\ \A k \in 1..m : (one \o c)[k] = body[k]
        BY <1>7, <2>3, <2>5
    <2> QED
        BY <2>5, <2>6 DEF one, c
<1> HIDE DEF E
<1>9. ASSUME NEW i \in 1..n
      PROVE  /\ o[i] = o[i - 1] + Escaped(t[i]) + Len(t[i]) + 2
             /\ d[i] = d[i - 1] + Len(t[i]) + 1
             /\ LineCoded(t[i], E, X, o[i - 1], d[i - 1])
    <2> DEFINE l == t[i]
               p == o[i - 1]
               c == d[i - 1]
               e == Escaped(l)
               el == es[i]
    <2>1. l \in Seq(T!LineBytes) /\ Len(l) \in Nat /\ p \in Nat /\ c \in Nat /\ el = Enc(l)
        BY <1>1, <1>3, <1>7
    <2>2. /\ Len(el) = e + Len(l) + 2 /\ e \in 0..1
          /\ e = 1 => el[1] = "dot"
          /\ \A k \in 1..Len(l) : el[e + k] = l[k]
          /\ el[e + Len(l) + 1] = "cr" /\ el[e + Len(l) + 2] = "nl"
        <3> HIDE DEF l, e, el
        <3> QED
            BY <2>1, EncodedLine DEF e, Enc
    <2>3. o[i] = p + Len(el) /\ d[i] = c + (Len(l) + 1)
        BY <1>4, <1>5, <1>6
    <2>4. o[i] <= m
        <3> DEFINE s == [j \in 1..n |-> Len(es[j])]
        <3>1. s \in Seq(Nat) /\ Len(s) = n /\ \A j \in 1..n : s[j] = Len(es[j])
            BY <1>1, <1>3
        <3> HIDE DEF s
        <3>2. SumsOf(s, o)
            <4> HIDE DEF n, Vals
            <4> QED
                BY <1>5, <3>1 DEF SumsOf
        <3>3. i \in 0..Len(s) /\ n \in i..Len(s)
            BY <1>1, <3>1
        <3> QED
            BY <3>1, <3>2, <3>3, RunningSumsGrow
    <2>5. \A k \in 1..Len(el) : E[p + k] = el[k]
        <3>1. ASSUME NEW k \in 1..Len(el) PROVE E[p + k] = el[k]
            <4>1. body[p + k] = el[k]
                BY <1>5 DEF Strung
            <4>2. p + k \in 1..m
                <5> HIDE DEF l, p, e, m, el, c
                <5> QED
                    BY <1>7, <2>1, <2>2, <2>3, <2>4 DEF m
            <4> HIDE DEF p, el, m
            <4> QED
                BY <1>8, <4>1, <4>2
        <3> QED
            BY <3>1
    <2>6. \A k \in 1..(Len(l) + 1) : X[c + k] = ds[i][k]
        BY <1>4, <1>6 DEF Strung, X
    <2> HIDE DEF l, p, c, e, el
    <2>7. (e = 1 => E[p + 1] = "dot") /\ E[p + e + Len(l) + 1] = "cr" /\ E[p + e + Len(l) + 2] = "nl"
        <3>1. 1 \in 1..Len(el) /\ e + Len(l) + 1 \in 1..Len(el) /\ e + Len(l) + 2 \in 1..Len(el)
            BY <2>1, <2>2
        <3>2. E[p + (e + Len(l) + 1)] = "cr" /\ E[p + (e + Len(l) + 2)] = "nl" /\ (e = 1 => E[p + 1] = "dot")
            BY <2>2, <2>5, <3>1
        <3>3. p + (e + Len(l) + 1) = p + e + Len(l) + 1 /\ p + (e + Len(l) + 2) = p + e + Len(l) + 2
            BY <2>1, <2>2
        <3> QED
            BY <3>2, <3>3
    <2>8. ASSUME NEW k \in 1..Len(l) PROVE E[p + e + k] = l[k] /\ X[c + k] = l[k]
        <3>1. e + k \in 1..Len(el) /\ k \in 1..(Len(l) + 1) /\ p + (e + k) = p + e + k
            BY <2>1, <2>2
        <3>2. E[p + (e + k)] = l[k]
            BY <2>2, <2>5, <3>1
        <3>3. X[c + k] = l[k]
            BY <1>4, <2>6, <3>1 DEF l
        <3> QED
            BY <3>1, <3>2, <3>3
    <2>9. X[c + Len(l) + 1] = "nl"
        <3>1. Len(l) + 1 \in 1..(Len(l) + 1) /\ c + (Len(l) + 1) = c + Len(l) + 1
            BY <2>1
        <3>2. X[c + (Len(l) + 1)] = "nl"
            BY <1>4, <2>6, <3>1 DEF l
        <3> QED
            BY <3>1, <3>2
    <2>10. LineCoded(l, E, X, p, c)
        BY <2>7, <2>8, <2>9 DEF LineCoded, e
    <2>11. o[i] = p + e + Len(l) + 2 /\ d[i] = c + Len(l) + 1
        BY <2>1, <2>2, <2>3
    <2> QED
        BY <2>10, <2>11 DEF l, p, c, e
<1>10. X \in Seq(Vals) /\ Len(X) = d[n]
    BY <1>6 DEF X
<1>11. Coded(t, E, X, o, d)
    <2> HIDE DEF Vals
    <2> QED
        BY <1>5, <1>6, <1>8, <1>9, <1>10 DEF Coded, Vals, TextBytes
<1>12. TextOf(t) = X
    BY DEF TextOf, X, ds
<1> QED
    BY <1>2, <1>11, <1>12

(* The dotReader, byte by byte.                                            *)

\* A step of the dotReader: its state, what it emits, whether it puts the byte back.
Moves(s, state, emitted, unread) == s.state = state /\ s.emitted = emitted /\ s.unread = unread

LEMMA DotSteps ==
    /\ Moves(T!DotStep("BeginLine", "dot"), "Dot", <<>>, FALSE)
    /\ \A st \in {"BeginLine", "Data"} : Moves(T!DotStep(st, "cr"), "CR", <<>>, FALSE)
    /\ Moves(T!DotStep("Dot", "cr"), "DotCR", <<>>, FALSE)
    /\ Moves(T!DotStep("DotCR", "nl"), "EOF", <<>>, FALSE)
    /\ Moves(T!DotStep("CR", "nl"), "BeginLine", <<"nl">>, FALSE)
    /\ \A c \in T!LineBytes : Moves(T!DotStep("CR", c), "Data", <<"cr">>, TRUE)
    /\ \A c \in T!LineBytes : c # "cr" => Moves(T!DotStep("Data", c), "Data", <<c>>, FALSE)
    /\ \A c \in T!LineBytes : c \notin {"cr", "dot"} => Moves(T!DotStep("BeginLine", c), "Data", <<c>>, FALSE)
    /\ Moves(T!DotStep("Dot", "dot"), "Data", <<"dot">>, FALSE)
<1>1. /\ Moves(T!DotStep("BeginLine", "dot"), "Dot", <<>>, FALSE)
      /\ \A st \in {"BeginLine", "Data"} : Moves(T!DotStep(st, "cr"), "CR", <<>>, FALSE)
      /\ Moves(T!DotStep("Dot", "cr"), "DotCR", <<>>, FALSE)
      /\ Moves(T!DotStep("DotCR", "nl"), "EOF", <<>>, FALSE)
      /\ Moves(T!DotStep("CR", "nl"), "BeginLine", <<"nl">>, FALSE)
    BY DEF T!DotStep, T!Goes, T!PutsBack, Moves
<1>2. \A c \in T!LineBytes : Moves(T!DotStep("CR", c), "Data", <<"cr">>, TRUE)
    BY DEF T!DotStep, T!Goes, T!PutsBack, Moves, T!LineBytes, T!Letters
<1>3. \A c \in T!LineBytes : c # "cr" => Moves(T!DotStep("Data", c), "Data", <<c>>, FALSE)
    BY DEF T!DotStep, T!Goes, T!PutsBack, Moves, T!LineBytes, T!Letters
<1>4. \A c \in T!LineBytes : c \notin {"cr", "dot"} => Moves(T!DotStep("BeginLine", c), "Data", <<c>>, FALSE)
    BY DEF T!DotStep, T!Goes, T!PutsBack, Moves, T!LineBytes, T!Letters
<1>5. Moves(T!DotStep("Dot", "dot"), "Data", <<"dot">>, FALSE)
    BY DEF T!DotStep, T!Goes, T!PutsBack, Moves, T!LineBytes, T!Letters
<1> QED
    BY <1>1, <1>2, <1>3, <1>4, <1>5

\* The reader is p bytes into the block and has given c bytes of the text: in
\* line l, that begins after a bytes of the one and b of the other.
InLine(l, E, a, b, st, p, c) ==
    \/ st = "BeginLine" /\ p = a /\ c = b
    \/ st = "Dot" /\ Escaped(l) = 1 /\ p = a + 1 /\ c = b
    \/ st = "Data" /\ \E k \in 1..Len(l) : p = a + Escaped(l) + k /\ c = b + k
    \/ st = "CR" /\ E[p] = "cr" /\ \E k \in 1..(Len(l) + 1) : p = a + Escaped(l) + k /\ c = b + k - 1

AtEnd(a, b, st, p, c) ==
    /\ c = b
    /\ \/ st = "BeginLine" /\ p = a
       \/ st = "Dot" /\ p = a + 1
       \/ st = "DotCR" /\ p = a + 2
       \/ st = "EOF" /\ p = a + 3

Place(t, E, o, d, st, p, c) ==
    \/ AtEnd(o[Len(t)], d[Len(t)], st, p, c)
    \/ \E i \in 1..Len(t) : InLine(t[i], E, o[i - 1], d[i - 1], st, p, c)

\* What a step emits is the byte of the text that is next.
Emits(s, X, c) == s.emitted = <<>> \/ s.emitted = <<X[c + 1]>>
Then(s, p) == IF s.unread THEN p ELSE p + 1
LineOver(l, a, b, st, p, c) ==
    st = "BeginLine" /\ p = a + Escaped(l) + Len(l) + 2 /\ c = b + Len(l) + 1

LEMMA EscapedIs ==
    ASSUME NEW l \in Seq(T!LineBytes)
    PROVE  /\ Escaped(l) \in 0..1 /\ Len(l) \in Nat /\ \A k \in 1..Len(l) : l[k] \in T!LineBytes
           /\ Escaped(l) = 1 => Len(l) > 0 /\ l[1] = "dot"
           /\ Escaped(l) = 0 => (Len(l) > 0 => l[1] # "dot")
    BY DEF Escaped

LEMMA LineStep ==
    ASSUME NEW l \in Seq(T!LineBytes), NEW E, NEW X, NEW a \in Nat, NEW b \in Nat, LineCoded(l, E, X, a, b),
           NEW st, NEW p, NEW c, InLine(l, E, a, b, st, p, c)
    PROVE  LET s == T!DotStep(st, E[p + 1])
               q == Then(s, p)
               n == c + Len(s.emitted)
           IN  /\ InLine(l, E, a, b, s.state, q, n) \/ LineOver(l, a, b, s.state, q, n)
               /\ Emits(s, X, c)
<1> DEFINE s == T!DotStep(st, E[p + 1])
           q == Then(s, p)
           n == c + Len(s.emitted)
           e == Escaped(l)
           Goal == /\ InLine(l, E, a, b, s.state, q, n) \/ LineOver(l, a, b, s.state, q, n)
                   /\ Emits(s, X, c)
<1> SUFFICES Goal
    OBVIOUS
<1>1. /\ e \in 0..1 /\ Len(l) \in Nat /\ \A k \in 1..Len(l) : l[k] \in T!LineBytes
      /\ e = 1 => Len(l) > 0 /\ l[1] = "dot"
      /\ e = 0 => (Len(l) > 0 => l[1] # "dot")
    BY EscapedIs
<1>2. /\ e = 1 => E[a + 1] = "dot"
      /\ \A k \in 1..Len(l) : E[a + e + k] = l[k] /\ X[b + k] = l[k]
      /\ E[a + e + Len(l) + 1] = "cr"
      /\ E[a + e + Len(l) + 2] = "nl"
      /\ X[b + Len(l) + 1] = "nl"
    BY DEF LineCoded
<1>3. /\ Len(<<>>) = 0 /\ \A x : Len(<<x>>) = 1
    OBVIOUS
\* A byte of the line that is given as it is.
<1>4. ASSUME NEW k \in 1..Len(l), p + 1 = a + e + k, c + 1 = b + k, c \in Nat, p \in Nat, Moves(s, "Data", <<l[k]>>, FALSE)
      PROVE  Goal
    <2>1. q = a + e + k /\ n = b + k
        <3>1. q = p + 1 /\ n = c + 1
            BY <1>3, <1>4 DEF Moves, Then
        <3> QED
            BY <1>4, <3>1
    <2>2. InLine(l, E, a, b, s.state, q, n)
        BY <1>4, <2>1 DEF InLine, Moves
    <2>3. s.emitted = <<X[c + 1]>>
        <3>1. X[c + 1] = l[k]
            BY <1>2, <1>4
        <3> QED
            BY <1>4, <3>1 DEF Moves
    <2> QED
        BY <2>2, <2>3 DEF Emits
\* A carriage return, of the line or after it.
<1>5. ASSUME NEW k \in 1..(Len(l) + 1), p + 1 = a + e + k, c + 1 = b + k, c \in Nat, p \in Nat,
             E[p + 1] = "cr", Moves(s, "CR", <<>>, FALSE)
      PROVE  Goal
    <2>1. q = a + e + k /\ n = b + k - 1 /\ q = p + 1
        <3>1. q = p + 1 /\ n = c + 0
            BY <1>3, <1>5 DEF Moves, Then
        <3> QED
            BY <1>5, <3>1
    <2>2. InLine(l, E, a, b, s.state, q, n)
        BY <1>5, <2>1 DEF InLine, Moves
    <2> QED
        BY <1>5, <2>2 DEF Emits, Moves
<1>6. CASE st = "BeginLine" /\ p = a /\ c = b
    <2>1. CASE e = 1
        <3>1. Moves(s, "Dot", <<>>, FALSE)
            BY <1>2, <1>6, <2>1, DotSteps
        <3>2. q = a + 1 /\ n = b
            BY <1>3, <1>6, <3>1 DEF Moves, Then
        <3>3. InLine(l, E, a, b, s.state, q, n)
            BY <2>1, <3>1, <3>2 DEF InLine, Moves
        <3> QED
            BY <3>1, <3>3 DEF Emits, Moves
    <2>2. CASE e = 0 /\ Len(l) = 0
        <3>1. E[p + 1] = "cr"
            BY <1>2, <1>6, <2>2
        <3>2. Moves(s, "CR", <<>>, FALSE)
            BY <1>6, <3>1, DotSteps
        <3> DEFINE j == 1
        <3>3. j \in 1..(Len(l) + 1) /\ p + 1 = a + e + j /\ c + 1 = b + j /\ p \in Nat /\ c \in Nat
            BY <1>6, <2>2
        <3> HIDE DEF Goal, j
        <3> QED
            BY <1>5, <3>1, <3>2, <3>3
    <2>3. CASE e = 0 /\ Len(l) > 0
        <3> DEFINE j == 1
        <3>1. j \in 1..Len(l) /\ j \in 1..(Len(l) + 1) /\ p + 1 = a + e + j /\ c + 1 = b + j /\ p \in Nat /\ c \in Nat
            BY <1>1, <1>6, <2>3
        <3>2. E[p + 1] = l[j] /\ l[j] \in T!LineBytes /\ l[j] # "dot"
            BY <1>1, <1>2, <2>3, <3>1
        <3> HIDE DEF j
        <3>3. CASE l[j] = "cr"
            <4>1. Moves(s, "CR", <<>>, FALSE) /\ E[p + 1] = "cr"
                BY <1>6, <3>2, <3>3, DotSteps
            <4> HIDE DEF Goal
            <4> QED
                BY <1>5, <3>1, <4>1
        <3>4. CASE l[j] # "cr"
            <4> HIDE DEF Goal
            <4>1. Moves(s, "Data", <<l[j]>>, FALSE)
                BY <1>6, <3>2, <3>4, DotSteps
            <4> QED
                BY <1>4, <3>1, <4>1
        <3> QED
            BY <3>3, <3>4
    <2> QED
        BY <1>1, <2>1, <2>2, <2>3
<1>7. CASE st = "Dot" /\ e = 1 /\ p = a + 1 /\ c = b
    <2> DEFINE j == 1
    <2>1. j \in 1..Len(l) /\ p + 1 = a + e + j /\ c + 1 = b + j /\ p \in Nat /\ c \in Nat
        BY <1>1, <1>7
    <2>2. E[p + 1] = l[j] /\ l[j] = "dot"
        BY <1>1, <1>2, <1>7, <2>1
    <2>3. Moves(s, "Data", <<l[j]>>, FALSE)
        BY <1>7, <2>2, DotSteps
    <2> HIDE DEF Goal, j
    <2> QED
        BY <1>4, <2>1, <2>3
<1>8. ASSUME NEW k \in 1..Len(l), st = "Data", p = a + e + k, c = b + k PROVE Goal
    <2> DEFINE j == k + 1
    <2>1. j \in 1..(Len(l) + 1) /\ p + 1 = a + e + j /\ c + 1 = b + j /\ p \in Nat /\ c \in Nat
        BY <1>1, <1>8
    <2>2. CASE k = Len(l)
        <3>1. E[p + 1] = "cr"
            <4>1. p + 1 = a + e + Len(l) + 1
                BY <1>1, <1>8, <2>2
            <4> QED
                BY <1>2, <4>1
        <3>2. Moves(s, "CR", <<>>, FALSE)
            BY <1>8, <3>1, DotSteps
        <3> HIDE DEF Goal, j
        <3> QED
            BY <1>5, <2>1, <3>1, <3>2
    <2>3. CASE k # Len(l)
        <3>1. j \in 1..Len(l)
            BY <1>1, <2>3
        <3>2. E[p + 1] = l[j] /\ l[j] \in T!LineBytes
            BY <1>1, <1>2, <2>1, <3>1
        <3>3. CASE l[j] = "cr"
            <4>1. Moves(s, "CR", <<>>, FALSE) /\ E[p + 1] = "cr"
                BY <1>8, <3>2, <3>3, DotSteps
            <4> HIDE DEF Goal, j
            <4> QED
                BY <1>5, <2>1, <4>1
        <3>4. CASE l[j] # "cr"
            <4> HIDE DEF Goal, j
            <4>1. Moves(s, "Data", <<l[j]>>, FALSE)
                BY <1>8, <3>2, <3>4, DotSteps
            <4> QED
                BY <1>4, <2>1, <3>1, <4>1
        <3> QED
            BY <3>3, <3>4
    <2> QED
        BY <2>2, <2>3
<1>9. ASSUME NEW k \in 1..(Len(l) + 1), st = "CR", E[p] = "cr", p = a + e + k, c = b + k - 1 PROVE Goal
    <2>1. p \in Nat /\ c \in Nat /\ c + 1 = b + k
        BY <1>1, <1>9
    <2>2. CASE k = Len(l) + 1
        <3>1. p + 1 = a + e + Len(l) + 2 /\ c + 1 = b + Len(l) + 1
            <4> HIDE DEF e
            <4> QED
                BY <1>1, <1>9, <2>1, <2>2
        <3>2. E[p + 1] = "nl" /\ X[c + 1] = "nl"
            BY <1>2, <3>1
        <3>3. Moves(s, "BeginLine", <<"nl">>, FALSE)
            BY <1>9, <3>2, DotSteps
        <3>4. q = p + 1 /\ n = c + 1
            BY <1>3, <3>3 DEF Moves, Then
        <3>5. LineOver(l, a, b, s.state, q, n)
            BY <3>1, <3>3, <3>4 DEF LineOver, Moves
        <3> QED
            BY <3>2, <3>3, <3>5 DEF Emits, Moves
    <2>3. CASE k # Len(l) + 1
        <3>1. k \in 1..Len(l) /\ p + 1 = a + e + (k + 1) /\ p = a + e + k
            BY <1>1, <1>9, <2>3
        <3>2. X[c + 1] = "cr"
            BY <1>2, <1>9, <2>1, <3>1
        <3>3. E[p + 1] \in T!LineBytes
            <4>1. CASE k = Len(l)
                <5>1. p + 1 = a + e + Len(l) + 1
                    BY <1>1, <3>1, <4>1
                <5> QED
                    BY <1>2, <5>1 DEF T!LineBytes, T!Letters
            <4>2. CASE k # Len(l)
                <5>1. k + 1 \in 1..Len(l)
                    BY <1>1, <3>1, <4>2
                <5> QED
                    BY <1>1, <1>2, <3>1, <5>1
            <4> QED
                BY <4>1, <4>2
        <3>4. Moves(s, "Data", <<"cr">>, TRUE)
            BY <1>9, <3>3, DotSteps
        <3>5. q = p /\ n = b + k
            <4>1. q = p /\ n = c + 1
                BY <1>3, <3>4 DEF Moves, Then
            <4> QED
                BY <2>1, <4>1
        <3>6. InLine(l, E, a, b, s.state, q, n)
            BY <3>1, <3>4, <3>5 DEF InLine, Moves
        <3> QED
            BY <3>2, <3>4, <3>6 DEF Emits, Moves
    <2> QED
        BY <2>2, <2>3
<1> QED
    BY <1>6, <1>7, <1>8, <1>9 DEF InLine

\* The lines add up.
LEMMA LinesFit ==
    ASSUME NEW t, NEW E, NEW X, NEW o, NEW d, Coded(t, E, X, o, d), NEW i \in 0..Len(t)
    PROVE  o[i] \in Nat /\ d[i] \in Nat /\ o[i] <= o[Len(t)] /\ d[i] <= d[Len(t)] /\ d[i] <= o[i]
<1> DEFINE n == Len(t)
           s == [j \in 1..n |-> Escaped(t[j]) + Len(t[j]) + 2]
           r1 == [j \in 1..n |-> Len(t[j]) + 1]
<1>1. n \in Nat /\ \A j \in 1..n : t[j] \in Seq(T!LineBytes)
    BY DEF Coded
<1>2. \A j \in 1..n : Escaped(t[j]) \in 0..1 /\ Len(t[j]) \in Nat
    BY <1>1, EscapedIs
<1>3. s \in Seq(Nat) /\ Len(s) = n /\ r1 \in Seq(Nat) /\ Len(r1) = n
    <2> HIDE DEF n
    <2> QED
        BY <1>1, <1>2
<1>4. /\ o \in [0..n -> Nat] /\ d \in [0..n -> Nat] /\ o[0] = 0 /\ d[0] = 0
      /\ \A j \in 1..n : o[j] = o[j - 1] + Escaped(t[j]) + Len(t[j]) + 2 /\ d[j] = d[j - 1] + Len(t[j]) + 1
    BY DEF Coded
<1>5. \A j \in 1..n : o[j - 1] \in Nat /\ d[j - 1] \in Nat
    <2>1. \A j \in 1..n : j - 1 \in 0..n
        BY <1>1
    <2> HIDE DEF n
    <2> QED
        BY <1>4, <2>1
<1>6. SumsOf(s, o) /\ SumsOf(r1, d)
    <2>1. \A j \in 1..n : o[j] = o[j - 1] + s[j] /\ d[j] = d[j - 1] + r1[j]
        <3>1. ASSUME NEW j \in 1..n PROVE o[j] = o[j - 1] + s[j] /\ d[j] = d[j - 1] + r1[j]
            <4> DEFINE e == Escaped(t[j])
                       l == Len(t[j])
                       a == o[j - 1]
                       b == d[j - 1]
            <4>1. e \in Nat /\ l \in Nat /\ a \in Nat /\ b \in Nat /\ s[j] = e + l + 2 /\ r1[j] = l + 1
                <5>1. s[j] = e + l + 2 /\ r1[j] = l + 1 /\ a \in Nat /\ b \in Nat
                    BY <1>5
                <5>2. e \in 0..1 /\ l \in Nat
                    BY <1>2
                <5> HIDE DEF e, l, a, b, s, r1
                <5> QED
                    BY <5>1, <5>2
            <4>2. o[j] = a + e + l + 2 /\ d[j] = b + l + 1
                BY <1>4
            <4> HIDE DEF e, l, a, b
            <4>3. a + e + l + 2 = a + (e + l + 2) /\ b + l + 1 = b + (l + 1)
                BY <4>1
            <4> HIDE DEF s, r1
            <4> QED
                BY <4>1, <4>2, <4>3 DEF a, b
        <3> QED
            BY <3>1
    <2> HIDE DEF s, r1, n
    <2> QED
        BY <1>3, <1>4, <2>1 DEF SumsOf
<1>7. i \in 0..n /\ n \in i..n
    BY <1>1
<1>8. o[i] \in Nat /\ o[i] <= o[n] /\ d[i] \in Nat /\ d[i] <= d[n]
    <2> HIDE DEF s, r1, n
    <2> QED
        BY <1>3, <1>6, <1>7, RunningSumsGrow
<1>9. d[i] <= o[i]
    <2> DEFINE H == {q \in Nat : q <= n => d[q] <= o[q]}
    <2>1. 0 \in H
        BY <1>4
    <2>2. ASSUME NEW q \in Nat, q \in H PROVE q + 1 \in H
        <3>1. SUFFICES ASSUME q + 1 <= n PROVE d[q + 1] <= o[q + 1]
            OBVIOUS
        <3> DEFINE j == q + 1
        <3>2. j \in 1..n /\ j - 1 = q /\ q <= n
            BY <1>1, <3>1
        <3>3. d[q] <= o[q]
            BY <2>2, <3>2
        <3> HIDE DEF j
        <3>4. /\ o[j] = o[q] + Escaped(t[j]) + Len(t[j]) + 2 /\ d[j] = d[q] + Len(t[j]) + 1
              /\ o[q] \in Nat /\ d[q] \in Nat /\ Escaped(t[j]) \in 0..1 /\ Len(t[j]) \in Nat
            BY <1>2, <1>4, <1>5, <3>2
        <3>5. d[j] <= o[j]
            <4> DEFINE e == Escaped(t[j])
                       l == Len(t[j])
                       a == o[q]
                       b == d[q]
            <4> HIDE DEF e, l, a, b
            <4>1. a + e + l + 2 >= b + l + 1
                BY <3>3, <3>4 DEF e, l, a, b
            <4> QED
                BY <3>4, <4>1 DEF e, l, a, b
        <3> QED
            BY <3>5 DEF j
    <2>3. Nat \subseteq H
        <3> HIDE DEF H
        <3> QED
            BY <2>1, <2>2, SetInduction
    <2> QED
        BY <1>1, <2>3
<1> QED
    BY <1>8, <1>9

DotPlaces == {"BeginLine", "Dot", "DotCR", "CR", "Data", "EOF"}

LEMMA PlaceIs ==
    ASSUME NEW t, NEW E, NEW X, NEW o, NEW d, Coded(t, E, X, o, d),
           NEW st, NEW p, NEW c, Place(t, E, o, d, st, p, c)
    PROVE  /\ p \in Nat /\ c \in Nat /\ p <= Len(E) /\ c <= Len(X) /\ st \in DotPlaces
           /\ st = "EOF" => p = Len(E) /\ c = Len(X)
           /\ st # "EOF" => p < Len(E)
<1> DEFINE n == Len(t)
           N == o[n]
           M == d[n]
<1>1. n \in Nat /\ Len(E) = N + 3 /\ Len(X) = M /\ \A i \in 1..n : t[i] \in Seq(T!LineBytes)
    BY DEF Coded
<1>2. N \in Nat /\ M \in Nat
    BY <1>1, LinesFit
<1>3. CASE AtEnd(N, M, st, p, c)
    <2> HIDE DEF N, M
    <2> QED
        BY <1>1, <1>2, <1>3 DEF AtEnd, DotPlaces
<1>4. ASSUME NEW i \in 1..n, InLine(t[i], E, o[i - 1], d[i - 1], st, p, c)
      PROVE  p \in Nat /\ c \in Nat /\ p < N + 3 /\ c <= M /\ st \in DotPlaces /\ st # "EOF"
    <2> DEFINE l == t[i]
               a == o[i - 1]
               b == d[i - 1]
               e == Escaped(l)
               y == o[i]
               z == d[i]
    <2>1. i \in 0..n /\ i - 1 \in 0..n
        BY <1>1
    <2>2. a \in Nat /\ b \in Nat /\ y \in Nat /\ z \in Nat /\ y <= N /\ z <= M
        BY <2>1, LinesFit
    <2>3. y = a + e + Len(l) + 2 /\ z = b + Len(l) + 1
        BY DEF Coded
    <2>4. e \in 0..1 /\ Len(l) \in Nat
        BY <1>1, EscapedIs
    <2>5. InLine(l, E, a, b, st, p, c)
        BY <1>4
    <2> HIDE DEF l, a, b, e, y, z, N, M
    <2>6. CASE st = "BeginLine" /\ p = a /\ c = b
        BY <1>2, <2>2, <2>3, <2>4, <2>6 DEF DotPlaces
    <2>7. CASE st = "Dot" /\ p = a + 1 /\ c = b
        BY <1>2, <2>2, <2>3, <2>4, <2>7 DEF DotPlaces
    <2>8. CASE st = "Data" /\ \E k \in 1..Len(l) : p = a + e + k /\ c = b + k
        BY <1>2, <2>2, <2>3, <2>4, <2>8 DEF DotPlaces
    <2>9. CASE st = "CR" /\ \E k \in 1..(Len(l) + 1) : p = a + e + k /\ c = b + k - 1
        BY <1>2, <2>2, <2>3, <2>4, <2>9 DEF DotPlaces
    <2> QED
        BY <2>5, <2>6, <2>7, <2>8, <2>9 DEF InLine, e
<1> QED
    BY <1>1, <1>2, <1>3, <1>4 DEF Place

LEMMA PlaceStep ==
    ASSUME NEW t, NEW E, NEW X, NEW o, NEW d, Coded(t, E, X, o, d),
           NEW st, NEW p, NEW c, Place(t, E, o, d, st, p, c), st # "EOF"
    PROVE  LET s == T!DotStep(st, E[p + 1])
           IN  Place(t, E, o, d, s.state, Then(s, p), c + Len(s.emitted)) /\ Emits(s, X, c)
<1> DEFINE s == T!DotStep(st, E[p + 1])
           q == Then(s, p)
           m == c + Len(s.emitted)
           n == Len(t)
<1>1. n \in Nat /\ \A i \in 1..n : t[i] \in Seq(T!LineBytes)
    BY DEF Coded
<1>2. p \in Nat /\ c \in Nat
    BY PlaceIs
<1>3. CASE AtEnd(o[n], d[n], st, p, c)
    <2> DEFINE N == o[n]
    <2>1. E[N + 1] = "dot" /\ E[N + 2] = "cr" /\ E[N + 3] = "nl" /\ N \in Nat
        <3>1. n \in 0..Len(t)
            BY <1>1
        <3>2. N \in Nat
            BY <3>1, LinesFit
        <3> QED
            BY <3>2 DEF Coded
    <2>2. Len(<<>>) = 0
        OBVIOUS
    <2>3. ASSUME NEW x \in {"Dot", "DotCR", "EOF"}, Moves(s, x, <<>>, FALSE)
          PROVE  q = p + 1 /\ m = c /\ s.state = x /\ Emits(s, X, c)
        BY <1>2, <2>2, <2>3 DEF Moves, Then, Emits
    <2>4. CASE st = "BeginLine" /\ p = N
        <3>1. Moves(s, "Dot", <<>>, FALSE)
            BY <2>1, <2>4, DotSteps
        <3>2. AtEnd(N, d[n], s.state, q, m)
            BY <1>3, <2>3, <2>4, <3>1 DEF AtEnd
        <3> QED
            BY <2>3, <3>1, <3>2 DEF Place
    <2>5. CASE st = "Dot" /\ p = N + 1
        <3>1. p + 1 = N + 2
            BY <2>1, <2>5
        <3>2. Moves(s, "DotCR", <<>>, FALSE)
            BY <2>1, <2>5, <3>1, DotSteps
        <3>3. AtEnd(N, d[n], s.state, q, m)
            BY <1>3, <2>3, <2>5, <3>1, <3>2 DEF AtEnd
        <3> QED
            BY <2>3, <3>2, <3>3 DEF Place
    <2>6. CASE st = "DotCR" /\ p = N + 2
        <3>1. p + 1 = N + 3
            BY <2>1, <2>6
        <3>2. Moves(s, "EOF", <<>>, FALSE)
            BY <2>1, <2>6, <3>1, DotSteps
        <3>3. AtEnd(N, d[n], s.state, q, m)
            BY <1>3, <2>3, <2>6, <3>1, <3>2 DEF AtEnd
        <3> QED
            BY <2>3, <3>2, <3>3 DEF Place
    <2> QED
        BY <1>3, <2>4, <2>5, <2>6 DEF AtEnd
<1>4. ASSUME NEW i \in 1..n, InLine(t[i], E, o[i - 1], d[i - 1], st, p, c)
      PROVE  Place(t, E, o, d, s.state, q, m) /\ Emits(s, X, c)
    <2> DEFINE l == t[i]
               a == o[i - 1]
               b == d[i - 1]
    <2>1. l \in Seq(T!LineBytes) /\ a \in Nat /\ b \in Nat /\ LineCoded(l, E, X, a, b)
          /\ o[i] = a + Escaped(l) + Len(l) + 2 /\ d[i] = b + Len(l) + 1
        <3>1. i - 1 \in 0..n
            BY <1>1
        <3> QED
            BY <1>1, <3>1, LinesFit DEF Coded
    <2>2. InLine(l, E, a, b, st, p, c)
        BY <1>4
    <2>3. (InLine(l, E, a, b, s.state, q, m) \/ LineOver(l, a, b, s.state, q, m)) /\ Emits(s, X, c)
        <3> HIDE DEF l, a, b
        <3> QED
            BY <2>1, <2>2, LineStep
    <2> HIDE DEF s, q, m
    <2>4. CASE InLine(l, E, a, b, s.state, q, m)
        BY <2>3, <2>4 DEF Place
    <2>5. CASE LineOver(l, a, b, s.state, q, m)
        <3>1. s.state = "BeginLine" /\ q = o[i] /\ m = d[i]
            BY <2>1, <2>5 DEF LineOver
        <3>2. CASE i = n
            BY <2>3, <3>1, <3>2 DEF Place, AtEnd
        <3>3. CASE i # n
            <4> DEFINE j == i + 1
            <4>1. j \in 1..n /\ j - 1 = i
                BY <1>1, <3>3
            <4> HIDE DEF j
            <4>2. InLine(t[j], E, o[j - 1], d[j - 1], s.state, q, m)
                BY <3>1, <4>1 DEF InLine
            <4> QED
                BY <2>3, <4>1, <4>2 DEF Place
        <3> QED
            BY <3>2, <3>3
    <2> QED
        BY <2>3, <2>4, <2>5
<1> QED
    BY <1>3, <1>4 DEF Place

LEMMA DotStepType ==
    ASSUME NEW st \in DotPlaces, NEW c \in TextBytes
    PROVE  LET s == T!DotStep(st, c)
           IN  /\ s.state \in DotPlaces /\ s.emitted \in Seq(TextBytes) /\ Len(s.emitted) \in {0, 1}
               /\ s.unread \in BOOLEAN
               /\ s.unread => st \in {"CR", "DotCR"} /\ s.state = "Data"
<1> DEFINE s == T!DotStep(st, c)
<1>1. "cr" \in TextBytes
    BY DEF TextBytes, T!LineBytes, T!Letters
<1>2. /\ <<>> \in Seq(TextBytes) /\ Len(<<>>) = 0
      /\ \A x \in TextBytes : <<x>> \in Seq(TextBytes) /\ Len(<<x>>) = 1
    OBVIOUS
<1>3. \/ \E x \in DotPlaces, y \in {<<>>, <<c>>} : s = T!Goes(x, y)
      \/ st \in {"CR", "DotCR"} /\ s = T!PutsBack
    BY DEF T!DotStep, DotPlaces
<1>4. ASSUME NEW x \in DotPlaces, NEW y \in {<<>>, <<c>>}, s = T!Goes(x, y)
      PROVE  s.state = x /\ s.emitted = y /\ ~s.unread /\ s.unread \in BOOLEAN
    BY <1>4 DEF T!Goes
<1>5. s = T!PutsBack => s.state = "Data" /\ s.emitted = <<"cr">> /\ s.unread \in BOOLEAN
    BY DEF T!PutsBack
<1> HIDE DEF s
<1>6. CASE \E x \in DotPlaces, y \in {<<>>, <<c>>} : s = T!Goes(x, y)
    <2>1. PICK x \in DotPlaces, y \in {<<>>, <<c>>} : s = T!Goes(x, y)
        BY <1>6
    <2>2. s.state = x /\ s.emitted = y /\ ~s.unread /\ s.unread \in BOOLEAN
        BY <1>4, <2>1
    <2> QED
        BY <1>2, <2>2 DEF s
<1>7. CASE st \in {"CR", "DotCR"} /\ s = T!PutsBack
    BY <1>1, <1>2, <1>5, <1>7 DEF DotPlaces, s
<1> QED
    BY <1>3, <1>6, <1>7 DEF s

\* DotRead's recursion: F at a state, a position and the room left.
Over(st, p, e) == [state |-> st, pos |-> p, got |-> <<>>, err |-> e]
Onward(F, st, p, k) ==
    LET s == T!DotStep(st, T!At(p + 1)) IN F[<<s.state, Then(s, p), k - Len(s.emitted)>>]
DotReading(F, n) ==
    \A st \in DotPlaces, p \in 0..Len(T!bytes), k \in 0..n :
        F[<<st, p, k>>] =
            IF st = "EOF" THEN Over(st, p, "EOF")
            ELSE IF k = 0 THEN Over(st, p, "none")
            ELSE IF p = Len(T!bytes) THEN Over(st, p, "unexpected EOF")
            ELSE [Onward(F, st, p, k) EXCEPT !.got = T!DotStep(st, T!At(p + 1)).emitted \o @]

LEMMA DotReadRecursion ==
    ASSUME T!bytes \in Seq(TextBytes), NEW n \in Nat
    PROVE  \E F : T!DotRead(n) = F[<<dot, pos, n>>] /\ DotReading(F, n)
<1> DEFINE L == Len(T!bytes)
           D == DotPlaces \X (0..L) \X (0..n)
           S(d) == T!DotStep(d[1], T!At(d[2] + 1))
           Body(F, d) ==
                IF d[1] = "EOF" THEN Over(d[1], d[2], "EOF")
                ELSE IF d[3] = 0 THEN Over(d[1], d[2], "none")
                ELSE IF d[2] = L THEN Over(d[1], d[2], "unexpected EOF")
                ELSE [F[<<S(d).state, Then(S(d), d[2]), d[3] - Len(S(d).emitted)>>]
                        EXCEPT !.got = S(d).emitted \o @]
           F == CHOOSE f : f = [d \in D |-> Body(f, d)]
           V == [state : DotPlaces, pos : Nat, got : Seq(TextBytes), err : {"none", "EOF", "unexpected EOF"}]
           Stop == {d \in D : d[1] = "EOF" \/ d[3] = 0 \/ d[2] = L}
           val == [d \in D |-> IF d[1] = "EOF" THEN Over(d[1], d[2], "EOF")
                               ELSE IF d[3] = 0 THEN Over(d[1], d[2], "none")
                               ELSE Over(d[1], d[2], "unexpected EOF")]
           next == [d \in D |-> <<S(d).state, Then(S(d), d[2]), d[3] - Len(S(d).emitted)>>]
           m == [d \in D |-> (L - d[2]) + (L - d[2]) + (IF d[1] \in {"CR", "DotCR"} THEN 1 ELSE 0)]
           step == [x \in D \X V |-> [x[2] EXCEPT !.got = S(x[1]).emitted \o @]]
<1>1. L \in Nat /\ \A p \in 1..L : T!bytes[p] \in TextBytes
    OBVIOUS
<1>2. ASSUME NEW d \in D
      PROVE  d[1] \in DotPlaces /\ d[2] \in 0..L /\ d[3] \in 0..n /\ d = <<d[1], d[2], d[3]>>
    OBVIOUS
<1>3. ASSUME NEW d \in D, d \notin Stop
      PROVE  /\ d[1] # "EOF" /\ d[3] # 0 /\ d[2] # L
             /\ S(d).state \in DotPlaces /\ S(d).emitted \in Seq(TextBytes) /\ Len(S(d).emitted) \in {0, 1}
             /\ S(d).unread \in BOOLEAN
             /\ S(d).unread => d[1] \in {"CR", "DotCR"} /\ S(d).state = "Data"
    <2>1. d[2] + 1 \in 1..L /\ d[1] \in DotPlaces
        BY <1>1, <1>2, <1>3
    <2>2. T!At(d[2] + 1) \in TextBytes
        BY <1>1, <2>1 DEF T!At
    <2>3. d[1] # "EOF" /\ d[3] # 0 /\ d[2] # L
        BY <1>3
    <2> HIDE DEF D, L
    <2> QED
        BY <2>1, <2>2, <2>3, DotStepType
<1>4. V # {} /\ \A st \in DotPlaces, p \in Nat, e \in {"none", "EOF", "unexpected EOF"} : Over(st, p, e) \in V
    <2>1. <<>> \in Seq(TextBytes)
        OBVIOUS
    <2>2. \A st \in DotPlaces, p \in Nat, e \in {"none", "EOF", "unexpected EOF"} : Over(st, p, e) \in V
        BY <2>1 DEF Over
    <2>3. "EOF" \in DotPlaces
        BY DEF DotPlaces
    <2> HIDE DEF V
    <2>4. Over("EOF", 0, "EOF") \in V
        BY <2>2, <2>3
    <2> QED
        BY <2>2, <2>4
<1>5. \A d \in D : m[d] \in Nat /\ m[d] <= L + L + 1
    <2>1. ASSUME NEW d \in D PROVE m[d] \in Nat /\ m[d] <= L + L + 1
        <3>1. d[2] \in 0..L
            BY <1>2
        <3> DEFINE y == d[2]
        <3> DEFINE z == IF d[1] \in {"CR", "DotCR"} THEN 1 ELSE 0
        <3>2. m[d] = (L - y) + (L - y) + z /\ z \in 0..1
            OBVIOUS
        <3> HIDE DEF y, z, m, L, D
        <3> QED
            BY <1>1, <3>1, <3>2 DEF y
    <2> QED
        BY <2>1
<1>6. ASSUME NEW d \in D, d \in Stop PROVE val[d] \in V
    <2>1. d[1] \in DotPlaces /\ d[2] \in Nat
        BY <1>2
    <2>2. val[d] \in {Over(d[1], d[2], "EOF"), Over(d[1], d[2], "none"), Over(d[1], d[2], "unexpected EOF")}
        OBVIOUS
    <2> HIDE DEF val, V, Stop, D
    <2> QED
        BY <1>4, <2>1, <2>2
<1>7. ASSUME NEW d \in D, d \notin Stop
      PROVE  next[d] \in D /\ m[next[d]] < m[d] /\ \A x \in V : step[<<d, x>>] \in V
    <2> DEFINE st == S(d).state
               em == S(d).emitted
               p == Then(S(d), d[2])
               k == d[3] - Len(em)
    <2>1. next[d] = <<st, p, k>>
        OBVIOUS
    <2>2. /\ d[3] # 0 /\ d[2] # L
          /\ st \in DotPlaces /\ em \in Seq(TextBytes) /\ Len(em) \in {0, 1}
          /\ S(d).unread \in BOOLEAN /\ (S(d).unread => d[1] \in {"CR", "DotCR"} /\ st = "Data")
        BY <1>3, <1>7
    <2>3. d[2] \in 0..L /\ d[3] \in 0..n
        BY <1>2
    <2>4. p \in 0..L /\ k \in 0..n
        <3>1. p = d[2] \/ p = d[2] + 1
            <4>1. CASE S(d).unread
                BY <4>1 DEF Then
            <4>2. CASE ~S(d).unread
                BY <4>2 DEF Then
            <4> QED
                BY <4>1, <4>2
        <3> DEFINE y == d[2]
                   z == d[3]
                   e == Len(em)
        <3>2. y \in 0..L /\ z \in 0..n /\ y # L /\ z # 0 /\ e \in {0, 1} /\ (p = y \/ p = y + 1) /\ k = z - e
            BY <2>2, <2>3, <3>1
        <3> HIDE DEF em, L, y, z, e, p, k
        <3> QED
            BY <1>1, <3>2
    <2>5. next[d] \in D
        <3> HIDE DEF next, st, p, k, L
        <3> QED
            BY <2>1, <2>2, <2>4
    <2>6. m[next[d]] < m[d]
        <3> DEFINE y == d[2]
                   z == IF d[1] \in {"CR", "DotCR"} THEN 1 ELSE 0
                   w0 == IF st \in {"CR", "DotCR"} THEN 1 ELSE 0
        <3>1. m[d] = (L - y) + (L - y) + z /\ z \in 0..1
            OBVIOUS
        <3>2. m[<<st, p, k>>] = (L - p) + (L - p) + w0 /\ w0 \in 0..1
            <4>1. <<st, p, k>> \in D
                BY <2>1, <2>5
            <4> HIDE DEF st, p, k, D
            <4> QED
                BY <4>1
        <3>3. (p = y /\ z = 1 /\ w0 = 0) \/ p = y + 1
            <4>1. CASE S(d).unread
                <5> HIDE DEF st
                <5> QED
                    BY <2>2, <4>1 DEF Then
            <4>2. CASE ~S(d).unread
                BY <2>2, <4>2 DEF Then
            <4> QED
                BY <4>1, <4>2
        <3>4. y \in 0..L /\ p \in 0..L
            BY <2>3, <2>4
        <3> HIDE DEF y, z, w0, p, k, st, m, next, D, L
        <3>5. m[<<st, p, k>>] < m[d]
            BY <1>1, <3>1, <3>2, <3>3, <3>4
        <3> QED
            BY <2>1, <3>5
    <2>7. ASSUME NEW x \in V PROVE step[<<d, x>>] \in V
        <3>1. step[<<d, x>>] = [x EXCEPT !.got = em \o @]
            <4>1. <<d, x>> \in D \X V
                OBVIOUS
            <4>2. \A y \in D \X V : step[y] = [y[2] EXCEPT !.got = S(y[1]).emitted \o @]
                <5> HIDE DEF D, V, S
                <5> QED
                    OBVIOUS
            <4> HIDE DEF D, V, step, S
            <4> QED
                BY <4>1, <4>2 DEF em
        <3>2. x.got \in Seq(TextBytes)
            OBVIOUS
        <3> DEFINE y == em \o x.got
        <3>3. y \in Seq(TextBytes)
            <4> HIDE DEF em, V
            <4> QED
                BY <2>2, <3>2
        <3>4. [x EXCEPT !.got = em \o @] = [x EXCEPT !.got = y]
            OBVIOUS
        <3> HIDE DEF em, y, step
        <3>5. [x EXCEPT !.got = y] \in V
            BY <3>3
        <3> QED
            BY <3>1, <3>4, <3>5
    <2> HIDE DEF next, m, step, V, D
    <2> QED
        BY <2>5, <2>6, <2>7
<1>8. Descends(D, V, L + L + 1, m, Stop, val, next, step)
    <2>1. L + L + 1 \in Nat
        BY <1>1
    <2> HIDE DEF D, V, m, Stop, val, next, step, L
    <2> QED
        BY <1>4, <1>5, <1>6, <1>7, <2>1 DEF Descends
<1>9. PICK f \in [D -> V] : \A d \in D : f[d] = IF d \in Stop THEN val[d] ELSE step[<<d, f[next[d]]>>]
    <2> HIDE DEF D, V, m, Stop, val, next, step, L
    <2> QED
        BY <1>8, RecursionDown
<1>10. ASSUME NEW d \in D PROVE f[d] = Body(f, d)
    <2>1. CASE d \in Stop
        <3>1. f[d] = val[d]
            <4> HIDE DEF D, V, Stop, val, next, step
            <4> QED
                BY <1>9, <2>1
        <3> QED
            BY <2>1, <3>1
    <2>2. CASE d \notin Stop
        <3>1. f[d] = step[<<d, f[next[d]]>>] /\ next[d] \in D
            <4> HIDE DEF D, V, Stop, val, next, step, m
            <4> QED
                BY <1>7, <1>9, <2>2
        <3> DEFINE x == f[next[d]]
        <3>2. x \in V
            <4> HIDE DEF D, V, next
            <4> QED
                BY <1>9, <3>1
        <3>3. step[<<d, x>>] = [x EXCEPT !.got = S(d).emitted \o @]
            <4> HIDE DEF x, V, D, S
            <4> QED
                BY <3>2
        <3>4. x = f[<<S(d).state, Then(S(d), d[2]), d[3] - Len(S(d).emitted)>>]
            OBVIOUS
        <3>5. d[1] # "EOF" /\ d[3] # 0 /\ d[2] # L
            BY <2>2
        <3> HIDE DEF x, step, V, D, S
        <3>6. f[d] = [x EXCEPT !.got = S(d).emitted \o @]
            BY <3>1, <3>3 DEF x
        <3> QED
            BY <3>4, <3>5, <3>6
    <2> QED
        BY <2>1, <2>2
<1>11. f = [d \in D |-> Body(f, d)]
    <2> HIDE DEF D, V, Body
    <2> QED
        BY <1>9, <1>10
<1>12. F = [d \in D |-> Body(F, d)]
    <2> HIDE DEF D, Body
    <2> QED
        BY <1>11
<1>13. T!DotRead(n) = F[<<dot, pos, n>>]
    BY DEF T!DotRead, Over, Then, T!DotStates, DotPlaces
<1>14. DotReading(F, n)
    <2>1. ASSUME NEW st \in DotPlaces, NEW p \in 0..L, NEW k \in 0..n
          PROVE  <<st, p, k>> \in D /\ F[<<st, p, k>>] = Body(F, <<st, p, k>>)
        <3>1. <<st, p, k>> \in D
            OBVIOUS
        <3> HIDE DEF F, D, Body
        <3> QED
            BY <1>12, <3>1
    <2>2. ASSUME NEW st \in DotPlaces, NEW p \in 0..L, NEW k \in 0..n
          PROVE  Body(F, <<st, p, k>>) =
                    IF st = "EOF" THEN Over(st, p, "EOF")
                    ELSE IF k = 0 THEN Over(st, p, "none")
                    ELSE IF p = L THEN Over(st, p, "unexpected EOF")
                    ELSE [Onward(F, st, p, k) EXCEPT !.got = T!DotStep(st, T!At(p + 1)).emitted \o @]
        <3> DEFINE d == <<st, p, k>>
        <3>1. d[1] = st /\ d[2] = p /\ d[3] = k
            OBVIOUS
        <3> HIDE DEF d, F
        <3> QED
            BY <3>1 DEF Onward, d
    <2>3. ASSUME NEW st \in DotPlaces, NEW p \in 0..L, NEW k \in 0..n
          PROVE  F[<<st, p, k>>] =
                    IF st = "EOF" THEN Over(st, p, "EOF")
                    ELSE IF k = 0 THEN Over(st, p, "none")
                    ELSE IF p = L THEN Over(st, p, "unexpected EOF")
                    ELSE [Onward(F, st, p, k) EXCEPT !.got = T!DotStep(st, T!At(p + 1)).emitted \o @]
        <3> DEFINE x == F[<<st, p, k>>]
                   y == Body(F, <<st, p, k>>)
        <3>1. x = y
            <4> HIDE DEF F, Body, D
            <4> QED
                BY <2>1
        <3> HIDE DEF x, y, F, Body
        <3> QED
            BY <2>2, <3>1 DEF x, y
    <2> HIDE DEF F
    <2> QED
        BY <2>3 DEF DotReading
<1> QED
    BY <1>13, <1>14

(* One Read of it.                                                         *)

\* What a Read with room for k bytes does, when c bytes of the text were read before.
Outcome(t, E, X, o, d, u, c, k) ==
    /\ u.got \in Seq(TextBytes) /\ u.pos \in 0..Len(T!bytes)
    /\ Place(t, E, o, d, u.state, u.pos, c + Len(u.got))
    /\ \A i \in 1..Len(u.got) : u.got[i] = X[c + i]
    /\ \/ u.err = "EOF" /\ u.state = "EOF"
       \/ u.err = "none" /\ u.state # "EOF" /\ Len(u.got) = k
       \/ u.err = "unexpected EOF" /\ u.state # "EOF" /\ u.pos = Len(T!bytes)

\* The bytes are those of the block, up to where either ends.
Carries(E) ==
    T!bytes \in Seq(TextBytes) /\ \A i \in 1..Len(T!bytes) : i <= Len(E) => T!bytes[i] = E[i]

LEMMA DotReads ==
    ASSUME NEW t, NEW E, NEW X, NEW o, NEW d, Coded(t, E, X, o, d), Carries(E),
           NEW c, Place(t, E, o, d, dot, pos, c), pos <= Len(T!bytes), NEW n \in Nat
    PROVE  Outcome(t, E, X, o, d, T!DotRead(n), c, n)
<1> DEFINE L == Len(T!bytes)
           D == DotPlaces \X (0..L) \X (0..n)
           m == [x \in D |-> (L - x[2]) + (L - x[2]) + (IF x[1] \in {"CR", "DotCR"} THEN 1 ELSE 0)]
           Done(F, x) == \A b : Place(t, E, o, d, x[1], x[2], b) => Outcome(t, E, X, o, d, F[x], b, x[3])
<1>1. L \in Nat /\ T!bytes \in Seq(TextBytes) /\ \A i \in 1..L : i <= Len(E) => T!bytes[i] = E[i]
    BY DEF Carries
<1>2. PICK F : T!DotRead(n) = F[<<dot, pos, n>>] /\ DotReading(F, n)
    BY <1>1, DotReadRecursion
<1> DEFINE G == {x \in D : Done(F, x)}
<1>3. ASSUME NEW x \in D
      PROVE  x[1] \in DotPlaces /\ x[2] \in 0..L /\ x[3] \in 0..n /\ x = <<x[1], x[2], x[3]>>
    OBVIOUS
<1>4. \A x \in D : m[x] \in Nat
    <2>1. ASSUME NEW x \in D PROVE m[x] \in Nat
        <3> DEFINE z == IF x[1] \in {"CR", "DotCR"} THEN 1 ELSE 0
                   y == x[2]
        <3>1. m[x] = (L - y) + (L - y) + z /\ z \in 0..1 /\ y \in 0..L
            BY <1>3
        <3> HIDE DEF m, y, z, D, L
        <3> QED
            BY <1>1, <3>1
    <2> QED
        BY <2>1
<1>5. ASSUME NEW x \in D, \A y \in D : m[y] < m[x] => y \in G PROVE x \in G
    <2> DEFINE st == x[1]
               p == x[2]
               k == x[3]
               s == T!DotStep(st, T!At(p + 1))
               em == s.emitted
               q == Then(s, p)
               j == k - Len(em)
    <2>1. SUFFICES ASSUME NEW b, Place(t, E, o, d, st, p, b) PROVE Outcome(t, E, X, o, d, F[x], b, k)
        OBVIOUS
    <2>2. st \in DotPlaces /\ p \in 0..L /\ k \in 0..n /\ x = <<st, p, k>>
        BY <1>3
    <2>3. /\ b \in Nat /\ p <= Len(E) /\ (st # "EOF" => p < Len(E)) /\ Len(E) \in Nat
        <3>1. Len(E) \in Nat
            BY DEF Coded
        <3> HIDE DEF st, p
        <3> QED
            BY <2>1, <3>1, PlaceIs
    <2>4. F[x] = IF st = "EOF" THEN Over(st, p, "EOF")
                 ELSE IF k = 0 THEN Over(st, p, "none")
                 ELSE IF p = L THEN Over(st, p, "unexpected EOF")
                 ELSE [Onward(F, st, p, k) EXCEPT !.got = em \o @]
        <3>1. F[x] = IF st = "EOF" THEN Over(st, p, "EOF")
                     ELSE IF k = 0 THEN Over(st, p, "none")
                     ELSE IF p = L THEN Over(st, p, "unexpected EOF")
                     ELSE [Onward(F, st, p, k) EXCEPT !.got = T!DotStep(st, T!At(p + 1)).emitted \o @]
            <4> DEFINE V(y, i, room) == IF y = "EOF" THEN Over(y, i, "EOF")
                                      ELSE IF room = 0 THEN Over(y, i, "none")
                                      ELSE IF i = Len(T!bytes) THEN Over(y, i, "unexpected EOF")
                                      ELSE [Onward(F, y, i, room) EXCEPT !.got = T!DotStep(y, T!At(i + 1)).emitted \o @]
            <4>1. \A y \in DotPlaces, i \in 0..Len(T!bytes), room \in 0..n : F[<<y, i, room>>] = V(y, i, room)
                BY <1>2, Zenon DEF DotReading
            <4>2. st \in DotPlaces /\ p \in 0..Len(T!bytes) /\ k \in 0..n /\ x = <<st, p, k>>
                BY <2>2
            <4>3. F[x] = V(st, p, k)
                <5> HIDE DEF V, st, p, k
                <5> QED
                    BY ONLY <4>1, <4>2, Zenon
            <4> QED
                BY ONLY <4>3, Zenon DEF V, L
        <3> HIDE DEF st, p, k, D
        <3> QED
            BY <3>1 DEF em, s
    <2>5. ASSUME NEW e, F[x] = Over(st, p, e),
                 \/ e = "EOF" /\ st = "EOF"
                 \/ e = "none" /\ st # "EOF" /\ 0 = k
                 \/ e = "unexpected EOF" /\ st # "EOF" /\ p = L
          PROVE  Outcome(t, E, X, o, d, F[x], b, k)
        <3> DEFINE u == F[x]
        <3>1. u.state = st /\ u.pos = p /\ u.got = <<>> /\ u.err = e
            <4> HIDE DEF st, p, u
            <4>1. u = Over(st, p, e)
                BY <2>5 DEF u
            <4> QED
                BY <4>1 DEF Over
        <3>2. <<>> \in Seq(TextBytes) /\ Len(<<>>) = 0 /\ 1..0 = {} /\ b + 0 = b
            BY <2>3
        <3> HIDE DEF u, st, p, k
        <3>3. Outcome(t, E, X, o, d, u, b, k)
            BY <2>1, <2>2, <2>5, <3>1, <3>2 DEF Outcome
        <3> QED
            BY <3>3 DEF u
    <2>6. CASE st = "EOF"
        BY <2>4, <2>5, <2>6
    <2>7. CASE st # "EOF" /\ k = 0
        BY <2>4, <2>5, <2>7
    <2>8. CASE st # "EOF" /\ k # 0 /\ p = L
        BY <2>4, <2>5, <2>8
    <2>9. CASE st # "EOF" /\ k # 0 /\ p # L
        <3>1. p + 1 \in 1..L /\ p + 1 <= Len(E) /\ p \in Nat
            BY <1>1, <2>2, <2>3, <2>9
        <3>2. T!At(p + 1) = E[p + 1] /\ T!At(p + 1) \in TextBytes
            <4>1. T!At(p + 1) = T!bytes[p + 1]
                BY <1>1, <3>1 DEF T!At
            <4> QED
                BY <1>1, <3>1, <4>1
        <3>3. s = T!DotStep(st, E[p + 1])
            BY <3>2
        <3>4. /\ s.state \in DotPlaces /\ em \in Seq(TextBytes) /\ Len(em) \in {0, 1} /\ s.unread \in BOOLEAN
              /\ s.unread => st \in {"CR", "DotCR"} /\ s.state = "Data"
            BY <2>2, <3>2, DotStepType
        <3>5. Place(t, E, o, d, s.state, q, b + Len(em)) /\ Emits(s, X, b)
            <4> HIDE DEF s, st, p
            <4> QED
                BY <2>1, <2>9, <3>3, PlaceStep
        <3>6. (q = p /\ s.unread) \/ (q = p + 1 /\ ~s.unread)
            <4> HIDE DEF s, p
            <4>1. CASE s.unread
                BY <4>1 DEF Then, q
            <4>2. CASE ~s.unread
                BY <4>2 DEF Then, q
            <4> QED
                BY <4>1, <4>2
        <3>7. q \in 0..L /\ j \in 0..n
            <4> DEFINE e == Len(em)
            <4>1. j = k - e /\ e \in {0, 1}
                BY <3>4
            <4> HIDE DEF q, p, L, em, k, e, j, s
            <4> QED
                BY <1>1, <2>2, <2>9, <3>1, <3>6, <4>1
        <3> DEFINE y == <<s.state, q, j>>
        <3>8. y \in D /\ y[1] = s.state /\ y[2] = q /\ y[3] = j
            <4> HIDE DEF q, j, s
            <4> QED
                BY <3>4, <3>7
        <3>9. m[y] < m[x]
            <4> DEFINE z == IF st \in {"CR", "DotCR"} THEN 1 ELSE 0
                       w1 == IF s.state \in {"CR", "DotCR"} THEN 1 ELSE 0
            <4>1. m[x] = (L - p) + (L - p) + z /\ z \in 0..1
                OBVIOUS
            <4>2. m[y] = (L - q) + (L - q) + w1 /\ w1 \in 0..1
                <5> HIDE DEF y, D, q, s
                <5> QED
                    BY <3>8
            <4>3. (q = p /\ z = 1 /\ w1 = 0) \/ q = p + 1
                <5> HIDE DEF q, s, st, p
                <5> QED
                    BY <3>4, <3>6
            <4>4. L \in Nat /\ p \in 0..L /\ q \in 0..L
                BY <1>1, <2>2, <3>7
            <4> DEFINE mx == m[x]
                       my == m[y]
            <4> HIDE DEF m, y, q, p, z, w1, D, L, mx, my
            <4>5. my < mx
                BY ONLY <4>1, <4>2, <4>3, <4>4 DEF mx, my
            <4> QED
                BY <4>5 DEF mx, my
        <3> DEFINE r0 == F[y]
                   u == F[x]
                   a == b + Len(em)
        <3>10. Outcome(t, E, X, o, d, r0, a, j)
            <4>1. Done(F, y)
                <5> HIDE DEF m, y, Done, D
                <5> QED
                    BY <1>5, <3>8, <3>9
            <4> HIDE DEF y, a, s, q, j, em
            <4>2. Place(t, E, o, d, y[1], y[2], a)
                BY <3>5, <3>8 DEF a
            <4>3. Outcome(t, E, X, o, d, F[y], a, y[3])
                BY <4>1, <4>2
            <4> QED
                BY <3>8, <4>3
        <3>11. u = [r0 EXCEPT !.got = em \o @]
            <4>1. Onward(F, st, p, k) = r0
                BY DEF Onward
            <4> HIDE DEF r0, st, p, k, em
            <4> QED
                BY <2>4, <2>9, <4>1
        <3> DEFINE g == em \o r0.got
        <3>12. u.state = r0.state /\ u.pos = r0.pos /\ u.err = r0.err /\ u.got = g
            <4> HIDE DEF u, r0, em
            <4> QED
                BY <3>11
        <3> HIDE DEF u, r0, em, st, p, k, q, j, y, a, s
        <3>13. r0.got \in Seq(TextBytes) /\ Joins(TextBytes, em, r0.got, g)
            BY <3>4, <3>10, ConcatJoins DEF Outcome
        <3> HIDE DEF g
        <3>14. g \in Seq(TextBytes) /\ Len(g) = Len(em) + Len(r0.got) /\ Len(r0.got) \in Nat
               /\ b + Len(g) = a + Len(r0.got)
            <4>1. Len(r0.got) \in Nat /\ Len(g) = Len(em) + Len(r0.got) /\ g \in Seq(TextBytes)
                BY <3>13 DEF Joins
            <4> DEFINE x1 == Len(em)
                       x2 == Len(r0.got)
                       x3 == Len(g)
            <4>2. x3 = x1 + x2 /\ x2 \in Nat /\ x1 \in {0, 1} /\ a = b + x1 /\ b \in Nat
                BY <2>3, <3>4, <4>1 DEF a
            <4> HIDE DEF x1, x2, x3
            <4>3. b + x3 = a + x2
                BY <4>2
            <4> QED
                BY <4>1, <4>3 DEF x1, x2, x3
        <3>15. ASSUME NEW i \in 1..Len(g) PROVE g[i] = X[b + i]
            <4>1. CASE i <= Len(em)
                <5>1. i = 1 /\ Len(em) = 1
                    <6> DEFINE x1 == Len(em)
                               x3 == Len(g)
                    <6>1. x3 \in Nat /\ x1 \in {0, 1} /\ i \in 1..x3 /\ i <= x1
                        BY <3>4, <3>14, <4>1
                    <6> HIDE DEF x1, x3
                    <6>2. i = 1 /\ x1 = 1
                        BY <6>1
                    <6> QED
                        BY <6>2 DEF x1
                <5>2. em # <<>>
                    BY <5>1
                <5>3. em = <<X[b + 1]>>
                    BY <3>5, <5>2 DEF Emits, em
                <5>4. g[1] = em[1] /\ em[1] = X[b + 1]
                    <6>1. g[1] = em[1]
                        BY <3>13, <5>1 DEF Joins
                    <6> QED
                        BY <5>3, <6>1
                <5> QED
                    BY <5>1, <5>4
            <4>2. CASE ~(i <= Len(em))
                <5> DEFINE h == i - Len(em)
                <5>1. h \in 1..Len(r0.got) /\ i = Len(em) + h /\ b + i = a + h
                    BY <2>3, <3>4, <3>14, <4>2 DEF a
                <5> HIDE DEF h
                <5>2. g[i] = r0.got[h]
                    BY <3>13, <5>1 DEF Joins
                <5>3. r0.got[h] = X[a + h]
                    BY <3>10, <5>1 DEF Outcome
                <5> QED
                    BY <5>1, <5>2, <5>3
            <4> QED
                BY <4>1, <4>2
        <3>16. Len(r0.got) = j => Len(g) = k
            BY <2>2, <3>4, <3>14 DEF j
        <3>17. Outcome(t, E, X, o, d, u, b, k)
            BY <3>10, <3>12, <3>14, <3>15, <3>16 DEF Outcome
        <3> QED
            BY <3>17 DEF u, k
    <2> QED
        BY <2>6, <2>7, <2>8, <2>9
<1>6. D \subseteq G
    <2> HIDE DEF D, m, G
    <2> QED
        BY <1>4, <1>5, MeasureInduction
<1>7. <<dot, pos, n>> \in D
    <2>1. dot \in DotPlaces /\ pos \in Nat
        BY PlaceIs
    <2>2. pos \in 0..L /\ n \in 0..n
        BY <1>1, <2>1
    <2> HIDE DEF L
    <2> QED
        BY <2>1, <2>2
<1> DEFINE x == <<dot, pos, n>>
<1>8. Done(F, x)
    <2> HIDE DEF x, D, Done
    <2> QED
        BY <1>6, <1>7 DEF x
<1>9. x[1] = dot /\ x[2] = pos /\ x[3] = n
    OBVIOUS
<1> HIDE DEF x
<1>10. Outcome(t, E, X, o, d, F[x], c, n)
    BY <1>8, <1>9
<1> QED
    BY <1>2, <1>10 DEF x

(* Lines.                                                                  *)

\* readLineSlice ends the line at the first line feed.
LEMMA EndOfLineIs ==
    ASSUME T!bytes \in Seq(TextBytes), NEW p \in 0..Len(T!bytes)
    PROVE  /\ T!EndOfLine(p) \in 0..Len(T!bytes)
           /\ p < Len(T!bytes) => T!EndOfLine(p) > p
           /\ \A q \in (p + 1)..Len(T!bytes) :
                T!bytes[q] = "nl" /\ (\A j \in (p + 1)..(q - 1) : T!bytes[j] # "nl") => T!EndOfLine(p) = q
           /\ (\A j \in (p + 1)..Len(T!bytes) : T!bytes[j] # "nl") => T!EndOfLine(p) = Len(T!bytes)
<1> DEFINE L == Len(T!bytes)
           Ends == {i \in (p + 1)..L : T!bytes[i] = "nl"}
           e == T!EndOfLine(p)
<1>1. L \in Nat /\ p \in Nat /\ p <= L
    OBVIOUS
<1>2. e = IF Ends = {} THEN L ELSE CHOOSE i \in Ends : \A j \in Ends : i <= j
    BY DEF T!EndOfLine
<1>3. Ends \subseteq (p + 1)..L /\ (p + 1)..L \subseteq Nat
    BY <1>1
<1>4. Ends # {} => e \in Ends /\ \A j \in Ends : e <= j
    <2>1. ASSUME Ends # {} PROVE \E i \in Ends : \A j \in Ends : i <= j
        <3> HIDE DEF Ends
        <3> QED
            BY <1>3, <2>1, LeastNumber
    <2> HIDE DEF Ends, e
    <2> QED
        BY <1>2, <2>1
<1>5. e \in 0..L /\ (p < L => e > p)
    <2>1. CASE Ends = {}
        <3> HIDE DEF Ends, L, e
        <3> QED
            BY <1>1, <1>2, <2>1
    <2>2. CASE Ends # {}
        <3> HIDE DEF Ends, L, e
        <3>1. e \in (p + 1)..L
            BY <1>3, <1>4, <2>2
        <3> QED
            BY <1>1, <3>1
    <2> QED
        BY <2>1, <2>2
<1>6. ASSUME NEW q \in (p + 1)..L, T!bytes[q] = "nl", \A j \in (p + 1)..(q - 1) : T!bytes[j] # "nl"
      PROVE  e = q
    <2>1. q \in Ends
        BY <1>6
    <2>2. e \in Ends /\ e <= q
        <3> HIDE DEF Ends, e
        <3> QED
            BY <1>4, <2>1
    <2>3. e \in (p + 1)..L /\ T!bytes[e] = "nl"
        <3> HIDE DEF e
        <3> QED
            BY <2>2
    <2> HIDE DEF e, L
    <2>4. e \notin (p + 1)..(q - 1)
        BY <1>6, <2>3
    <2> QED
        BY <1>1, <2>2, <2>3, <2>4
<1>7. ASSUME \A j \in (p + 1)..L : T!bytes[j] # "nl" PROVE e = L
    <2>1. Ends = {}
        BY <1>7
    <2> QED
        BY <1>2, <2>1
<1> HIDE DEF e, L
<1> QED
    BY <1>5, <1>6, <1>7 DEF e, L

LEMMA LineType ==
    ASSUME T!bytes \in Seq(TextBytes), NEW p \in 0..Len(T!bytes)
    PROVE  /\ T!Line(p).pos \in 0..Len(T!bytes) /\ T!Line(p).text \in Seq(TextBytes)
           /\ T!Line(p).eof <=> p = Len(T!bytes)
           /\ p # Len(T!bytes) => T!Line(p).pos > p
<1> DEFINE L == Len(T!bytes)
           e == T!EndOfLine(p)
           n == IF T!At(e) # "nl" THEN e
                ELSE IF e - 1 > p /\ T!At(e - 1) = "cr" THEN e - 2 ELSE e - 1
           s == SubSeq(T!bytes, p + 1, n)
<1>1. T!Line(p) = [eof |-> p = L, text |-> s, pos |-> e]
    BY DEF T!Line
<1>2. e \in 0..L /\ (p < L => e > p)
    BY EndOfLineIs
<1>3. L \in Nat /\ p \in Nat /\ p <= L /\ \A i \in 1..L : T!bytes[i] \in TextBytes
    OBVIOUS
<1>4. s \in Seq(TextBytes)
    <2>1. n \in Int /\ n <= L
        <3>1. n \in {e, e - 1, e - 2}
            OBVIOUS
        <3> HIDE DEF n, e, L
        <3> QED
            BY <1>2, <1>3, <3>1
    <2> HIDE DEF n, e, L
    <2>2. p + 1 \in Int /\ \A i \in (p + 1)..n : T!bytes[i] \in TextBytes
        BY <1>3, <2>1
    <2> QED
        BY <2>1, <2>2, SubSeqProperties
<1> DEFINE r0 == T!Line(p)
           atEnd == p = L
<1>5. r0 = [eof |-> atEnd, text |-> s, pos |-> e]
    BY <1>1
<1> HIDE DEF s, e, r0, atEnd
<1>6. (r0.eof <=> atEnd) /\ r0.text = s /\ r0.pos = e
    BY <1>5
<1> HIDE DEF L
<1> QED
    BY <1>2, <1>3, <1>4, <1>6 DEF L, r0, atEnd

\* A line that ends in CRLF is read without it.
LEMMA LineIs ==
    ASSUME T!bytes \in Seq(TextBytes), NEW p \in Nat, NEW l \in Seq(TextBytes),
           NEW q, q = p + Len(l) + 2, q <= Len(T!bytes),
           \A k \in 1..Len(l) : l[k] # "nl" /\ T!bytes[p + k] = l[k],
           T!bytes[p + Len(l) + 1] = "cr", T!bytes[q] = "nl"
    PROVE  ~T!Line(p).eof /\ T!Line(p).text = l /\ T!Line(p).pos = q
<1> DEFINE L == Len(T!bytes)
           e == T!EndOfLine(p)
           len == Len(l)
           n == IF T!At(e) # "nl" THEN e
                ELSE IF e - 1 > p /\ T!At(e - 1) = "cr" THEN e - 2 ELSE e - 1
           s == SubSeq(T!bytes, p + 1, n)
<1>1. L \in Nat /\ len \in Nat /\ q = p + len + 2 /\ q <= L
    OBVIOUS
<1>2. p \in 0..L /\ p # L /\ q \in (p + 1)..L /\ q - 1 = p + len + 1 /\ q \in 1..L /\ q - 1 \in 1..L /\ q - 1 > p
    <2> HIDE DEF L, len
    <2>1. q \in Nat
        BY <1>1
    <2> QED
        BY ONLY <1>1, <2>1, p \in Nat
<1>3. ASSUME NEW j \in (p + 1)..(q - 1) PROVE T!bytes[j] # "nl"
    <2> DEFINE k == j - p
    <2>1. (k \in 1..len /\ j = p + k) \/ j = p + len + 1
        <3> HIDE DEF L, len
        <3> QED
            BY <1>1
    <2>2. CASE k \in 1..len /\ j = p + k
        <3> HIDE DEF k
        <3> QED
            BY <2>2
    <2>3. CASE j = p + len + 1
        BY <2>3
    <2> QED
        BY <2>1, <2>2, <2>3
<1>4. e = q
    <2> HIDE DEF e
    <2> QED
        BY <1>2, <1>3, EndOfLineIs DEF e
<1>5. T!At(q) = "nl" /\ T!At(q - 1) = "cr"
    BY <1>2 DEF T!At
<1>6. n = q - 2
    <2> HIDE DEF e
    <2> QED
        BY <1>2, <1>4, <1>5
<1>7. T!Line(p) = [eof |-> p = L, text |-> s, pos |-> e]
    BY DEF T!Line
<1>8. s = l
    <2>1. n = p + len /\ p + len <= L
        <3> HIDE DEF n, len, L
        <3> QED
            BY <1>1, <1>6
    <2>2. \A k \in 1..Len(l) : T!bytes[p + k] = l[k]
        OBVIOUS
    <2> HIDE DEF n
    <2>3. SubSeq(T!bytes, p + 1, p + len) = l
        BY <2>1, <2>2, FoundIn
    <2> QED
        BY <2>1, <2>3
<1> DEFINE r0 == T!Line(p)
           atEnd == p = L
<1>9. r0 = [eof |-> atEnd, text |-> s, pos |-> e]
    BY <1>7
<1> HIDE DEF s, e, r0, atEnd
<1>10. (r0.eof <=> atEnd) /\ r0.text = s /\ r0.pos = e
    BY <1>9
<1> QED
    BY <1>2, <1>4, <1>8, <1>10 DEF atEnd, r0

\* All of the block has come, and then a line of one letter.
HoldsBlock(E) == Carries(E) /\ Len(E) <= Len(T!bytes)
Trails(n) ==
    /\ Len(T!bytes) = n + 3
    /\ T!bytes[n + 1] = "x" /\ T!bytes[n + 2] = "cr" /\ T!bytes[n + 3] = "nl"

Unescaped(s) == IF s # <<>> /\ s[1] = "dot" THEN Tail(s) ELSE s

\* A line of the text is read with its escape.
LEMMA BlockLine ==
    ASSUME NEW t, NEW E, NEW X, NEW o, NEW d, Coded(t, E, X, o, d), HoldsBlock(E), NEW i \in 1..Len(t)
    PROVE  LET g == T!Line(o[i - 1])
           IN  ~g.eof /\ g.pos = o[i] /\ g.text # <<"dot">> /\ Unescaped(g.text) = t[i]
<1> DEFINE l == t[i]
           p == o[i - 1]
           q == o[i]
           e == Escaped(l)
           N == Len(E)
           L == Len(T!bytes)
           len == Len(l)
           head == IF e = 1 THEN <<"dot">> ELSE <<>>
           s == head \o l
<1>1. /\ T!bytes \in Seq(TextBytes) /\ N <= L /\ N \in Nat /\ L \in Nat
      /\ \A j \in 1..L : j <= N => T!bytes[j] = E[j]
    <2>1. /\ T!bytes \in Seq(TextBytes) /\ N <= L
          /\ \A j \in 1..L : j <= N => T!bytes[j] = E[j]
        BY DEF HoldsBlock, Carries
    <2>2. E \in Seq(T!LineBytes \cup {"nl"})
        BY DEF Coded
    <2>3. N \in Nat /\ L \in Nat
        BY <2>1, <2>2
    <2> QED
        BY <2>1, <2>3
<1>2. l \in Seq(T!LineBytes) /\ q = p + e + len + 2 /\ LineCoded(l, E, X, p, d[i - 1]) /\ N = o[Len(t)] + 3
    BY DEF Coded
<1>3. p \in Nat /\ q \in Nat /\ q <= N
    <2>1. i \in 0..Len(t) /\ i - 1 \in 0..Len(t) /\ Len(t) \in 0..Len(t)
        BY DEF Coded
    <2>2. p \in Nat /\ q \in Nat /\ o[Len(t)] \in Nat /\ q <= o[Len(t)]
        BY <2>1, LinesFit
    <2> QED
        BY <1>2, <2>2
<1>4. /\ e \in 0..1 /\ len \in Nat /\ \A k \in 1..len : l[k] \in T!LineBytes
      /\ e = 1 => len > 0 /\ l[1] = "dot"
      /\ e = 0 => (len > 0 => l[1] # "dot")
    BY <1>2, EscapedIs
<1>5. /\ e = 1 => E[p + 1] = "dot"
      /\ \A k \in 1..len : E[p + e + k] = l[k]
      /\ E[p + e + len + 1] = "cr" /\ E[p + e + len + 2] = "nl"
    BY <1>2 DEF LineCoded
<1>6. /\ head \in Seq(TextBytes) /\ Len(head) = e /\ (e = 1 => head[1] = "dot")
      /\ l \in Seq(TextBytes) /\ \A k \in 1..len : l[k] # "nl"
    <2>1. "dot" \in TextBytes /\ T!LineBytes \subseteq TextBytes /\ "nl" \notin T!LineBytes
        BY DEF TextBytes, T!LineBytes, T!Letters
    <2>2. e = 0 \/ e = 1
        BY <1>4
    <2> HIDE DEF e, l
    <2>3. <<"dot">> \in Seq(TextBytes) /\ <<>> \in Seq(TextBytes) /\ Len(<<"dot">>) = 1 /\ Len(<<>>) = 0
        BY <2>1
    <2> QED
        BY <1>2, <1>4, <2>1, <2>2, <2>3
<1> HIDE DEF head
<1>7. Joins(TextBytes, head, l, s)
    BY <1>6, ConcatJoins
<1> HIDE DEF s
<1> DEFINE h == 1
           m == Len(s)
<1>8. s \in Seq(TextBytes) /\ m = e + len /\ q = p + m + 2 /\ h \in Nat /\ m \in Nat
    <2>1. s \in Seq(TextBytes) /\ m = e + len
        BY <1>6, <1>7 DEF Joins
    <2> HIDE DEF m, e, len, q, p
    <2> QED
        BY <1>2, <1>3, <1>4, <2>1
<1>9. /\ \A k \in 1..len : s[e + k] = l[k]
      /\ e = 1 => s[1] = "dot"
    <2>1. /\ \A k \in 1..e : s[k] = head[k]
          /\ \A k \in 1..len : s[e + k] = l[k]
        BY <1>6, <1>7 DEF Joins
    <2>2. ASSUME e = 1 PROVE s[1] = "dot"
        <3>1. 1 \in 1..e
            BY <2>2
        <3> HIDE DEF e
        <3> QED
            BY <1>6, <2>1, <2>2, <3>1
    <2> QED
        BY <2>1, <2>2
<1>10. \A j \in 1..N : T!bytes[j] = E[j]
    <2>1. \A j \in 1..N : j \in 1..L /\ j <= N
        <3> HIDE DEF N, L
        <3> QED
            BY <1>1
    <2> QED
        BY <1>1, <2>1
<1>11. ASSUME NEW k \in 1..m PROVE s[k] # "nl" /\ T!bytes[p + k] = s[k]
    <2>1. p + k \in 1..N
        <3> HIDE DEF m, q, p, e, len, N
        <3> QED
            BY <1>1, <1>3, <1>8
    <2>2. CASE k <= e
        <3>1. k = 1 /\ e = 1
            <4> HIDE DEF e, m
            <4> QED
                BY <1>4, <1>8, <2>2
        <3> QED
            BY <1>5, <1>9, <1>10, <2>1, <3>1
    <2>3. CASE ~(k <= e)
        <3> DEFINE j == k - e
        <3>1. j \in 1..len /\ e + j = k /\ p + e + j = p + k
            <4> HIDE DEF e, m, p, len
            <4> QED
                BY <1>3, <1>4, <1>8, <2>3
        <3> HIDE DEF j
        <3>2. s[k] = l[j] /\ E[p + k] = l[j]
            <4>1. s[e + j] = l[j] /\ E[p + e + j] = l[j]
                BY <1>5, <1>9, <3>1
            <4> QED
                BY <3>1, <4>1
        <3> QED
            BY <1>6, <1>10, <2>1, <3>1, <3>2
    <2> QED
        BY <2>2, <2>3
<1>12. q <= L /\ T!bytes[p + m + 1] = "cr" /\ T!bytes[q] = "nl"
    <2>1. q <= L /\ q \in 1..N /\ p + m + 1 \in 1..N /\ p + m + 1 = p + e + len + 1 /\ q = p + e + len + 2
        <3>1. /\ N <= L /\ N \in Nat /\ L \in Nat /\ p \in Nat /\ q \in Nat /\ q <= N
              /\ e \in 0..1 /\ len \in Nat /\ m = e + len /\ q = p + m + 2
            BY <1>1, <1>3, <1>4, <1>8
        <3> HIDE DEF q, m, p, e, len, N, L
        <3> QED
            BY ONLY <3>1
    <2> HIDE DEF q, m, p, e, len, N
    <2> QED
        BY <1>5, <1>10, <2>1
<1>13. ~T!Line(p).eof /\ T!Line(p).text = s /\ T!Line(p).pos = q
    <2>1. T!bytes \in Seq(TextBytes) /\ p \in Nat /\ s \in Seq(TextBytes)
        BY <1>1, <1>3, <1>8
    <2>2. q = p + Len(s) + 2 /\ q <= Len(T!bytes) /\ T!bytes[p + Len(s) + 1] = "cr" /\ T!bytes[q] = "nl"
        BY <1>8, <1>12
    <2>3. \A k \in 1..Len(s) : s[k] # "nl" /\ T!bytes[p + k] = s[k]
        BY <1>11
    <2> HIDE DEF q, p, L, N, len, e, m
    <2> QED
        BY ONLY <2>1, <2>2, <2>3, LineIs, SMTT(30)
<1>14. CASE e = 1
    <2>1. s # <<>> /\ s[1] = "dot" /\ m = 1 + len /\ len > 0
        BY <1>4, <1>8, <1>9, <1>14
    <2>2. Tail(s) \in Seq(TextBytes) /\ Len(Tail(s)) = len /\ \A k \in 1..len : Tail(s)[k] = s[k + 1]
        <3> DEFINE z == Tail(s)
        <3>1. z \in Seq(TextBytes) /\ Len(z) = m - 1 /\ \A k \in 1..Len(z) : z[k] = s[k + 1]
            BY <1>8, <2>1, HeadTailProperties
        <3>2. m - 1 = len
            BY <1>4, <2>1
        <3> HIDE DEF z, m
        <3> QED
            BY <3>1, <3>2 DEF z
    <2>3. \A k \in 1..len : s[k + 1] = l[k]
        <3>1. ASSUME NEW k \in 1..len PROVE s[k + 1] = l[k]
            <4>1. e + k = k + 1
                BY <1>4, <1>14
            <4> QED
                BY <1>9, <4>1
        <3> QED
            BY <3>1
    <2>4. Tail(s) = l
        <3> DEFINE z == Tail(s)
        <3>1. z \in Seq(TextBytes) /\ Len(z) = Len(l) /\ \A k \in 1..Len(z) : z[k] = l[k]
            BY <2>2, <2>3
        <3> HIDE DEF z, l
        <3> QED
            BY <1>6, <3>1, SeqEqual DEF z
    <2>5. s # <<"dot">>
        <3>1. m > 1
            <4>1. m = 1 + len /\ len > 0 /\ len \in Nat
                BY <1>4, <2>1
            <4> HIDE DEF m, len
            <4> QED
                BY ONLY <4>1
        <3>2. Len(<<"dot">>) = 1 /\ Len(s) = m
            BY <1>8
        <3>3. ASSUME s = <<"dot">> PROVE FALSE
            <4>1. Len(s) = 1
                BY ONLY <3>2, <3>3
            <4> HIDE DEF s, m
            <4> QED
                BY ONLY <3>1, <3>2, <4>1
        <3> QED
            BY <3>3
    <2> QED
        BY <1>13, <2>1, <2>4, <2>5 DEF Unescaped
<1>15. CASE e = 0
    <2>1. \A k \in 1..len : s[k] = l[k]
        <3>1. ASSUME NEW k \in 1..len PROVE s[k] = l[k]
            <4>1. e + k = k
                BY <1>4, <1>15
            <4> QED
                BY <1>9, <4>1
        <3> QED
            BY <3>1
    <2>2. m = len
        <3> HIDE DEF m, len
        <3> QED
            BY <1>4, <1>8, <1>15
    <2>3. s = l
        <3> HIDE DEF l
        <3> QED
            BY <1>6, <1>8, <2>1, <2>2, SeqEqual
    <2>4. ~(s # <<>> /\ s[1] = "dot")
        <3>1. ASSUME s # <<>> PROVE s[1] # "dot"
            <4>1. m > 0
                BY <1>8, <3>1
            <4> HIDE DEF m, len
            <4> QED
                BY <1>4, <1>15, <2>2, <2>3, <4>1
        <3> QED
            BY <3>1
    <2>5. s # <<"dot">>
        BY <2>4
    <2> QED
        BY <1>13, <2>3, <2>4, <2>5 DEF Unescaped
<1> QED
    BY <1>4, <1>14, <1>15

\* The line that ends the block.
LEMMA DotLine ==
    ASSUME NEW t, NEW E, NEW X, NEW o, NEW d, Coded(t, E, X, o, d), HoldsBlock(E)
    PROVE  LET g == T!Line(o[Len(t)])
           IN  ~g.eof /\ g.pos = Len(E) /\ g.text = <<"dot">>
<1> DEFINE p == o[Len(t)]
           N == Len(E)
           l == <<"dot">>
<1>1. /\ N = p + 3 /\ p \in Nat /\ N <= Len(T!bytes) /\ T!bytes \in Seq(TextBytes)
      /\ E[p + 1] = "dot" /\ E[p + 2] = "cr" /\ E[p + 3] = "nl"
    <2>1. Len(t) \in 0..Len(t)
        BY DEF Coded
    <2>2. p \in Nat
        BY <2>1, LinesFit
    <2> QED
        BY <2>2 DEF Coded, HoldsBlock, Carries
<1>2. T!bytes[p + 1] = "dot" /\ T!bytes[p + 2] = "cr" /\ T!bytes[p + 3] = "nl"
    <2>1. \A j \in 1..Len(T!bytes) : j <= N => T!bytes[j] = E[j]
        BY DEF HoldsBlock, Carries
    <2>2. Len(T!bytes) \in Nat
        BY <1>1
    <2> DEFINE L == Len(T!bytes)
    <2> HIDE DEF N, L, p
    <2>3. p + 1 \in 1..L /\ p + 2 \in 1..L /\ p + 3 \in 1..L /\ p + 1 <= N /\ p + 2 <= N /\ p + 3 <= N
        BY <1>1, <2>2 DEF L
    <2> QED
        BY <1>1, <2>1, <2>3 DEF L
<1>3. /\ l \in Seq(TextBytes) /\ Len(l) = 1 /\ l[1] = "dot"
    <2>1. "dot" \in TextBytes
        BY DEF TextBytes, T!LineBytes
    <2> QED
        BY <2>1
<1> HIDE DEF l, p, N
<1>4. N = p + Len(l) + 2 /\ p + Len(l) + 1 = p + 2
    BY <1>1, <1>3
<1>5. \A k \in 1..Len(l) : l[k] # "nl" /\ T!bytes[p + k] = l[k]
    BY <1>2, <1>3
<1>6. T!bytes[p + Len(l) + 1] = "cr" /\ T!bytes[N] = "nl"
    BY <1>1, <1>2, <1>4
<1>7. ~T!Line(p).eof /\ T!Line(p).text = l /\ T!Line(p).pos = N
    BY <1>1, <1>3, <1>4, <1>5, <1>6, LineIs
<1> QED
    BY <1>7 DEF l, p, N

\* The line behind the block.
LEMMA LineBehind ==
    ASSUME NEW N \in Nat, T!bytes \in Seq(TextBytes), Trails(N)
    PROVE  ~T!Line(N).eof /\ T!Line(N).text = <<"x">>
<1> DEFINE l == <<"x">>
           q == N + 3
<1>1. /\ l \in Seq(TextBytes) /\ Len(l) = 1 /\ l[1] = "x"
    <2>1. "x" \in TextBytes
        BY DEF TextBytes, T!LineBytes, T!Letters
    <2> QED
        BY <2>1
<1>2. /\ q = Len(T!bytes) /\ q \in Nat /\ q = N + 3
      /\ T!bytes[N + 1] = "x" /\ T!bytes[N + 2] = "cr" /\ T!bytes[q] = "nl"
    BY DEF Trails
<1> HIDE DEF l, q
<1>3. q = N + Len(l) + 2 /\ N + Len(l) + 1 = N + 2 /\ q <= Len(T!bytes)
    BY <1>1, <1>2
<1>4. \A k \in 1..Len(l) : l[k] # "nl" /\ T!bytes[N + k] = l[k]
    BY <1>1, <1>2
<1>5. T!bytes[N + Len(l) + 1] = "cr"
    BY <1>2, <1>3
<1>6. ~T!Line(N).eof /\ T!Line(N).text = l /\ T!Line(N).pos = q
    BY <1>1, <1>2, <1>3, <1>4, <1>5, LineIs
<1> QED
    BY <1>6 DEF l

\* DotLines' recursion: F at a position.
DotErrors == {"none", "unexpected EOF"}
Gathering(F) ==
    \A p \in 0..Len(T!bytes) :
        LET g == T!Line(p)
        IN  F[p] = IF g.eof THEN [lines |-> <<>>, pos |-> p, err |-> "unexpected EOF"]
                   ELSE IF g.text = <<"dot">> THEN [lines |-> <<>>, pos |-> g.pos, err |-> "none"]
                   ELSE [F[g.pos] EXCEPT !.lines = <<Unescaped(g.text)>> \o @]
LinesGathered == [lines : Seq(Seq(TextBytes)), pos : Nat, err : DotErrors]

LEMMA DotLinesRecursion ==
    ASSUME T!bytes \in Seq(TextBytes)
    PROVE  \E F : T!DotLines = F[0] /\ Gathering(F)
<1> DEFINE L == Len(T!bytes)
           D == 0..L
           V == LinesGathered
           Ends(p, q, e) == [lines |-> <<>>, pos |-> q, err |-> e]
           Body(F, p) ==
                IF T!Line(p).eof THEN Ends(p, p, "unexpected EOF")
                ELSE IF T!Line(p).text = <<"dot">> THEN Ends(p, T!Line(p).pos, "none")
                ELSE [F[T!Line(p).pos] EXCEPT !.lines = <<Unescaped(T!Line(p).text)>> \o @]
           F == CHOOSE f : f = [p \in D |-> Body(f, p)]
           Stop == {p \in D : T!Line(p).eof \/ T!Line(p).text = <<"dot">>}
           val == [p \in D |-> IF T!Line(p).eof THEN Ends(p, p, "unexpected EOF")
                               ELSE Ends(p, T!Line(p).pos, "none")]
           next == [p \in D |-> T!Line(p).pos]
           m == [p \in D |-> L - p]
           step == [x \in D \X V |-> [x[2] EXCEPT !.lines = <<Unescaped(T!Line(x[1]).text)>> \o @]]
<1>1. L \in Nat /\ 0 \in D
    <2>1. L \in Nat
        OBVIOUS
    <2> HIDE DEF L
    <2> QED
        BY <2>1
<1>2. ASSUME NEW p \in D
      PROVE  /\ T!Line(p).pos \in D /\ T!Line(p).text \in Seq(TextBytes) /\ p \in Nat
             /\ ~T!Line(p).eof => T!Line(p).pos > p
             /\ Unescaped(T!Line(p).text) \in Seq(TextBytes)
    <2>1. /\ T!Line(p).pos \in D /\ T!Line(p).text \in Seq(TextBytes) /\ p \in Nat
          /\ ~T!Line(p).eof => T!Line(p).pos > p
        BY LineType
    <2> DEFINE s == T!Line(p).text
    <2>2. s \in Seq(TextBytes)
        BY <2>1
    <2> HIDE DEF s
    <2>3. Unescaped(s) \in Seq(TextBytes)
        BY <2>2, HeadTailProperties DEF Unescaped
    <2> QED
        BY <2>1, <2>3 DEF s
<1>3. \A q \in Nat, e \in DotErrors : Ends(0, q, e) \in V
    <2>1. <<>> \in Seq(Seq(TextBytes))
        OBVIOUS
    <2> QED
        BY <2>1 DEF LinesGathered
<1>4. V # {}
    <2>1. "none" \in DotErrors /\ 0 \in Nat
        BY DEF DotErrors
    <2> HIDE DEF V
    <2> QED
        BY <1>3, <2>1
<1>5. \A p \in D : m[p] \in Nat /\ m[p] <= L
    <2> HIDE DEF L
    <2> QED
        BY <1>1
<1>6. ASSUME NEW p \in D, p \in Stop PROVE val[p] \in V
    <2>1. "none" \in DotErrors /\ "unexpected EOF" \in DotErrors /\ p \in Nat /\ T!Line(p).pos \in Nat
        BY <1>1, <1>2 DEF DotErrors
    <2>2. val[p] \in {Ends(0, p, "unexpected EOF"), Ends(0, T!Line(p).pos, "none")}
        OBVIOUS
    <2> HIDE DEF val, V, Stop, D, Ends
    <2> QED
        BY <1>3, <2>1, <2>2
<1>7. ASSUME NEW p \in D, p \notin Stop
      PROVE  next[p] \in D /\ m[next[p]] < m[p] /\ \A x \in V : step[<<p, x>>] \in V
    <2> DEFINE q == T!Line(p).pos
               l == Unescaped(T!Line(p).text)
               one == <<l>>
    <2>1. next[p] = q /\ ~T!Line(p).eof
        BY <1>7
    <2>2. q \in D /\ q > p /\ l \in Seq(TextBytes)
        BY <1>2, <2>1
    <2>3. m[q] < m[p]
        <3>1. m[q] = L - q /\ m[p] = L - p
            <4> HIDE DEF q
            <4> QED
                BY <2>2
        <3> HIDE DEF m, q, L
        <3> QED
            BY <1>1, <2>2, <3>1
    <2>4. one \in Seq(Seq(TextBytes))
        <3> HIDE DEF l
        <3> QED
            BY <2>2
    <2>5. ASSUME NEW x \in V PROVE step[<<p, x>>] \in V
        <3>1. step[<<p, x>>] = [x EXCEPT !.lines = one \o @]
            <4>1. <<p, x>> \in D \X V
                OBVIOUS
            <4>2. \A y \in D \X V : step[y] = [y[2] EXCEPT !.lines = <<Unescaped(T!Line(y[1]).text)>> \o @]
                <5> HIDE DEF D, V
                <5> QED
                    OBVIOUS
            <4> HIDE DEF D, V, step
            <4> QED
                BY <4>1, <4>2
        <3>2. x.lines \in Seq(Seq(TextBytes))
            BY DEF LinesGathered
        <3> DEFINE y == one \o x.lines
        <3>3. y \in Seq(Seq(TextBytes))
            <4> HIDE DEF one, V
            <4> QED
                BY <2>4, <3>2
        <3>4. [x EXCEPT !.lines = one \o @] = [x EXCEPT !.lines = y]
            OBVIOUS
        <3> HIDE DEF one, y, step
        <3>5. [x EXCEPT !.lines = y] \in V
            BY <3>3 DEF LinesGathered
        <3> QED
            BY <3>1, <3>4, <3>5
    <2> HIDE DEF next, m, step, V, D
    <2> QED
        BY <2>1, <2>2, <2>3, <2>5
<1>8. Descends(D, V, L, m, Stop, val, next, step)
    <2> HIDE DEF D, V, m, Stop, val, next, step, L
    <2> QED
        BY <1>1, <1>4, <1>5, <1>6, <1>7 DEF Descends
<1>9. PICK f \in [D -> V] : \A p \in D : f[p] = IF p \in Stop THEN val[p] ELSE step[<<p, f[next[p]]>>]
    <2> HIDE DEF D, V, m, Stop, val, next, step, L
    <2> QED
        BY <1>8, RecursionDown
<1>10. ASSUME NEW p \in D PROVE f[p] = Body(f, p)
    <2>1. CASE p \in Stop
        <3>1. f[p] = val[p]
            <4> HIDE DEF D, V, Stop, val, next, step
            <4> QED
                BY <1>9, <2>1
        <3> QED
            BY <2>1, <3>1
    <2>2. CASE p \notin Stop
        <3>1. f[p] = step[<<p, f[next[p]]>>] /\ next[p] \in D
            <4> HIDE DEF D, V, Stop, val, next, step, m
            <4> QED
                BY <1>7, <1>9, <2>2
        <3> DEFINE x == f[next[p]]
                   l == Unescaped(T!Line(p).text)
        <3>2. x \in V
            <4> HIDE DEF D, V, next
            <4> QED
                BY <1>9, <3>1
        <3>3. step[<<p, x>>] = [x EXCEPT !.lines = <<l>> \o @]
            <4> HIDE DEF x, V, D
            <4> QED
                BY <3>2
        <3>4. x = f[T!Line(p).pos]
            OBVIOUS
        <3>5. ~T!Line(p).eof /\ T!Line(p).text # <<"dot">>
            BY <2>2
        <3> HIDE DEF x, step, V, D, l
        <3>6. f[p] = [x EXCEPT !.lines = <<l>> \o @]
            BY <3>1, <3>3 DEF x
        <3> QED
            BY <3>4, <3>5, <3>6 DEF l
    <2> QED
        BY <2>1, <2>2
<1>11. f = [p \in D |-> Body(f, p)]
    <2> HIDE DEF D, V, Body
    <2> QED
        BY <1>9, <1>10
<1>12. F = [p \in D |-> Body(F, p)]
    <2> HIDE DEF D, Body
    <2> QED
        BY <1>11
<1>13. T!DotLines = F[0]
    BY DEF T!DotLines, Unescaped
<1>14. Gathering(F)
    <2>1. ASSUME NEW p \in D PROVE F[p] = Body(F, p)
        <3> HIDE DEF F, D, Body
        <3> QED
            BY <1>12
    <2> HIDE DEF F
    <2> QED
        BY <2>1 DEF Gathering
<1> QED
    BY <1>13, <1>14

LEMMA LinesGatheredType ==
    ASSUME T!bytes \in Seq(TextBytes), NEW F, Gathering(F), NEW p \in 0..Len(T!bytes)
    PROVE  F[p] \in LinesGathered
<1> DEFINE L == Len(T!bytes)
           D == 0..L
           m == [i \in D |-> L - i]
           G == {i \in D : F[i] \in LinesGathered}
           Ends(q, e) == [lines |-> <<>>, pos |-> q, err |-> e]
<1>1. L \in Nat
    OBVIOUS
<1>2. \A i \in D : m[i] \in Nat
    <2> HIDE DEF L
    <2> QED
        BY <1>1
<1>3. \A q \in Nat, e \in DotErrors : Ends(q, e) \in LinesGathered
    <2>1. <<>> \in Seq(Seq(TextBytes))
        OBVIOUS
    <2> QED
        BY <2>1 DEF LinesGathered
<1>4. ASSUME NEW i \in D, \A j \in D : m[j] < m[i] => j \in G PROVE i \in G
    <2> DEFINE q == T!Line(i).pos
               l == Unescaped(T!Line(i).text)
               one == <<l>>
               y == F[i]
    <2>1. /\ q \in D /\ l \in Seq(TextBytes) /\ i \in Nat /\ q \in Nat
          /\ ~T!Line(i).eof => q > i
        <3>1. /\ q \in D /\ T!Line(i).text \in Seq(TextBytes) /\ i \in Nat /\ q \in Nat
              /\ ~T!Line(i).eof => q > i
            BY LineType
        <3> DEFINE s == T!Line(i).text
        <3>2. s \in Seq(TextBytes)
            BY <3>1
        <3> HIDE DEF s
        <3>3. Unescaped(s) \in Seq(TextBytes)
            BY <3>2, HeadTailProperties DEF Unescaped
        <3> QED
            BY <3>1, <3>3 DEF s
    <2>2. y = IF T!Line(i).eof THEN Ends(i, "unexpected EOF")
              ELSE IF T!Line(i).text = <<"dot">> THEN Ends(q, "none")
              ELSE [F[q] EXCEPT !.lines = one \o @]
        BY DEF Gathering
    <2>3. "none" \in DotErrors /\ "unexpected EOF" \in DotErrors
        BY DEF DotErrors
    <2>4. CASE T!Line(i).eof \/ T!Line(i).text = <<"dot">>
        <3>1. y = Ends(i, "unexpected EOF") \/ y = Ends(q, "none")
            BY <2>2, <2>4
        <3> HIDE DEF y, q, Ends
        <3>2. y \in LinesGathered
            BY <1>3, <2>1, <2>3, <3>1
        <3> QED
            BY <3>2 DEF y
    <2>5. CASE ~T!Line(i).eof /\ T!Line(i).text # <<"dot">>
        <3>1. m[q] < m[i]
            <4>1. m[q] = L - q /\ m[i] = L - i
                <5> HIDE DEF q
                <5> QED
                    BY <2>1
            <4> HIDE DEF m, q, L
            <4> QED
                BY <1>1, <2>1, <2>5, <4>1
        <3> DEFINE x == F[q]
        <3>2. x \in LinesGathered
            <4> HIDE DEF m, q, D
            <4> QED
                BY <1>4, <2>1, <3>1
        <3>3. y = [x EXCEPT !.lines = one \o @]
            BY <2>2, <2>5
        <3> HIDE DEF x, y, q
        <3>4. x.lines \in Seq(Seq(TextBytes))
            BY <3>2 DEF LinesGathered
        <3>5. one \in Seq(Seq(TextBytes))
            <4> HIDE DEF l
            <4> QED
                BY <2>1
        <3> DEFINE z == one \o x.lines
        <3> HIDE DEF one
        <3>6. z \in Seq(Seq(TextBytes)) /\ y = [x EXCEPT !.lines = z]
            BY <3>3, <3>4, <3>5
        <3> HIDE DEF z
        <3>7. y \in LinesGathered
            BY <3>2, <3>6 DEF LinesGathered
        <3> QED
            BY <3>7 DEF y
    <2> QED
        BY <2>4, <2>5
<1> HIDE DEF m
<1>5. D \subseteq G
    <2> HIDE DEF D, G
    <2> QED
        BY <1>2, <1>4, MeasureInduction
<1> QED
    BY <1>5

\* What is gathered from a line of the block on.
GatheredFrom(u, t, E, i) ==
    /\ u.pos = Len(E) /\ u.err = "none"
    /\ u.lines \in Seq(Seq(TextBytes)) /\ Len(u.lines) = Len(t) - i
    /\ \A k \in 1..(Len(t) - i) : u.lines[k] = t[i + k]

LEMMA BlockGathered ==
    ASSUME NEW t, NEW E, NEW X, NEW o, NEW d, Coded(t, E, X, o, d), HoldsBlock(E)
    PROVE  T!DotLines.lines = t /\ T!DotLines.pos = Len(E) /\ T!DotLines.err = "none"
<1> DEFINE n == Len(t)
           L == Len(T!bytes)
<1>1. /\ n \in Nat /\ t \in Seq(Seq(T!LineBytes)) /\ t \in Seq(Seq(TextBytes)) /\ o[0] = 0
      /\ T!bytes \in Seq(TextBytes) /\ L \in Nat /\ Len(E) <= L
      /\ n \in 0..n
    <2>1. t \in Seq(Seq(T!LineBytes)) /\ o[0] = 0 /\ T!bytes \in Seq(TextBytes) /\ Len(E) <= L
        BY DEF Coded, HoldsBlock, Carries
    <2>2. Seq(T!LineBytes) \subseteq Seq(TextBytes)
        BY DEF TextBytes
    <2>3. t \in Seq(Seq(TextBytes)) /\ n \in Nat
        BY <2>1, <2>2
    <2>4. L \in Nat
        BY <2>1
    <2> HIDE DEF n
    <2> QED
        BY <2>1, <2>3, <2>4
<1>2. PICK F : T!DotLines = F[0] /\ Gathering(F)
    BY <1>1, DotLinesRecursion
<1>3. \A i \in 0..n : o[i] \in 0..L
    <2>1. ASSUME NEW i \in 0..n PROVE o[i] \in 0..L
        <3> DEFINE a == o[i]
                   z == o[n]
                   N == Len(E)
        <3>1. a \in Nat /\ z \in Nat /\ a <= z
            BY <1>1, LinesFit
        <3>2. N = z + 3 /\ N <= L
            BY <1>1 DEF Coded
        <3> HIDE DEF a, z, N, L, n
        <3>3. a \in 0..L
            BY <1>1, <3>1, <3>2
        <3> QED
            BY <3>3 DEF a
    <2> QED
        BY <2>1
<1>4. GatheredFrom(F[o[n]], t, E, n)
    <2> DEFINE p == o[n]
               u == F[p]
    <2>1. p \in 0..L /\ ~T!Line(p).eof /\ T!Line(p).text = <<"dot">> /\ T!Line(p).pos = Len(E)
        BY <1>1, <1>3, DotLine
    <2>2. u = [lines |-> <<>>, pos |-> Len(E), err |-> "none"]
        <3> HIDE DEF p
        <3> QED
            BY <1>2, <2>1 DEF Gathering
    <2>3. <<>> \in Seq(Seq(TextBytes)) /\ Len(<<>>) = 0 /\ n - n = 0 /\ 1..0 = {}
        BY <1>1
    <2> HIDE DEF u, n
    <2>4. GatheredFrom(u, t, E, n)
        BY <2>2, <2>3 DEF GatheredFrom, n
    <2> QED
        BY <2>4 DEF u
<1>5. ASSUME NEW i \in 1..n, GatheredFrom(F[o[i]], t, E, i)
      PROVE  GatheredFrom(F[o[i - 1]], t, E, i - 1)
    <2> DEFINE p == o[i - 1]
               q == o[i]
               g == T!Line(p)
               j == i - 1
               l == t[i]
               one == <<l>>
               x == F[q]
               u == F[p]
    <2>1. ~g.eof /\ g.pos = q /\ g.text # <<"dot">> /\ Unescaped(g.text) = l
        BY BlockLine
    <2>2. p \in 0..L /\ i \in Nat /\ j \in Nat /\ j + 1 = i /\ i <= n
        <3>1. j \in 0..n /\ j \in Nat /\ i \in Nat /\ j + 1 = i /\ i <= n
            <4> HIDE DEF n
            <4> QED
                BY <1>1
        <3> QED
            BY <1>3, <3>1
    <2>3. u = [x EXCEPT !.lines = one \o @]
        <3>1. u = [F[g.pos] EXCEPT !.lines = <<Unescaped(g.text)>> \o @]
            <4> HIDE DEF p
            <4> QED
                BY <1>2, <2>1, <2>2 DEF Gathering
        <3> QED
            BY <2>1, <3>1
    <2>4. x \in LinesGathered
        <3>1. q \in 0..L
            BY <1>1, <1>3
        <3> HIDE DEF q
        <3> QED
            BY <1>1, <1>2, <3>1, LinesGatheredType
    <2>5. one \in Seq(Seq(TextBytes)) /\ Len(one) = 1 /\ one[1] = l
        <3>1. l \in Seq(TextBytes)
            BY <1>1
        <3> HIDE DEF l
        <3> QED
            BY <3>1
    <2> HIDE DEF one, u, x, p, q, g, l
    <2> DEFINE xs == x.lines
               us == one \o xs
               len == n - i
               h == 1
    <2>6. x.pos = Len(E) /\ x.err = "none" /\ xs \in Seq(Seq(TextBytes)) /\ Len(xs) = len
          /\ \A k \in 1..len : xs[k] = t[i + k]
        BY <1>5 DEF GatheredFrom, x, q
    <2>7. u.pos = x.pos /\ u.err = x.err /\ u.lines = us
        <3>1. u = [x EXCEPT !.lines = us]
            BY <2>3
        <3> HIDE DEF us
        <3> QED
            BY <2>4, <3>1 DEF LinesGathered
    <2>8. Joins(Seq(TextBytes), one, xs, us)
        BY <2>5, <2>6, ConcatJoins
    <2> HIDE DEF us, xs
    <2>9. /\ us \in Seq(Seq(TextBytes)) /\ Len(us) = 1 + len
          /\ \A k \in 1..Len(one) : us[k] = one[k]
          /\ \A k \in 1..len : us[Len(one) + k] = xs[k]
        BY <2>5, <2>6, <2>8 DEF Joins
    <2>10. 1 + len = n - j /\ len \in Nat
        <3> HIDE DEF n
        <3> QED
            BY <1>1, <2>2
    <2>11. ASSUME NEW k \in 1..(n - j) PROVE us[k] = t[j + k]
        <3>1. CASE k = 1
            <4>1. j + k = i /\ k \in 1..Len(one)
                BY <2>2, <2>5, <3>1
            <4>2. us[k] = one[k]
                BY <2>9, <4>1
            <4> QED
                BY <2>5, <3>1, <4>1, <4>2 DEF l
        <3>2. CASE k # 1
            <4> DEFINE y == k - 1
            <4>1. y \in 1..len /\ 1 + y = k /\ i + y = j + k
                <5> HIDE DEF n, len
                <5> QED
                    BY <1>1, <2>2, <2>10, <3>2
            <4> HIDE DEF y
            <4>2. us[Len(one) + y] = xs[y] /\ xs[y] = t[i + y]
                BY <2>6, <2>9, <4>1
            <4> QED
                BY <2>5, <4>1, <4>2
        <3> QED
            BY <3>1, <3>2
    <2> HIDE DEF n, len, j
    <2>12. GatheredFrom(u, t, E, j)
        BY <2>6, <2>7, <2>9, <2>10, <2>11 DEF GatheredFrom, n
    <2> QED
        BY <2>12 DEF u, p, j
<1> DEFINE H == {k \in Nat : k <= n => GatheredFrom(F[o[n - k]], t, E, n - k)}
<1>6. \A k \in Nat : k \in H
    <2>1. 0 \in H
        <3>1. n - 0 = n
            BY <1>1
        <3> QED
            BY <1>4, <3>1
    <2>2. ASSUME NEW k \in H PROVE k + 1 \in H
        <3>1. SUFFICES ASSUME k + 1 <= n PROVE GatheredFrom(F[o[n - (k + 1)]], t, E, n - (k + 1))
            BY <2>2
        <3> DEFINE i == n - k
        <3>2. i \in 1..n /\ i - 1 = n - (k + 1) /\ k <= n
            <4> HIDE DEF n
            <4> QED
                BY <1>1, <3>1
        <3>3. GatheredFrom(F[o[i]], t, E, i)
            BY <2>2, <3>2
        <3> HIDE DEF i, n
        <3>4. GatheredFrom(F[o[i - 1]], t, E, i - 1)
            BY <1>5, <3>2, <3>3
        <3> QED
            BY <3>2, <3>4
    <2> HIDE DEF H
    <2> QED
        BY <2>1, <2>2, SetInduction
<1>7. GatheredFrom(F[0], t, E, 0)
    <2>1. n - n = 0 /\ n <= n
        BY <1>1
    <2>2. GatheredFrom(F[o[n - n]], t, E, n - n)
        <3> HIDE DEF n
        <3> QED
            BY <1>1, <1>6, <2>1
    <2> QED
        BY <1>1, <2>1, <2>2
<1> DEFINE u == F[0]
           s == u.lines
<1>8. s \in Seq(Seq(TextBytes)) /\ Len(s) = n /\ \A k \in 1..n : s[k] = t[k]
    <2>1. n - 0 = n /\ \A k \in 1..n : 0 + k = k
        BY <1>1
    <2> HIDE DEF u
    <2> QED
        BY <1>7, <2>1 DEF GatheredFrom, u
<1>9. s = t
    <2> HIDE DEF s
    <2> QED
        BY <1>1, <1>8, SeqEqual
<1> QED
    BY <1>2, <1>7, <1>9 DEF GatheredFrom

\* The end of a line of a block that was cut short.
LEMMA CutLineEnds ==
    ASSUME NEW t, NEW E, NEW X, NEW o, NEW d, Coded(t, E, X, o, d), Carries(E),
           Len(T!bytes) < Len(E), NEW i \in 0..Len(t), o[i] < Len(T!bytes)
    PROVE  LET e == T!EndOfLine(o[i])
           IN  \/ i < Len(t) /\ o[i + 1] <= Len(T!bytes) /\ e = o[i + 1]
               \/ e = Len(T!bytes) /\ T!bytes[e] # "nl"
<1> DEFINE p == o[i]
           L == Len(T!bytes)
           N == Len(E)
           e == T!EndOfLine(p)
<1>1. /\ T!bytes \in Seq(TextBytes) /\ L \in Nat /\ N \in Nat /\ N = o[Len(t)] + 3
      /\ p \in Nat /\ p < L /\ L < N /\ p \in 0..L
    <2>1. T!bytes \in Seq(TextBytes) /\ E \in Seq(T!LineBytes \cup {"nl"}) /\ N = o[Len(t)] + 3 /\ p \in Nat
        BY DEF Coded, Carries
    <2>2. L \in Nat /\ N \in Nat
        BY <2>1
    <2> HIDE DEF p, N
    <2>3. p < L /\ L < N
        BY DEF p, N
    <2> HIDE DEF L
    <2> QED
        BY <2>1, <2>2, <2>3 DEF N
<1>2. \A j \in 1..L : T!bytes[j] = E[j]
    <2>1. \A j \in 1..L : j <= N
        <3> HIDE DEF L, N
        <3> QED
            BY <1>1
    <2> QED
        BY <2>1 DEF Carries
<1>3. ASSUME \A j \in (p + 1)..L : E[j] # "nl"
      PROVE  e = L /\ T!bytes[e] # "nl"
    <2>1. \A j \in (p + 1)..L : j \in 1..L
        <3> HIDE DEF L, p
        <3> QED
            BY <1>1
    <2>2. \A j \in (p + 1)..L : T!bytes[j] # "nl"
        BY <1>2, <1>3, <2>1
    <2>3. e = L
        <3> HIDE DEF e, p
        <3> QED
            BY <1>1, <2>2, EndOfLineIs DEF e
    <2>4. L \in (p + 1)..L
        <3> HIDE DEF L, p
        <3> QED
            BY <1>1
    <2> QED
        BY <2>2, <2>3, <2>4
<1>4. CASE i = Len(t)
    <2>1. E[p + 1] = "dot" /\ E[p + 2] = "cr" /\ N = p + 3
        BY <1>4 DEF Coded
    <2>2. \A j \in (p + 1)..L : j = p + 1 \/ j = p + 2
        <3> HIDE DEF L, p, N
        <3> QED
            BY <1>1, <2>1
    <2> HIDE DEF p, L, e
    <2>3. \A j \in (p + 1)..L : E[j] # "nl"
        BY <2>1, <2>2
    <2> QED
        BY <1>3, <2>3 DEF e, p, L
<1>5. CASE i # Len(t)
    <2> DEFINE k == i + 1
               l == t[k]
               q == o[k]
               s == Escaped(l)
               len == Len(l)
    <2>1. k \in 1..Len(t) /\ k - 1 = i /\ i < Len(t) /\ k \in 0..Len(t)
        <3>1. Len(t) \in Nat
            BY DEF Coded
        <3> QED
            BY <1>5, <3>1
    <2>2. /\ l \in Seq(T!LineBytes) /\ q \in Nat /\ q = p + s + len + 2
          /\ LineCoded(l, E, X, p, d[i])
        <3> HIDE DEF k
        <3>1. /\ o[k] = o[k - 1] + Escaped(t[k]) + Len(t[k]) + 2
              /\ LineCoded(t[k], E, X, o[k - 1], d[k - 1])
            BY <2>1 DEF Coded
        <3>2. t[k] \in Seq(T!LineBytes) /\ o[k] \in Nat
            <4>1. t \in Seq(Seq(T!LineBytes)) /\ o \in [0..Len(t) -> Nat]
                BY DEF Coded
            <4> QED
                BY <2>1, <4>1
        <3>3. o[k - 1] = p /\ d[k - 1] = d[i]
            BY <2>1
        <3> HIDE DEF p, q, l
        <3>4. o[k] = p + Escaped(t[k]) + Len(t[k]) + 2 /\ LineCoded(t[k], E, X, p, d[i])
            BY <3>1, <3>3
        <3> QED
            BY <3>2, <3>4 DEF q, l
    <2>3. /\ s \in 0..1 /\ len \in Nat /\ \A j \in 1..len : l[j] # "nl"
        <3>1. "nl" \notin T!LineBytes
            BY DEF T!LineBytes, T!Letters
        <3> QED
            BY <2>2, <3>1, EscapedIs
    <2>4. /\ s = 1 => E[p + 1] = "dot"
          /\ \A j \in 1..len : E[p + s + j] = l[j]
          /\ E[p + s + len + 1] = "cr" /\ E[p + s + len + 2] = "nl"
        BY <2>2 DEF LineCoded
    <2>5. ASSUME NEW j \in (p + 1)..(q - 1) PROVE E[j] # "nl"
        <3> DEFINE m == j - (p + s)
        <3>1. \/ s = 1 /\ j = p + 1
              \/ m \in 1..len /\ p + s + m = j
              \/ j = p + s + len + 1
            <4> HIDE DEF p, q, s, len
            <4> QED
                BY <1>1, <2>2, <2>3
        <3> HIDE DEF m, p, q, s, len
        <3> QED
            BY <2>3, <2>4, <3>1
    <2>6. CASE q <= L
        <3>1. q \in (p + 1)..L /\ q \in 1..L /\ \A j \in (p + 1)..(q - 1) : j \in 1..L
            <4> HIDE DEF p, q, s, len, L
            <4> QED
                BY <1>1, <2>2, <2>3, <2>6
        <3>2. T!bytes[q] = "nl" /\ \A j \in (p + 1)..(q - 1) : T!bytes[j] # "nl"
            <4> HIDE DEF p, q, s, len, L
            <4> QED
                BY <1>2, <2>2, <2>4, <2>5, <3>1
        <3>3. e = q
            <4> HIDE DEF e, p, q
            <4> QED
                BY <1>1, <3>1, <3>2, EndOfLineIs DEF e
        <3> QED
            BY <2>1, <2>6, <3>3
    <2>7. CASE ~(q <= L)
        <3>1. \A j \in (p + 1)..L : j \in (p + 1)..(q - 1)
            <4> HIDE DEF p, q, L
            <4> QED
                BY <1>1, <2>2, <2>7
        <3> HIDE DEF p, q, L, e
        <3>2. \A j \in (p + 1)..L : E[j] # "nl"
            BY <2>5, <3>1
        <3> QED
            BY <1>3, <3>2 DEF e, p, L
    <2> QED
        BY <2>6, <2>7
<1> QED
    BY <1>4, <1>5

\* A line of a block cut short that is a dot alone has lost its end.
LEMMA CutDotLine ==
    ASSUME NEW t, NEW E, NEW X, NEW o, NEW d, Coded(t, E, X, o, d), Carries(E),
           Len(T!bytes) < Len(E), NEW i \in 0..Len(t), o[i] < Len(T!bytes),
           T!Line(o[i]).text = <<"dot">>
    PROVE  T!CutBehindDot
<1> DEFINE p == o[i]
           L == Len(T!bytes)
           N == Len(E)
           e == T!EndOfLine(p)
           n == IF T!At(e) # "nl" THEN e
                ELSE IF e - 1 > p /\ T!At(e - 1) = "cr" THEN e - 2 ELSE e - 1
           s == SubSeq(T!bytes, p + 1, n)
<1>1. /\ T!bytes \in Seq(TextBytes) /\ L \in Nat /\ p \in Nat /\ p < L /\ p \in 0..L
      /\ \A j \in 1..L : T!bytes[j] = E[j]
    <2>1. T!bytes \in Seq(TextBytes) /\ E \in Seq(T!LineBytes \cup {"nl"}) /\ p \in Nat
        BY DEF Coded, Carries
    <2>2. L \in Nat /\ N \in Nat
        BY <2>1
    <2>3. \A j \in 1..L : j <= N
        <3>1. L < N
            OBVIOUS
        <3> HIDE DEF L, N
        <3> QED
            BY <2>2, <3>1
    <2>4. \A j \in 1..L : T!bytes[j] = E[j]
        BY <2>3 DEF Carries
    <2>5. p < L
        OBVIOUS
    <2>6. p \in 0..L
        <3> HIDE DEF L, p
        <3> QED
            BY <2>1, <2>2, <2>5
    <2> QED
        BY <2>1, <2>2, <2>4, <2>5, <2>6
<1>2. s = <<"dot">>
    <2> DEFINE atEnd == p = L
    <2>1. T!Line(p) = [eof |-> atEnd, text |-> s, pos |-> e]
        BY DEF T!Line
    <2>2. T!Line(p).text = <<"dot">>
        OBVIOUS
    <2> HIDE DEF s, e, p, L, atEnd
    <2> QED
        BY <2>1, <2>2
<1>3. e \in 0..L /\ e > p
    <2> HIDE DEF e, p
    <2> QED
        BY <1>1, EndOfLineIs DEF e
<1>4. n = p + 1 /\ T!bytes[p + 1] = "dot" /\ p + 1 \in 1..L
    <2>1. n \in Int /\ n <= L
        <3>1. n \in {e, e - 1, e - 2}
            OBVIOUS
        <3> HIDE DEF n, e, L, p
        <3> QED
            BY <1>1, <1>3, <3>1
    <2>2. p + 1 \in Int /\ p + 1 \in 1..L /\ \A j \in (p + 1)..n : T!bytes[j] \in TextBytes
        <3>1. \A j \in (p + 1)..n : j \in 1..L
            <4> HIDE DEF n, L, p
            <4> QED
                BY <1>1, <2>1
        <3>2. \A j \in 1..L : T!bytes[j] \in TextBytes
            BY <1>1
        <3>3. p + 1 \in 1..L /\ p + 1 \in Int
            <4> HIDE DEF n, L, p
            <4> QED
                BY <1>1
        <3> QED
            BY <3>1, <3>2, <3>3
    <2> HIDE DEF n, p
    <2>3. /\ Len(s) = IF p + 1 <= n THEN n - (p + 1) + 1 ELSE 0
          /\ \A j \in 1..(n - (p + 1) + 1) : s[j] = T!bytes[(p + 1) + j - 1]
        BY <2>1, <2>2, SubSeqProperties
    <2>4. Len(s) = 1 /\ s[1] = "dot"
        <3> HIDE DEF s
        <3> QED
            BY ONLY <1>2
    <2> HIDE DEF s, L
    <2>5. n = p + 1 /\ 1 \in 1..(n - (p + 1) + 1) /\ (p + 1) + 1 - 1 = p + 1
        <3> DEFINE m == Len(s)
        <3>1. n \in Int /\ p \in Nat /\ m = 1 /\ m = IF p + 1 <= n THEN n - (p + 1) + 1 ELSE 0
            BY <1>1, <2>1, <2>3, <2>4
        <3> HIDE DEF m
        <3> QED
            BY ONLY <3>1
    <2>6. T!bytes[p + 1] = "dot"
        BY <2>3, <2>4, <2>5
    <2> QED
        BY <2>2, <2>5, <2>6
<1>5. /\ \/ i < Len(t) /\ o[i + 1] <= L /\ e = o[i + 1]
         \/ e = L /\ T!bytes[e] # "nl"
    BY CutLineEnds
<1>6. CASE i < Len(t) /\ o[i + 1] <= L /\ e = o[i + 1]
    <2> DEFINE k == i + 1
               l == t[k]
               x == Escaped(l)
               len == Len(l)
    <2>1. k \in 1..Len(t) /\ k - 1 = i
        <3>1. Len(t) \in Nat
            BY DEF Coded
        <3> QED
            BY <1>6, <3>1
    <2>2. l \in Seq(T!LineBytes) /\ e = p + x + len + 2 /\ LineCoded(l, E, X, p, d[i])
        <3>1. l \in Seq(T!LineBytes) /\ o[k] = p + x + len + 2 /\ LineCoded(l, E, X, p, d[i])
            <4> HIDE DEF k
            <4> QED
                BY <2>1 DEF Coded
        <3> QED
            BY <1>6, <3>1
    <2>3. /\ x \in 0..1 /\ len \in Nat
          /\ x = 1 => len > 0
          /\ x = 0 => (len > 0 => l[1] # "dot")
        BY <2>2, EscapedIs
    <2>4. /\ \A j \in 1..len : E[p + x + j] = l[j]
          /\ E[p + x + len + 1] = "cr" /\ E[p + x + len + 2] = "nl"
        BY <2>2 DEF LineCoded
    <2>5. e \in 1..L /\ e - 1 \in 1..L /\ e - 1 > p /\ e - 1 = p + x + len + 1
        <3>1. /\ e = p + x + len + 2 /\ x \in 0..1 /\ len \in Nat /\ p \in Nat /\ L \in Nat
              /\ e \in 0..L
            BY <1>1, <1>3, <2>2, <2>3
        <3> HIDE DEF e, L, p, x, len
        <3> QED
            BY ONLY <3>1
    <2>6. T!At(e) = "nl" /\ T!At(e - 1) = "cr"
        <3>1. T!bytes[e] = "nl" /\ T!bytes[e - 1] = "cr"
            <4> HIDE DEF e, L, p, x, len
            <4> QED
                BY <1>1, <2>2, <2>4, <2>5
        <3> HIDE DEF e
        <3> QED
            BY <2>5, <3>1 DEF T!At
    <2>7. n = e - 2
        <3> HIDE DEF e
        <3> QED
            BY <2>5, <2>6
    <2>8. x = 0 /\ len = 1
        <3> HIDE DEF e, n, p, x, len
        <3> QED
            BY <1>1, <1>4, <2>2, <2>3, <2>7
    <2>9. l[1] = "dot"
        <3>1. p + x + 1 = p + 1 /\ 1 \in 1..len
            BY <1>1, <2>8
        <3> HIDE DEF p, x, len, l
        <3>2. E[p + 1] = l[1]
            BY <2>4, <3>1
        <3> QED
            BY <1>1, <1>4, <3>2
    <2> QED
        BY <2>3, <2>8, <2>9
<1>7. CASE e = L /\ T!bytes[e] # "nl"
    <2>1. L = p + 1
        <3>1. T!At(e) # "nl"
            <4> HIDE DEF e, L
            <4> QED
                BY <1>7 DEF T!At
        <3> QED
            BY <1>4, <1>7, <3>1
    <2>2. T!At(L) = "dot"
        <3> HIDE DEF L, p
        <3> QED
            BY <1>1, <1>4, <2>1 DEF T!At, L
    <2>3. L - 1 = p
        <3> HIDE DEF L, p
        <3> QED
            BY <1>1, <2>1
    <2>4. T!At(p) \in {"none", "nl"}
        <3>1. CASE i = 0
            <4>1. p = 0
                BY <3>1 DEF Coded
            <4>2. 0 \notin DOMAIN T!bytes
                BY <1>1
            <4> QED
                BY <4>1, <4>2 DEF T!At
        <3>2. CASE i # 0
            <4> DEFINE h == o[i - 1]
                       l == t[i]
                       x == Escaped(l)
                       len == Len(l)
            <4>1. i \in 1..Len(t) /\ i - 1 \in 0..Len(t)
                <5>1. Len(t) \in Nat
                    BY DEF Coded
                <5> QED
                    BY <3>2, <5>1
            <4>2. /\ l \in Seq(T!LineBytes) /\ p = h + x + len + 2 /\ h \in Nat
                  /\ LineCoded(l, E, X, h, d[i - 1])
                <5>1. p = h + x + len + 2 /\ LineCoded(l, E, X, h, d[i - 1])
                    BY <4>1 DEF Coded
                <5>2. l \in Seq(T!LineBytes) /\ h \in Nat
                    BY <4>1 DEF Coded
                <5> QED
                    BY <5>1, <5>2
            <4>3. x \in 0..1 /\ len \in Nat
                BY <4>2, EscapedIs
            <4>4. E[h + x + len + 2] = "nl"
                BY <4>2 DEF LineCoded
            <4>5. p \in 1..L
                <5> HIDE DEF h, x, len, p, L
                <5> QED
                    BY <1>1, <4>2, <4>3
            <4>6. T!bytes[p] = "nl"
                <5> HIDE DEF h, x, len, p, L
                <5> QED
                    BY <1>1, <4>2, <4>4, <4>5
            <4> HIDE DEF p
            <4> QED
                BY <4>5, <4>6 DEF T!At
        <3> QED
            BY <3>1, <3>2
    <2> HIDE DEF p
    <2> QED
        BY <2>2, <2>3, <2>4 DEF T!CutBehindDot
<1> QED
    BY <1>5, <1>6, <1>7

\* ReadDotLines takes a block cut short for a whole one only behind a dot.
LEMMA CutGathered ==
    ASSUME NEW t, NEW E, NEW X, NEW o, NEW d, Coded(t, E, X, o, d), Carries(E),
           Len(T!bytes) < Len(E), T!DotLines.err = "none"
    PROVE  T!CutBehindDot
<1> SUFFICES ASSUME ~T!CutBehindDot PROVE FALSE
    OBVIOUS
<1> DEFINE n == Len(t)
           L == Len(T!bytes)
           cut == "unexpected EOF"
<1>1. /\ n \in Nat /\ T!bytes \in Seq(TextBytes) /\ L \in Nat
      /\ \A i \in 0..n : o[i] \in Nat
      /\ o[0] = 0
    <2>1. T!bytes \in Seq(TextBytes) /\ o \in [0..n -> Nat] /\ t \in Seq(Seq(T!LineBytes)) /\ o[0] = 0
        BY DEF Coded, Carries
    <2>2. L \in Nat /\ n \in Nat
        BY <2>1
    <2> HIDE DEF n, L
    <2> QED
        BY <2>1, <2>2
<1>2. PICK F : T!DotLines = F[0] /\ Gathering(F)
    BY <1>1, DotLinesRecursion
<1>3. F[L].err = cut
    <2>1. L \in 0..L
        BY <1>1
    <2>2. T!Line(L).eof
        BY <1>1, <2>1, LineType
    <2>3. ASSUME NEW q \in 0..Len(T!bytes), T!Line(q).eof PROVE F[q].err = cut
        <3> DEFINE y == F[q]
                   over == [lines |-> <<>>, pos |-> q, err |-> cut]
                   whole == [lines |-> <<>>, pos |-> T!Line(q).pos, err |-> "none"]
                   more == [F[T!Line(q).pos] EXCEPT !.lines = <<Unescaped(T!Line(q).text)>> \o @]
        <3>1. y = IF T!Line(q).eof THEN over
                  ELSE IF T!Line(q).text = <<"dot">> THEN whole ELSE more
            BY <1>2 DEF Gathering
        <3>2. over.err = cut
            OBVIOUS
        <3> HIDE DEF y, over, whole, more
        <3>3. y.err = cut
            BY <2>3, <3>1, <3>2
        <3> QED
            BY <3>3 DEF y
    <2> HIDE DEF cut
    <2> QED
        BY <2>1, <2>2, <2>3
<1>4. ASSUME NEW p \in 0..L, ~T!Line(p).eof, T!Line(p).text # <<"dot">>
      PROVE  F[p].err = F[T!Line(p).pos].err
    <2> DEFINE q == T!Line(p).pos
               x == F[q]
               one == <<Unescaped(T!Line(p).text)>>
    <2>1. x \in LinesGathered
        <3>1. q \in 0..L
            BY <1>1, <1>4, LineType
        <3> HIDE DEF q
        <3> QED
            BY <1>1, <1>2, <3>1, LinesGatheredType
    <2>2. F[p] = [x EXCEPT !.lines = one \o @]
        BY <1>2, <1>4 DEF Gathering
    <2> HIDE DEF x, one
    <2>3. F[p].err = x.err
        BY <2>1, <2>2 DEF LinesGathered
    <2> QED
        BY <2>3 DEF x
<1> DEFINE Cut(i) == o[i] <= L => F[o[i]].err = cut
<1>5. ASSUME NEW i \in 0..n, i < n => Cut(i + 1) PROVE Cut(i)
    <2> DEFINE p == o[i]
               e == T!EndOfLine(p)
    <2>1. SUFFICES ASSUME p <= L PROVE F[p].err = cut
        OBVIOUS
    <2>2. CASE p = L
        BY <1>3, <2>2
    <2>3. CASE p # L
        <3>1. p \in 0..L /\ p < L
            <4>1. p \in Nat
                BY <1>1
            <4> HIDE DEF p, L
            <4> QED
                BY <1>1, <2>1, <2>3, <4>1
        <3>2. ~T!Line(p).eof
            <4> HIDE DEF p
            <4> QED
                BY <1>1, <3>1, LineType
        <3>3. T!Line(p).text # <<"dot">>
            BY <3>1, CutDotLine
        <3>4. T!Line(p).pos = e
            BY DEF T!Line
        <3>5. F[p].err = F[e].err
            <4> HIDE DEF p, e, L
            <4> QED
                BY <1>4, <3>1, <3>2, <3>3, <3>4
        <3>6. (i < n /\ o[i + 1] <= L /\ e = o[i + 1]) \/ e = L
            BY <3>1, CutLineEnds
        <3>7. F[e].err = cut
            BY <1>3, <1>5, <3>6
        <3> QED
            BY <3>5, <3>7
    <2> QED
        BY <2>2, <2>3
<1> DEFINE H == {k \in Nat : k <= n => Cut(n - k)}
<1>6. \A k \in Nat : k \in H
    <2> HIDE DEF Cut
    <2>1. 0 \in H
        <3>1. n - 0 = n /\ n \in 0..n /\ ~(n < n)
            BY <1>1
        <3> HIDE DEF n
        <3>2. Cut(n)
            BY <1>5, <3>1
        <3> QED
            BY <3>1, <3>2
    <2>2. ASSUME NEW k \in H PROVE k + 1 \in H
        <3>1. SUFFICES ASSUME k + 1 <= n PROVE Cut(n - (k + 1))
            BY <2>2
        <3> DEFINE i == n - (k + 1)
        <3>2. i \in 0..n /\ i + 1 = n - k /\ k <= n
            <4> HIDE DEF n
            <4> QED
                BY <1>1, <3>1
        <3>3. Cut(n - k)
            BY <2>2, <3>2
        <3> HIDE DEF i, n
        <3>4. Cut(i)
            BY <1>5, <3>2, <3>3
        <3> QED
            BY <3>4 DEF i
    <2> HIDE DEF H
    <2> QED
        BY <2>1, <2>2, SetInduction
<1>7. Cut(0)
    <2>1. n - n = 0 /\ n <= n
        BY <1>1
    <2> HIDE DEF n, Cut
    <2>2. Cut(n - n)
        BY <1>1, <1>6, <2>1
    <2> QED
        BY <2>1, <2>2
<1>8. F[0].err = cut
    <2>1. 0 <= L
        BY <1>1
    <2> QED
        BY <1>1, <1>7, <2>1
<1> QED
    BY <1>2, <1>8

(* What is known of the reader, and each of its calls.                     *)

GotOK(X) ==
    got \in Seq(TextBytes) /\ Len(got) <= Len(X) /\ \A i \in 1..Len(got) : got[i] = X[i]

\* What is known of a block while it is read, whole or cut short: where the
\* dotReader is in it, and that what it returned begins the text.
TextOK(t, E, X, o, d) ==
    /\ Coded(t, E, X, o, d) /\ X = TextOf(t) /\ Carries(E)
    /\ phase \in {"dot", "line", "end"}
    /\ input.kind = "dot" \/ dot # "none" => GotOK(X)
    /\ dot # "none" => phase = "dot" /\ pos <= Len(T!bytes) /\ Place(t, E, o, d, dot, pos, Len(got))
    /\ phase = "dot" /\ dot = "none" => got = <<>>
    /\ phase # "end" => fields = <<>>

\* What is known of a whole block, and of one cut short, once it is read.
WholeOK(E, X) ==
    /\ Trails(Len(E))
    /\ phase = "line" => got = X /\ pos = Len(E) /\ textErr \in {"none", "EOF"}
    /\ phase = "end" => fields = <<<<"line", <<"x">>>>>>
CutOK(E) ==
    /\ Len(T!bytes) < Len(E)
    /\ phase = "line" => textErr = "unexpected EOF" \/ (textErr = "none" /\ T!CutBehindDot)

Decoding(t, E, X, o, d) ==
    /\ TextOK(t, E, X, o, d)
    /\ input.kind = "dot" => WholeOK(E, X)
    /\ input.kind = "cut" => CutOK(E)
TextInv == which = "text" =>
    /\ input.kind \in {"dot", "cut", "header"}
    /\ input.kind # "header" => \E E, X, o, d : Decoding(input.of, E, X, o, d)

LEMMA PlaceAtStart ==
    ASSUME NEW t, NEW E, NEW X, NEW o, NEW d, Coded(t, E, X, o, d)
    PROVE  Place(t, E, o, d, "BeginLine", 0, 0)
<1>1. Len(t) \in Nat /\ o[0] = 0 /\ d[0] = 0
    BY DEF Coded
<1>2. CASE Len(t) = 0
    BY <1>1, <1>2 DEF Place, AtEnd
<1>3. CASE Len(t) # 0
    <2> DEFINE i == 1
    <2>1. i \in 1..Len(t) /\ i - 1 = 0
        BY <1>1, <1>3
    <2> HIDE DEF i
    <2>2. InLine(t[i], E, o[i - 1], d[i - 1], "BeginLine", 0, 0)
        BY <1>1, <2>1 DEF InLine
    <2> QED
        BY <2>1, <2>2 DEF Place
<1> QED
    BY <1>2, <1>3

LEMMA TextInit == Init => TextInv
<1> SUFFICES ASSUME T!Init, which = "text" PROVE TextInv
    BY DEF Init, TextInv
<1>1. /\ input \in {T!Block(t) : t \in Texts}
             \cup (UNION {{T!CutBlock(t, n) : n \in 0..(Len(T!DotEncoded(t)) - 1)} : t \in Texts})
             \cup {T!Header(ls, e) : ls \in Headers, e \in LineEnds}
      /\ pos = 0 /\ dot = "none" /\ got = <<>> /\ textErr = "none" /\ fields = <<>>
      /\ phase = IF input.kind = "header" THEN "header" ELSE "dot"
    BY DEF T!Init
<1>2. Texts \subseteq Seq(Seq(T!LineBytes))
    BY SizesAssumption DEF T!TextAssumption
<1>3. <<>> \in Seq(TextBytes) /\ Len(<<>>) = 0 /\ 1..0 = {}
    OBVIOUS
<1>4. ASSUME NEW t \in Texts, NEW E, NEW X, NEW o, NEW d, Coded(t, E, X, o, d), X = TextOf(t),
             Carries(E), input.of = t, input.kind \in {"dot", "cut"},
             input.kind = "dot" => Trails(Len(E)), input.kind = "cut" => Len(T!bytes) < Len(E)
      PROVE  TextInv
    <2>1. Len(X) \in Nat
        BY <1>4 DEF Coded
    <2>2. GotOK(X)
        BY <1>1, <1>3, <2>1 DEF GotOK
    <2>3. phase = "dot"
        BY <1>1, <1>4
    <2>4. Decoding(input.of, E, X, o, d)
        BY <1>1, <1>4, <2>2, <2>3 DEF Decoding, TextOK, WholeOK, CutOK
    <2> QED
        BY <1>4, <2>4 DEF TextInv
<1>5. CASE input \in {T!Block(t) : t \in Texts}
    <2>1. PICK t \in Texts : input = T!Block(t)
        BY <1>5
    <2> DEFINE E == T!DotEncoded(t)
               X == TextOf(t)
               tail == T!Trailer
               b == E \o tail
               N == Len(E)
    <2>2. input.kind = "dot" /\ T!bytes = b /\ input.of = t
        <3> HIDE DEF b
        <3>1. input = [kind |-> "dot", bytes |-> b, of |-> t]
            BY <2>1 DEF T!Block, b
        <3> QED
            BY <3>1 DEF T!bytes
    <2>3. PICK o, d : Coded(t, E, X, o, d)
        BY <1>2, CodedIs
    <2>4. E \in Seq(TextBytes) /\ N \in Nat
        <3>1. E \in Seq(TextBytes)
            BY <2>3 DEF Coded, TextBytes
        <3> HIDE DEF E
        <3> QED
            BY <3>1
    <2>5. tail \in Seq(TextBytes) /\ Len(tail) = 3 /\ tail[1] = "x" /\ tail[2] = "cr" /\ tail[3] = "nl"
        <3>1. "x" \in TextBytes /\ "cr" \in TextBytes /\ "nl" \in TextBytes
            BY DEF TextBytes, T!LineBytes, T!Letters
        <3> QED
            BY <3>1 DEF T!Trailer
    <2> HIDE DEF E, X, tail
    <2>6. Joins(TextBytes, E, tail, b)
        BY <2>4, <2>5, ConcatJoins
    <2> HIDE DEF b
    <2>7. b \in Seq(TextBytes) /\ Len(b) = N + 3 /\ b[N + 1] = "x" /\ b[N + 2] = "cr" /\ b[N + 3] = "nl"
          /\ \A k \in 1..N : b[k] = E[k]
        <3>1. 1 \in 1..Len(tail) /\ 2 \in 1..Len(tail) /\ 3 \in 1..Len(tail)
            BY <2>5
        <3> QED
            BY <2>5, <2>6, <3>1 DEF Joins
    <2>8. Trails(N)
        BY <2>2, <2>7 DEF Trails
    <2>9. Carries(E)
        <3>1. ASSUME NEW i \in 1..Len(T!bytes), i <= N PROVE T!bytes[i] = E[i]
            <4>1. i \in 1..N
                <5> HIDE DEF N
                <5> QED
                    BY <2>2, <2>4, <2>7, <3>1
            <4> QED
                BY <2>2, <2>7, <4>1
        <3>2. T!bytes \in Seq(TextBytes)
            BY <2>2, <2>7
        <3> QED
            BY <3>1, <3>2 DEF Carries
    <2> QED
        BY <1>4, <2>2, <2>3, <2>8, <2>9 DEF X
<1>6. CASE input \in UNION {{T!CutBlock(t, n) : n \in 0..(Len(T!DotEncoded(t)) - 1)} : t \in Texts}
    <2>1. PICK t \in Texts : input \in {T!CutBlock(t, n) : n \in 0..(Len(T!DotEncoded(t)) - 1)}
        BY <1>6
    <2>2. PICK n \in 0..(Len(T!DotEncoded(t)) - 1) : input = T!CutBlock(t, n)
        BY <2>1
    <2> DEFINE E == T!DotEncoded(t)
               X == TextOf(t)
               b == SubSeq(E, 1, n)
               N == Len(E)
    <2>3. input.kind = "cut" /\ T!bytes = b /\ input.of = t
        <3> HIDE DEF b
        <3>1. input = [kind |-> "cut", bytes |-> b, of |-> t]
            BY <2>2 DEF T!CutBlock, b
        <3> QED
            BY <3>1 DEF T!bytes
    <2>4. PICK o, d : Coded(t, E, X, o, d)
        BY <1>2, CodedIs
    <2>5. E \in Seq(TextBytes) /\ N \in Nat /\ n \in 0..N /\ n < N
        <3>1. E \in Seq(TextBytes) /\ n \in 0..(N - 1)
            BY <2>4 DEF Coded, TextBytes
        <3>2. N \in Nat
            <4> HIDE DEF E
            <4> QED
                BY <3>1
        <3> HIDE DEF N
        <3> QED
            BY <3>1, <3>2
    <2> HIDE DEF E, X
    <2>6. b \in Seq(TextBytes) /\ Len(b) = n
        BY <2>5, Split
    <2>7. \A k \in 1..n : b[k] = E[k]
        BY <2>5
    <2> HIDE DEF b
    <2>8. Carries(E)
        BY <2>3, <2>6, <2>7 DEF Carries
    <2>9. Len(T!bytes) < Len(E)
        BY <2>3, <2>5, <2>6
    <2> QED
        BY <1>4, <2>3, <2>4, <2>8, <2>9 DEF X
<1>7. CASE input \in {T!Header(ls, e) : ls \in Headers, e \in LineEnds}
    <2>1. PICK ls \in Headers, e \in LineEnds : input = T!Header(ls, e)
        BY <1>7
    <2> DEFINE b == T!FlattenSeq([i \in DOMAIN ls |-> ls[i] \o e]) \o e \o T!Trailer
    <2>2. input = [kind |-> "header", of |-> ls, bytes |-> b]
        BY <2>1 DEF T!Header
    <2> HIDE DEF b
    <2>3. input.kind = "header"
        BY <2>2
    <2> QED
        BY <2>3 DEF TextInv
<1> DEFINE Blocks == {T!Block(t) : t \in Texts}
           CutBlocks == UNION {{T!CutBlock(t, n) : n \in 0..(Len(T!DotEncoded(t)) - 1)} : t \in Texts}
           Others == {T!Header(ls, e) : ls \in Headers, e \in LineEnds}
<1>8. input \in Blocks \cup CutBlocks \cup Others
    BY <1>1
<1>9. (input \in Blocks => TextInv) /\ (input \in CutBlocks => TextInv) /\ (input \in Others => TextInv)
    BY <1>5, <1>6, <1>7
<1> HIDE DEF Blocks, CutBlocks, Others
<1> QED
    BY <1>8, <1>9

\* Read of the dotReader.
LEMMA DotReadOK ==
    ASSUME NEW t, NEW E, NEW X, NEW o, NEW d, Decoding(t, E, X, o, d), NEW n \in Nat, T!ReadDot(n),
           input.kind \in {"dot", "cut"}
    PROVE  Decoding(t, E, X, o, d)'
<1> DEFINE u == T!DotRead(n)
           c == Len(got)
           g == u.got
           z == got \o g
           L == Len(T!bytes)
           N == Len(E)
           M == Len(X)
<1>1. /\ phase = "dot" /\ dot # "none" /\ pos' = u.pos /\ got' = z /\ textErr' = u.err
      /\ dot' = IF u.err = "none" THEN u.state ELSE "none"
      /\ phase' = IF u.err = "none" THEN "dot" ELSE "line"
      /\ input' = input /\ fields' = fields
    BY DEF T!ReadDot
<1>2. /\ Coded(t, E, X, o, d) /\ X = TextOf(t) /\ Carries(E) /\ GotOK(X) /\ fields = <<>>
      /\ pos <= L /\ Place(t, E, o, d, dot, pos, c)
      /\ input.kind = "dot" => Trails(N)
      /\ input.kind = "cut" => L < N
    BY <1>1 DEF Decoding, TextOK, WholeOK, CutOK
<1>3. Outcome(t, E, X, o, d, u, c, n)
    BY <1>2, DotReads
<1> HIDE DEF u
<1>4. /\ got \in Seq(TextBytes) /\ g \in Seq(TextBytes) /\ c \in Nat
      /\ N \in Nat /\ M \in Nat /\ L \in Nat /\ X \in Seq(TextBytes)
    <2>1. got \in Seq(TextBytes) /\ g \in Seq(TextBytes) /\ T!bytes \in Seq(TextBytes)
          /\ E \in Seq(TextBytes) /\ X \in Seq(TextBytes)
        BY <1>2, <1>3 DEF GotOK, Outcome, Coded, Carries, TextBytes
    <2> HIDE DEF g
    <2> QED
        BY <2>1
<1>5. Joins(TextBytes, got, g, z)
    <2> HIDE DEF g
    <2> QED
        BY <1>4, ConcatJoins
<1> HIDE DEF g, z
<1>6. z \in Seq(TextBytes) /\ Len(z) = c + Len(g) /\ Len(g) \in Nat
    BY <1>5 DEF Joins
<1>7. /\ Place(t, E, o, d, u.state, u.pos, Len(z))
      /\ u.pos \in 0..L
      /\ \/ u.err = "EOF" /\ u.state = "EOF"
         \/ u.err = "none"
         \/ u.err = "unexpected EOF" /\ u.state # "EOF" /\ u.pos = L
    BY <1>3, <1>6 DEF Outcome, g
<1>8. /\ Len(z) <= M /\ u.state \in DotPlaces
      /\ u.state = "EOF" => u.pos = N /\ Len(z) = M
      /\ u.state # "EOF" => u.pos < N
    <2> DEFINE st == u.state
               p == u.pos
               k == Len(z)
    <2> HIDE DEF st, p, k
    <2>1. Place(t, E, o, d, st, p, k)
        BY <1>7 DEF st, p, k
    <2>2. k <= M /\ st \in DotPlaces /\ (st = "EOF" => p = N /\ k = M) /\ (st # "EOF" => p < N)
        BY <1>2, <2>1, PlaceIs
    <2> QED
        BY <2>2 DEF st, p, k
<1>9. \A i \in 1..Len(z) : z[i] = X[i]
    <2>1. ASSUME NEW i \in 1..Len(z) PROVE z[i] = X[i]
        <3>1. CASE i <= c
            <4>1. i \in 1..Len(got)
                BY <1>4, <3>1
            <4> QED
                BY <1>2, <1>5, <4>1 DEF GotOK, Joins
        <3>2. CASE ~(i <= c)
            <4> DEFINE j == i - c
            <4>1. j \in 1..Len(g) /\ c + j = i
                <5> DEFINE x1 == Len(g)
                           x2 == Len(z)
                <5>1. x2 = c + x1 /\ x1 \in Nat /\ c \in Nat /\ i \in 1..x2
                    BY <1>4, <1>6
                <5> HIDE DEF x1, x2, c
                <5>2. j \in 1..x1 /\ c + j = i
                    BY <3>2, <5>1
                <5> QED
                    BY <5>2 DEF x1
            <4> HIDE DEF j
            <4>2. z[c + j] = g[j] /\ g[j] = X[c + j]
                BY <1>3, <1>5, <4>1 DEF Joins, Outcome, g
            <4> QED
                BY <4>1, <4>2
        <3> QED
            BY <3>1, <3>2
    <2> QED
        BY <2>1
<1>10. GotOK(X)' /\ Carries(E)' /\ T!bytes' = T!bytes
    BY <1>1, <1>2, <1>6, <1>8, <1>9 DEF GotOK, Carries, T!bytes
<1>11. u.state # "none"
    BY <1>8 DEF DotPlaces
<1>12. u.err = "none" => Place(t, E, o, d, dot', pos', Len(got'))
    BY <1>1, <1>7
<1>13. TextOK(t, E, X, o, d)'
    <2> HIDE DEF L
    <2> DEFINE p == u.pos
    <2> HIDE DEF p
    <2>1. p <= L
        <3>1. p \in 0..L
            BY <1>7 DEF p
        <3> QED
            BY ONLY <1>4, <3>1
    <2> QED
        BY <1>1, <1>2, <1>10, <1>11, <1>12, <2>1 DEF TextOK, L, p
<1>14. ASSUME input.kind = "dot" PROVE WholeOK(E, X)'
    <2>1. Trails(N) /\ Trails(N)'
        BY <1>2, <1>10, <1>14 DEF Trails
    <2>2. ASSUME u.err # "none" PROVE got' = X /\ pos' = N /\ textErr' \in {"none", "EOF"}
        <3>1. u.err = "EOF" /\ u.state = "EOF"
            <4>1. L = N + 3
                BY <2>1 DEF Trails
            <4> DEFINE p == u.pos
            <4> HIDE DEF L, N, p
            <4>2. ASSUME u.state # "EOF" PROVE p # L
                <5>1. p < N
                    BY <1>8, <4>2 DEF p
                <5> QED
                    BY <1>4, <4>1, <5>1
            <4> QED
                BY <1>7, <2>2, <4>2 DEF p
        <3>2. u.pos = N /\ Len(z) = M
            BY <1>8, <3>1
        <3>3. z = X
            BY <1>4, <1>6, <1>9, <3>2, SeqEqual
        <3> QED
            BY <1>1, <3>1, <3>2, <3>3
    <2>3. phase' = "line" => u.err # "none"
        BY <1>1
    <2>4. phase' # "end"
        BY <1>1
    <2> QED
        BY <2>1, <2>2, <2>3, <2>4 DEF WholeOK
<1>15. ASSUME input.kind = "cut" PROVE CutOK(E)'
    <2>1. L < N /\ (L < N)'
        BY <1>2, <1>10, <1>15
    <2>2. u.err # "EOF"
        <3>1. u.state = "EOF" => FALSE
            <4> HIDE DEF L, N
            <4> QED
                BY <1>4, <1>7, <1>8, <2>1
        <3> QED
            BY <1>7, <3>1
    <2>3. phase' = "line" => u.err = "unexpected EOF"
        BY <1>1, <1>7, <2>2
    <2> QED
        BY <1>1, <2>1, <2>3 DEF CutOK
<1> QED
    BY <1>1, <1>13, <1>14, <1>15 DEF Decoding

LEMMA StartDotOK ==
    ASSUME NEW t, NEW E, NEW X, NEW o, NEW d, Decoding(t, E, X, o, d), T!StartDot
    PROVE  Decoding(t, E, X, o, d)'
<1>1. /\ phase = "dot" /\ dot = "none" /\ pos = 0 /\ dot' = "BeginLine" /\ phase' = phase /\ got' = got
      /\ input' = input /\ pos' = pos /\ textErr' = textErr /\ fields' = fields
    BY DEF T!StartDot
<1>2. /\ Coded(t, E, X, o, d) /\ X = TextOf(t) /\ Carries(E) /\ got = <<>> /\ fields = <<>>
      /\ input.kind = "dot" => Trails(Len(E))
      /\ input.kind = "cut" => Len(T!bytes) < Len(E)
    BY <1>1 DEF Decoding, TextOK, WholeOK, CutOK
<1>3. Carries(E)' /\ T!bytes' = T!bytes
    BY <1>1, <1>2 DEF Carries, T!bytes
<1>4. GotOK(X)'
    <2>1. <<>> \in Seq(TextBytes) /\ Len(<<>>) = 0 /\ 1..0 = {}
        OBVIOUS
    <2>2. Len(X) \in Nat
        BY <1>2 DEF Coded
    <2> QED
        BY <1>1, <1>2, <2>1, <2>2 DEF GotOK
<1>5. Place(t, E, o, d, dot', pos', Len(got')) /\ (pos <= Len(T!bytes))'
    <2>1. Len(got') = 0 /\ pos' = 0
        BY <1>1, <1>2
    <2>2. T!bytes \in Seq(TextBytes)
        BY <1>2 DEF Carries
    <2>3. 0 <= Len(T!bytes)
        BY <2>2
    <2>4. Place(t, E, o, d, "BeginLine", 0, 0)
        BY <1>2, PlaceAtStart
    <2> QED
        BY <1>1, <1>3, <2>1, <2>3, <2>4
<1>6. TextOK(t, E, X, o, d)'
    BY <1>1, <1>2, <1>3, <1>4, <1>5 DEF TextOK
<1>7. input.kind = "dot" => WholeOK(E, X)'
    BY <1>1, <1>2, <1>3 DEF WholeOK, Trails
<1>8. input.kind = "cut" => CutOK(E)'
    BY <1>1, <1>2, <1>3 DEF CutOK
<1> QED
    BY <1>1, <1>6, <1>7, <1>8 DEF Decoding

LEMMA DotLinesOK ==
    ASSUME NEW t, NEW E, NEW X, NEW o, NEW d, Decoding(t, E, X, o, d), T!ReadDotLines,
           input.kind \in {"dot", "cut"}, input.of = t
    PROVE  Decoding(t, E, X, o, d)'
<1> DEFINE g == T!DotLines
<1>1. /\ phase = "dot" /\ dot = "none" /\ dot' = dot /\ phase' = "line"
      /\ pos' = g.pos /\ textErr' = g.err
      /\ got' = T!FlattenSeq([i \in DOMAIN g.lines |-> Append(g.lines[i], "nl")])
      /\ input' = input /\ fields' = fields
    BY DEF T!ReadDotLines
<1>2. /\ Coded(t, E, X, o, d) /\ X = TextOf(t) /\ Carries(E) /\ fields = <<>>
      /\ input.kind = "dot" => Trails(Len(E))
      /\ input.kind = "cut" => Len(T!bytes) < Len(E)
    BY <1>1 DEF Decoding, TextOK, WholeOK, CutOK
<1> HIDE DEF g
<1>3. Carries(E)' /\ T!bytes' = T!bytes
    BY <1>1, <1>2 DEF Carries, T!bytes
<1>4. g.err \in DotErrors
    <2>1. T!bytes \in Seq(TextBytes)
        BY <1>2 DEF Carries
    <2>2. PICK F : g = F[0] /\ Gathering(F)
        BY <2>1, DotLinesRecursion DEF g
    <2>3. 0 \in 0..Len(T!bytes)
        BY <2>1
    <2>4. F[0] \in LinesGathered
        BY <2>1, <2>2, <2>3, LinesGatheredType
    <2> QED
        BY <2>2, <2>4 DEF LinesGathered
<1>5. ASSUME input.kind = "dot"
      PROVE  got' = X /\ pos' = Len(E) /\ textErr' = "none" /\ GotOK(X)'
    <2>1. HoldsBlock(E)
        <3>1. Len(E) \in Nat /\ Len(T!bytes) = Len(E) + 3
            BY <1>2, <1>5 DEF Trails, Coded
        <3> QED
            BY <1>2, <3>1 DEF HoldsBlock
    <2>2. g.lines = t /\ g.pos = Len(E) /\ g.err = "none"
        BY <1>2, <2>1, BlockGathered DEF g
    <2>3. got' = X
        BY <1>1, <1>2, <2>2 DEF TextOf
    <2>4. X \in Seq(TextBytes) /\ Len(X) \in Nat
        BY <1>2 DEF Coded, TextBytes
    <2>5. GotOK(X)'
        BY <2>3, <2>4 DEF GotOK
    <2> QED
        BY <1>1, <2>2, <2>3, <2>5
<1>6. TextOK(t, E, X, o, d)'
    BY <1>1, <1>2, <1>3, <1>5 DEF TextOK
<1>7. input.kind = "dot" => WholeOK(E, X)'
    BY <1>1, <1>2, <1>3, <1>5 DEF WholeOK, Trails
<1>8. ASSUME input.kind = "cut" PROVE CutOK(E)'
    <2>1. g.err = "none" => T!CutBehindDot
        BY <1>2, <1>8, CutGathered DEF g
    <2>2. T!CutBehindDot' = T!CutBehindDot
        BY <1>3 DEF T!CutBehindDot, T!At
    <2>3. g.err = "unexpected EOF" \/ g.err = "none"
        BY <1>4 DEF DotErrors
    <2> QED
        BY <1>1, <1>2, <1>3, <1>8, <2>1, <2>2, <2>3 DEF CutOK
<1> QED
    BY <1>1, <1>6, <1>7, <1>8 DEF Decoding

\* A dotReader that was not read to its end is: closeDot stands behind the block.
LEMMA CloseDotIs ==
    ASSUME NEW t, NEW E, NEW X, NEW o, NEW d, Decoding(t, E, X, o, d), input.kind = "dot",
           phase = "line" \/ dot # "none"
    PROVE  T!closeDot = Len(E)
<1>1. CASE dot = "none"
    BY <1>1 DEF T!closeDot, Decoding, WholeOK
<1>2. CASE dot # "none"
    <2> DEFINE n == Len(T!bytes) + 1
               u == T!DotRead(n)
               c == Len(got)
               L == Len(T!bytes)
               N == Len(E)
               M == Len(X)
               p == u.pos
               st == u.state
               k == Len(u.got)
    <2>1. /\ Coded(t, E, X, o, d) /\ Carries(E) /\ GotOK(X) /\ L = N + 3
          /\ pos <= L /\ Place(t, E, o, d, dot, pos, c)
        BY <1>2 DEF Decoding, TextOK, WholeOK, Trails
    <2>2. c \in Nat /\ N \in Nat /\ M \in Nat /\ L \in Nat /\ n \in Nat
        BY <2>1 DEF GotOK, Coded
    <2>3. Outcome(t, E, X, o, d, u, c, n)
        <3> HIDE DEF n
        <3> QED
            BY <2>1, <2>2, DotReads
    <2> HIDE DEF u
    <2>4. /\ Place(t, E, o, d, st, p, c + k) /\ p \in 0..L
          /\ \/ u.err = "EOF" /\ st = "EOF"
             \/ u.err = "none" /\ k = n
             \/ u.err = "unexpected EOF" /\ st # "EOF" /\ p = L
        BY <2>3 DEF Outcome
    <2>5. M <= N
        <3>1. Len(t) \in 0..Len(t) /\ N = o[Len(t)] + 3 /\ M = d[Len(t)]
            BY <2>1 DEF Coded
        <3> DEFINE x1 == o[Len(t)]
                   x2 == d[Len(t)]
        <3>2. x1 \in Nat /\ x2 \in Nat /\ x2 <= x1
            BY <2>1, <3>1, LinesFit
        <3> HIDE DEF x1, x2, N, M
        <3> QED
            BY <3>1, <3>2 DEF x1, x2
    <2> DEFINE b == c + k
    <2> HIDE DEF st, p, b
    <2>6. b <= M /\ (st = "EOF" => p = N) /\ (st # "EOF" => p < N)
        <3>1. Place(t, E, o, d, st, p, b)
            BY <2>4 DEF b
        <3> QED
            BY <2>1, <3>1, PlaceIs
    <2>7. st = "EOF"
        <3>1. ASSUME st # "EOF" PROVE FALSE
            <4>1. p < N /\ (k = n \/ p = L)
                BY <2>4, <2>6, <3>1
            <4>2. n = L + 1 /\ b = c + k
                BY DEF b
            <4>3. L = N + 3 /\ b <= M /\ M <= N /\ c \in Nat /\ N \in Nat /\ M \in Nat /\ L \in Nat
                BY <2>1, <2>2, <2>5, <2>6
            <4> HIDE DEF n, L, N, M, k, c
            <4>4. CASE p = L
                BY <4>1, <4>3, <4>4
            <4>5. CASE k = n
                BY <4>2, <4>3, <4>5
            <4> QED
                BY <4>1, <4>4, <4>5
        <3> QED
            BY <3>1
    <2> QED
        BY <1>2, <2>6, <2>7 DEF T!closeDot, p, u
<1> QED
    BY <1>1, <1>2

LEMMA ReadLineOK ==
    ASSUME NEW t, NEW E, NEW X, NEW o, NEW d, Decoding(t, E, X, o, d), T!ReadLine,
           input.kind \in {"dot", "cut"}
    PROVE  Decoding(t, E, X, o, d)'
<1> DEFINE l == <<"line", T!Line(T!closeDot).text>>
<1>1. /\ phase = "line" \/ dot # "none"
      /\ dot' = "none" /\ phase' = "end" /\ fields' = Append(fields, l) /\ input' = input /\ got' = got
    BY DEF T!ReadLine
<1>2. /\ Coded(t, E, X, o, d) /\ X = TextOf(t) /\ Carries(E) /\ fields = <<>>
      /\ input.kind = "dot" => Trails(Len(E)) /\ GotOK(X)
      /\ input.kind = "cut" => Len(T!bytes) < Len(E)
    BY <1>1 DEF Decoding, TextOK, WholeOK, CutOK
<1>3. Carries(E)' /\ T!bytes' = T!bytes /\ (GotOK(X) => GotOK(X)')
    BY <1>1, <1>2 DEF Carries, T!bytes, GotOK
<1>4. TextOK(t, E, X, o, d)'
    BY <1>1, <1>2, <1>3 DEF TextOK
<1>5. ASSUME input.kind = "dot" PROVE WholeOK(E, X)'
    <2>1. T!closeDot = Len(E) /\ Len(E) \in Nat /\ T!bytes \in Seq(TextBytes)
        BY <1>1, <1>2, <1>5, CloseDotIs DEF Coded, Carries
    <2>2. T!Line(Len(E)).text = <<"x">>
        BY <1>2, <1>5, <2>1, LineBehind
    <2>3. l = <<"line", <<"x">>>>
        BY <2>1, <2>2
    <2>4. Append(<<>>, l) = <<l>>
        OBVIOUS
    <2> HIDE DEF l
    <2>5. fields' = <<l>>
        BY <1>1, <1>2, <2>4
    <2> QED
        BY <1>1, <1>2, <1>3, <1>5, <2>3, <2>5 DEF WholeOK, Trails
<1>6. input.kind = "cut" => CutOK(E)'
    BY <1>1, <1>2, <1>3 DEF CutOK
<1> QED
    BY <1>1, <1>4, <1>5, <1>6 DEF Decoding

LEMMA TextStepInv == TextInv /\ [Next]_vars => TextInv'
<1> SUFFICES ASSUME TextInv, [Next]_vars, which' = "text" PROVE TextInv'
    BY DEF TextInv
<1>1. CASE TextStep
    <2>1. which = "text" /\ T!Next
        BY <1>1 DEF TextStep
    <2>2. input' = input
        BY <2>1 DEF T!Next, T!BadFirstLine, T!HeaderLine, T!StartDot, T!ReadDot, T!ReadDotLines, T!ReadLine
    <2>3. CASE input.kind = "header"
        BY <2>1, <2>2, <2>3 DEF TextInv
    <2>4. CASE input.kind # "header"
        <3>1. input.kind \in {"dot", "cut"}
            BY <2>1, <2>4 DEF TextInv
        <3>2. PICK E, X, o, d : Decoding(input.of, E, X, o, d)
            BY <2>1, <2>4 DEF TextInv
        <3> PICK t : t = input.of
            OBVIOUS
        <3>3. Decoding(t, E, X, o, d) /\ phase # "header" /\ input.of = t
            BY <3>2 DEF Decoding, TextOK
        <3>4. T!StartDot => Decoding(t, E, X, o, d)'
            BY <3>3, StartDotOK
        <3>5. T!ReadDotLines => Decoding(t, E, X, o, d)'
            BY <3>1, <3>3, DotLinesOK
        <3>6. T!ReadLine => Decoding(t, E, X, o, d)'
            BY <3>1, <3>3, ReadLineOK
        <3>7. ASSUME NEW n \in {1, 3}, T!ReadDot(n) PROVE Decoding(t, E, X, o, d)'
            <4>1. n \in Nat
                OBVIOUS
            <4> QED
                BY <3>1, <3>3, <3>7, <4>1, DotReadOK
        <3>8. ~T!BadFirstLine /\ \A b \in BOOLEAN : ~T!HeaderLine(b)
            BY <3>3 DEF T!BadFirstLine, T!HeaderLine
        <3>9. Decoding(t, E, X, o, d)'
            BY <2>1, <3>4, <3>5, <3>6, <3>7, <3>8 DEF T!Next
        <3> QED
            BY <2>2, <3>1, <3>3, <3>9 DEF TextInv
    <2> QED
        BY <2>3, <2>4
<1>2. CASE UNCHANGED vars
    <2>1. UNCHANGED <<which, input, pos, dot, got, textErr, fields, phase>>
        BY <1>2 DEF vars, textOnly
    <2>2. which = "text"
        BY <2>1
    <2>3. CASE input.kind = "header"
        BY <2>1, <2>3 DEF TextInv
    <2>4. CASE input.kind # "header"
        <3>1. PICK E, X, o, d : Decoding(input.of, E, X, o, d)
            BY <2>2, <2>4 DEF TextInv
        <3>2. Decoding(input.of, E, X, o, d)'
            BY <2>1, <3>1 DEF Decoding, TextOK, WholeOK, CutOK, GotOK, Carries, Trails, T!bytes, T!CutBehindDot, T!At
        <3> QED
            BY <2>1, <2>2, <3>2 DEF TextInv
    <2> QED
        BY <2>3, <2>4
<1> QED
    BY <1>1, <1>2 DEF Next, ReaderStep, WriterStep, BufferStep, CopyStep

LEMMA PrefixIs ==
    ASSUME NEW S, NEW s \in Seq(S), NEW t \in Seq(S), Len(s) <= Len(t), \A i \in 1..Len(s) : t[i] = s[i]
    PROVE  T!IsPrefix(s, t)
<1> DEFINE z == 0
           n == Len(s)
<1>1. n \in Nat /\ z \in Nat /\ z + n = n /\ z + 1 = 1 /\ z + n <= Len(t) /\ \A i \in 1..n : t[z + i] = s[i]
    OBVIOUS
<1>2. SubSeq(t, z + 1, z + n) = s
    <2> HIDE DEF z
    <2> QED
        BY <1>1, FoundIn
<1>3. SubSeq(s, 1, n) = s
    BY SubSeqFull
<1>4. SubSeq(t, 1, n) = s
    <2> HIDE DEF z, n
    <2> QED
        BY <1>1, <1>2
<1> QED
    BY <1>3, <1>4 DEF T!IsPrefix

LEMMA TextSafe ==
    ASSUME TextInv
    PROVE  DotDecoded
<1> SUFFICES ASSUME which = "text", input.kind \in {"dot", "cut"} PROVE T!DotDecoded
    BY DEF DotDecoded, T!DotDecoded
<1>1. PICK E, X, o, d : Decoding(input.of, E, X, o, d)
    BY DEF TextInv
<1>2. X = T!Text
    BY <1>1 DEF Decoding, TextOK, TextOf, T!Text
<1>3. ASSUME input.kind = "dot" \/ dot # "none" PROVE T!IsPrefix(got, X)
    <2>1. GotOK(X) /\ X \in Seq(TextBytes)
        BY <1>1, <1>3 DEF Decoding, TextOK, Coded, TextBytes
    <2> DEFINE n == Len(got)
    <2>2. got \in Seq(TextBytes) /\ n \in 0..Len(X) /\ n <= Len(X)
        <3>1. got \in Seq(TextBytes) /\ n \in Nat /\ Len(X) \in Nat /\ n <= Len(X)
            BY <2>1 DEF GotOK
        <3> HIDE DEF n
        <3> QED
            BY <3>1
    <2>3. \A i \in 1..n : X[i] = got[i]
        BY <2>1 DEF GotOK
    <2> QED
        BY <2>1, <2>2, <2>3, PrefixIs
<1>4. ASSUME input.kind = "dot"
      PROVE  /\ phase = "line" => got = X /\ textErr \in {"none", "EOF"}
             /\ phase = "end" => T!Last(fields) = <<"line", <<"x">>>>
    <2>1. WholeOK(E, X)
        BY <1>1, <1>4 DEF Decoding
    <2>2. phase = "end" => T!Last(fields) = <<"line", <<"x">>>>
        <3> DEFINE l == <<"line", <<"x">>>>
        <3>1. phase = "end" => fields = <<l>>
            BY <2>1 DEF WholeOK
        <3> HIDE DEF l
        <3>2. T!Last(<<l>>) = l
            BY DEF T!Last
        <3> QED
            BY <3>1, <3>2 DEF l
    <2> QED
        BY <2>1, <2>2 DEF WholeOK
<1>5. input.kind = "cut" /\ phase = "line" =>
        textErr = "unexpected EOF" \/ (textErr = "none" /\ T!CutBehindDot)
    BY <1>1 DEF Decoding, CutOK
<1> QED
    BY <1>2, <1>3, <1>4, <1>5 DEF T!DotDecoded

\* A text sent dot-encoded comes out as it went in, however it is read, and the
\* line behind it is the next one read.  A text cut short is not taken for a
\* whole one, by the dotReader never and by ReadDotLines only where the cut is
\* right behind a dot that begins a line: for all texts (textproto dotReader,
\* ReadDotLines, closeDot).
THEOREM TextsAreDecoded == Spec => []DotDecoded
<1> QED
    BY TextInit, TextStepInv, TextSafe, PTL DEF Spec

-----------------------------------------------------------------------------
(* textproto.Reader: a header, its lines and the bytes between them.       *)

\* The end of a line, of ew bytes, after the byte at p.
Ended(p, ew) ==
    \/ ew = 1 /\ T!bytes[p + 1] = "nl"
    \/ ew = 2 /\ T!bytes[p + 1] = "cr" /\ T!bytes[p + 2] = "nl"

\* The input is the header ls, with ends of ew bytes; its line i+1 begins after o[i].
Headed(ls, ew, o) ==
    /\ ls \in Seq(T!HeaderLines) /\ ew \in {1, 2}
    /\ T!bytes \in Seq(TextBytes)
    /\ o \in [0..Len(ls) -> Nat] /\ o[0] = 0
    /\ \A i \in 1..Len(ls) :
        /\ o[i] = o[i - 1] + Len(ls[i]) + ew
        /\ \A k \in 1..Len(ls[i]) : T!bytes[o[i - 1] + k] = ls[i][k]
        /\ Ended(o[i - 1] + Len(ls[i]), ew)
    /\ Ended(o[Len(ls)], ew)
    /\ Trails(o[Len(ls)] + ew)

LEMMA HeaderLineIs ==
    ASSUME NEW ls \in Seq(T!HeaderLines), NEW i \in 1..Len(ls)
    PROVE  /\ ls[i] \in Seq(T!LineBytes \ {"cr"}) /\ ls[i] # <<>> /\ ls[i] \in Seq(TextBytes)
           /\ Len(ls[i]) \in Nat /\ 1 <= Len(ls[i])
           /\ \A k \in 1..Len(ls[i]) : ls[i][k] # "nl" /\ ls[i][k] # "cr"
<1> DEFINE l == ls[i]
           S == T!LineBytes \ {"cr"}
<1>1. l \in Seq(S) /\ l # <<>>
    <2>1. l \in T!HeaderLines
        OBVIOUS
    <2> HIDE DEF l
    <2> QED
        BY <2>1 DEF T!HeaderLines
<1> HIDE DEF l
<1>2. S \subseteq TextBytes /\ "nl" \notin S /\ "cr" \notin S
    BY DEF TextBytes, T!LineBytes, T!Letters
<1> HIDE DEF S
<1>3. Len(l) \in Nat /\ 1 <= Len(l) /\ l \in Seq(TextBytes) /\ \A k \in 1..Len(l) : l[k] \in S
    BY <1>1, <1>2
<1> QED
    BY <1>1, <1>2, <1>3 DEF l, S

LEMMA HeadedIs ==
    ASSUME NEW ls \in Headers, NEW e \in LineEnds, input = T!Header(ls, e)
    PROVE  \E ew, o : Headed(ls, ew, o)
<1> DEFINE n == Len(ls)
           ew == Len(e)
           ss == [i \in DOMAIN ls |-> ls[i] \o e]
           f == T!FlattenSeq(ss)
           tail == T!Trailer
           fe == f \o e
           b == fe \o tail
<1>1. ls \in Seq(T!HeaderLines) /\ e \in {<<"nl">>, <<"cr", "nl">>} /\ n \in Nat /\ DOMAIN ls = 1..n
    <2>1. Headers \subseteq Seq(T!HeaderLines) /\ LineEnds \subseteq {<<"nl">>, <<"cr", "nl">>}
        BY SizesAssumption DEF T!TextAssumption, T!CRLF
    <2> QED
        BY <2>1
<1>2. /\ e \in Seq(TextBytes) /\ ew \in {1, 2}
      /\ (ew = 1 /\ e[1] = "nl") \/ (ew = 2 /\ e[1] = "cr" /\ e[2] = "nl")
    <2>1. "cr" \in TextBytes /\ "nl" \in TextBytes
        BY DEF TextBytes, T!LineBytes, T!Letters
    <2>2. CASE e = <<"nl">>
        BY <2>1, <2>2
    <2>3. CASE e = <<"cr", "nl">>
        BY <2>1, <2>3
    <2> QED
        BY <1>1, <2>2, <2>3
<1>3. tail \in Seq(TextBytes) /\ Len(tail) = 3 /\ tail[1] = "x" /\ tail[2] = "cr" /\ tail[3] = "nl"
    <2>1. "x" \in TextBytes /\ "cr" \in TextBytes /\ "nl" \in TextBytes
        BY DEF TextBytes, T!LineBytes, T!Letters
    <2> QED
        BY <2>1 DEF T!Trailer
<1>4. T!bytes = b
    <2> HIDE DEF b
    <2>1. input = [kind |-> "header", of |-> ls, bytes |-> b]
        BY DEF T!Header, b
    <2> QED
        BY <2>1 DEF T!bytes
<1> HIDE DEF ew, tail
<1>5. ASSUME NEW i \in 1..n
      PROVE  Joins(TextBytes, ls[i], e, ss[i]) /\ ls[i] \in Seq(TextBytes) /\ Len(ls[i]) \in Nat
    <2> DEFINE l == ls[i]
    <2>1. l \in Seq(TextBytes) /\ Len(l) \in Nat
        BY <1>1, HeaderLineIs
    <2>2. ss[i] = l \o e
        BY <1>1
    <2> HIDE DEF l, ss
    <2>3. Joins(TextBytes, l, e, ss[i])
        BY <1>2, <2>1, <2>2, ConcatJoins
    <2> QED
        BY <2>1, <2>3 DEF l
<1>6. ss \in Seq(Seq(TextBytes)) /\ Len(ss) = n
    <2>1. \A i \in 1..n : ss[i] \in Seq(TextBytes)
        <3> HIDE DEF ss
        <3> QED
            BY <1>5 DEF Joins
    <2>2. ss \in [1..n -> Seq(TextBytes)]
        BY <1>1, <2>1
    <2> HIDE DEF ss
    <2> QED
        BY <1>1, <2>2
<1> HIDE DEF ss
<1> DEFINE sums == [i \in 1..Len(ss) |-> Len(ss[i])]
           o == RunningSums(sums)
<1>7. /\ o \in [0..n -> Nat] /\ o[0] = 0
      /\ \A i \in 1..n : o[i] = o[i - 1] + Len(ss[i])
      /\ f \in Seq(TextBytes) /\ Len(f) = o[n]
      /\ Strung(ss, n, o, f)
    BY <1>6, FlattenIs
<1> HIDE DEF o, f
<1>8. Joins(TextBytes, f, e, fe)
    BY <1>2, <1>7, ConcatJoins
<1> HIDE DEF fe
<1>9. Joins(TextBytes, fe, tail, b)
    <2>1. fe \in Seq(TextBytes)
        BY <1>8 DEF Joins
    <2> QED
        BY <1>3, <2>1, ConcatJoins
<1> HIDE DEF b, n
<1>10. n \in 0..n /\ o[n] \in Nat /\ ew \in Nat
    <2>1. n \in 0..n
        BY <1>1
    <2> QED
        BY <1>2, <1>7, <2>1
<1>11. Len(fe) = o[n] + ew /\ Len(b) = o[n] + ew + 3 /\ b \in Seq(TextBytes)
    BY <1>3, <1>7, <1>8, <1>9 DEF Joins, ew
<1>12. \A k \in 1..o[n] : b[k] = f[k]
    <2>1. ASSUME NEW k \in 1..o[n] PROVE b[k] = f[k]
        <3>1. k \in 1..Len(f) /\ k \in 1..Len(fe)
            <4> DEFINE x == o[n]
            <4> HIDE DEF x
            <4> QED
                BY <1>7, <1>10, <1>11 DEF x
        <3> QED
            BY <1>8, <1>9, <3>1 DEF Joins
    <2> QED
        BY <2>1
<1>13. \A k \in 1..ew : b[o[n] + k] = e[k]
    <2>1. ASSUME NEW k \in 1..ew PROVE b[o[n] + k] = e[k]
        <3>1. o[n] + k \in 1..Len(fe)
            <4> DEFINE x == o[n]
            <4> HIDE DEF x
            <4> QED
                BY <1>10, <1>11 DEF x
        <3>2. fe[o[n] + k] = e[k]
            BY <1>7, <1>8, <2>1 DEF Joins, ew
        <3> QED
            BY <1>9, <3>1, <3>2 DEF Joins
    <2> QED
        BY <2>1
<1>14. \A k \in 1..3 : b[o[n] + ew + k] = tail[k]
    BY <1>3, <1>9, <1>11 DEF Joins
<1>15. Trails(o[n] + ew) /\ Ended(o[n], ew)
    <2>1. 1 \in 1..3 /\ 2 \in 1..3 /\ 3 \in 1..3 /\ (ew = 1 => 1 \in 1..ew) /\ (ew = 2 => 1 \in 1..ew /\ 2 \in 1..ew)
        OBVIOUS
    <2>2. Trails(o[n] + ew)
        BY <1>3, <1>4, <1>11, <1>14, <2>1 DEF Trails
    <2>3. Ended(o[n], ew)
        BY <1>2, <1>4, <1>13, <2>1 DEF Ended
    <2> QED
        BY <2>2, <2>3
<1>16. ASSUME NEW i \in 1..n
       PROVE  /\ o[i] = o[i - 1] + Len(ls[i]) + ew
              /\ \A k \in 1..Len(ls[i]) : b[o[i - 1] + k] = ls[i][k]
              /\ Ended(o[i - 1] + Len(ls[i]), ew)
    <2> DEFINE p == o[i - 1]
               q == o[i]
               l == ls[i]
               len == Len(l)
               N == o[n]
    <2>1. i \in 0..n /\ i - 1 \in 0..n /\ n \in i..n /\ i \in 0..Len(sums) /\ n \in i..Len(sums)
        BY <1>1, <1>6
    <2>2. p \in Nat /\ q \in Nat /\ N \in Nat
        BY <1>7, <1>10, <2>1
    <2>3. len \in Nat /\ Len(ss[i]) = len + ew /\ Joins(TextBytes, l, e, ss[i])
        BY <1>5 DEF Joins, ew
    <2>4. q = p + len + ew
        <3>1. q = p + Len(ss[i])
            BY <1>7
        <3> HIDE DEF p, q, len
        <3> QED
            BY <1>10, <2>2, <2>3, <3>1
    <2>5. q <= N
        <3>1. SumsOf(sums, o)
            <4>1. sums \in Seq(Nat)
                <5>1. \A j \in 1..Len(ss) : Len(ss[j]) \in Nat
                    BY <1>6
                <5> QED
                    BY <1>1, <1>6, <5>1
            <4> HIDE DEF sums
            <4> QED
                BY <4>1, RunningSumsAre DEF o
        <3>2. sums \in Seq(Nat) /\ Len(sums) = n
            <4>1. \A j \in 1..Len(ss) : Len(ss[j]) \in Nat
                BY <1>6
            <4> QED
                BY <1>1, <1>6, <4>1
        <3> HIDE DEF sums
        <3> QED
            BY <2>1, <3>1, <3>2, RunningSumsGrow
    <2>6. \A k \in 1..Len(ss[i]) : b[p + k] = ss[i][k]
        <3>1. ASSUME NEW k \in 1..Len(ss[i]) PROVE b[p + k] = ss[i][k]
            <4>1. f[p + k] = ss[i][k]
                BY <1>7, <3>1 DEF Strung
            <4>2. p + k \in 1..N
                <5> HIDE DEF p, q, len, N
                <5> QED
                    BY <1>10, <2>2, <2>3, <2>4, <2>5
            <4> QED
                BY <1>12, <4>1, <4>2
        <3> QED
            BY <3>1
    <2>7. \A k \in 1..len : b[p + k] = l[k]
        <3>1. \A k \in 1..len : k \in 1..Len(ss[i])
            <4> HIDE DEF len
            <4> QED
                BY <1>10, <2>3
        <3> QED
            BY <2>3, <2>6, <3>1 DEF Joins
    <2>8. \A k \in 1..ew : b[p + len + k] = e[k]
        <3>1. ASSUME NEW k \in 1..ew PROVE b[p + len + k] = e[k]
            <4>1. len + k \in 1..Len(ss[i]) /\ p + (len + k) = p + len + k
                <5> HIDE DEF p, len
                <5> QED
                    BY <1>10, <2>2, <2>3
            <4>2. ss[i][len + k] = e[k]
                BY <2>3 DEF Joins, ew
            <4> QED
                BY <2>6, <4>1, <4>2
        <3> QED
            BY <3>1
    <2>9. Ended(p + len, ew)
        <3>1. (ew = 1 => 1 \in 1..ew) /\ (ew = 2 => 1 \in 1..ew /\ 2 \in 1..ew)
            OBVIOUS
        <3> QED
            BY <1>2, <1>4, <2>8, <3>1 DEF Ended
    <2> QED
        BY <2>4, <2>7, <2>9
<1>17. ew \in {1, 2} /\ o \in [0..Len(ls) -> Nat] /\ T!bytes \in Seq(TextBytes)
    BY <1>2, <1>4, <1>7, <1>11 DEF n, ew
<1>18. Headed(ls, ew, o)
    BY <1>1, <1>4, <1>7, <1>15, <1>16, <1>17 DEF Headed, n
<1> QED
    BY <1>18

\* The line l stands behind the byte at p, with its end of ew bytes up to q.
PlainAt(l, p, ew, q) ==
    /\ T!bytes \in Seq(TextBytes) /\ p \in Nat /\ l \in Seq(TextBytes) /\ ew \in {1, 2}
    /\ q = p + Len(l) + ew /\ q <= Len(T!bytes) /\ Ended(p + Len(l), ew)
    /\ \A k \in 1..Len(l) : l[k] # "nl" /\ l[k] # "cr" /\ T!bytes[p + k] = l[k]

\* A line is read without its end, of one byte or of two.
LEMMA PlainLine ==
    ASSUME NEW l, NEW p, NEW ew, NEW q, PlainAt(l, p, ew, q)
    PROVE  ~T!Line(p).eof /\ T!Line(p).text = l /\ T!Line(p).pos = q
<1> USE DEF PlainAt
<1> DEFINE L == Len(T!bytes)
           len == Len(l)
<1>1. L \in Nat /\ len \in Nat /\ q = p + len + ew /\ q <= L /\ q \in Nat
    <2>1. L \in Nat /\ len \in Nat
        OBVIOUS
    <2> HIDE DEF L, len
    <2> QED
        BY <2>1 DEF L, len
<1>2. CASE ew = 2
    <2>1. T!bytes[p + Len(l) + 1] = "cr" /\ T!bytes[p + Len(l) + 2] = "nl" /\ q = p + Len(l) + 2
        BY <1>2 DEF Ended
    <2>2. \A k \in 1..Len(l) : l[k] # "nl" /\ T!bytes[p + k] = l[k]
        OBVIOUS
    <2> QED
        BY ONLY <2>1, <2>2, LineIs, T!bytes \in Seq(TextBytes), p \in Nat, l \in Seq(TextBytes), q <= Len(T!bytes)
<1>3. CASE ew = 1
    <2> DEFINE e == T!EndOfLine(p)
               n == IF T!At(e) # "nl" THEN e
                    ELSE IF e - 1 > p /\ T!At(e - 1) = "cr" THEN e - 2 ELSE e - 1
               s == SubSeq(T!bytes, p + 1, n)
    <2>1. p \in 0..L /\ p # L /\ q \in (p + 1)..L /\ q - 1 = p + len /\ q \in 1..L
        <3>1. q = p + len + 1
            BY <1>1, <1>3
        <3> HIDE DEF L, len
        <3> QED
            BY ONLY <1>1, <3>1, p \in Nat
    <2>2. T!bytes[q] = "nl"
        BY <1>3 DEF Ended
    <2>3. ASSUME NEW j \in (p + 1)..(q - 1) PROVE T!bytes[j] # "nl" /\ T!bytes[j] # "cr" /\ j \in 1..L
        <3> DEFINE k == j - p
        <3>1. k \in 1..len /\ j = p + k /\ j \in 1..L
            <4> HIDE DEF L, len
            <4> QED
                BY <1>1, <1>3
        <3> HIDE DEF k
        <3>2. l[k] # "nl" /\ l[k] # "cr" /\ T!bytes[p + k] = l[k]
            BY <3>1
        <3> QED
            BY <3>1, <3>2
    <2>4. e = q
        <3> HIDE DEF e
        <3> QED
            BY <2>1, <2>2, <2>3, EndOfLineIs DEF e
    <2>5. T!At(q) = "nl"
        BY <2>1, <2>2 DEF T!At
    <2>6. q - 1 > p => T!At(q - 1) # "cr"
        <3>1. ASSUME q - 1 > p PROVE T!At(q - 1) # "cr"
            <4>1. q - 1 \in (p + 1)..(q - 1)
                <5> HIDE DEF len, L
                <5> QED
                    BY <1>1, <2>1, <3>1
            <4>2. q - 1 \in 1..L /\ T!bytes[q - 1] # "cr"
                BY <2>3, <4>1
            <4> QED
                BY <4>2 DEF T!At
        <3> QED
            BY <3>1
    <2>7. n = p + len
        <3> HIDE DEF e, len, L
        <3> QED
            BY <2>1, <2>4, <2>5, <2>6
    <2>8. T!Line(p) = [eof |-> p = L, text |-> s, pos |-> e]
        BY DEF T!Line
    <2>9. s = l
        <3>1. p + len <= L
            <4> HIDE DEF len, L
            <4> QED
                BY <1>1, <1>3
        <3>2. \A k \in 1..Len(l) : T!bytes[p + k] = l[k]
            OBVIOUS
        <3> HIDE DEF n
        <3>3. SubSeq(T!bytes, p + 1, p + len) = l
            BY <3>1, <3>2, FoundIn
        <3> QED
            BY <2>7, <3>3
    <2> DEFINE r0 == T!Line(p)
               atEnd == p = L
    <2>10. r0 = [eof |-> atEnd, text |-> s, pos |-> e]
        BY <2>8
    <2> HIDE DEF s, e, r0, atEnd
    <2>11. (r0.eof <=> atEnd) /\ r0.text = s /\ r0.pos = e
        BY <2>10
    <2> QED
        BY <2>1, <2>4, <2>9, <2>11 DEF atEnd, r0
<1> QED
    BY <1>2, <1>3

\* How many spaces there are, from a position on.
LEMMA SpacesAre ==
    ASSUME T!bytes \in Seq(TextBytes), NEW p \in 0..Len(T!bytes)
    PROVE  /\ T!Spaces(p) \in Nat /\ p + T!Spaces(p) <= Len(T!bytes)
           /\ T!At(p + T!Spaces(p) + 1) # "sp" /\ \A i \in 1..T!Spaces(p) : T!At(p + i) = "sp"
           /\ \A n \in Nat : T!At(p + n + 1) # "sp" /\ (\A i \in 1..n : T!At(p + i) = "sp") => T!Spaces(p) = n
<1> DEFINE L == Len(T!bytes)
           Stops == {n \in Nat : T!At(p + n + 1) # "sp"}
           Counts(n) == T!At(p + n + 1) # "sp" /\ \A i \in 1..n : T!At(p + i) = "sp"
<1>1. L \in Nat /\ p \in Nat /\ p <= L /\ DOMAIN T!bytes = 1..L
    OBVIOUS
<1>2. \A n \in Nat : p + n + 1 > L => T!At(p + n + 1) = "none"
    <2>1. \A n \in Nat : p + n + 1 > L => p + n + 1 \notin 1..L
        <3> HIDE DEF L
        <3> QED
            BY <1>1
    <2> QED
        BY <1>1, <2>1 DEF T!At
<1>3. L - p \in Stops
    <2>1. L - p \in Nat /\ p + (L - p) + 1 > L
        <3> HIDE DEF L
        <3> QED
            BY <1>1
    <2> HIDE DEF L
    <2> QED
        BY <1>2, <2>1
<1>4. PICK n \in Stops : \A m \in Stops : n <= m
    <2>1. Stops \subseteq Nat /\ Stops # {}
        BY <1>3
    <2> HIDE DEF Stops
    <2> QED
        BY <2>1, LeastNumber
<1>5. n \in Nat /\ n <= L - p
    BY <1>3, <1>4
<1>6. Counts(n)
    <2>1. ASSUME NEW i \in 1..n PROVE T!At(p + i) = "sp"
        <3>1. i - 1 \in Nat /\ ~(n <= i - 1) /\ p + (i - 1) + 1 = p + i
            <4> HIDE DEF L
            <4> QED
                BY <1>1, <1>5
        <3>2. i - 1 \notin Stops
            <4> HIDE DEF Stops
            <4> QED
                BY <1>4, <3>1
        <3> QED
            BY <3>1, <3>2
    <2> QED
        BY <1>4, <2>1
<1>7. ASSUME NEW a \in Nat, NEW b \in Nat, Counts(a), Counts(b) PROVE a = b
    <2>1. ASSUME NEW x \in Nat, NEW y \in Nat, Counts(x), Counts(y), x < y PROVE FALSE
        <3>1. x + 1 \in 1..y /\ p + (x + 1) = p + x + 1
            <4> HIDE DEF L
            <4> QED
                BY <1>1, <2>1
        <3>2. T!At(p + (x + 1)) = "sp"
            BY <2>1, <3>1
        <3> QED
            BY <2>1, <3>1, <3>2
    <2> HIDE DEF Counts
    <2>2. ~(a < b) /\ ~(b < a)
        BY <1>7, <2>1
    <2> QED
        BY <2>2
<1>8. n \in 0..L
    <2> HIDE DEF L
    <2> QED
        BY <1>1, <1>5
<1>9. T!Spaces(p) = CHOOSE k \in 0..L : Counts(k)
    BY DEF T!Spaces
<1> HIDE DEF Counts
<1>10. T!Spaces(p) \in 0..L /\ Counts(T!Spaces(p))
    BY <1>6, <1>8, <1>9
<1> DEFINE h == T!Spaces(p)
<1>11. h \in Nat /\ p + h <= L
    <2>1. h \in Nat /\ Counts(h)
        <3> HIDE DEF h
        <3> QED
            BY <1>10 DEF h
    <2>2. h = n
        <3> HIDE DEF h
        <3> QED
            BY <1>5, <1>6, <1>7, <2>1
    <2> HIDE DEF h, L
    <2> QED
        BY <1>1, <1>5, <2>2
<1>12. ASSUME NEW m \in Nat, Counts(m) PROVE h = m
    <2> HIDE DEF h
    <2> QED
        BY <1>7, <1>10, <1>11, <1>12 DEF h
<1> QED
    BY <1>10, <1>11, <1>12 DEF Counts

-----------------------------------------------------------------------------
(* textproto.Reader: the lines of a header as they are read.               *)

\* LineAfter each line the end of the header is still to come, and one more line.
LEMMA HeadedFits ==
    ASSUME NEW ls, NEW ew, NEW o, Headed(ls, ew, o), NEW i \in 0..Len(ls)
    PROVE  /\ Len(ls) \in Nat /\ o[i] \in Nat /\ o[Len(ls)] \in Nat /\ ew \in {1, 2}
           /\ Len(T!bytes) \in Nat /\ Len(T!bytes) = o[Len(ls)] + ew + 3
           /\ o[i] <= o[Len(ls)]
<1> DEFINE n == Len(ls)
           sums == [j \in 1..n |-> Len(ls[j]) + ew]
<1>1. n \in Nat /\ ls \in Seq(T!HeaderLines) /\ ew \in {1, 2} /\ ew \in Nat
    BY DEF Headed
<1>2. \A j \in 1..n : Len(ls[j]) \in Nat /\ Len(ls[j]) + ew \in Nat
    <2>1. ASSUME NEW j \in 1..n PROVE Len(ls[j]) \in Nat
        BY <1>1, HeaderLineIs
    <2> QED
        BY <1>1, <2>1
<1>3. sums \in Seq(Nat) /\ Len(sums) = n
    BY <1>1, <1>2
<1>4. o \in [0..n -> Nat] /\ o[0] = 0 /\ \A j \in 1..n : o[j] = o[j - 1] + (Len(ls[j]) + ew)
    <2>1. o \in [0..n -> Nat] /\ o[0] = 0 /\ \A j \in 1..n : o[j] = o[j - 1] + Len(ls[j]) + ew
        BY DEF Headed
    <2>2. ASSUME NEW j \in 1..n PROVE o[j] = o[j - 1] + (Len(ls[j]) + ew)
        <3> DEFINE p == o[j - 1]
                   len == Len(ls[j])
        <3>1. j - 1 \in 0..n
            BY <1>1
        <3>2. p \in Nat /\ len \in Nat /\ o[j] = p + len + ew
            BY <1>2, <2>1, <3>1
        <3> HIDE DEF p, len
        <3>3. o[j] = p + (len + ew)
            BY <1>1, <3>2
        <3> QED
            BY <3>3 DEF p, len
    <2> QED
        BY <2>1, <2>2
<1>5. SumsOf(sums, o)
    BY <1>3, <1>4 DEF SumsOf
<1>6. i \in 0..Len(sums) /\ n \in i..Len(sums)
    BY <1>1, <1>3
<1> HIDE DEF sums
<1>7. o[i] \in Nat /\ o[n] \in Nat /\ o[i] <= o[n]
    BY <1>3, <1>5, <1>6, RunningSumsGrow
<1>8. Len(T!bytes) = o[n] + ew + 3 /\ Len(T!bytes) \in Nat
    BY DEF Headed, Trails
<1> QED
    BY <1>1, <1>7, <1>8

\* A line of the header is read, from its start or from behind some of its bytes.
LEMMA HeaderLineRead ==
    ASSUME NEW ls, NEW ew, NEW o, Headed(ls, ew, o), NEW i \in 1..Len(ls), NEW h \in 0..Len(ls[i])
    PROVE  LET g == T!Line(o[i - 1] + h)
           IN  /\ ~g.eof /\ g.pos = o[i] /\ g.text = SubSeq(ls[i], h + 1, Len(ls[i]))
               /\ o[i - 1] + h \in 0..Len(T!bytes) /\ o[i - 1] + h < o[i]
<1> DEFINE l == ls[i]
           len == Len(l)
           s == SubSeq(l, h + 1, len)
           p == o[i - 1]
           q == o[i]
           L == Len(T!bytes)
<1>1. ls \in Seq(T!HeaderLines) /\ T!bytes \in Seq(TextBytes) /\ Len(ls) \in Nat
    BY DEF Headed
<1>2. /\ l \in Seq(TextBytes) /\ len \in Nat
      /\ \A k \in 1..len : l[k] # "nl" /\ l[k] # "cr"
    BY <1>1, HeaderLineIs
<1>3. q = p + len + ew /\ (\A k \in 1..len : T!bytes[p + k] = l[k]) /\ Ended(p + len, ew)
    BY DEF Headed
<1>4. p \in Nat /\ q \in Nat /\ q <= L /\ ew \in {1, 2} /\ L \in Nat
    <2>1. i \in 0..Len(ls) /\ i - 1 \in 0..Len(ls)
        BY <1>1
    <2> DEFINE x == o[Len(ls)]
    <2>2. p \in Nat /\ q \in Nat /\ q <= x /\ x \in Nat /\ ew \in {1, 2} /\ L = x + ew + 3
        BY <2>1, HeadedFits
    <2> HIDE DEF p, q, x, L
    <2>3. q <= L
        BY <2>2
    <2> QED
        BY <2>2, <2>3
<1>5. h \in 0..len
    OBVIOUS
<1> HIDE DEF l, p, q, L, len
<1>6. s \in Seq(TextBytes) /\ Len(s) = len - h
    BY <1>2, <1>5, Split DEF len
<1>7. ASSUME NEW k \in 1..Len(s) PROVE s[k] # "nl" /\ s[k] # "cr" /\ T!bytes[p + h + k] = s[k]
    <2>1. h + k \in 1..len /\ p + (h + k) = p + h + k /\ h + 1 + k - 1 = h + k /\ k \in 1..(len - (h + 1) + 1)
        BY <1>2, <1>4, <1>5, <1>6
    <2>2. s[k] = l[h + k]
        <3> DEFINE m == h + 1
        <3>1. m \in Int /\ len \in Int /\ \A j \in m..len : l[j] \in TextBytes
            <4>1. \A j \in m..len : j \in 1..len
                BY <1>2, <1>5
            <4> QED
                BY <1>2, <1>5, <4>1 DEF len
        <3>2. s = SubSeq(l, m, len)
            OBVIOUS
        <3>3. m + k - 1 = h + k /\ k \in 1..(len - m + 1)
            BY <1>5, <2>1
        <3> HIDE DEF m, s
        <3>4. s[k] = l[m + k - 1]
            BY <3>1, <3>2, <3>3, SubSeqProperties
        <3> QED
            BY <3>3, <3>4
    <2> HIDE DEF s
    <2> QED
        BY <1>2, <1>3, <2>1, <2>2
<1> HIDE DEF s
<1>8. p + h + Len(s) = p + len /\ q = p + h + Len(s) + ew /\ p + h \in Nat /\ p + h < q /\ p + h \in 0..L
    <2>1. ew \in Nat /\ ew > 0
        BY <1>4
    <2> QED
        BY <1>2, <1>3, <1>4, <1>5, <1>6, <2>1
<1> DEFINE x == p + h
<1>9. ~T!Line(x).eof /\ T!Line(x).text = s /\ T!Line(x).pos = q
    <2>1. x \in Nat /\ Ended(x + Len(s), ew) /\ q = x + Len(s) + ew
        BY <1>3, <1>8
    <2>2. \A k \in 1..Len(s) : s[k] # "nl" /\ s[k] # "cr" /\ T!bytes[x + k] = s[k]
        BY <1>7
    <2>3. T!bytes \in Seq(TextBytes) /\ s \in Seq(TextBytes) /\ ew \in {1, 2} /\ q <= Len(T!bytes)
        BY <1>1, <1>4, <1>6 DEF L
    <2> HIDE DEF x
    <2>4. PlainAt(s, x, ew, q)
        BY ONLY <2>1, <2>2, <2>3 DEF PlainAt
    <2> QED
        BY ONLY <2>4, PlainLine
<1> QED
    BY <1>8, <1>9 DEF l, p, q, L, s, len

LEMMA WholeHeaderLine ==
    ASSUME NEW ls, NEW ew, NEW o, Headed(ls, ew, o), NEW i \in 1..Len(ls)
    PROVE  LET g == T!Line(o[i - 1])
           IN  ~g.eof /\ g.pos = o[i] /\ g.text = ls[i]
<1> DEFINE l == ls[i]
           p == o[i - 1]
           z == 0
<1>1. ls \in Seq(T!HeaderLines) /\ Len(ls) \in Nat
    BY DEF Headed
<1>2. l \in Seq(TextBytes) /\ Len(l) \in Nat
    BY <1>1, HeaderLineIs
<1>3. SubSeq(l, 1, Len(l)) = l
    BY <1>2, SubSeqFull
<1>4. p \in Nat /\ z \in 0..Len(l)
    <2>1. i - 1 \in 0..Len(ls)
        BY <1>1
    <2> QED
        BY <1>2, <2>1, HeadedFits
<1>5. p + z = p /\ z + 1 = 1
    BY <1>4
<1>6. ~T!Line(p + z).eof /\ T!Line(p + z).pos = o[i] /\ T!Line(p + z).text = SubSeq(l, z + 1, Len(l))
    <2> HIDE DEF z
    <2> QED
        BY <1>4, HeaderLineRead
<1> HIDE DEF l, z, p
<1> QED
    BY <1>3, <1>5, <1>6 DEF l, p

\* The line that ends the header.
LEMMA BlankLine ==
    ASSUME NEW ls, NEW ew, NEW o, Headed(ls, ew, o)
    PROVE  LET g == T!Line(o[Len(ls)])
           IN  ~g.eof /\ g.pos = o[Len(ls)] + ew /\ g.text = <<>>
<1> DEFINE s == <<>>
           p == o[Len(ls)]
           q == p + ew
<1>1. s \in Seq(TextBytes) /\ Len(s) = 0 /\ 1..Len(s) = {}
    OBVIOUS
<1>2. T!bytes \in Seq(TextBytes) /\ Ended(p, ew) /\ Len(ls) \in Nat
    BY DEF Headed
<1>3. p \in Nat /\ ew \in {1, 2} /\ q = p + Len(s) + ew /\ q <= Len(T!bytes) /\ p + Len(s) = p
    <2>1. Len(ls) \in 0..Len(ls)
        BY <1>2
    <2>2. p \in Nat /\ ew \in {1, 2} /\ Len(T!bytes) = p + ew + 3
        BY <2>1, HeadedFits
    <2> HIDE DEF p, s
    <2> QED
        BY <1>1, <2>2
<1> HIDE DEF s, q, p
<1>4. ~T!Line(p).eof /\ T!Line(p).text = s /\ T!Line(p).pos = q
    <2>1. Ended(p + Len(s), ew)
        BY <1>2, <1>3
    <2>2. \A k \in 1..Len(s) : s[k] # "nl" /\ s[k] # "cr" /\ T!bytes[p + k] = s[k]
        BY <1>1
    <2>3. /\ T!bytes \in Seq(TextBytes) /\ s \in Seq(TextBytes) /\ ew \in {1, 2} /\ q <= Len(T!bytes)
          /\ p \in Nat /\ q = p + Len(s) + ew
        BY <1>1, <1>2, <1>3
    <2>4. PlainAt(s, p, ew, q)
        BY ONLY <2>1, <2>2, <2>3 DEF PlainAt
    <2> QED
        BY ONLY <2>4, PlainLine
<1> QED
    BY <1>4 DEF s, p, q

-----------------------------------------------------------------------------
(* textproto.Reader: lines without the spaces around them.                 *)

LEMMA TrimIs ==
    ASSUME NEW S, NEW s \in Seq(S)
    PROVE  /\ (\A k \in 1..Len(s) : s[k] = "sp") => T!Trim(s) = <<>>
           /\ \A a, b : Edges(s, a, b) => T!Trim(s) = SubSeq(s, a, b)
<1> DEFINE Solid == {i \in DOMAIN s : s[i] # "sp"}
           first == CHOOSE i \in Solid : \A j \in Solid : i <= j
           last == CHOOSE i \in Solid : \A j \in Solid : i >= j
<1>1. DOMAIN s = 1..Len(s) /\ Len(s) \in Nat
    OBVIOUS
<1>2. T!Trim(s) = IF Solid = {} THEN <<>> ELSE SubSeq(s, first, last)
    BY DEF T!Trim
<1>3. ASSUME NEW a, NEW b, Edges(s, a, b) PROVE Solid # {} /\ first = a /\ last = b
    <2>1. a \in Solid /\ b \in Solid /\ \A k \in Solid : a <= k /\ k <= b
        BY <1>1, <1>3 DEF Edges
    <2>2. Solid \subseteq Nat
        BY <1>1
    <2> HIDE DEF Solid
    <2>3. first \in Solid /\ \A j \in Solid : first <= j
        <3> HIDE DEF first
        <3>1. \E i \in Solid : \A j \in Solid : i <= j
            BY <2>1
        <3> QED
            BY <3>1 DEF first
    <2>4. last \in Solid /\ \A j \in Solid : last >= j
        <3> HIDE DEF last
        <3>1. \E i \in Solid : \A j \in Solid : i >= j
            <4>1. \A j \in Solid : b >= j
                BY <2>1, <2>2
            <4> QED
                BY <2>1, <4>1
        <3> QED
            BY <3>1 DEF last
    <2> HIDE DEF first, last
    <2>5. first \in Nat /\ last \in Nat /\ a \in Nat /\ b \in Nat
        BY <2>1, <2>2, <2>3, <2>4
    <2>6. first <= a /\ a <= first /\ last >= b /\ last <= b
        BY <2>1, <2>3, <2>4
    <2> QED
        BY <2>1, <2>5, <2>6
<1>4. (\A k \in 1..Len(s) : s[k] = "sp") => Solid = {}
    BY <1>1
<1> HIDE DEF Solid, first, last
<1>5. ASSUME NEW a, NEW b, Edges(s, a, b) PROVE T!Trim(s) = SubSeq(s, a, b)
    <2>1. Solid # {} /\ first = a /\ last = b
        BY ONLY <1>3, <1>5, Zenon
    <2>2. T!Trim(s) = SubSeq(s, first, last)
        BY ONLY <1>2, <2>1
    <2> QED
        BY ONLY <2>1, <2>2
<1>6. (\A k \in 1..Len(s) : s[k] = "sp") => T!Trim(s) = <<>>
    BY <1>2, <1>4
<1> QED
    BY <1>5, <1>6

LEMMA TrimType ==
    ASSUME NEW S, NEW s \in Seq(S)
    PROVE  T!Trim(s) \in Seq(S)
<1>1. CASE \A k \in 1..Len(s) : s[k] = "sp"
    <2>1. T!Trim(s) = <<>>
        BY <1>1, TrimIs
    <2> QED
        BY <2>1
<1>2. CASE ~\A k \in 1..Len(s) : s[k] = "sp"
    <2>1. PICK a, b : Edges(s, a, b)
        BY <1>2, EdgesExist
    <2>2. T!Trim(s) = SubSeq(s, a, b)
        BY <2>1, TrimIs
    <2>3. a \in 1..Len(s) /\ b \in a..Len(s) /\ Len(s) \in Nat
        BY <2>1 DEF Edges
    <2>4. \A i \in a..b : i \in 1..Len(s)
        <3> DEFINE L == Len(s)
        <3> HIDE DEF L
        <3> QED
            BY <2>3 DEF L
    <2>5. \A i \in a..b : s[i] \in S
        BY <2>4
    <2>6. SubSeq(s, a, b) \in Seq(S)
        BY <2>3, <2>5, SubSeqProperties
    <2> QED
        BY <2>2, <2>6
<1> QED
    BY <1>1, <1>2

\* Spaces in front make no difference to it.
LEMMA TrimBehindSpaces ==
    ASSUME NEW S, NEW s \in Seq(S), NEW h \in 0..Len(s), \A k \in 1..h : s[k] = "sp"
    PROVE  T!Trim(SubSeq(s, h + 1, Len(s))) = T!Trim(s)
<1> DEFINE L == Len(s)
           z == SubSeq(s, h + 1, L)
           M == Len(z)
<1>1. L \in Nat /\ h \in Nat /\ h <= L
    OBVIOUS
<1>2. z \in Seq(S) /\ M = L - h /\ \A k \in 1..(L - h) : z[k] = s[h + k]
    BY RestOf
<1> HIDE DEF z
<1>3. CASE \A k \in 1..L : s[k] = "sp"
    <2>1. \A k \in 1..M : z[k] = "sp"
        <3>1. \A k \in 1..M : h + k \in 1..L /\ k \in 1..(L - h)
            <4> HIDE DEF L, M
            <4> QED
                BY <1>1, <1>2
        <3> QED
            BY <1>2, <1>3, <3>1
    <2>2. T!Trim(s) = <<>> /\ T!Trim(z) = <<>>
        BY <1>2, <1>3, <2>1, TrimIs
    <2> QED
        BY <2>2 DEF z
<1>4. CASE ~\A k \in 1..L : s[k] = "sp"
    <2>1. PICK a, b : Edges(s, a, b)
        BY <1>4, EdgesExist
    <2> DEFINE c == a - h
               d == b - h
    <2>2. Edges(z, c, d) /\ SubSeq(z, c, d) = SubSeq(s, a, b)
        <3>1. Padded(s, h, a, b)
            BY <2>1 DEF Padded
        <3>2. Unpadded(s, h, a, b)
            BY <3>1, EdgesBehind
        <3> QED
            BY <3>2 DEF Unpadded, z
    <2> HIDE DEF c, d
    <2>3. T!Trim(s) = SubSeq(s, a, b) /\ T!Trim(z) = SubSeq(z, c, d)
        BY <1>2, <2>1, <2>2, TrimIs
    <2> QED
        BY <2>2, <2>3 DEF z
<1> QED
    BY <1>3, <1>4

\* The bytes of a header, as readContinuedLineSlice looks at them.
LEMMA HeaderBytes ==
    ASSUME NEW ls, NEW ew, NEW o, Headed(ls, ew, o), NEW i \in 1..Len(ls)
    PROVE  /\ \A k \in 1..Len(ls[i]) : T!At(o[i - 1] + k) = ls[i][k]
           /\ T!At(o[i - 1] + Len(ls[i]) + 1) \in {"cr", "nl"}
           /\ o[i - 1] \in 0..Len(T!bytes) /\ Len(ls[i]) \in Nat /\ o[i] \in 0..Len(T!bytes)
<1> DEFINE l == ls[i]
           len == Len(l)
           p == o[i - 1]
           q == o[i]
           L == Len(T!bytes)
<1>1. ls \in Seq(T!HeaderLines) /\ T!bytes \in Seq(TextBytes) /\ Len(ls) \in Nat
    BY DEF Headed
<1>2. len \in Nat
    BY <1>1, HeaderLineIs
<1>3. q = p + len + ew /\ (\A k \in 1..len : T!bytes[p + k] = l[k]) /\ Ended(p + len, ew)
    BY DEF Headed
<1>4. p \in Nat /\ q \in Nat /\ q <= L /\ L \in Nat /\ ew \in {1, 2}
    <2>1. i \in 0..Len(ls) /\ i - 1 \in 0..Len(ls)
        BY <1>1
    <2> DEFINE x == o[Len(ls)]
    <2>2. p \in Nat /\ q \in Nat /\ q <= x /\ x \in Nat /\ ew \in {1, 2} /\ L = x + ew + 3
        BY <2>1, HeadedFits
    <2> HIDE DEF p, q, x, L
    <2>3. q <= L /\ L \in Nat
        BY <2>2
    <2> QED
        BY <2>2, <2>3
<1>5. DOMAIN T!bytes = 1..L
    BY <1>1
<1>6. p + len + 1 \in 1..L /\ \A k \in 1..len : p + k \in 1..L
    <2>1. ew \in Nat /\ ew > 0
        BY <1>4
    <2> HIDE DEF l, p, q, L, len
    <2> QED
        BY <1>2, <1>3, <1>4, <2>1
<1>7. \A k \in 1..len : T!At(p + k) = l[k]
    BY <1>3, <1>5, <1>6 DEF T!At
<1>8. T!At(p + len + 1) \in {"cr", "nl"}
    BY <1>3, <1>5, <1>6 DEF T!At, Ended
<1>9. p \in 0..L /\ q \in 0..L
    <2>1. p <= q
        <3>1. ew \in Nat
            BY <1>4
        <3> HIDE DEF l, p, q, L, len
        <3> QED
            BY <1>2, <1>3, <1>4, <3>1
    <2> HIDE DEF l, p, q, L, len
    <2> QED
        BY <1>4, <2>1
<1> QED
    BY <1>2, <1>7, <1>8, <1>9

\* The byte that a line, or the end of the header, begins with.
LEMMA FirstByte ==
    ASSUME NEW ls, NEW ew, NEW o, Headed(ls, ew, o), NEW i \in 0..Len(ls)
    PROVE  /\ i # Len(ls) => T!At(o[i] + 1) = ls[i + 1][1]
           /\ i = Len(ls) => T!At(o[i] + 1) \in {"cr", "nl"}
           /\ o[i] \in 0..Len(T!bytes)
<1>1. Len(ls) \in Nat /\ ls \in Seq(T!HeaderLines) /\ T!bytes \in Seq(TextBytes)
    BY DEF Headed
<1>2. ASSUME i # Len(ls)
      PROVE  T!At(o[i] + 1) = ls[i + 1][1] /\ o[i] \in 0..Len(T!bytes)
    <2> DEFINE j == i + 1
    <2>1. j \in 1..Len(ls) /\ j - 1 = i
        BY <1>1, <1>2
    <2> HIDE DEF j
    <2>2. 1 \in 1..Len(ls[j])
        <3>1. Len(ls[j]) \in Nat /\ 1 <= Len(ls[j])
            BY <1>1, <2>1, HeaderLineIs
        <3> QED
            BY <3>1
    <2>3. T!At(o[j - 1] + 1) = ls[j][1] /\ o[j - 1] \in 0..Len(T!bytes)
        BY <2>1, <2>2, HeaderBytes
    <2> QED
        BY <2>1, <2>3 DEF j
<1>3. ASSUME i = Len(ls)
      PROVE  T!At(o[i] + 1) \in {"cr", "nl"} /\ o[i] \in 0..Len(T!bytes)
    <2> DEFINE p == o[i]
               L == Len(T!bytes)
    <2>1. p \in Nat /\ ew \in {1, 2} /\ L = p + ew + 3 /\ L \in Nat
        BY <1>3, HeadedFits
    <2>2. p + 1 \in 1..L /\ p \in 0..L
        <3>1. ew \in Nat
            BY <2>1
        <3> HIDE DEF p, L
        <3> QED
            BY <2>1, <3>1
    <2>3. Ended(p, ew)
        BY <1>3 DEF Headed
    <2>4. T!At(p + 1) = T!bytes[p + 1]
        BY <1>1, <2>2 DEF T!At
    <2> QED
        BY <2>2, <2>3, <2>4 DEF Ended
<1> QED
    BY <1>2, <1>3

LEMMA NoSpaces ==
    ASSUME NEW ls, NEW ew, NEW o, Headed(ls, ew, o), NEW i \in 0..Len(ls),
           i # Len(ls) => ~T!Continues(ls[i + 1])
    PROVE  T!Spaces(o[i]) = 0
<1> DEFINE p == o[i]
<1>1. p \in 0..Len(T!bytes) /\ T!At(p + 1) # "sp"
    BY FirstByte DEF T!Continues
<1>2. T!bytes \in Seq(TextBytes) /\ p \in Nat
    BY <1>1 DEF Headed
<1> HIDE DEF p
<1>3. p + 0 + 1 = p + 1 /\ 1..0 = {} /\ 0 \in Nat
    BY <1>2
<1>4. T!Spaces(p) = 0
    BY <1>1, <1>2, <1>3, SpacesAre
<1> QED
    BY <1>4 DEF p

LEMMA SomeSpaces ==
    ASSUME NEW ls, NEW ew, NEW o, Headed(ls, ew, o), NEW i \in 1..Len(ls), T!Continues(ls[i])
    PROVE  /\ T!Spaces(o[i - 1]) \in 1..Len(ls[i])
           /\ \A k \in 1..T!Spaces(o[i - 1]) : ls[i][k] = "sp"
<1> DEFINE l == ls[i]
           len == Len(l)
           p == o[i - 1]
           h == T!Spaces(p)
<1>1. ls \in Seq(T!HeaderLines) /\ T!bytes \in Seq(TextBytes)
    BY DEF Headed
<1>2. /\ (\A k \in 1..len : T!At(p + k) = l[k]) /\ T!At(p + len + 1) \in {"cr", "nl"}
      /\ p \in 0..Len(T!bytes) /\ len \in Nat
    <2>1. \A k \in 1..Len(ls[i]) : T!At(o[i - 1] + k) = ls[i][k]
        BY HeaderBytes
    <2>2. T!At(o[i - 1] + Len(ls[i]) + 1) \in {"cr", "nl"}
        BY HeaderBytes
    <2>3. o[i - 1] \in 0..Len(T!bytes) /\ Len(ls[i]) \in Nat
        BY HeaderBytes
    <2> QED
        BY <2>1, <2>2, <2>3
<1>3. 1 <= len /\ l[1] = "sp" /\ p \in Nat
    <2>1. 1 <= len
        BY <1>1, HeaderLineIs
    <2> QED
        BY <1>2, <2>1 DEF T!Continues
<1>4. h \in Nat /\ T!At(p + h + 1) # "sp" /\ \A k \in 1..h : T!At(p + k) = "sp"
    <2> HIDE DEF p
    <2> QED
        BY <1>1, <1>2, SpacesAre DEF p
<1> HIDE DEF p, h, len, l
<1>5. h # 0
    <2>1. 1 \in 1..len /\ p + 0 + 1 = p + 1
        BY <1>2, <1>3
    <2>2. T!At(p + 1) = "sp"
        BY <1>2, <1>3, <2>1
    <2> QED
        BY <1>4, <2>1, <2>2
<1>6. h <= len
    <2>1. ASSUME h > len PROVE FALSE
        <3>1. len + 1 \in 1..h /\ p + (len + 1) = p + len + 1
            BY <1>2, <1>3, <1>4, <2>1
        <3>2. T!At(p + (len + 1)) = "sp"
            BY <1>4, <3>1
        <3> QED
            BY <1>2, <3>1, <3>2
    <2> QED
        BY <1>2, <1>4, <2>1
<1>7. h \in 1..len /\ \A k \in 1..h : k \in 1..len
    BY <1>2, <1>4, <1>5, <1>6
<1>8. \A k \in 1..h : l[k] = "sp"
    BY <1>2, <1>4, <1>7
<1> QED
    BY <1>7, <1>8 DEF p, h, len, l

-----------------------------------------------------------------------------
(* textproto.Reader: what a header means.                                  *)

\* Joined's recursion: what the lines from j on add to the line before them.
After(ls, A) ==
    \A j \in 1..(Len(ls) + 1) :
        /\ A[j] \in Seq(TextBytes)
        /\ A[j] = IF j <= Len(ls) /\ T!Continues(ls[j]) THEN <<"sp">> \o T!Trim(ls[j]) \o A[j + 1] ELSE <<>>

LEMMA SpacedType ==
    ASSUME NEW s \in Seq(TextBytes)
    PROVE  <<"sp">> \o T!Trim(s) \in Seq(TextBytes)
<1> DEFINE a == <<"sp">>
           z == T!Trim(s)
<1>1. a \in Seq(TextBytes)
    <2>1. "sp" \in TextBytes
        BY DEF TextBytes, T!LineBytes
    <2> QED
        BY <2>1
<1>2. z \in Seq(TextBytes)
    BY TrimType
<1> HIDE DEF a, z
<1>3. a \o z \in Seq(TextBytes)
    BY <1>1, <1>2
<1> QED
    BY <1>3 DEF a, z

LEMMA JoinedRecursion ==
    ASSUME NEW ls \in Seq(T!HeaderLines)
    PROVE  \E A : After(ls, A) /\ \A i \in 1..Len(ls) : T!Joined(ls, i) = T!Trim(ls[i]) \o A[i + 1]
<1> DEFINE n == Len(ls)
           D == 1..(n + 1)
           front == [j \in 1..n |-> <<"sp">> \o T!Trim(ls[j])]
           Go == {j \in 1..n : T!Continues(ls[j])}
           Body(A, j) == IF j <= n /\ T!Continues(ls[j]) THEN <<"sp">> \o T!Trim(ls[j]) \o A[j + 1] ELSE <<>>
           A == CHOOSE a : a = [j \in D |-> Body(a, j)]
<1>1. n \in Nat
    OBVIOUS
<1>2. ASSUME NEW j \in Go PROVE front[j] \in Seq(TextBytes) /\ front[j] = <<"sp">> \o T!Trim(ls[j])
    <2>1. ls[j] \in Seq(TextBytes)
        BY HeaderLineIs
    <2>2. <<"sp">> \o T!Trim(ls[j]) \in Seq(TextBytes)
        BY <2>1, SpacedType
    <2> QED
        BY <2>2
<1>3. Go \subseteq 1..n
    OBVIOUS
<1>a. PICK f : Chain(n, TextBytes, Go, front, f)
    <2>1. \A j \in Go : front[j] \in Seq(TextBytes)
        BY <1>2
    <2> HIDE DEF n, front, Go
    <2>2. Pieces(n, TextBytes, Go, front)
        BY <1>1, <1>3, <2>1 DEF Pieces
    <2> QED
        BY <2>2, ChainDown
<1>4. f \in [D -> Seq(TextBytes)] /\ \A j \in D : f[j] = IF j \in Go THEN front[j] \o f[j + 1] ELSE <<>>
    <2> HIDE DEF n, front, Go
    <2> QED
        BY <1>a DEF Chain
<1>5. ASSUME NEW j \in D PROVE f[j] = Body(f, j)
    <2>1. (j \in Go) <=> (j <= n /\ T!Continues(ls[j]))
        BY <1>1
    <2>2. CASE j \in Go
        <3>1. front[j] = <<"sp">> \o T!Trim(ls[j])
            BY <1>2, <2>2
        <3> HIDE DEF front, D, Go, n
        <3> QED
            BY <1>4, <2>1, <2>2, <3>1
    <2>3. CASE j \notin Go
        <3> HIDE DEF front, D, Go, n
        <3> QED
            BY <1>4, <2>1, <2>3
    <2> QED
        BY <2>2, <2>3
<1>6. f = [j \in D |-> Body(f, j)]
    <2> HIDE DEF D, Body
    <2> QED
        BY <1>4, <1>5
<1>7. A = [j \in D |-> Body(A, j)]
    <2> HIDE DEF D, Body
    <2> QED
        BY <1>6
<1>8. A = f
    \* Both come from the last line forward.
    <2> DEFINE m == [j \in D |-> n + 1 - j]
               G == {j \in D : A[j] = f[j]}
    <2>1. \A j \in D : m[j] \in Nat
        BY <1>1
    <2>2. ASSUME NEW j \in D, \A c \in D : m[c] < m[j] => c \in G PROVE j \in G
        <3>1. A[j] = Body(A, j) /\ f[j] = Body(f, j)
            <4> HIDE DEF A, Body, D
            <4> QED
                BY <1>5, <1>7
        <3>2. ASSUME j <= n PROVE A[j + 1] = f[j + 1]
            <4>1. j + 1 \in D /\ m[j + 1] < m[j]
                BY <1>1, <3>2
            <4> HIDE DEF A, D, m
            <4> QED
                BY <2>2, <4>1
        <3> HIDE DEF A, D
        <3> QED
            BY <3>1, <3>2
    <2>3. D \subseteq G
        <3> HIDE DEF D, m, G
        <3> QED
            BY <2>1, <2>2, MeasureInduction
    <2>4. \A j \in D : A[j] = f[j]
        BY <2>3
    <2> HIDE DEF D, Body, A
    <2> QED
        BY <1>6, <1>7, <2>4
<1>9. After(ls, A)
    <2>1. \A j \in D : A[j] \in Seq(TextBytes) /\ A[j] = Body(A, j)
        <3> HIDE DEF A, Body, D
        <3> QED
            BY <1>4, <1>5, <1>8
    <2> HIDE DEF A
    <2> QED
        BY <2>1 DEF After
<1>10. \A i \in 1..n : T!Joined(ls, i) = T!Trim(ls[i]) \o A[i + 1]
    BY DEF T!Joined
<1> QED
    BY <1>9, <1>10

\* The fields that a header can give, and the line behind it.
LineAfter == <<"line", <<"x">>>>
FieldAt(ls, i) == <<T!Canonical(T!Key(ls[i])), T!SkipSpaces(T!Value(T!Joined(ls, i)))>>
FieldsOf(ls) == {FieldAt(ls, i) : i \in 1..Len(ls)} \cup {LineAfter}

\* MeaningFrom's recursion.
Means(ls, M) ==
    \A i \in 1..(Len(ls) + 1) :
        /\ M[i] \in Seq(FieldsOf(ls))
        /\ M[i] = IF i > Len(ls) THEN <<>>
                  ELSE IF T!Continues(ls[i]) THEN M[i + 1]
                  ELSE IF ~T!HasColon(ls[i]) THEN <<>>
                  ELSE T!Field(ls, i) \o M[i + 1]

LEMMA FieldType ==
    ASSUME NEW ls \in Seq(T!HeaderLines), NEW i \in 1..Len(ls)
    PROVE  T!Field(ls, i) \in Seq(FieldsOf(ls)) /\ FieldAt(ls, i) \in FieldsOf(ls)
<1> DEFINE S == FieldsOf(ls)
           x == FieldAt(ls, i)
<1>1. x \in S
    BY DEF FieldsOf
<1>2. T!Field(ls, i) = IF T!Key(ls[i]) = <<>> THEN <<>> ELSE <<x>>
    BY DEF T!Field, FieldAt
<1> HIDE DEF S, x
<1>3. <<x>> \in Seq(S) /\ <<>> \in Seq(S)
    BY <1>1
<1> QED
    BY <1>1, <1>2, <1>3 DEF S, x

LEMMA MeaningRecursion ==
    ASSUME NEW ls \in Seq(T!HeaderLines)
    PROVE  Means(ls, T!MeaningFrom(ls))
<1> DEFINE n == Len(ls)
           D == 1..(n + 1)
           S == FieldsOf(ls)
           front == [j \in 1..n |-> IF T!Continues(ls[j]) THEN <<>> ELSE T!Field(ls, j)]
           Go == {j \in 1..n : T!Continues(ls[j]) \/ T!HasColon(ls[j])}
           Body(A, i) == IF i > n THEN <<>>
                         ELSE IF T!Continues(ls[i]) THEN A[i + 1]
                         ELSE IF ~T!HasColon(ls[i]) THEN <<>>
                         ELSE T!Field(ls, i) \o A[i + 1]
           M == CHOOSE a : a = [j \in D |-> Body(a, j)]
<1>1. n \in Nat /\ Go \subseteq 1..n
    OBVIOUS
<1>2. \A j \in Go : front[j] \in Seq(S)
    <2>1. ASSUME NEW j \in 1..n PROVE front[j] \in Seq(S)
        <3>1. T!Field(ls, j) \in Seq(S) /\ <<>> \in Seq(S)
            BY FieldType
        <3> HIDE DEF S
        <3> QED
            BY <3>1
    <2> QED
        BY <2>1
<1>a. PICK f : Chain(n, S, Go, front, f)
    <2> HIDE DEF n, front, Go, S
    <2>1. Pieces(n, S, Go, front)
        BY <1>1, <1>2 DEF Pieces
    <2> QED
        BY <2>1, ChainDown
<1>3. f \in [D -> Seq(S)] /\ \A j \in D : f[j] = IF j \in Go THEN front[j] \o f[j + 1] ELSE <<>>
    <2> HIDE DEF n, front, Go, S
    <2> QED
        BY <1>a DEF Chain
<1>4. ASSUME NEW j \in D PROVE f[j] = Body(f, j)
    <2>1. (j \in Go) <=> (~(j > n) /\ (T!Continues(ls[j]) \/ T!HasColon(ls[j])))
        BY <1>1
    <2>2. CASE j \in Go
        <3>1. j \in 1..n /\ j + 1 \in D /\ front[j] = IF T!Continues(ls[j]) THEN <<>> ELSE T!Field(ls, j)
            BY <1>1, <2>2
        <3>2. f[j] = front[j] \o f[j + 1]
            <4> HIDE DEF front, D, Go, n
            <4> QED
                BY <1>3, <2>2
        <3>3. f[j + 1] \in Seq(S)
            <4> HIDE DEF D, S
            <4> QED
                BY <1>3, <3>1
        <3> DEFINE x == f[j + 1]
        <3> HIDE DEF x, S
        <3>4. <<>> \o x = x
            BY <3>3 DEF x
        <3> HIDE DEF front, Go
        <3> QED
            BY <2>1, <2>2, <3>1, <3>2, <3>4 DEF x
    <2>3. CASE j \notin Go
        <3>1. f[j] = <<>>
            <4> HIDE DEF front, D, Go, n
            <4> QED
                BY <1>3, <2>3
        <3> HIDE DEF front, Go
        <3> QED
            BY <2>1, <2>3, <3>1
    <2> QED
        BY <2>2, <2>3
<1>5. f = [j \in D |-> Body(f, j)]
    <2> HIDE DEF D, Body
    <2> QED
        BY <1>3, <1>4
<1>6. M = [j \in D |-> Body(M, j)]
    <2> HIDE DEF D, Body
    <2> QED
        BY <1>5
<1>7. \A j \in D : M[j] = f[j]
    <2> DEFINE m == [j \in D |-> n + 1 - j]
               G == {j \in D : M[j] = f[j]}
    <2>1. \A j \in D : m[j] \in Nat
        BY <1>1
    <2>2. ASSUME NEW j \in D, \A c \in D : m[c] < m[j] => c \in G PROVE j \in G
        <3>1. M[j] = Body(M, j) /\ f[j] = Body(f, j)
            <4> HIDE DEF M, Body, D
            <4> QED
                BY <1>4, <1>6
        <3>2. ASSUME ~(j > n) PROVE M[j + 1] = f[j + 1]
            <4>1. j + 1 \in D /\ m[j + 1] < m[j]
                BY <1>1, <3>2
            <4> HIDE DEF M, D, m
            <4> QED
                BY <2>2, <4>1
        <3> HIDE DEF M, D
        <3> QED
            BY <3>1, <3>2
    <2>3. D \subseteq G
        <3> HIDE DEF D, m, G
        <3> QED
            BY <2>1, <2>2, MeasureInduction
    <2> QED
        BY <2>3
<1>8. T!MeaningFrom(ls) = M
    BY DEF T!MeaningFrom
<1>9. \A j \in D : M[j] \in Seq(S) /\ M[j] = Body(M, j)
    <2> HIDE DEF M, Body, D, S
    <2> QED
        BY <1>3, <1>6, <1>7
<1> HIDE DEF M
<1>10. Means(ls, M)
    BY <1>9 DEF Means
<1> QED
    BY <1>8, <1>10

\* Continued's recursion: F at a position.
Continuing(F) ==
    \A p \in 0..Len(T!bytes) :
        LET n == T!Spaces(p)
            g == T!Line(p + n)
        IN  F[p] = IF n = 0 \/ g.eof THEN [text |-> <<>>, pos |-> p + n]
                   ELSE [F[g.pos] EXCEPT !.text = <<"sp">> \o T!Trim(g.text) \o @]
LinesContinued == [text : Seq(TextBytes), pos : Nat]

LEMMA ContinuedRecursion ==
    ASSUME T!bytes \in Seq(TextBytes)
    PROVE  \E F : Continuing(F) /\ \A p \in 0..Len(T!bytes) : T!Continued(p) = F[p]
<1> DEFINE L == Len(T!bytes)
           D == 0..L
           V == LinesContinued
           g(p) == T!Line(p + T!Spaces(p))
           Ends(p) == [text |-> <<>>, pos |-> p + T!Spaces(p)]
           Body(F, p) ==
                IF T!Spaces(p) = 0 \/ g(p).eof THEN Ends(p)
                ELSE [F[g(p).pos] EXCEPT !.text = <<"sp">> \o T!Trim(g(p).text) \o @]
           F == CHOOSE f : f = [p \in D |-> Body(f, p)]
           Stop == {p \in D : T!Spaces(p) = 0 \/ g(p).eof}
           val == [p \in D |-> Ends(p)]
           next == [p \in D |-> g(p).pos]
           m == [p \in D |-> L - p]
           step == [x \in D \X V |-> [x[2] EXCEPT !.text = <<"sp">> \o T!Trim(g(x[1]).text) \o @]]
<1>1. L \in Nat
    OBVIOUS
<1>2. ASSUME NEW p \in D
      PROVE  /\ g(p).pos \in D /\ g(p).text \in Seq(TextBytes) /\ p \in Nat /\ p + T!Spaces(p) \in Nat
             /\ ~g(p).eof => g(p).pos > p
    <2> DEFINE q == p + T!Spaces(p)
    <2>1. p \in Nat /\ T!Spaces(p) \in Nat /\ q <= L
        BY SpacesAre
    <2>2. q \in D /\ q \in Nat /\ p <= q
        <3> HIDE DEF L
        <3> QED
            BY <1>1, <2>1
    <2> HIDE DEF q
    <2>3. T!Line(q).pos \in D /\ T!Line(q).text \in Seq(TextBytes) /\ (~T!Line(q).eof => T!Line(q).pos > q)
        BY <2>2, LineType
    <2> DEFINE e == T!Line(q).pos
    <2>4. e \in D /\ (~T!Line(q).eof => e > q)
        BY <2>3
    <2>5. e \in Nat
        <3> HIDE DEF e
        <3> QED
            BY <2>4
    <2> HIDE DEF e
    <2>6. ~T!Line(q).eof => e > p
        BY <2>1, <2>2, <2>4, <2>5
    <2> QED
        BY <2>1, <2>2, <2>3, <2>6 DEF q, e
<1>3. V # {} /\ \A p \in D : Ends(p) \in V
    <2>1. <<>> \in Seq(TextBytes) /\ 0 \in D
        <3>1. <<>> \in Seq(TextBytes)
            OBVIOUS
        <3> HIDE DEF L
        <3>2. 0 \in D
            BY <1>1
        <3> QED
            BY <3>1, <3>2
    <2>2. ASSUME NEW p \in D PROVE Ends(p) \in V
        <3> DEFINE q == p + T!Spaces(p)
        <3>1. q \in Nat
            BY <1>2
        <3> HIDE DEF q
        <3>2. [text |-> <<>>, pos |-> q] \in V
            BY <2>1, <3>1 DEF LinesContinued
        <3> QED
            BY <3>2 DEF q
    <2> HIDE DEF V, D, Ends
    <2> QED
        BY <2>1, <2>2
<1>4. \A p \in D : m[p] \in Nat /\ m[p] <= L
    <2> HIDE DEF L
    <2> QED
        BY <1>1
<1>5. \A p \in D : p \in Stop => val[p] \in V
    <2> HIDE DEF V, D, Stop, Ends
    <2> QED
        BY <1>3
<1>6. ASSUME NEW p \in D, NEW x \in V
      PROVE  step[<<p, x>>] = [x EXCEPT !.text = <<"sp">> \o T!Trim(g(p).text) \o @] /\ step[<<p, x>>] \in V
    <2> DEFINE one == <<"sp">> \o T!Trim(g(p).text)
    <2>1. step[<<p, x>>] = [x EXCEPT !.text = one \o @]
        <3>1. <<p, x>> \in D \X V
            OBVIOUS
        <3>2. \A y \in D \X V : step[y] = [y[2] EXCEPT !.text = <<"sp">> \o T!Trim(g(y[1]).text) \o @]
            <4> HIDE DEF D, V
            <4> QED
                OBVIOUS
        <3> HIDE DEF D, V, step
        <3> QED
            BY <3>1, <3>2
    <2>2. one \in Seq(TextBytes)
        <3> DEFINE s == g(p).text
        <3>1. s \in Seq(TextBytes)
            BY <1>2
        <3> HIDE DEF s
        <3>2. <<"sp">> \o T!Trim(s) \in Seq(TextBytes)
            BY <3>1, SpacedType
        <3> QED
            BY <3>2 DEF s
    <2> DEFINE y == one \o x.text
    <2>3. y \in Seq(TextBytes)
        <3>1. x.text \in Seq(TextBytes)
            BY DEF LinesContinued
        <3> HIDE DEF one, V
        <3> QED
            BY <2>2, <3>1
    <2>4. [x EXCEPT !.text = one \o @] = [x EXCEPT !.text = y]
        OBVIOUS
    <2> HIDE DEF y, one, step
    <2>5. [x EXCEPT !.text = y] \in V
        BY <2>3 DEF LinesContinued
    <2> QED
        BY <2>1, <2>4, <2>5 DEF one
<1>7. ASSUME NEW p \in D, p \notin Stop
      PROVE  next[p] \in D /\ m[next[p]] < m[p] /\ next[p] = g(p).pos
    <2> DEFINE q == g(p).pos
    <2>1. next[p] = q /\ ~g(p).eof
        BY <1>7
    <2>2. q \in D /\ q > p /\ p \in Nat
        BY <1>2, <2>1
    <2>3. m[q] < m[p]
        <3>1. m[q] = L - q /\ m[p] = L - p
            <4> HIDE DEF q
            <4> QED
                BY <2>2
        <3> HIDE DEF m, q, L
        <3> QED
            BY <1>1, <2>2, <3>1
    <2> HIDE DEF next, m, D
    <2> QED
        BY <2>1, <2>2, <2>3
<1>8. Descends(D, V, L, m, Stop, val, next, step)
    <2> HIDE DEF D, V, m, Stop, val, next, step, L, g, Ends
    <2> QED
        BY <1>1, <1>3, <1>4, <1>5, <1>6, <1>7 DEF Descends
<1>9. PICK f \in [D -> V] : \A p \in D : f[p] = IF p \in Stop THEN val[p] ELSE step[<<p, f[next[p]]>>]
    <2> HIDE DEF D, V, m, Stop, val, next, step, L
    <2> QED
        BY <1>8, RecursionDown
<1>10. ASSUME NEW p \in D PROVE f[p] = Body(f, p)
    <2>1. CASE p \in Stop
        <3>1. f[p] = val[p]
            <4> HIDE DEF D, V, Stop, val, next, step
            <4> QED
                BY <1>9, <2>1
        <3> QED
            BY <2>1, <3>1
    <2>2. CASE p \notin Stop
        <3>1. f[p] = step[<<p, f[next[p]]>>] /\ next[p] \in D
            <4> HIDE DEF D, V, Stop, val, next, step, m
            <4> QED
                BY <1>7, <1>9, <2>2
        <3> DEFINE x == f[next[p]]
                   one == <<"sp">> \o T!Trim(g(p).text)
        <3>2. x \in V
            <4> HIDE DEF D, V, next
            <4> QED
                BY <1>9, <3>1
        <3>3. step[<<p, x>>] = [x EXCEPT !.text = one \o @]
            <4> HIDE DEF x, V, D, step
            <4> QED
                BY <1>6, <3>2
        <3>4. x = f[g(p).pos]
            OBVIOUS
        <3>5. ~(T!Spaces(p) = 0 \/ g(p).eof)
            BY <2>2
        <3> HIDE DEF x, step, V, D, one
        <3>6. f[p] = [x EXCEPT !.text = one \o @]
            BY <3>1, <3>3 DEF x
        <3> QED
            BY <3>4, <3>5, <3>6 DEF one
    <2> QED
        BY <2>1, <2>2
<1>11. f = [p \in D |-> Body(f, p)]
    <2> HIDE DEF D, V, Body
    <2> QED
        BY <1>9, <1>10
<1>12. F = [p \in D |-> Body(F, p)]
    <2> HIDE DEF D, Body
    <2> QED
        BY <1>11
<1>13. \A p \in D : T!Continued(p) = F[p]
    BY DEF T!Continued
<1>14. Continuing(F)
    <2>1. ASSUME NEW p \in D PROVE F[p] = Body(F, p)
        <3> HIDE DEF F, D, Body
        <3> QED
            BY <1>12
    <2> HIDE DEF F
    <2> QED
        BY <2>1 DEF Continuing
<1> QED
    BY <1>13, <1>14

-----------------------------------------------------------------------------
(* textproto.Reader: a line and those that continue it.                    *)

\* The lines behind line i that continue it end with line e, and what they mean is said with it.
ContinuesTo(ls, M, i, e) ==
    e \in i..Len(ls) /\ (e # Len(ls) => ~T!Continues(ls[e + 1])) /\ M[i + 1] = M[e + 1]

LEMMA LinesContinue ==
    ASSUME NEW ls, NEW ew, NEW o, Headed(ls, ew, o), NEW F, Continuing(F), NEW A, After(ls, A),
           NEW M, Means(ls, M), NEW i \in 1..Len(ls)
    PROVE  \E e : ContinuesTo(ls, M, i, e) /\ F[o[i]] = [text |-> A[i + 1], pos |-> o[e]]
<1> DEFINE n == Len(ls)
           D == 1..n
           m == [j \in D |-> n - j]
           Good(j) == \E e : ContinuesTo(ls, M, j, e) /\ F[o[j]] = [text |-> A[j + 1], pos |-> o[e]]
           G == {j \in D : Good(j)}
<1>1. ls \in Seq(T!HeaderLines) /\ n \in Nat /\ T!bytes \in Seq(TextBytes)
    BY DEF Headed
<1>2. \A j \in D : m[j] \in Nat
    BY <1>1
<1>3. ASSUME NEW j \in D, \A c \in D : m[c] < m[j] => c \in G PROVE Good(j)
    <2>1. /\ o[j] \in 0..Len(T!bytes) /\ j + 1 \in 1..(n + 1) /\ j \in j..n /\ j \in 0..n
          /\ (j # n => j + 1 \in D /\ j < n)
        <3>1. o[j] \in 0..Len(T!bytes)
            BY HeaderBytes
        <3> QED
            BY <1>1, <3>1
    <2> DEFINE p == o[j]
               a == A[j + 1]
               q == T!Spaces(p)
    <2>2. F[p] = IF q = 0 \/ T!Line(p + q).eof THEN [text |-> <<>>, pos |-> p + q]
                 ELSE [F[T!Line(p + q).pos] EXCEPT !.text = <<"sp">> \o T!Trim(T!Line(p + q).text) \o @]
        BY <2>1 DEF Continuing
    <2>3. /\ a = IF j + 1 <= n /\ T!Continues(ls[j + 1])
                 THEN <<"sp">> \o T!Trim(ls[j + 1]) \o A[j + 1 + 1] ELSE <<>>
          /\ a \in Seq(TextBytes)
        BY <2>1 DEF After
    <2>4. CASE j # n => ~T!Continues(ls[j + 1])
        <3>1. q = 0
            BY <2>1, <2>4, NoSpaces
        <3>2. p \in Nat
            BY <2>1
        <3> HIDE DEF p, q
        <3>3. p + q = p /\ F[p] = [text |-> <<>>, pos |-> p + q]
            BY <2>2, <3>1, <3>2
        <3>4. a = <<>>
            <4>1. ~(j + 1 <= n /\ T!Continues(ls[j + 1]))
                <5>1. CASE j = n
                    BY <1>1, <5>1
                <5>2. CASE j # n
                    BY <2>4, <5>2
                <5> QED
                    BY <5>1, <5>2
            <4> HIDE DEF a
            <4> QED
                BY <2>3, <4>1
        <3>5. ContinuesTo(ls, M, j, j)
            BY <2>1, <2>4 DEF ContinuesTo
        <3> HIDE DEF a
        <3>6. F[p] = [text |-> a, pos |-> p]
            BY <3>3, <3>4
        <3> QED
            BY <3>5, <3>6 DEF p, a
    <2>5. CASE j # n /\ T!Continues(ls[j + 1])
        <3> DEFINE c == j + 1
        <3>1. c \in D /\ c - 1 = j /\ c <= n /\ c \in Nat /\ j \in Nat /\ T!Continues(ls[c])
            BY <1>1, <2>1, <2>5
        <3>2. m[c] < m[j]
            <4>1. m[c] = n - c /\ m[j] = n - j
                BY <3>1
            <4> HIDE DEF m
            <4> QED
                BY <1>1, <3>1, <4>1
        <3> HIDE DEF c
        <3>3. Good(c)
            <4>1. c \in G
                <5> HIDE DEF D, G, m
                <5> QED
                    BY <1>3, <3>1, <3>2
            <4> QED
                BY <4>1
        <3>4. PICK e : ContinuesTo(ls, M, c, e) /\ F[o[c]] = [text |-> A[c + 1], pos |-> o[e]]
            BY <3>3
        <3>5. q \in 1..Len(ls[c]) /\ \A k \in 1..q : ls[c][k] = "sp"
            <4>1. T!Spaces(o[c - 1]) \in 1..Len(ls[c]) /\ \A k \in 1..T!Spaces(o[c - 1]) : ls[c][k] = "sp"
                BY <3>1, SomeSpaces
            <4> QED
                BY <3>1, <4>1
        <3> DEFINE l == ls[c]
                   len == Len(l)
                   z == SubSeq(l, q + 1, len)
                   x == p + q
        <3>6. l \in Seq(TextBytes) /\ len \in Nat
            BY <1>1, <3>1, HeaderLineIs
        <3>7. q \in 0..len /\ q # 0
            <4> HIDE DEF q, l, len
            <4> QED
                BY <3>5, <3>6 DEF l, len
        <3>8. ~T!Line(x).eof /\ T!Line(x).pos = o[c] /\ T!Line(x).text = z
            <4> HIDE DEF q
            <4>1. /\ ~T!Line(o[c - 1] + q).eof /\ T!Line(o[c - 1] + q).pos = o[c]
                  /\ T!Line(o[c - 1] + q).text = SubSeq(ls[c], q + 1, Len(ls[c]))
                <5>1. c \in 1..Len(ls) /\ q \in 0..Len(ls[c]) /\ Headed(ls, ew, o)
                    BY <3>1, <3>7
                <5> HIDE DEF c
                <5> QED
                    BY ONLY <5>1, HeaderLineRead
            <4> QED
                BY <3>1, <4>1
        <3>9. T!Trim(z) = T!Trim(l)
            <4> HIDE DEF q, l
            <4>1. \A k \in 1..q : l[k] = "sp"
                BY <3>5 DEF l
            <4> QED
                BY <3>6, <3>7, <4>1, TrimBehindSpaces
        <3> DEFINE one == <<"sp">> \o T!Trim(l)
                   y == F[o[c]]
        <3>10. F[p] = [y EXCEPT !.text = one \o @]
            <4> HIDE DEF p, q, z, l
            <4> QED
                BY ONLY <2>2, <3>7, <3>8, <3>9
        <3> DEFINE b == A[c + 1]
                   last == o[e]
        <3>11. a = one \o b
            <4> HIDE DEF one
            <4> QED
                BY <2>3, <3>1 DEF one, c
        <3>12. F[p] = [text |-> a, pos |-> last]
            <4>1. y = [text |-> b, pos |-> last]
                BY <3>4
            <4> HIDE DEF y, one, a, b, last, p
            <4> QED
                BY ONLY <3>10, <3>11, <4>1
        <3>13. ContinuesTo(ls, M, j, e)
            <4>1. e \in c..n /\ (e # n => ~T!Continues(ls[e + 1])) /\ M[c + 1] = M[e + 1]
                BY <3>4 DEF ContinuesTo
            <4>2. e \in j..n
                <5> HIDE DEF n
                <5> QED
                    BY <1>1, <3>1, <4>1
            <4>3. M[c] = M[c + 1]
                <5>1. c \in 1..(n + 1) /\ ~(c > n)
                    BY <1>1, <3>1
                <5> QED
                    BY <3>1, <5>1 DEF Means
            <4>4. M[j + 1] = M[e + 1]
                BY <4>1, <4>3 DEF c
            <4> QED
                BY <4>1, <4>2, <4>4 DEF ContinuesTo
        <3> QED
            BY <3>12, <3>13
    <2> QED
        BY <2>4, <2>5
<1>4. D \subseteq G
    <2>1. \A j \in D : (\A c \in D : m[c] < m[j] => c \in G) => j \in G
        BY <1>3
    <2> HIDE DEF D, m, G
    <2> QED
        BY <1>2, <2>1, MeasureInduction
<1> QED
    BY <1>4

\* readContinuedLineSlice takes a line and all that continue it, whatever it sees buffered.
TakesLine(ls, o, M, i, e, kv) == ContinuesTo(ls, M, i, e) /\ kv = [text |-> T!Joined(ls, i), pos |-> o[e]]

LEMMA ContinuedLineIs ==
    ASSUME NEW ls, NEW ew, NEW o, Headed(ls, ew, o), NEW M, Means(ls, M), NEW i \in 1..Len(ls), NEW buffered
    PROVE  \E e : TakesLine(ls, o, M, i, e, T!ContinuedLine(o[i - 1], buffered))
<1> DEFINE n == Len(ls)
           l == ls[i]
           g == T!Line(o[i - 1])
           p == o[i]
           s == T!Trim(l)
<1>1. ls \in Seq(T!HeaderLines) /\ n \in Nat /\ T!bytes \in Seq(TextBytes)
    BY DEF Headed
<1>2. ~g.eof /\ g.pos = p /\ g.text = l
    BY WholeHeaderLine
<1>3. l \in Seq(TextBytes) /\ l # <<>>
    BY <1>1, HeaderLineIs
<1>4. s \in Seq(TextBytes)
    <2> HIDE DEF l
    <2> QED
        BY <1>3, TrimType
<1>5. i \in 0..n /\ i + 1 \in 1..(n + 1) /\ i \in i..n /\ (i # n => i < n /\ i + 1 <= n) /\ (i = n => ~(i + 1 <= n))
    BY <1>1
<1>6. p \in 0..Len(T!bytes)
    BY HeaderBytes
<1>7. PICK F : Continuing(F) /\ \A q \in 0..Len(T!bytes) : T!Continued(q) = F[q]
    BY <1>1, ContinuedRecursion
<1>8. PICK A : After(ls, A) /\ \A j \in 1..n : T!Joined(ls, j) = T!Trim(ls[j]) \o A[j + 1]
    BY <1>1, JoinedRecursion
<1> DEFINE a == A[i + 1]
           look == buffered /\ T!NextLineIsNew(p)
<1>9. T!Joined(ls, i) = s \o a /\ a \in Seq(TextBytes)
    BY <1>5, <1>8 DEF After
<1>10. T!ContinuedLine(o[i - 1], buffered) =
            IF look THEN [text |-> s, pos |-> p] ELSE [T!Continued(p) EXCEPT !.text = s \o @]
    <2> DEFINE k == T!ContinuedLine(o[i - 1], buffered)
    <2>1. k = IF g.eof \/ g.text = <<>> \/ (buffered /\ T!NextLineIsNew(g.pos))
              THEN [text |-> T!Trim(g.text), pos |-> g.pos]
              ELSE [T!Continued(g.pos) EXCEPT !.text = T!Trim(g.text) \o @]
        BY DEF T!ContinuedLine
    <2> HIDE DEF k, g, l, p
    <2> QED
        BY <1>2, <1>3, <2>1 DEF k
<1>11. CASE look
    <2>1. i # n => ~T!Continues(ls[i + 1])
        <3>1. ASSUME i # n PROVE ls[i + 1][1] # "sp"
            <4>1. T!At(p + 1) = ls[i + 1][1]
                BY <1>5, <3>1, FirstByte
            <4>2. T!At(p + 1) # "sp"
                BY <1>11 DEF T!NextLineIsNew, T!Letters
            <4> QED
                BY <4>1, <4>2
        <3> QED
            BY <3>1 DEF T!Continues
    <2>2. ContinuesTo(ls, M, i, i)
        BY <1>5, <2>1 DEF ContinuesTo
    <2>3. a = <<>>
        BY <1>5, <1>8, <2>1 DEF After
    <2>4. s \o a = s
        <3> HIDE DEF s, a
        <3> QED
            BY <1>4, <2>3
    <2>5. T!ContinuedLine(o[i - 1], buffered) = [text |-> T!Joined(ls, i), pos |-> p]
        <3> HIDE DEF s, p, a
        <3> QED
            BY <1>9, <1>10, <1>11, <2>4
    <2> QED
        BY <2>2, <2>5 DEF TakesLine
<1>12. CASE ~look
    <2>1. PICK e : ContinuesTo(ls, M, i, e) /\ F[p] = [text |-> a, pos |-> o[e]]
        BY <1>7, <1>8, LinesContinue
    <2> DEFINE last == o[e]
               y == T!Continued(p)
    <2>2. y = [text |-> a, pos |-> last]
        BY <1>6, <1>7, <2>1
    <2>3. T!ContinuedLine(o[i - 1], buffered) = [y EXCEPT !.text = s \o @]
        <3> HIDE DEF y, s, look
        <3> QED
            BY <1>10, <1>12 DEF y
    <2>4. T!ContinuedLine(o[i - 1], buffered) = [text |-> s \o a, pos |-> last]
        <3> HIDE DEF y, s, last, a
        <3> QED
            BY ONLY <2>2, <2>3
    <2>5. T!ContinuedLine(o[i - 1], buffered) = [text |-> T!Joined(ls, i), pos |-> last]
        <3> HIDE DEF s, a, last
        <3> QED
            BY <1>9, <2>4
    <2> QED
        BY <2>1, <2>5 DEF TakesLine
<1> QED
    BY <1>11, <1>12

-----------------------------------------------------------------------------
(* textproto.Reader: the key of a field.                                   *)

FirstColon(s, c) == c \in 1..Len(s) /\ s[c] = "colon" /\ \A k \in 1..Len(s) : s[k] = "colon" => c <= k

LEMMA ColonExists ==
    ASSUME NEW S, NEW s \in Seq(S), T!HasColon(s)
    PROVE  \E c : FirstColon(s, c)
<1> DEFINE Cs == {k \in 1..Len(s) : s[k] = "colon"}
<1>1. Cs # {}
    BY DEF T!HasColon, T!Range
<1>2. Cs \subseteq Nat
    OBVIOUS
<1>3. PICK c \in Cs : \A k \in Cs : c <= k
    <2> HIDE DEF Cs
    <2> QED
        BY <1>1, <1>2, LeastNumber
<1>4. FirstColon(s, c)
    BY <1>3 DEF FirstColon
<1> QED
    BY <1>4

LEMMA KeyIs ==
    ASSUME NEW S, NEW s \in Seq(S), NEW c, FirstColon(s, c)
    PROVE  T!Key(s) = SubSeq(s, 1, c - 1) /\ c \in Nat /\ Len(s) \in Nat
<1> DEFINE Cs == {k \in 1..Len(s) : s[k] = "colon"}
           first == CHOOSE k \in Cs : \A j \in Cs : k <= j
           n == IF Cs # {} THEN first ELSE 0
<1>1. T!Key(s) = SubSeq(s, 1, n - 1)
    BY DEF T!Key, T!SelectInSeq, T!Min
<1>2. c \in Cs /\ (\A k \in Cs : c <= k) /\ Cs \subseteq Nat
    BY DEF FirstColon
<1>3. first \in Cs /\ \A k \in Cs : first <= k
    <2> HIDE DEF Cs
    <2> QED
        BY <1>2
<1>4. first = c
    <2> HIDE DEF Cs, first
    <2>1. first \in Nat /\ c \in Nat /\ first <= c /\ c <= first
        BY <1>2, <1>3
    <2> QED
        BY <2>1
<1>5. Len(s) \in Nat
    OBVIOUS
<1> HIDE DEF Cs, first
<1> QED
    BY <1>1, <1>2, <1>4, <1>5

\* The key of a field is in its first line, of which trim takes nothing in front.
LEMMA KeyOfField ==
    ASSUME NEW l \in Seq(TextBytes), l # <<>>, ~T!Continues(l), T!HasColon(l), NEW a \in Seq(TextBytes)
    PROVE  T!Key(T!Trim(l) \o a) = T!Key(l) /\ T!Key(l) \in Seq(TextBytes)
<1> DEFINE L == Len(l)
           z == T!Trim(l)
           s == z \o a
<1>1. L \in Nat /\ 1 <= L /\ l[1] # "sp"
    BY DEF T!Continues
<1>2. PICK c : FirstColon(l, c)
    BY ColonExists
<1>3. c \in 1..L /\ l[c] = "colon" /\ c \in Nat /\ \A k \in 1..L : l[k] = "colon" => c <= k
    BY <1>2 DEF FirstColon
<1>4. PICK x, b : Edges(l, x, b)
    <2>1. 1 \in 1..L
        BY <1>1
    <2>2. ~\A k \in 1..L : l[k] = "sp"
        BY <1>1, <2>1
    <2> QED
        BY <2>2, EdgesExist
<1>5. x = 1 /\ b \in Nat /\ c <= b /\ b <= L
    <2>1. x \in 1..L /\ b \in x..L /\ \A k \in 1..L : l[k] # "sp" => x <= k /\ k <= b
        BY <1>4 DEF Edges
    <2>2. 1 \in 1..L
        BY <1>1
    <2>3. x <= 1 /\ c <= b
        BY <1>1, <1>3, <2>1, <2>2
    <2> HIDE DEF L
    <2> QED
        BY <1>1, <2>1, <2>3
<1>6. z \in Seq(TextBytes) /\ Len(z) = b /\ \A k \in 1..b : z[k] = l[k]
    <2>1. z = SubSeq(l, x, b)
        BY <1>4, TrimIs
    <2>2. 1 \in Nat /\ 1 <= 1 /\ 1 <= b + 1 /\ b <= Len(l) /\ b + 1 - 1 = b /\ \A k \in 1..b : 1 + k - 1 = k
        BY <1>1, <1>5
    <2> DEFINE y == 1
    <2> HIDE DEF y
    <2>3. /\ SubSeq(l, y, b) \in Seq(TextBytes) /\ Len(SubSeq(l, y, b)) = b + 1 - y
          /\ \A k \in 1..(b + 1 - y) : SubSeq(l, y, b)[k] = l[y + k - 1]
        BY <1>5, <2>2, PartOf DEF y
    <2> HIDE DEF z
    <2>4. z = SubSeq(l, y, b)
        BY <1>5, <2>1 DEF y
    <2> QED
        BY <2>2, <2>3, <2>4 DEF y
<1> HIDE DEF z
<1>7. s \in Seq(TextBytes) /\ Len(s) = b + Len(a) /\ Len(a) \in Nat /\ \A k \in 1..b : s[k] = z[k]
    <2>1. Joins(TextBytes, z, a, s)
        BY <1>6, ConcatJoins
    <2> HIDE DEF s
    <2> QED
        BY <1>6, <2>1 DEF Joins
<1> HIDE DEF s
<1>8. FirstColon(s, c)
    <2>1. c \in 1..b /\ c \in 1..Len(s)
        BY <1>3, <1>5, <1>7
    <2>2. s[c] = "colon"
        BY <1>3, <1>6, <1>7, <2>1
    <2>3. ASSUME NEW k \in 1..Len(s), s[k] = "colon" PROVE c <= k
        <3>1. CASE k <= b
            <4>1. k \in 1..b /\ k \in 1..L
                <5> HIDE DEF L
                <5> QED
                    BY <1>1, <1>5, <1>7, <3>1
            <4>2. l[k] = "colon"
                BY <1>6, <1>7, <2>3, <4>1
            <4> QED
                BY <1>3, <4>1, <4>2
        <3>2. CASE ~(k <= b)
            BY <1>3, <1>5, <1>7, <3>2
        <3> QED
            BY <3>1, <3>2
    <2> QED
        BY <2>1, <2>2, <2>3 DEF FirstColon
<1> DEFINE d == c - 1
           u == SubSeq(s, 1, d)
           t == SubSeq(l, 1, d)
<1>9. T!Key(s) = u /\ T!Key(l) = t
    BY <1>2, <1>7, <1>8, KeyIs
<1>10. d \in Nat /\ d \in 0..L /\ d \in 0..Len(s) /\ \A k \in 1..d : k \in 1..b
    <2> HIDE DEF L
    <2> QED
        BY <1>1, <1>3, <1>5, <1>7
<1>11. u \in Seq(TextBytes) /\ Len(u) = d /\ t \in Seq(TextBytes) /\ Len(t) = d
    <2> HIDE DEF d
    <2> QED
        BY <1>7, <1>10, Split
<1>12. \A k \in 1..d : u[k] = t[k]
    <2> HIDE DEF d
    <2>1. \A k \in 1..d : u[k] = s[k] /\ t[k] = l[k]
        BY <1>7, <1>10
    <2> QED
        BY <1>6, <1>7, <1>10, <2>1
<1> HIDE DEF u, t, d
<1>13. u = t
    BY <1>11, <1>12, SeqEqual
<1> QED
    BY <1>9, <1>11, <1>13 DEF s, z

LEMMA CanonicalEmpty ==
    ASSUME NEW k \in Seq(TextBytes)
    PROVE  T!Canonical(k) = <<>> <=> k = <<>>
<1> DEFINE z == [i \in DOMAIN k |-> IF i = 1 THEN T!Upper(k[i]) ELSE T!Lower(k[i])]
<1>1. T!Canonical(k) \in {k, z}
    BY DEF T!Canonical
<1>2. z = <<>> <=> k = <<>>
    <2>1. DOMAIN z = 1..Len(k) /\ Len(k) \in Nat
        OBVIOUS
    <2>2. DOMAIN <<>> = {}
        OBVIOUS
    <2>3. ASSUME k = <<>> PROVE z = <<>>
        BY <2>3
    <2>4. ASSUME z = <<>> PROVE k = <<>>
        <3> HIDE DEF z
        <3>1. 1..Len(k) = {}
            BY <2>1, <2>2, <2>4
        <3>2. Len(k) = 0
            <4> DEFINE n == Len(k)
            <4>1. n \in Nat /\ 1 \notin 1..n
                BY <2>1, <3>1
            <4> HIDE DEF n
            <4>2. n = 0
                BY <4>1
            <4> QED
                BY <4>2 DEF n
        <3> QED
            BY <3>2
    <2> QED
        BY <2>3, <2>4
<1> HIDE DEF z
<1> QED
    BY <1>1, <1>2

-----------------------------------------------------------------------------
(* textproto.Reader: a header is read as it means.                         *)

\* The fields read before the line at o[i] and those still to come make the header's meaning.
ReadUpTo(ls, o, M, i) ==
    /\ i \in 0..Len(ls) /\ pos = o[i] /\ fields \in Seq(FieldsOf(ls))
    /\ IF ls # <<>> /\ T!Continues(ls[1]) THEN i = 0 /\ fields = <<>>
       ELSE /\ fields \o M[i + 1] = M[1]
            /\ i # Len(ls) => ~T!Continues(ls[i + 1])

Unfolding(ls, ew, o) ==
    /\ Headed(ls, ew, o) /\ dot = "none" /\ phase \in {"header", "line", "end"}
    /\ phase = "header" => \E i : ReadUpTo(ls, o, T!MeaningFrom(ls), i)
    /\ phase = "line" => pos = o[Len(ls)] + ew /\ fields = T!Meaning(ls)
    /\ phase = "end" => fields = IF textErr = "malformed" THEN T!Meaning(ls)
                                 ELSE Append(T!Meaning(ls), LineAfter)
HeaderInv == which = "text" =>
    /\ input.kind \in {"dot", "cut", "header"}
    /\ input.kind = "header" => \E ew, o : Unfolding(input.of, ew, o)

LEMMA HeaderInit == Init => HeaderInv
<1> SUFFICES ASSUME T!Init, which = "text" PROVE HeaderInv
    BY DEF Init, HeaderInv
<1> DEFINE Blocks == {T!Block(t) : t \in Texts}
           CutBlocks == UNION {{T!CutBlock(t, n) : n \in 0..(Len(T!DotEncoded(t)) - 1)} : t \in Texts}
           Sent == {T!Header(ls, e) : ls \in Headers, e \in LineEnds}
<1>1. /\ input \in Blocks \cup CutBlocks \cup Sent
      /\ pos = 0 /\ dot = "none" /\ fields = <<>>
      /\ phase = IF input.kind = "header" THEN "header" ELSE "dot"
    BY DEF T!Init
<1>2. input \in Blocks => input.kind = "dot"
    BY DEF T!Block
<1>3. input \in CutBlocks => input.kind = "cut"
    BY DEF T!CutBlock
<1>4. ASSUME input \in Sent PROVE input.kind = "header" /\ \E ew, o : Unfolding(input.of, ew, o)
    <2>1. PICK ls \in Headers, e \in LineEnds : input = T!Header(ls, e)
        BY <1>4
    <2> DEFINE b == T!FlattenSeq([i \in DOMAIN ls |-> ls[i] \o e]) \o e \o T!Trailer
               M == T!MeaningFrom(ls)
    <2>2. input.kind = "header" /\ input.of = ls
        <3>1. input = [kind |-> "header", of |-> ls, bytes |-> b]
            BY <2>1 DEF T!Header
        <3> HIDE DEF b
        <3> QED
            BY <3>1
    <2>3. PICK ew, o : Headed(ls, ew, o)
        BY <2>1, HeadedIs
    <2>4. ls \in Seq(T!HeaderLines) /\ Len(ls) \in Nat /\ o[0] = 0
        BY <2>3 DEF Headed
    <2>5. Means(ls, M)
        BY <2>4, MeaningRecursion
    <2>6. M[1] \in Seq(FieldsOf(ls))
        <3>1. 1 \in 1..(Len(ls) + 1)
            BY <2>4
        <3> HIDE DEF M
        <3> QED
            BY <2>5, <3>1 DEF Means
    <2> HIDE DEF M
    <2>7. ReadUpTo(ls, o, M, 0)
        <3>1. 0 \in 0..Len(ls) /\ <<>> \in Seq(FieldsOf(ls)) /\ 0 + 1 = 1
            BY <2>4
        <3>2. <<>> \o M[1] = M[1]
            <4> DEFINE x == M[1]
            <4> HIDE DEF x
            <4>1. x \in Seq(FieldsOf(ls))
                BY <2>6 DEF x
            <4>2. <<>> \o x = x
                BY <4>1
            <4> QED
                BY <4>2 DEF x
        <3>3. ASSUME ~(ls # <<>> /\ T!Continues(ls[1])), 0 # Len(ls) PROVE ~T!Continues(ls[1])
            BY <3>3
        <3> QED
            BY <1>1, <2>4, <3>1, <3>2, <3>3 DEF ReadUpTo
    <2>8. Unfolding(ls, ew, o)
        BY <1>1, <2>2, <2>3, <2>7 DEF Unfolding, M
    <2> QED
        BY <2>2, <2>8
<1> HIDE DEF Blocks, CutBlocks, Sent
<1> QED
    BY <1>1, <1>2, <1>3, <1>4 DEF HeaderInv

\* A header that begins with a line that continues another.
LEMMA BadFirstLineOK ==
    ASSUME NEW ls, NEW ew, NEW o, Unfolding(ls, ew, o), T!BadFirstLine
    PROVE  Unfolding(ls, ew, o)'
<1> DEFINE M == T!MeaningFrom(ls)
<1>1. /\ phase = "header" /\ pos = 0 /\ T!At(1) = "sp"
      /\ textErr' = "malformed" /\ phase' = "end" /\ input' = input /\ dot' = dot /\ fields' = fields
    BY DEF T!BadFirstLine, T!HeaderEnds
<1>2. Headed(ls, ew, o) /\ dot = "none"
    BY DEF Unfolding
<1>3. PICK i : ReadUpTo(ls, o, M, i)
    BY <1>1 DEF Unfolding
<1>4. /\ ls \in Seq(T!HeaderLines) /\ Len(ls) \in Nat /\ o[0] = 0
    BY <1>2 DEF Headed
<1>5. T!At(o[0] + 1) = "sp" /\ 0 \in 0..Len(ls)
    BY <1>1, <1>4
<1>6. ls # <<>> /\ T!Continues(ls[1])
    <2>1. 0 # Len(ls)
        <3>1. ASSUME 0 = Len(ls) PROVE FALSE
            <4>1. T!At(o[0] + 1) \in {"cr", "nl"}
                BY <1>2, <1>5, <3>1, FirstByte
            <4> QED
                BY <1>5, <4>1
        <3> QED
            BY <3>1
    <2>2. T!At(o[0] + 1) = ls[0 + 1][1]
        BY <1>2, <1>5, <2>1, FirstByte
    <2>3. ls # <<>>
        BY <1>4, <2>1
    <2> QED
        BY <1>5, <2>2, <2>3 DEF T!Continues
<1>7. fields = T!Meaning(ls)
    BY <1>3, <1>6 DEF ReadUpTo, T!Meaning
<1>8. Headed(ls, ew, o)'
    BY <1>1, <1>2 DEF Headed, Ended, Trails, T!bytes
<1> QED
    BY <1>1, <1>2, <1>7, <1>8 DEF Unfolding

\* One line of the header is read, and those that continue it.
LEMMA HeaderLineOK ==
    ASSUME NEW ls, NEW ew, NEW o, Unfolding(ls, ew, o), NEW buffered \in BOOLEAN, T!HeaderLine(buffered)
    PROVE  Unfolding(ls, ew, o)'
<1> DEFINE M == T!MeaningFrom(ls)
           n == Len(ls)
           S == FieldsOf(ls)
           g == T!Line(pos)
           kv == T!ContinuedLine(pos, buffered)
           key == T!Canonical(T!Key(kv.text))
           field == <<key, T!SkipSpaces(T!Value(kv.text))>>
<1>1. /\ phase = "header" /\ ~(pos = 0 /\ T!At(1) = "sp")
      /\ IF g.text = <<>> THEN
            pos' = g.pos /\ textErr' = "none" /\ phase' = "line" /\ fields' = fields
         ELSE IF ~T!HasColon(g.text) THEN
            pos' = g.pos /\ textErr' = "malformed" /\ phase' = "end" /\ fields' = fields
         ELSE /\ pos' = kv.pos
              /\ fields' = IF key = <<>> THEN fields ELSE Append(fields, field)
              /\ textErr' = textErr /\ phase' = phase
      /\ input' = input /\ dot' = dot
    BY DEF T!HeaderLine, T!HeaderEnds
<1>2. Headed(ls, ew, o) /\ dot = "none"
    BY DEF Unfolding
<1>3. PICK i : ReadUpTo(ls, o, M, i)
    BY <1>1 DEF Unfolding
<1>4. ls \in Seq(T!HeaderLines) /\ n \in Nat /\ o[0] = 0
    BY <1>2 DEF Headed
<1>5. Means(ls, M)
    BY <1>4, MeaningRecursion
<1> HIDE DEF M
<1>6. Headed(ls, ew, o)' /\ dot' = "none"
    BY <1>1, <1>2 DEF Headed, Ended, Trails, T!bytes
<1>7. i \in 0..n /\ pos = o[i] /\ fields \in Seq(S)
    BY <1>3 DEF ReadUpTo
\* The header does not begin with a line that continues another.
<1>8. ~(ls # <<>> /\ T!Continues(ls[1]))
    <2>1. ASSUME ls # <<>>, T!Continues(ls[1]) PROVE FALSE
        <3>1. i = 0 /\ pos = 0
            BY <1>3, <1>4, <2>1 DEF ReadUpTo
        <3>2. 0 # n /\ 0 \in 0..n /\ o[0] + 1 = 1 /\ 0 + 1 = 1
            BY <1>4, <2>1
        <3>3. T!At(o[0] + 1) = ls[0 + 1][1]
            BY <1>2, <3>2, FirstByte
        <3> QED
            BY <1>1, <2>1, <3>1, <3>2, <3>3 DEF T!Continues
    <2> QED
        BY <2>1
<1>9. fields \o M[i + 1] = M[1] /\ (i # n => ~T!Continues(ls[i + 1]))
    BY <1>3, <1>8 DEF ReadUpTo
<1>10. T!Meaning(ls) = M[1]
    BY <1>8 DEF T!Meaning, M
<1>11. ASSUME M[i + 1] = <<>> PROVE fields = T!Meaning(ls)
    <2>1. fields \o <<>> = fields
        <3> HIDE DEF S
        <3> QED
            BY <1>7
    <2> QED
        BY <1>9, <1>10, <1>11, <2>1
<1>12. i + 1 \in 1..(n + 1) /\ (i # n => i + 1 \in 1..n /\ i + 1 - 1 = i)
    BY <1>4, <1>7
<1>13. CASE i = n
    <2>1. g.text = <<>> /\ g.pos = o[n] + ew
        BY <1>2, <1>7, <1>13, BlankLine
    <2>2. M[i + 1] = <<>>
        <3>1. i + 1 > n
            BY <1>4, <1>13
        <3> QED
            BY <1>5, <1>12, <3>1 DEF Means
    <2>3. fields = T!Meaning(ls)
        BY <1>11, <2>2
    <2>4. pos' = o[n] + ew /\ phase' = "line" /\ fields' = T!Meaning(ls)
        <3> HIDE DEF g, kv, key, field
        <3> QED
            BY <1>1, <2>1, <2>3
    <2> QED
        BY <1>6, <2>4 DEF Unfolding
<1>14. CASE i # n
    <2> DEFINE c == i + 1
    <2>1. c \in 1..n /\ c - 1 = i /\ ~T!Continues(ls[c]) /\ c \in 1..(n + 1) /\ ~(c > n)
        <3>1. c \in 1..n /\ c - 1 = i /\ c \in 1..(n + 1)
            <4> HIDE DEF n
            <4> QED
                BY ONLY <1>4, <1>7, <1>14
        <3>2. ~T!Continues(ls[c])
            BY <1>9, <1>14
        <3>3. ~(c > n)
            <4> HIDE DEF c, n
            <4> QED
                BY <1>4, <3>1
        <3> QED
            BY <3>1, <3>2, <3>3
    <2> HIDE DEF c
    <2> DEFINE l == ls[c]
    <2>2. g.text = l /\ g.pos = o[c]
        <3>1. T!Line(o[c - 1]).text = ls[c] /\ T!Line(o[c - 1]).pos = o[c]
            BY <1>2, <2>1, WholeHeaderLine
        <3> QED
            BY <1>7, <2>1, <3>1
    <2>3. l \in Seq(TextBytes) /\ l # <<>>
        BY <1>4, <2>1, HeaderLineIs
    <2>4. M[c] = IF ~T!HasColon(l) THEN <<>> ELSE T!Field(ls, c) \o M[c + 1]
        BY <1>5, <2>1 DEF Means
    <2>5. CASE ~T!HasColon(l)
        <3>1. fields = T!Meaning(ls)
            BY <1>11, <2>4, <2>5 DEF c
        <3>2. textErr' = "malformed" /\ phase' = "end" /\ fields' = T!Meaning(ls)
            <4> HIDE DEF g, kv, key, field, l
            <4> QED
                BY <1>1, <2>2, <2>3, <2>5, <3>1
        <3> QED
            BY <1>6, <3>2 DEF Unfolding
    <2>6. CASE T!HasColon(l)
        <3>1. PICK e : ContinuesTo(ls, M, c, e) /\ kv = [text |-> T!Joined(ls, c), pos |-> o[e]]
            <4>1. \E e : TakesLine(ls, o, M, c, e, T!ContinuedLine(o[c - 1], buffered))
                <5>1. c \in 1..Len(ls)
                    BY <2>1
                <5> QED
                    BY ONLY <1>2, <1>5, <5>1, ContinuedLineIs
            <4> QED
                BY <1>7, <2>1, <4>1 DEF TakesLine
        <3>2. kv.text = T!Joined(ls, c) /\ kv.pos = o[e]
            <4> DEFINE x == T!Joined(ls, c)
                       y == o[e]
            <4>1. kv = [text |-> x, pos |-> y]
                BY <3>1
            <4> HIDE DEF x, y, kv
            <4>2. kv.text = x /\ kv.pos = y
                BY <4>1
            <4> QED
                BY <4>2 DEF x, y
        <3>3. T!Key(kv.text) = T!Key(l) /\ T!Key(l) \in Seq(TextBytes)
            <4>1. PICK A : After(ls, A) /\ \A j \in 1..n : T!Joined(ls, j) = T!Trim(ls[j]) \o A[j + 1]
                BY <1>4, JoinedRecursion
            <4> DEFINE a == A[c + 1]
            <4>2. a \in Seq(TextBytes) /\ T!Joined(ls, c) = T!Trim(l) \o a
                <5>1. c + 1 \in 1..(n + 1)
                    BY <1>4, <2>1
                <5> QED
                    BY <2>1, <4>1, <5>1 DEF After
            <4> HIDE DEF a, l, kv
            <4>3. T!Key(T!Trim(l) \o a) = T!Key(l) /\ T!Key(l) \in Seq(TextBytes)
                <5>1. ~T!Continues(l)
                    BY <2>1 DEF l
                <5> QED
                    BY <2>3, <2>6, <4>2, <5>1, KeyOfField
            <4> QED
                BY <3>2, <4>2, <4>3
        <3>4. field = FieldAt(ls, c) /\ (key = <<>> <=> T!Key(l) = <<>>)
            <4>1. key = T!Canonical(T!Key(l))
                <5> HIDE DEF kv, l
                <5> QED
                    BY <3>3
            <4>2. T!Canonical(T!Key(l)) = <<>> <=> T!Key(l) = <<>>
                <5> HIDE DEF l
                <5> QED
                    BY <3>3, CanonicalEmpty
            <4>3. field = FieldAt(ls, c)
                <5> HIDE DEF kv
                <5> QED
                    BY <3>2, <4>1 DEF FieldAt
            <4> QED
                BY <4>1, <4>2, <4>3
        <3> DEFINE fd == T!Field(ls, c)
                   rest == M[e + 1]
        <3>5. fd = IF T!Key(l) = <<>> THEN <<>> ELSE <<FieldAt(ls, c)>>
            BY DEF T!Field, FieldAt
        <3>6. FieldAt(ls, c) \in S /\ fd \in Seq(S)
            BY <1>4, <2>1, FieldType
        <3>7. /\ e \in c..n /\ (e # n => ~T!Continues(ls[e + 1])) /\ M[c + 1] = rest
              /\ e \in 0..n /\ e + 1 \in 1..(n + 1)
            <4>1. e \in c..n /\ (e # n => ~T!Continues(ls[e + 1])) /\ M[c + 1] = rest
                BY <3>1 DEF ContinuesTo
            <4> HIDE DEF n
            <4>2. e \in 0..n /\ e + 1 \in 1..(n + 1)
                BY <1>4, <2>1, <4>1
            <4> QED
                BY <4>1, <4>2
        <3>8. rest \in Seq(S)
            BY <1>5, <3>7 DEF Means
        <3>9. pos' = o[e] /\ phase' = "header" /\ fields' = IF key = <<>> THEN fields ELSE Append(fields, field)
            <4> HIDE DEF g, kv, key, field, l
            <4> QED
                BY <1>1, <2>2, <2>3, <2>6, <3>2
        <3>10. fields' = fields \o fd /\ fields' \in Seq(S)
            <4> DEFINE x == FieldAt(ls, c)
            <4>1. fields' = IF T!Key(l) = <<>> THEN fields ELSE Append(fields, x)
                <5> HIDE DEF key, field, l
                <5> QED
                    BY <3>4, <3>9
            <4> HIDE DEF x, S, fd, l
            <4>2. fields \o <<>> = fields /\ Append(fields, x) = fields \o <<x>> /\ Append(fields, x) \in Seq(S)
                BY <1>7, <3>6 DEF x
            <4>3. CASE T!Key(l) = <<>>
                BY <1>7, <3>5, <4>1, <4>2, <4>3
            <4>4. CASE T!Key(l) # <<>>
                BY <3>5, <4>1, <4>2, <4>4 DEF x
            <4> QED
                BY <4>3, <4>4
        <3>11. fields' \o rest = M[1]
            <4> DEFINE all == M[1]
            <4>1. fields \o (fd \o rest) = all
                BY <1>9, <2>4, <2>6, <3>7 DEF c
            <4> HIDE DEF fd, rest, S, all
            <4>2. (fields \o fd) \o rest = fields \o (fd \o rest)
                BY ONLY <1>7, <3>6, <3>8
            <4> QED
                BY <3>10, <4>1, <4>2 DEF all
        <3>12. ReadUpTo(ls, o, M, e)'
            <4>1. M' = M
                BY DEF M
            <4> HIDE DEF fd, rest, n, S
            <4> QED
                BY <1>8, <3>7, <3>9, <3>10, <3>11 DEF ReadUpTo, n, S, rest
        <3> QED
            BY <1>6, <3>9, <3>12 DEF Unfolding, M
    <2> QED
        BY <2>5, <2>6
<1> QED
    BY <1>13, <1>14

\* The line behind the header is read.
LEMMA HeaderLineBehindOK ==
    ASSUME NEW ls, NEW ew, NEW o, Unfolding(ls, ew, o), T!ReadLine
    PROVE  Unfolding(ls, ew, o)'
<1> DEFINE l == <<"line", T!Line(T!closeDot).text>>
           F == T!Meaning(ls)
<1>1. /\ phase = "line" \/ dot # "none"
      /\ dot' = "none" /\ phase' = "end" /\ fields' = Append(fields, l) /\ input' = input
      /\ textErr' \in {"EOF", "none"}
    BY DEF T!ReadLine
<1>2. Headed(ls, ew, o) /\ dot = "none" /\ phase = "line"
    BY <1>1 DEF Unfolding
<1>3. T!closeDot = o[Len(ls)] + ew /\ fields = F
    BY <1>2 DEF Unfolding, T!closeDot
<1>4. o[Len(ls)] + ew \in Nat
    <2>1. Len(ls) \in 0..Len(ls)
        <3>1. Len(ls) \in Nat
            BY <1>2 DEF Headed
        <3> QED
            BY <3>1
    <2> DEFINE q == o[Len(ls)]
    <2>2. q \in Nat /\ ew \in {1, 2}
        BY <1>2, <2>1 DEF Headed
    <2> HIDE DEF q
    <2>3. q + ew \in Nat
        BY <2>2
    <2> QED
        BY <2>3 DEF q
<1>5. T!Line(o[Len(ls)] + ew).text = <<"x">>
    BY <1>2, <1>4, LineBehind DEF Headed
<1>6. l = LineAfter
    BY <1>3, <1>5 DEF LineAfter
<1>7. Headed(ls, ew, o)'
    BY <1>1, <1>2 DEF Headed, Ended, Trails, T!bytes
<1>8. F' = F
    OBVIOUS
<1>9. fields' = Append(F, LineAfter) /\ textErr' # "malformed"
    BY <1>1, <1>3, <1>6
<1> HIDE DEF F
<1>10. (phase' = "end" => fields' = IF textErr' = "malformed" THEN F ELSE Append(F, LineAfter))
    BY <1>9
<1> QED
    BY <1>1, <1>7, <1>10 DEF Unfolding, F

LEMMA HeaderStepInv == HeaderInv /\ [Next]_vars => HeaderInv'
<1> SUFFICES ASSUME HeaderInv, [Next]_vars, which' = "text" PROVE HeaderInv'
    BY DEF HeaderInv
<1>1. CASE TextStep
    <2>1. which = "text" /\ T!Next
        BY <1>1 DEF TextStep
    <2>2. input' = input
        BY <2>1 DEF T!Next, T!BadFirstLine, T!HeaderLine, T!StartDot, T!ReadDot, T!ReadDotLines, T!ReadLine
    <2>3. CASE input.kind # "header"
        BY <2>1, <2>2, <2>3 DEF HeaderInv
    <2>4. CASE input.kind = "header"
        <3>1. PICK ew, o : Unfolding(input.of, ew, o)
            BY <2>1, <2>4 DEF HeaderInv
        <3> PICK ls : ls = input.of
            OBVIOUS
        <3>2. Unfolding(ls, ew, o) /\ input.of = ls
            BY <3>1
        <3>3. T!BadFirstLine => Unfolding(ls, ew, o)'
            BY <3>2, BadFirstLineOK
        <3>4. ASSUME NEW b \in BOOLEAN, T!HeaderLine(b) PROVE Unfolding(ls, ew, o)'
            BY <3>2, <3>4, HeaderLineOK
        <3>5. T!ReadLine => Unfolding(ls, ew, o)'
            BY <3>2, HeaderLineBehindOK
        <3>6. ~T!StartDot /\ ~T!ReadDotLines /\ \A n \in {1, 3} : ~T!ReadDot(n)
            BY <3>2 DEF Unfolding, T!StartDot, T!ReadDotLines, T!ReadDot
        <3>7. Unfolding(ls, ew, o)'
            BY <2>1, <3>3, <3>4, <3>5, <3>6 DEF T!Next
        <3> QED
            BY <2>2, <2>4, <3>2, <3>7 DEF HeaderInv
    <2> QED
        BY <2>3, <2>4
<1>2. CASE UNCHANGED vars
    <2>1. UNCHANGED <<which, input, pos, dot, got, textErr, fields, phase>>
        BY <1>2 DEF vars, textOnly
    <2>2. which = "text"
        BY <2>1
    <2>3. CASE input.kind # "header"
        BY <2>1, <2>2, <2>3 DEF HeaderInv
    <2>4. CASE input.kind = "header"
        <3>1. PICK ew, o : Unfolding(input.of, ew, o)
            BY <2>2, <2>4 DEF HeaderInv
        <3> PICK ls : ls = input.of
            OBVIOUS
        <3>2. Unfolding(ls, ew, o)'
            BY <2>1, <3>1 DEF Unfolding, ReadUpTo, Headed, Ended, Trails, T!bytes
        <3> QED
            BY <2>1, <2>2, <2>4, <3>2 DEF HeaderInv
    <2> QED
        BY <2>3, <2>4
<1> QED
    BY <1>1, <1>2 DEF Next, ReaderStep, WriterStep, BufferStep, CopyStep

LEMMA PrefixOfWhole ==
    ASSUME NEW S, NEW s \in Seq(S), NEW t \in Seq(S)
    PROVE  T!IsPrefix(s, s \o t)
<1> DEFINE z == s \o t
<1>1. z \in Seq(S) /\ Len(s) <= Len(z) /\ \A i \in 1..Len(s) : z[i] = s[i]
    OBVIOUS
<1> HIDE DEF z
<1>2. T!IsPrefix(s, z)
    BY <1>1, PrefixIs
<1> QED
    BY <1>2 DEF z

LEMMA HeaderSafe ==
    ASSUME HeaderInv
    PROVE  HeaderUnfolded
<1> SUFFICES ASSUME which = "text", input.kind = "header" PROVE T!HeaderUnfolded
    BY DEF HeaderUnfolded, T!HeaderUnfolded
<1>1. PICK ew, o : Unfolding(input.of, ew, o)
    BY DEF HeaderInv
<1> PICK ls : ls = input.of
    OBVIOUS
<1>2. ls \in Seq(T!HeaderLines) /\ Len(ls) \in Nat
    BY <1>1 DEF Unfolding, Headed
<1> DEFINE M == T!MeaningFrom(ls)
<1>3. Means(ls, M)
    BY <1>2, MeaningRecursion
<1>4. ASSUME phase = "header" PROVE T!IsPrefix(fields, T!Meaning(ls))
    <2>1. PICK i : ReadUpTo(ls, o, M, i)
        BY <1>1, <1>4 DEF Unfolding
    <2>2. fields \in Seq(FieldsOf(ls)) /\ i \in 0..Len(ls)
        BY <2>1 DEF ReadUpTo
    <2>3. CASE ls # <<>> /\ T!Continues(ls[1])
        <3>1. fields = <<>> /\ T!Meaning(ls) = <<>>
            BY <2>1, <2>3 DEF ReadUpTo, T!Meaning
        <3>2. <<>> \in Seq(FieldsOf(ls)) /\ <<>> \o <<>> = <<>>
            OBVIOUS
        <3>3. T!IsPrefix(<<>>, <<>>)
            BY <3>2, PrefixOfWhole
        <3> QED
            BY <3>1, <3>3
    <2>4. CASE ~(ls # <<>> /\ T!Continues(ls[1]))
        <3>1. T!Meaning(ls) = M[1] /\ fields \o M[i + 1] = M[1]
            BY <2>1, <2>4 DEF ReadUpTo, T!Meaning
        <3>2. M[i + 1] \in Seq(FieldsOf(ls))
            <4>1. i + 1 \in 1..(Len(ls) + 1)
                BY <1>2, <2>2
            <4> HIDE DEF M
            <4> QED
                BY <1>3, <4>1 DEF Means
        <3>3. T!IsPrefix(fields, fields \o M[i + 1])
            <4> HIDE DEF M
            <4> QED
                BY <2>2, <3>2, PrefixOfWhole
        <3> QED
            BY <3>1, <3>3
    <2> QED
        BY <2>3, <2>4
<1>5. phase = "line" => fields = T!Meaning(ls)
    BY <1>1 DEF Unfolding
<1>6. phase = "end" => IF textErr = "malformed" THEN fields = T!Meaning(ls)
                        ELSE fields = Append(T!Meaning(ls), <<"line", <<"x">>>>)
    BY <1>1 DEF Unfolding, LineAfter
<1> QED
    BY <1>4, <1>5, <1>6 DEF T!HeaderUnfolded

\* Every header of lines with any line ends is read as it means, its continued
\* lines joined to the ones before them, whatever the buffer happened to hold at
\* each line, and the line behind its blank line is the next one read
\* (textproto ReadMIMEHeader, readContinuedLineSlice).
THEOREM HeadersAreUnfolded == Spec => []HeaderUnfolded
<1> QED
    BY HeaderInit, HeaderStepInv, HeaderSafe, PTL DEF Spec
=============================================================================
