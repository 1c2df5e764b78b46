-------------------------- MODULE SocketClientProofs --------------------------
(***************************************************************************)
(* Both ends of a connection, for any workload, chunk size, pool, kernel   *)
(* buffer and number of chunks per system call: the edges of epoll, the    *)
(* chunks that queues and packets share, and the stream of bytes.          *)
(***************************************************************************)
EXTENDS SocketClient, FiniteSetTheorems, WellFoundedInduction, SequenceTheorems, TLAPS

-----------------------------------------------------------------------------
(* Induction, as a statement about sets of numbers. *)

\* A set of numbers that is not empty has a smallest one.
LEMMA LeastExists ==
    ASSUME NEW S \in SUBSET Nat, S # {} PROVE \E x \in S : \A y \in S : x <= y
<1>1. PICK x \in S : \A y \in S : ~(<<y, x>> \in OpToRel(<, Nat))
  BY NatLessThanWellFounded, WFMin, Zenon
<1>2. ASSUME NEW y \in S PROVE x <= y
  <2>1. ~(<<y, x>> \in OpToRel(<, Nat)) BY <1>1
  <2>2. ~(y < x) BY <2>1, Zenon DEF OpToRel
  <2> QED BY <2>2
<1> QED BY <1>2

\* A set of numbers up to N that has 0 and, with each number, the next one.
LEMMA UpTo ==
    ASSUME NEW N \in Nat, NEW S \in SUBSET (0 .. N), 0 \in S,
           \A i \in 0 .. N : i \in S /\ i < N => i + 1 \in S
    PROVE  S = 0 .. N
<1> DEFINE Bad == (0 .. N) \ S
<1>1. SUFFICES ASSUME Bad # {} PROVE FALSE OBVIOUS
<1>2. Bad \in SUBSET Nat OBVIOUS
<1>3. PICK x \in Bad : \A y \in Bad : x <= y
  <2> HIDE DEF Bad
  <2> QED BY <1>1, <1>2, LeastExists
<1>4. x \in Nat /\ x # 0 /\ x <= N OBVIOUS
<1>5. x - 1 \in 0 .. N /\ x - 1 < N /\ ~(x <= x - 1) BY <1>4
<1>6. x - 1 \in S BY <1>3, <1>5
<1>7. (x - 1) + 1 \in S BY <1>5, <1>6
<1> QED BY <1>4, <1>7

-----------------------------------------------------------------------------
(* Sums: what BytesBefore and LastByte compute. *)

\* n[i] is the sum of the first i numbers of a.
Sums(n, a, N) ==
    /\ n \in [0 .. N -> Nat]
    /\ n[0] = 0
    /\ \A i \in 1 .. N : n[i] = n[i - 1] + a[i]

LEMMA SumsExist ==
    ASSUME NEW N \in Nat, NEW a \in [1 .. N -> Nat] PROVE \E n : Sums(n, a, N)
<1> DEFINE S == {k \in 0 .. N : \E n : Sums(n, a, k)}
<1>1. 0 \in S
  <2>1. Sums([i \in 0 .. 0 |-> 0], a, 0) BY DEF Sums
  <2> QED BY <2>1
<1>2. ASSUME NEW k \in 0 .. N, k \in S, k < N PROVE k + 1 \in S
  <2>1. PICK n : Sums(n, a, k) BY <1>2
  <2> DEFINE m == [i \in 0 .. k + 1 |-> IF i <= k THEN n[i] ELSE n[k] + a[k + 1]]
  <2>2. a[k + 1] \in Nat /\ n[k] \in Nat BY <1>2, <2>1 DEF Sums
  <2>3. m \in [0 .. k + 1 -> Nat] /\ m[0] = 0 BY <2>1, <2>2 DEF Sums
  <2>4. ASSUME NEW i \in 1 .. k + 1 PROVE m[i] = m[i - 1] + a[i]
    <3>1. CASE i = k + 1 BY <2>1, <3>1
    <3>2. CASE i # k + 1
      <4>1. i \in 1 .. k /\ i - 1 \in 0 .. k BY <3>2
      <4> QED BY <2>1, <4>1 DEF Sums
    <3> QED BY <3>1, <3>2
  <2> HIDE DEF m
  <2>5. Sums(m, a, k + 1) BY <2>3, <2>4 DEF Sums
  <2> QED BY <1>2, <2>5
<1>3. S \in SUBSET (0 .. N) OBVIOUS
<1>4. S = 0 .. N
  <2> HIDE DEF S
  <2> QED BY <1>1, <1>2, <1>3, UpTo
<1>5. \A k \in S : \E n : Sums(n, a, k) OBVIOUS
<1> HIDE DEF S
<1>6. N \in S BY <1>4
<1> QED BY <1>5, <1>6

\* There is only one.
LEMMA SumsUnique ==
    ASSUME NEW N \in Nat, NEW a, NEW n, NEW m, Sums(n, a, N), Sums(m, a, N)
    PROVE  n = m
<1> DEFINE S == {k \in 0 .. N : n[k] = m[k]}
<1>1. 0 \in S BY DEF Sums
<1>2. ASSUME NEW k \in 0 .. N, k \in S, k < N PROVE k + 1 \in S
  <2>1. k + 1 \in 1 .. N /\ (k + 1) - 1 = k BY <1>2
  <2>2. n[k + 1] = n[k] + a[k + 1] /\ m[k + 1] = m[k] + a[k + 1] BY <2>1 DEF Sums
  <2> QED BY <1>2, <2>1, <2>2
<1>3. S = 0 .. N
  <2>1. S \in SUBSET (0 .. N) OBVIOUS
  <2> HIDE DEF S
  <2> QED BY <1>1, <1>2, <2>1, UpTo
<1>4. \A k \in 0 .. N : n[k] = m[k] BY <1>3
<1>5. n \in [0 .. N -> Nat] /\ m \in [0 .. N -> Nat] BY DEF Sums
<1> HIDE DEF S
<1> QED BY <1>4, <1>5

\* They do not decrease, and increase where no number is 0.
LEMMA SumsGrow ==
    ASSUME NEW N \in Nat, NEW a \in [1 .. N -> Nat], NEW n, Sums(n, a, N)
    PROVE  /\ \A i, j \in 0 .. N : i <= j => n[i] <= n[j]
           /\ (\A i \in 1 .. N : a[i] > 0) => \A i, j \in 0 .. N : i < j => n[i] < n[j]
<1> DEFINE Good(j) == \A i \in 0 .. j : n[i] <= n[j]
           S == {j \in 0 .. N : Good(j)}
<1>0. \A i \in 0 .. N : n[i] \in Nat BY DEF Sums
<1>1. 0 \in S BY <1>0
<1>2. ASSUME NEW j \in 0 .. N, j < N
      PROVE  n[j + 1] = n[j] + a[j + 1] /\ n[j] \in Nat /\ a[j + 1] \in Nat /\ j + 1 \in 0 .. N
  <2>1. j + 1 \in 1 .. N /\ (j + 1) - 1 = j BY <1>2
  <2> QED BY <1>0, <2>1 DEF Sums
<1>3. ASSUME NEW j \in 0 .. N, j \in S, j < N PROVE j + 1 \in S
  <2>1. ASSUME NEW i \in 0 .. j + 1 PROVE n[i] <= n[j + 1]
    <3>1. CASE i = j + 1 BY <1>0, <1>2, <1>3, <3>1
    <3>2. CASE i # j + 1
      <4>1. i \in 0 .. j /\ i \in 0 .. N BY <3>2
      <4>2. n[i] <= n[j] /\ n[i] \in Nat BY <1>0, <1>3, <4>1
      <4> QED BY <1>2, <1>3, <4>2
    <3> QED BY <3>1, <3>2
  <2> QED BY <1>3, <2>1
<1>4. S = 0 .. N
  <2>1. S \in SUBSET (0 .. N) OBVIOUS
  <2> HIDE DEF S
  <2> QED BY <1>1, <1>3, <2>1, UpTo
<1>5. ASSUME NEW i \in 0 .. N, NEW j \in 0 .. N, i <= j PROVE n[i] <= n[j]
  <2>1. j \in S /\ i \in 0 .. j BY <1>4, <1>5
  <2> QED BY <2>1
<1> HIDE DEF S
<1>6. ASSUME \A i \in 1 .. N : a[i] > 0, NEW i \in 0 .. N, NEW j \in 0 .. N, i < j PROVE n[i] < n[j]
  <2>1. i + 1 \in 1 .. N /\ i + 1 \in 0 .. N /\ i + 1 <= j /\ i < N BY <1>6
  <2>2. n[i + 1] <= n[j] BY <1>5, <2>1
  <2>3. n[i + 1] = n[i] + a[i + 1] /\ n[i] \in Nat /\ a[i + 1] \in Nat /\ a[i + 1] > 0 BY <1>2, <1>6, <2>1
  <2>4. n[j] \in Nat BY <1>0
  <2> QED BY <2>2, <2>3, <2>4
<1> QED BY <1>5, <1>6

-----------------------------------------------------------------------------
(* References into chunks. *)

\* A reference that stays inside its chunk.
Slices == {r \in Refs : r.off + r.count <= ChunkSize}

Counts(q) == [i \in 1 .. Len(q) |-> q[i].count]

LEMMA SliceFacts ==
    ASSUME NEW r \in Slices
    PROVE  /\ r \in Refs /\ r.chunk \in Chunks /\ r.off \in Nat /\ r.count \in Nat /\ r.count > 0
           /\ r.off + r.count <= ChunkSize /\ r = [chunk |-> r.chunk, off |-> r.off, count |-> r.count]
BY SocketAssumption DEF Slices, Refs

\* BytesBefore adds up the lengths of the references.
LEMMA BytesBeforeIs ==
    ASSUME NEW q \in Seq(Slices)
    PROVE  Counts(q) \in [1 .. Len(q) -> Nat] /\ Sums(BytesBefore(q), Counts(q), Len(q))
<1> DEFINE N == Len(q)
           F(f) == [i \in 0 .. N |-> IF i = 0 THEN 0 ELSE f[i - 1] + q[i].count]
           n == BytesBefore(q)
<1>1. N \in Nat /\ \A i \in 1 .. N : q[i] \in Slices OBVIOUS
<1>2. Counts(q) \in [1 .. N -> Nat] BY <1>1, SliceFacts DEF Counts
<1>3. PICK g : Sums(g, Counts(q), N) BY <1>1, <1>2, SumsExist
<1>4. g = F(g)
  <2>1. g = [i \in 0 .. N |-> g[i]] BY <1>3 DEF Sums
  <2>2. ASSUME NEW i \in 0 .. N PROVE g[i] = IF i = 0 THEN 0 ELSE g[i - 1] + q[i].count
    BY <1>3 DEF Sums, Counts
  <2> QED BY <2>1, <2>2
<1>5. n = F(n)
  <2>1. \E f : f = F(f) BY <1>4
  <2> QED BY <2>1 DEF BytesBefore
<1> HIDE DEF n
<1>6. /\ n[0] = 0 /\ DOMAIN n = 0 .. N
      /\ \A i \in 1 .. N : n[i] = n[i - 1] + Counts(q)[i]
  BY <1>1, <1>5 DEF Counts
<1>7. n = [i \in 0 .. N |-> n[i]] BY <1>5
<1>8. \A i \in 0 .. N : n[i] \in Nat
  <2> DEFINE S == {i \in 0 .. N : n[i] \in Nat}
  <2>1. S \in SUBSET (0 .. N) /\ 0 \in S BY <1>1, <1>6
  <2>2. ASSUME NEW i \in 0 .. N, i \in S, i < N PROVE i + 1 \in S
    <3>1. i + 1 \in 1 .. N /\ (i + 1) - 1 = i BY <2>2
    <3>2. n[i + 1] = n[i] + Counts(q)[i + 1] /\ Counts(q)[i + 1] \in Nat BY <1>2, <1>6, <3>1
    <3> QED BY <2>2, <3>1, <3>2
  <2>3. S = 0 .. N
    <3> HIDE DEF S
    <3> QED BY <1>1, <2>1, <2>2, UpTo
  <2> QED BY <2>3
<1>9. n \in [0 .. N -> Nat] BY <1>7, <1>8
<1>10. Sums(n, Counts(q), N) BY <1>6, <1>9 DEF Sums
<1> QED BY <1>2, <1>10 DEF n

-----------------------------------------------------------------------------
(* FlattenSeq: g[i] is what the first i sequences of s are together. *)

Flats(g, s, N, T) ==
    /\ g \in [0 .. N -> Seq(T)]
    /\ g[0] = <<>>
    /\ \A i \in 1 .. N : g[i] = g[i - 1] \o s[i]

LEMMA FlatsExist ==
    ASSUME NEW T, NEW N \in Nat, NEW s \in [1 .. N -> Seq(T)] PROVE \E g : Flats(g, s, N, T)
<1> DEFINE S == {k \in 0 .. N : \E g : Flats(g, s, k, T)}
<1>1. 0 \in S
  <2>1. Flats([i \in 0 .. 0 |-> <<>>], s, 0, T) BY DEF Flats
  <2> QED BY <2>1
<1>2. ASSUME NEW k \in 0 .. N, k \in S, k < N PROVE k + 1 \in S
  <2>1. PICK g : Flats(g, s, k, T) BY <1>2
  <2>2. k + 1 \in 1 .. N BY <1>2
  <2>3. PICK x \in Seq(T) : x = g[k] BY <2>1 DEF Flats
  <2>4. PICK y \in Seq(T) : y = s[k + 1] BY <2>2
  <2>5. x \o y \in Seq(T) BY ConcatProperties
  <2> DEFINE h == [i \in 0 .. k + 1 |-> IF i <= k THEN g[i] ELSE x \o y]
  <2>6. h \in [0 .. k + 1 -> Seq(T)] /\ h[0] = <<>> BY <2>1, <2>5 DEF Flats
  <2>7. ASSUME NEW i \in 1 .. k + 1 PROVE h[i] = h[i - 1] \o s[i]
    <3>1. CASE i = k + 1
      <4>1. h[i] = x \o y /\ h[i - 1] = g[k] /\ s[i] = s[k + 1] BY <3>1
      <4> QED BY <2>3, <2>4, <4>1
    <3>2. CASE i # k + 1
      <4>1. i \in 1 .. k /\ i - 1 \in 0 .. k BY <3>2
      <4>2. h[i] = g[i] /\ h[i - 1] = g[i - 1] BY <4>1
      <4>3. g[i] = g[i - 1] \o s[i] BY <2>1, <4>1 DEF Flats
      <4> QED BY <4>2, <4>3
    <3> QED BY <3>1, <3>2
  <2> HIDE DEF h
  <2>8. Flats(h, s, k + 1, T) BY <2>6, <2>7 DEF Flats
  <2> QED BY <1>2, <2>2, <2>8
<1>3. \A k \in S : \E g : Flats(g, s, k, T) OBVIOUS
<1>4. S \in SUBSET (0 .. N) OBVIOUS
<1> HIDE DEF S
<1>5. S = 0 .. N BY <1>1, <1>2, <1>4, UpTo
<1>6. N \in S BY <1>5
<1> QED BY <1>3, <1>6

\* FlattenSeq is the last of them.
LEMMA FlattenIs ==
    ASSUME NEW T, NEW s \in Seq(Seq(T)), NEW g, Flats(g, s, Len(s), T)
    PROVE  FlattenSeq(s) = g[Len(s)]
<1> DEFINE N == Len(s)
           F(f) == [i \in 1 .. N |-> IF i = 1 THEN s[i] ELSE f[i - 1] \o s[i]]
<1>1. N \in Nat /\ \A i \in 1 .. N : s[i] \in Seq(T) OBVIOUS
<1>2. CASE N = 0
  <2>1. s = <<>> BY <1>2
  <2> QED BY <1>2, <2>1 DEF FlattenSeq, Flats
<1>3. CASE N # 0
  <2> DEFINE h == [i \in 1 .. N |-> g[i]]
             c == CHOOSE f : f = F(f)
  <2>1. ASSUME NEW i \in 1 .. N PROVE h[i] = IF i = 1 THEN s[i] ELSE h[i - 1] \o s[i]
    <3>1. g[i] = g[i - 1] \o s[i] BY DEF Flats
    <3>2. CASE i = 1
      <4>1. g[0] = <<>> BY DEF Flats
      <4>2. <<>> \o s[i] = s[i] BY <1>1, ConcatEmptySeq
      <4>3. g[i - 1] = <<>> BY <3>2, <4>1
      <4>4. g[i] = s[i] BY <3>1, <4>2, <4>3, Zenon
      <4> QED BY <3>2, <4>4
    <3>3. CASE i # 1
      <4>1. i - 1 \in 1 .. N BY <3>3
      <4> QED BY <3>1, <3>3, <4>1
    <3> QED BY <3>2, <3>3
  <2>2. h = F(h) BY <2>1
  <2>3. c = F(c)
    <3>1. \E f : f = F(f) BY <2>2
    <3> QED BY <3>1
  <2>4. FlattenSeq(s) = c[N] BY <1>3 DEF FlattenSeq
  <2> HIDE DEF c
  <2> DEFINE S == {k \in 0 .. N : k > 0 => c[k] = g[k]}
  <2>5. S \in SUBSET (0 .. N) /\ 0 \in S BY <1>1
  <2>6. ASSUME NEW k \in 0 .. N, k \in S, k < N PROVE k + 1 \in S
    <3>1. k + 1 \in 1 .. N /\ (k + 1) - 1 = k BY <2>6
    <3>2. h[k + 1] = IF k + 1 = 1 THEN s[k + 1] ELSE h[k] \o s[k + 1] BY <2>1, <3>1
    <3>3. c[k + 1] = IF k + 1 = 1 THEN s[k + 1] ELSE c[k] \o s[k + 1] BY <2>3, <3>1
    <3>4. h[k + 1] = g[k + 1] BY <3>1
    <3>5. CASE k = 0 BY <3>1, <3>2, <3>3, <3>4, <3>5
    <3>6. CASE k # 0
      <4>1. c[k] = g[k] /\ h[k] = g[k] BY <2>6, <3>6
      <4> QED BY <3>1, <3>2, <3>3, <3>4, <3>6, <4>1
    <3> QED BY <3>5, <3>6
  <2>7. S = 0 .. N
    <3> HIDE DEF S
    <3> QED BY <1>1, <2>5, <2>6, UpTo
  <2>8. c[N] = g[N] BY <1>1, <1>3, <2>7
  <2> QED BY <2>4, <2>8
<1> QED BY <1>2, <1>3

LEMMA FlattenEmpty == FlattenSeq(<<>>) = <<>>
BY DEF FlattenSeq

\* One more sequence at the end.
LEMMA FlattenAppend ==
    ASSUME NEW T, NEW s \in Seq(Seq(T)), NEW x \in Seq(T)
    PROVE  /\ FlattenSeq(s) \in Seq(T)
           /\ FlattenSeq(Append(s, x)) = FlattenSeq(s) \o x
<1> DEFINE N == Len(s)
           t == Append(s, x)
<1>1. /\ N \in Nat /\ t \in Seq(Seq(T)) /\ Len(t) = N + 1 /\ t[N + 1] = x
      /\ \A i \in 1 .. N : t[i] = s[i]
  OBVIOUS
<1> HIDE DEF t
<1>2. t \in [1 .. N + 1 -> Seq(T)] BY <1>1
<1>3. PICK g : Flats(g, t, N + 1, T) BY <1>1, <1>2, FlatsExist
<1> DEFINE h == [i \in 0 .. N |-> g[i]]
<1>4. Flats(h, s, N, T)
  <2>1. h \in [0 .. N -> Seq(T)] /\ h[0] = <<>> BY <1>1, <1>3 DEF Flats
  <2>2. ASSUME NEW i \in 1 .. N PROVE h[i] = h[i - 1] \o s[i]
    <3>1. i \in 1 .. N + 1 /\ i - 1 \in 0 .. N /\ i \in 0 .. N BY <1>1
    <3>2. g[i] = g[i - 1] \o t[i] BY <1>3, <3>1 DEF Flats
    <3> QED BY <1>1, <3>1, <3>2
  <2> HIDE DEF h
  <2> QED BY <2>1, <2>2 DEF Flats
<1>5. FlattenSeq(t) = g[N + 1] BY <1>1, <1>3, FlattenIs
<1>6. FlattenSeq(s) = h[N]
  <2> HIDE DEF h
  <2> QED BY <1>4, FlattenIs
<1>7. h[N] = g[N] /\ g[N] \in Seq(T) BY <1>1, <1>3 DEF Flats
<1>8. g[N + 1] = g[N] \o t[N + 1]
  <2>1. N + 1 \in 1 .. N + 1 /\ (N + 1) - 1 = N BY <1>1
  <2> QED BY <1>3, <2>1 DEF Flats
<1> QED BY <1>1, <1>5, <1>6, <1>7, <1>8 DEF t

-----------------------------------------------------------------------------
(* Cells: the cells of a queue, reference by reference. *)

Spots == Chunks \X (1 .. ChunkSize)

RefCells(r) == [j \in 1 .. r.count |-> <<r.chunk, r.off + j>>]

LEMMA RefCellsFacts ==
    ASSUME NEW r \in Slices
    PROVE  /\ RefCells(r) \in Seq(Spots) /\ Len(RefCells(r)) = r.count
           /\ \A j \in 1 .. r.count : RefCells(r)[j] = <<r.chunk, r.off + j>>
<1>1. /\ r.count \in Nat /\ r.off \in Nat /\ r.off + r.count <= ChunkSize /\ r.chunk \in Chunks
      /\ ChunkSize \in Nat
  BY SliceFacts, SocketAssumption
<1>2. ASSUME NEW j \in 1 .. r.count PROVE <<r.chunk, r.off + j>> \in Spots
  <2>1. r.off + j \in 1 .. ChunkSize BY <1>1
  <2> QED BY <1>1, <2>1 DEF Spots
<1>3. RefCells(r) \in [1 .. r.count -> Spots] BY <1>2 DEF RefCells
<1>4. RefCells(r) \in Seq(Spots) /\ Len(RefCells(r)) = r.count BY <1>1, <1>3
<1> QED BY <1>4 DEF RefCells

LEMMA CellsEmpty == Cells(<<>>) = <<>>
<1> DEFINE s == [i \in DOMAIN <<>> |-> [j \in 1 .. <<>>[i].count |-> <<<<>>[i].chunk, <<>>[i].off + j>>]]
<1>1. s = <<>> OBVIOUS
<1>2. Cells(<<>>) = FlattenSeq(s) BY DEF Cells
<1> HIDE DEF s
<1> QED BY <1>1, <1>2, FlattenEmpty

\* One more reference at the end.
LEMMA CellsAppend ==
    ASSUME NEW q \in Seq(Slices), NEW r \in Slices
    PROVE  /\ Cells(q) \in Seq(Spots)
           /\ Cells(Append(q, r)) = Cells(q) \o RefCells(r)
<1> DEFINE N == Len(q)
           t == Append(q, r)
           P(u) == [i \in DOMAIN u |-> [j \in 1 .. u[i].count |-> <<u[i].chunk, u[i].off + j>>]]
           s == [i \in 1 .. N |-> RefCells(q[i])]
           x == RefCells(r)
<1>1. /\ N \in Nat /\ DOMAIN q = 1 .. N /\ DOMAIN t = 1 .. N + 1 /\ t[N + 1] = r
      /\ \A i \in 1 .. N : t[i] = q[i] /\ q[i] \in Slices
  OBVIOUS
<1>2. Cells(q) = FlattenSeq(P(q)) /\ Cells(t) = FlattenSeq(P(t)) BY DEF Cells
<1> HIDE DEF t
<1>3. P(q) = s BY <1>1 DEF RefCells
<1>4. P(t) = [i \in 1 .. N + 1 |-> RefCells(t[i])] BY <1>1 DEF RefCells
<1>5. s \in Seq(Seq(Spots)) /\ Len(s) = N
  <2>1. \A i \in 1 .. N : RefCells(q[i]) \in Seq(Spots) BY <1>1, RefCellsFacts
  <2> QED BY <1>1, <2>1
<1>6. x \in Seq(Spots) BY RefCellsFacts
<1>7. P(t) = Append(s, x)
  <2> DEFINE u == [i \in 1 .. N + 1 |-> RefCells(t[i])]
             v == Append(s, x)
  <2>1. /\ v \in Seq(Seq(Spots)) /\ Len(v) = N + 1 /\ v[N + 1] = x
        /\ \A i \in 1 .. N : v[i] = s[i]
    <3> HIDE DEF s, x
    <3> QED BY <1>1, <1>5, <1>6
  <2>2. \A i \in 1 .. N : s[i] = RefCells(q[i]) OBVIOUS
  <2> HIDE DEF v, s
  <2>3. ASSUME NEW i \in 1 .. N + 1 PROVE v[i] = RefCells(t[i])
    <3>1. CASE i = N + 1 BY <1>1, <2>1, <3>1
    <3>2. CASE i # N + 1
      <4>1. i \in 1 .. N BY <1>1, <3>2
      <4> QED BY <1>1, <2>1, <2>2, <4>1
    <3> QED BY <3>1, <3>2
  <2>4. v = [i \in 1 .. N + 1 |-> v[i]] BY <1>1, <2>1
  <2>5. v = u BY <2>3, <2>4
  <2> QED BY <1>4, <2>5 DEF v
<1> HIDE DEF s, x
<1>8. FlattenSeq(s) \in Seq(Spots) /\ FlattenSeq(Append(s, x)) = FlattenSeq(s) \o x
  BY <1>5, <1>6, FlattenAppend
<1>9. Cells(q) = FlattenSeq(s) BY <1>2, <1>3
<1>10. Cells(t) = FlattenSeq(Append(s, x)) BY <1>2, <1>7
<1>11. Cells(t) = Cells(q) \o x BY <1>8, <1>9, <1>10
<1> QED BY <1>8, <1>9, <1>11 DEF t, x

\* The first k + 1 references are the first k and one more.
LEMMA OneMore ==
    ASSUME NEW S, NEW q \in Seq(S), NEW k \in 0 .. Len(q), k < Len(q)
    PROVE  /\ SubSeq(q, 1, k) \in Seq(S) /\ q[k + 1] \in S
           /\ SubSeq(q, 1, k + 1) = Append(SubSeq(q, 1, k), q[k + 1])
OBVIOUS

\* BytesBefore counts the cells.
LEMMA CellsBefore ==
    ASSUME NEW q \in Seq(Slices), NEW i \in 0 .. Len(q)
    PROVE  /\ SubSeq(q, 1, i) \in Seq(Slices) /\ Cells(SubSeq(q, 1, i)) \in Seq(Spots)
           /\ Len(Cells(SubSeq(q, 1, i))) = BytesBefore(q)[i]
<1> DEFINE N == Len(q)
           b == BytesBefore(q)
           u(k) == SubSeq(q, 1, k)
           S == {k \in 0 .. N : Len(Cells(u(k))) = b[k]}
<1>1. N \in Nat OBVIOUS
<1>2. Sums(b, Counts(q), N) BY BytesBeforeIs
<1> HIDE DEF b
<1>3. \A k \in 0 .. N : u(k) \in Seq(Slices) OBVIOUS
<1>4. \A k \in 0 .. N : Cells(u(k)) \in Seq(Spots)
  <2> SUFFICES ASSUME NEW k \in 0 .. N PROVE Cells(u(k)) \in Seq(Spots) OBVIOUS
  <2>1. PICK p \in Seq(Slices) : p = u(k) BY <1>3
  <2>2. CASE N = 0
    <3>1. u(k) = <<>> BY <2>2
    <3> HIDE DEF u
    <3>2. Cells(u(k)) = <<>> BY <3>1, CellsEmpty, Zenon
    <3> QED BY <3>2
  <2>3. CASE N # 0
    <3>1. q[1] \in Slices BY <2>3
    <3> QED BY <2>1, <3>1, CellsAppend
  <2> QED BY <2>2, <2>3
<1>5. 0 \in S
  <2>1. u(0) = <<>> OBVIOUS
  <2> HIDE DEF u
  <2>2. Len(Cells(u(0))) = 0
    <3>1. Cells(u(0)) = <<>> BY <2>1, CellsEmpty, Zenon
    <3> QED BY <3>1
  <2>3. b[0] = 0 BY <1>2 DEF Sums
  <2> QED BY <1>1, <2>2, <2>3
<1>6. ASSUME NEW k \in 0 .. N, k \in S, k < N PROVE k + 1 \in S
  <2>1. PICK p \in Seq(Slices) : p = u(k) BY <1>3
  <2>2. PICK r \in Slices : r = q[k + 1] BY <1>6
  <2>3. u(k + 1) = Append(p, r) BY <1>6, <2>1, <2>2, OneMore
  <2>4. Cells(p) \in Seq(Spots) /\ Cells(u(k + 1)) = Cells(p) \o RefCells(r) BY <2>3, CellsAppend
  <2>5. RefCells(r) \in Seq(Spots) /\ Len(RefCells(r)) = r.count BY RefCellsFacts
  <2>6. Len(Cells(p) \o RefCells(r)) = Len(Cells(p)) + r.count
    <3>1. PICK x \in Seq(Spots) : x = Cells(p) BY <2>4
    <3>2. PICK y \in Seq(Spots) : y = RefCells(r) BY <2>5
    <3>3. Len(x \o y) = Len(x) + Len(y) OBVIOUS
    <3> QED BY <2>5, <3>1, <3>2, <3>3
  <2>7. Len(Cells(p)) = b[k] BY <1>6, <2>1
  <2>8. k + 1 \in 1 .. N /\ (k + 1) - 1 = k BY <1>1, <1>6
  <2>9. b[k + 1] = b[k] + r.count BY <1>2, <2>2, <2>8 DEF Sums, Counts
  <2> HIDE DEF u
  <2>10. Len(Cells(u(k + 1))) = b[k + 1] BY <2>4, <2>6, <2>7, <2>9
  <2> QED BY <2>8, <2>10
<1>7. S \in SUBSET (0 .. N) OBVIOUS
<1>8. \A k \in S : Len(Cells(u(k))) = b[k] OBVIOUS
<1> HIDE DEF S
<1>9. S = 0 .. N BY <1>1, <1>5, <1>6, <1>7, UpTo
<1> QED BY <1>3, <1>4, <1>8, <1>9 DEF b

LEMMA CellsType ==
    ASSUME NEW q \in Seq(Slices)
    PROVE  /\ Cells(q) \in Seq(Spots) /\ Size(q) = Len(Cells(q)) /\ Size(q) \in Nat
<1>1. Len(q) \in 0 .. Len(q) /\ SubSeq(q, 1, Len(q)) = q BY SubSeqFull
<1>2. Cells(q) \in Seq(Spots) /\ Len(Cells(q)) = BytesBefore(q)[Len(q)]
  <2>1. PICK n \in 0 .. Len(q) : n = Len(q) BY <1>1
  <2>2. Cells(SubSeq(q, 1, n)) \in Seq(Spots) /\ Len(Cells(SubSeq(q, 1, n))) = BytesBefore(q)[n]
    BY CellsBefore
  <2>3. SubSeq(q, 1, n) = q BY <1>1, <2>1
  <2> QED BY <2>1, <2>2, <2>3
<1>3. Len(Cells(q)) \in Nat
  <2>1. PICK x \in Seq(Spots) : x = Cells(q) BY <1>2
  <2> QED BY <2>1
<1> QED BY <1>2, <1>3 DEF Size

LEMMA CellsOne ==
    ASSUME NEW r \in Slices PROVE Cells(<<r>>) = RefCells(r)
<1>1. <<>> \in Seq(Slices) /\ Append(<<>>, r) = <<r>> OBVIOUS
<1>2. Cells(<<r>>) = Cells(<<>>) \o RefCells(r) BY <1>1, CellsAppend
<1>3. Cells(<<r>>) = <<>> \o RefCells(r) BY <1>2, CellsEmpty
<1>4. RefCells(r) \in Seq(Spots) BY RefCellsFacts
<1> QED BY <1>3, <1>4, ConcatEmptySeq

\* Queues one behind the other.
LEMMA CellsConcat ==
    ASSUME NEW q \in Seq(Slices), NEW p \in Seq(Slices)
    PROVE  q \o p \in Seq(Slices) /\ Cells(q \o p) = Cells(q) \o Cells(p)
<1> DEFINE N == Len(p)
           u(k) == SubSeq(p, 1, k)
           S == {k \in 0 .. N : Cells(q \o u(k)) = Cells(q) \o Cells(u(k))}
<1>1. N \in Nat /\ \A k \in 0 .. N : u(k) \in Seq(Slices) OBVIOUS
<1>2. Cells(q) \in Seq(Spots) BY CellsType
<1>3. 0 \in S
  <2>1. u(0) = <<>> OBVIOUS
  <2>2. q \o u(0) = q BY <2>1, ConcatEmptySeq
  <2>3. Cells(u(0)) = <<>> BY <2>1, CellsEmpty
  <2>4. Cells(q) \o <<>> = Cells(q) BY <1>2, ConcatEmptySeq
  <2>5. Cells(q \o u(0)) = Cells(q) \o Cells(u(0))
    <3> HIDE DEF u
    <3> QED BY <2>2, <2>3, <2>4
  <2> QED BY <1>1, <2>5
<1>4. ASSUME NEW k \in 0 .. N, k \in S, k < N PROVE k + 1 \in S
  <2>1. PICK v \in Seq(Slices) : v = u(k) BY <1>1
  <2>2. PICK r \in Slices : r = p[k + 1] BY <1>4
  <2>3. u(k + 1) = Append(v, r) BY <1>4, <2>1, <2>2, OneMore
  <2>4. q \o v \in Seq(Slices) BY ConcatProperties
  <2>5. q \o Append(v, r) = Append(q \o v, r) OBVIOUS
  <2>6. Cells(v) \in Seq(Spots) /\ RefCells(r) \in Seq(Spots) BY CellsType, RefCellsFacts
  <2>7. Cells(Append(q \o v, r)) = Cells(q \o v) \o RefCells(r) BY <2>4, CellsAppend
  <2>8. Cells(Append(v, r)) = Cells(v) \o RefCells(r) BY CellsAppend
  <2>9. Cells(q \o v) = Cells(q) \o Cells(v) BY <1>4, <2>1
  <2>10. (Cells(q) \o Cells(v)) \o RefCells(r) = Cells(q) \o (Cells(v) \o RefCells(r))
    BY <1>2, <2>6, ConcatAssociative
  <2> HIDE DEF u
  <2>11. Cells(q \o u(k + 1)) = Cells(q) \o Cells(u(k + 1))
    BY <2>3, <2>5, <2>7, <2>8, <2>9, <2>10, Zenon
  <2>12. k + 1 \in 0 .. N BY <1>1, <1>4
  <2> QED BY <2>11, <2>12
<1>5. S \in SUBSET (0 .. N) OBVIOUS
<1>6. \A k \in S : Cells(q \o u(k)) = Cells(q) \o Cells(u(k)) OBVIOUS
<1> HIDE DEF S
<1>7. S = 0 .. N BY <1>1, <1>3, <1>4, <1>5, UpTo
<1>8. N \in S BY <1>1, <1>7
<1>9. u(N) = p BY SubSeqFull
<1>10. q \o p \in Seq(Slices) BY ConcatProperties
<1>11. Cells(q \o p) = Cells(q) \o Cells(p) BY <1>6, <1>8, <1>9
<1> QED BY <1>10, <1>11

-----------------------------------------------------------------------------
(* Split: the loop that InvokeSend, OnEventIOReadable and PopReceive share. *)

\* The references that lie wholly in the first n bytes.
WholeIs(q, n, k) ==
    /\ BytesBefore(q)[k] <= n
    /\ k < Len(q) => BytesBefore(q)[k + 1] > n

LEMMA WholeExists ==
    ASSUME NEW q \in Seq(Slices), NEW n \in Nat PROVE \E k \in 0 .. Len(q) : WholeIs(q, n, k)
<1> DEFINE N == Len(q)
           b == BytesBefore(q)
           T == {k \in 0 .. N : b[k] > n}
<1>1. N \in Nat OBVIOUS
<1>2. b \in [0 .. N -> Nat] /\ b[0] = 0 BY BytesBeforeIs DEF Sums
<1> HIDE DEF b
<1>3. CASE T = {}
  <2>1. N \in 0 .. N /\ ~(b[N] > n) BY <1>1, <1>3
  <2>2. b[N] \in Nat BY <1>2, <2>1
  <2>3. WholeIs(q, n, N) BY <1>1, <2>1, <2>2 DEF WholeIs, b
  <2> QED BY <2>1, <2>3
<1>4. CASE T # {}
  <2>1. T \in SUBSET Nat OBVIOUS
  <2>2. PICK x \in T : \A y \in T : x <= y
    <3> HIDE DEF T
    <3> QED BY <1>4, <2>1, LeastExists
  <2>3. x \in 0 .. N /\ b[x] > n /\ x # 0 BY <1>2
  <2>4. x - 1 \in 0 .. N /\ ~(x <= x - 1) /\ (x - 1) + 1 = x BY <2>3
  <2>5. ~(b[x - 1] > n) /\ b[x - 1] \in Nat BY <1>2, <2>2, <2>4
  <2>6. WholeIs(q, n, x - 1) BY <2>3, <2>4, <2>5 DEF WholeIs, b
  <2> QED BY <2>4, <2>6
<1> QED BY <1>3, <1>4

\* A reference is cut in two.
LEMMA CutFacts ==
    ASSUME NEW r \in Slices, NEW n \in 1 .. r.count, n < r.count
    PROVE  LET a == [r EXCEPT !.count = n]
               b == [r EXCEPT !.off = @ + n, !.count = @ - n]
           IN  /\ a \in Slices /\ b \in Slices /\ a.chunk = r.chunk /\ b.chunk = r.chunk
               /\ a.count = n
               /\ RefCells(r) = RefCells(a) \o RefCells(b)
<1> DEFINE a == [r EXCEPT !.count = n]
           b == [r EXCEPT !.off = @ + n, !.count = @ - n]
           x == RefCells(a)
           y == RefCells(b)
           z == RefCells(r)
<1>1. /\ r \in Refs /\ r.off \in Nat /\ r.count \in Nat /\ r.chunk \in Chunks
      /\ r.off + r.count <= ChunkSize /\ ChunkSize \in Nat
      /\ r = [chunk |-> r.chunk, off |-> r.off, count |-> r.count]
  BY SliceFacts, SocketAssumption
<1>2. /\ a = [chunk |-> r.chunk, off |-> r.off, count |-> n]
      /\ b = [chunk |-> r.chunk, off |-> r.off + n, count |-> r.count - n]
  <2>1. PICK o, k : o = r.off + n /\ k = r.count - n OBVIOUS
  <2>2. b = [r EXCEPT !.off = o, !.count = k] BY <1>1, <2>1 DEF Refs
  <2>3. [r EXCEPT !.off = o, !.count = k] = [chunk |-> r.chunk, off |-> o, count |-> k]
    <3>1. PICK u : u = [r EXCEPT !.off = o, !.count = k] OBVIOUS
    <3>2. u \in [chunk : {r.chunk}, off : {o}, count : {k}]
      <4>1. r \in Refs BY <1>1
      <4> QED BY <3>1, <4>1 DEF Refs
    <3>3. u = [chunk |-> r.chunk, off |-> o, count |-> k] BY <3>2
    <3> QED BY <3>1, <3>3
  <2>4. a = [chunk |-> r.chunk, off |-> r.off, count |-> n] BY <1>1 DEF Refs
  <2> QED BY <2>1, <2>2, <2>3, <2>4
<1>3. /\ a.chunk = r.chunk /\ a.off = r.off /\ a.count = n
      /\ b.chunk = r.chunk /\ b.off = r.off + n /\ b.count = r.count - n
  BY <1>2
<1>4. a \in Slices /\ b \in Slices
  <2>1. n \in 1 .. ChunkSize /\ r.off \in 0 .. ChunkSize /\ r.off + n <= ChunkSize BY <1>1
  <2>2. /\ r.count - n \in 1 .. ChunkSize /\ r.off + n \in 0 .. ChunkSize
        /\ (r.off + n) + (r.count - n) <= ChunkSize
    BY <1>1
  <2> HIDE DEF a, b
  <2> QED BY <1>1, <1>2, <1>3, <2>1, <2>2 DEF Slices, Refs
<1> HIDE DEF a, b
<1>5. /\ x \in Seq(Spots) /\ Len(x) = n /\ \A j \in 1 .. n : x[j] = <<r.chunk, r.off + j>>
      /\ y \in Seq(Spots) /\ Len(y) = r.count - n
      /\ \A j \in 1 .. r.count - n : y[j] = <<r.chunk, (r.off + n) + j>>
      /\ z \in Seq(Spots) /\ Len(z) = r.count /\ \A j \in 1 .. r.count : z[j] = <<r.chunk, r.off + j>>
  BY <1>3, <1>4, RefCellsFacts
<1> HIDE DEF x, y, z
<1>6. x \o y \in Seq(Spots) /\ Len(x \o y) = r.count
      /\ \A i \in 1 .. r.count : (x \o y)[i] = IF i <= n THEN x[i] ELSE y[i - n]
  <2>1. /\ x \o y \in Seq(Spots) /\ Len(x \o y) = Len(x) + Len(y)
        /\ \A i \in 1 .. Len(x) + Len(y) : (x \o y)[i] = IF i <= Len(x) THEN x[i] ELSE y[i - Len(x)]
    BY <1>5, ConcatProperties
  <2>2. Len(x) + Len(y) = r.count /\ Len(x) = n BY <1>1, <1>5
  <2> QED BY <2>1, <2>2
<1>7. ASSUME NEW i \in 1 .. r.count PROVE z[i] = (x \o y)[i]
  <2>1. CASE i <= n
    <3>1. i \in 1 .. n BY <2>1
    <3> QED BY <1>5, <1>6, <2>1, <3>1
  <2>2. CASE ~(i <= n)
    <3>1. i - n \in 1 .. r.count - n /\ (r.off + n) + (i - n) = r.off + i BY <1>1, <2>2
    <3>2. y[i - n] = <<r.chunk, r.off + i>> BY <1>5, <3>1
    <3>3. z[i] = <<r.chunk, r.off + i>> BY <1>5
    <3> QED BY <1>6, <2>2, <3>2, <3>3
  <2> QED BY <2>1, <2>2
<1>8. z = x \o y
  <2>1. PICK w \in Seq(Spots) : w = x \o y BY <1>6
  <2>2. Len(w) = Len(z) /\ \A i \in 1 .. Len(z) : z[i] = w[i] BY <1>5, <1>6, <1>7, <2>1
  <2>3. z = w BY <1>5, <2>2, SeqEqual
  <2> QED BY <2>1, <2>3
<1> QED BY <1>3, <1>4, <1>8 DEF x, y, z, a, b

LEMMA ChunksInConcat ==
    ASSUME NEW q \in Seq(Slices), NEW p \in Seq(Slices)
    PROVE  ChunksIn(q \o p) = ChunksIn(q) \cup ChunksIn(p)
<1>1. /\ Len(q) \in Nat /\ Len(p) \in Nat /\ DOMAIN (q \o p) = 1 .. Len(q) + Len(p)
      /\ DOMAIN q = 1 .. Len(q) /\ DOMAIN p = 1 .. Len(p)
      /\ \A i \in 1 .. Len(q) : (q \o p)[i] = q[i]
      /\ \A i \in 1 .. Len(p) : (q \o p)[Len(q) + i] = p[i]
  OBVIOUS
<1>2. ASSUME NEW c \in ChunksIn(q \o p) PROVE c \in ChunksIn(q) \cup ChunksIn(p)
  <2>1. PICK i \in 1 .. Len(q) + Len(p) : c = (q \o p)[i].chunk BY <1>1 DEF ChunksIn
  <2>2. CASE i <= Len(q)
    <3>1. i \in DOMAIN q /\ c = q[i].chunk BY <1>1, <2>1, <2>2
    <3> QED BY <3>1 DEF ChunksIn
  <2>3. CASE ~(i <= Len(q))
    <3>1. i - Len(q) \in 1 .. Len(p) /\ Len(q) + (i - Len(q)) = i BY <1>1, <2>3
    <3>2. PICK j \in DOMAIN p : j = i - Len(q) BY <1>1, <3>1
    <3>3. c = p[j].chunk BY <1>1, <2>1, <3>1, <3>2
    <3> QED BY <3>3 DEF ChunksIn
  <2> QED BY <2>2, <2>3
<1>3. ASSUME NEW c \in ChunksIn(q) PROVE c \in ChunksIn(q \o p)
  <2>1. PICK i \in DOMAIN q : c = q[i].chunk BY DEF ChunksIn
  <2>2. i \in DOMAIN (q \o p) /\ c = (q \o p)[i].chunk BY <1>1, <2>1
  <2> QED BY <2>2 DEF ChunksIn
<1>4. ASSUME NEW c \in ChunksIn(p) PROVE c \in ChunksIn(q \o p)
  <2>1. PICK i \in DOMAIN p : c = p[i].chunk BY DEF ChunksIn
  <2>2. PICK j : j = Len(q) + i OBVIOUS
  <2>3. j \in DOMAIN (q \o p) /\ c = (q \o p)[j].chunk BY <1>1, <2>1, <2>2
  <2> QED BY <2>3 DEF ChunksIn
<1> QED BY <1>2, <1>3, <1>4

LEMMA ChunksInOne == \A r : ChunksIn(<<r>>) = {r.chunk}
<1> SUFFICES ASSUME NEW r PROVE ChunksIn(<<r>>) = {r.chunk} OBVIOUS
<1>1. DOMAIN <<r>> = {1} /\ <<r>>[1] = r OBVIOUS
<1> QED BY <1>1 DEF ChunksIn

\* What Split returns: the first n cells and the others, in the same chunks.
LEMMA SplitFacts ==
    ASSUME NEW q \in Seq(Slices), NEW n \in Nat, n <= Size(q), NEW s, s = Split(q, n)
    PROVE  /\ s.taken \in Seq(Slices) /\ s.left \in Seq(Slices)
           /\ Cells(q) = Cells(s.taken) \o Cells(s.left)
           /\ Len(Cells(s.taken)) = n
           /\ ChunksIn(s.taken) \subseteq ChunksIn(q) /\ ChunksIn(s.left) \subseteq ChunksIn(q)
           /\ Len(s.left) <= Len(q)
<1> DEFINE N == Len(q)
           b == BytesBefore(q)
           P(k) == b[k] <= n /\ (k < N => b[k + 1] > n)
<1>1. N \in Nat /\ \A i \in 1 .. N : q[i] \in Slices OBVIOUS
<1>2. Sums(b, Counts(q), N) BY BytesBeforeIs
<1>3. PICK w \in 0 .. N : w = CHOOSE k \in 0 .. N : P(k)
  <2>1. \E k \in 0 .. N : P(k) BY WholeExists DEF WholeIs
  <2> HIDE DEF P
  <2>2. (CHOOSE k \in 0 .. N : P(k)) \in 0 .. N BY <2>1
  <2> QED BY <2>2
<1>4. b[w] <= n /\ (w < N => b[w + 1] > n)
  <2>1. \E k \in 0 .. N : P(k) BY WholeExists DEF WholeIs
  <2>2. P(w)
    <3> HIDE DEF P
    <3> QED BY <1>3, <2>1
  <2> QED BY <2>2
<1>5. b[w] \in Nat BY <1>2 DEF Sums
<1>6. PICK r \in Nat : r = n - b[w] BY <1>4, <1>5
<1> DEFINE u == SubSeq(q, 1, w)
           v == SubSeq(q, w + 1, N)
<1>7. s = IF r = 0 THEN [taken |-> u, left |-> v]
          ELSE [taken |-> Append(u, [q[w + 1] EXCEPT !.count = r]),
                left |-> <<[q[w + 1] EXCEPT !.off = @ + r, !.count = @ - r]>> \o SubSeq(q, w + 2, N)]
  BY <1>3, <1>6 DEF Split
<1>8. Size(q) = b[N] BY DEF Size
<1>9. u \in Seq(Slices) /\ Len(Cells(u)) = b[w] /\ Cells(u) \in Seq(Spots) BY CellsBefore
<1>10. v \in Seq(Slices) /\ q = u \o v /\ Len(v) = N - w
  <2>1. v \in Seq(Slices) /\ Len(v) = N - w BY <1>1
  <2>2. PICK m \in 1 .. Len(q) + 1 : m = 1 BY <1>1
  <2>3. w \in m - 1 .. Len(q) /\ N \in w .. Len(q) BY <1>1, <2>2
  <2>4. SubSeq(q, m, w) \o SubSeq(q, w + 1, N) = SubSeq(q, m, N) BY <2>3, ConcatAdjacentSubSeq
  <2>5. SubSeq(q, 1, N) = q BY SubSeqFull
  <2> QED BY <2>1, <2>2, <2>4, <2>5
<1> HIDE DEF u, v, b, P
<1>11. CASE r = 0
  <2>1. s.taken = u /\ s.left = v BY <1>7, <1>11
  <2>2. Cells(q) = Cells(u) \o Cells(v) BY <1>9, <1>10, CellsConcat
  <2>3. ChunksIn(q) = ChunksIn(u) \cup ChunksIn(v) BY <1>9, <1>10, ChunksInConcat
  <2>4. Len(Cells(u)) = n BY <1>5, <1>6, <1>9, <1>11
  <2>5. Len(v) <= Len(q) BY <1>1, <1>10
  <2> QED BY <1>9, <1>10, <2>1, <2>2, <2>3, <2>4, <2>5
<1>12. CASE r # 0
  <2>1. w < N
    <3>1. SUFFICES ASSUME w = N PROVE FALSE BY <1>1
    <3>2. n <= b[w] BY <1>8, <3>1
    <3> QED BY <1>4, <1>5, <1>6, <1>12, <3>2
  <2>2. PICK cut \in Slices : cut = q[w + 1] BY <1>1, <2>1
  <2>3. w + 1 \in 1 .. N /\ (w + 1) - 1 = w BY <1>1, <2>1
  <2>4. b[w + 1] = b[w] + cut.count BY <1>2, <2>2, <2>3 DEF Sums, Counts
  <2>5. cut.count \in Nat BY SliceFacts
  <2>6. r \in 1 .. cut.count /\ r < cut.count BY <1>4, <1>5, <1>6, <1>12, <2>1, <2>4, <2>5
  <2> DEFINE x == [cut EXCEPT !.count = r]
             y == [cut EXCEPT !.off = @ + r, !.count = @ - r]
             z == SubSeq(q, w + 2, N)
  <2>7. /\ x \in Slices /\ y \in Slices /\ x.chunk = cut.chunk /\ y.chunk = cut.chunk
        /\ x.count = r /\ RefCells(cut) = RefCells(x) \o RefCells(y)
    BY <2>6, CutFacts
  <2>8. s.taken = Append(u, x) /\ s.left = <<y>> \o z BY <1>7, <1>12, <2>2
  <2>9. z \in Seq(Slices) /\ v = <<cut>> \o z
    <3>1. z \in Seq(Slices) BY <1>1, <2>1
    <3>2. v = <<q[w + 1]>> \o z BY <1>1, <2>1, SubSeqRecursiveFirst DEF v
    <3> QED BY <2>2, <3>1, <3>2
  <2> HIDE DEF x, y, z
  <2>10. <<cut>> \in Seq(Slices) /\ <<y>> \in Seq(Slices) BY <2>7
  <2>11. Cells(v) = RefCells(cut) \o Cells(z)
    <3>1. Cells(<<cut>> \o z) = Cells(<<cut>>) \o Cells(z) BY <2>9, <2>10, CellsConcat
    <3>2. Cells(<<cut>>) = RefCells(cut) BY CellsOne
    <3> QED BY <2>9, <3>1, <3>2
  <2>12. Cells(s.left) = RefCells(y) \o Cells(z) /\ s.left \in Seq(Slices)
    <3>1. Cells(<<y>> \o z) = Cells(<<y>>) \o Cells(z) /\ <<y>> \o z \in Seq(Slices)
      BY <2>9, <2>10, CellsConcat
    <3>2. Cells(<<y>>) = RefCells(y) BY <2>7, CellsOne
    <3> QED BY <2>8, <3>1, <3>2
  <2>13. Cells(s.taken) = Cells(u) \o RefCells(x) /\ s.taken \in Seq(Slices)
    <3>1. Cells(Append(u, x)) = Cells(u) \o RefCells(x) BY <1>9, <2>7, CellsAppend
    <3>2. Append(u, x) \in Seq(Slices) BY <1>9, <2>7
    <3> QED BY <2>8, <3>1, <3>2
  <2>14. PICK A \in Seq(Spots) : A = Cells(u) BY <1>9
  <2>15. PICK B \in Seq(Spots) : B = RefCells(x) BY <2>7, RefCellsFacts
  <2>16. PICK C \in Seq(Spots) : C = RefCells(y) BY <2>7, RefCellsFacts
  <2>17. PICK D \in Seq(Spots) : D = Cells(z) BY <2>9, CellsType
  <2>18. Cells(q) = A \o ((B \o C) \o D)
    <3>1. Cells(q) = Cells(u) \o Cells(v) BY <1>9, <1>10, CellsConcat
    <3> QED BY <2>7, <2>11, <2>14, <2>15, <2>16, <2>17, <3>1
  <2>19. A \o ((B \o C) \o D) = (A \o B) \o (C \o D)
    <3>1. C \o D \in Seq(Spots) BY ConcatProperties
    <3>2. (B \o C) \o D = B \o (C \o D) BY ConcatAssociative, SMTT(30)
    <3>3. PICK E \in Seq(Spots) : E = C \o D BY <3>1
    <3>4. (A \o B) \o E = A \o (B \o E) BY ConcatAssociative, SMTT(30)
    <3> QED BY <3>2, <3>3, <3>4
  <2>20. Cells(q) = Cells(s.taken) \o Cells(s.left)
    BY <2>12, <2>13, <2>14, <2>15, <2>16, <2>17, <2>18, <2>19
  <2>21. Len(Cells(s.taken)) = n
    <3>1. Len(A \o B) = Len(A) + Len(B) OBVIOUS
    <3>2. Len(A) = b[w] /\ Len(B) = r BY <1>9, <2>7, <2>14, <2>15, RefCellsFacts
    <3>3. b[w] + r = n BY <1>5, <1>6
    <3> QED BY <2>13, <2>14, <2>15, <3>1, <3>2, <3>3
  <2>22. ChunksIn(q) = ChunksIn(u) \cup ({cut.chunk} \cup ChunksIn(z))
    <3>1. ChunksIn(q) = ChunksIn(u) \cup ChunksIn(v) BY <1>9, <1>10, ChunksInConcat
    <3>2. ChunksIn(v) = ChunksIn(<<cut>>) \cup ChunksIn(z) BY <2>9, <2>10, ChunksInConcat
    <3> QED BY <3>1, <3>2, ChunksInOne
  <2>23. ChunksIn(s.left) = {cut.chunk} \cup ChunksIn(z)
    <3>1. ChunksIn(<<y>> \o z) = ChunksIn(<<y>>) \cup ChunksIn(z) BY <2>9, <2>10, ChunksInConcat
    <3> QED BY <2>7, <2>8, <3>1, ChunksInOne
  <2>24. ChunksIn(s.taken) = ChunksIn(u) \cup {cut.chunk}
    <3>1. Append(u, x) = u \o <<x>> /\ <<x>> \in Seq(Slices) BY <1>9, <2>7
    <3>2. ChunksIn(u \o <<x>>) = ChunksIn(u) \cup ChunksIn(<<x>>) BY <1>9, <3>1, ChunksInConcat
    <3> QED BY <2>7, <2>8, <3>1, <3>2, ChunksInOne
  <2>25. Len(s.left) <= Len(q)
    <3>1. Len(<<y>> \o z) = 1 + Len(z) /\ Len(<<cut>> \o z) = 1 + Len(z) /\ Len(z) \in Nat BY <2>7, <2>9
    <3>2. Len(s.left) = Len(v) BY <2>8, <2>9, <3>1
    <3> QED BY <1>1, <1>10, <3>2
  <2> QED BY <2>12, <2>13, <2>20, <2>21, <2>22, <2>23, <2>24, <2>25
<1> QED BY <1>11, <1>12

-----------------------------------------------------------------------------
(* BytesOf and Fill: reading and writing through references. *)

Memories == [Chunks -> [1 .. ChunkSize -> Nat]]

CellSet(q) == {Cells(q)[i] : i \in 1 .. Len(Cells(q))}

DistinctCells(q) ==
    \A i, j \in 1 .. Len(Cells(q)) : Cells(q)[i] = Cells(q)[j] => i = j

LEMMA SpotFacts ==
    ASSUME NEW x \in Spots PROVE x[1] \in Chunks /\ x[2] \in 1 .. ChunkSize /\ x = <<x[1], x[2]>>
BY DEF Spots

LEMMA BytesOfFacts ==
    ASSUME NEW m \in Memories, NEW q \in Seq(Slices)
    PROVE  /\ BytesOf(m, q) \in Seq(Nat) /\ Len(BytesOf(m, q)) = Len(Cells(q))
           /\ \A i \in 1 .. Len(Cells(q)) : BytesOf(m, q)[i] = m[Cells(q)[i][1]][Cells(q)[i][2]]
<1>1. PICK cs \in Seq(Spots) : cs = Cells(q) BY CellsType
<1>2. BytesOf(m, q) = [i \in 1 .. Len(cs) |-> m[cs[i][1]][cs[i][2]]] BY <1>1 DEF BytesOf
<1>3. Len(cs) \in Nat /\ \A i \in 1 .. Len(cs) : cs[i] \in Spots OBVIOUS
<1>4. \A i \in 1 .. Len(cs) : m[cs[i][1]][cs[i][2]] \in Nat BY <1>3, SpotFacts DEF Memories
<1>5. BytesOf(m, q) \in Seq(Nat) /\ Len(BytesOf(m, q)) = Len(cs) BY <1>2, <1>3, <1>4
<1> QED BY <1>1, <1>2, <1>5

\* The bytes of cells one behind the other.
LEMMA BytesOfConcat ==
    ASSUME NEW m \in Memories, NEW q \in Seq(Slices), NEW a \in Seq(Slices), NEW b \in Seq(Slices),
           Cells(q) = Cells(a) \o Cells(b)
    PROVE  BytesOf(m, q) = BytesOf(m, a) \o BytesOf(m, b)
<1>1. PICK A \in Seq(Spots) : A = Cells(a) BY CellsType
<1>2. PICK B \in Seq(Spots) : B = Cells(b) BY CellsType
<1>3. PICK Q \in Seq(Spots) : Q = Cells(q) BY CellsType
<1>4. Q = A \o B BY <1>1, <1>2, <1>3
<1>5. PICK x \in Seq(Nat) : x = BytesOf(m, a) BY BytesOfFacts
<1>6. PICK y \in Seq(Nat) : y = BytesOf(m, b) BY BytesOfFacts
<1>7. PICK z \in Seq(Nat) : z = BytesOf(m, q) BY BytesOfFacts
<1>8. /\ Len(x) = Len(A) /\ \A i \in 1 .. Len(A) : x[i] = m[A[i][1]][A[i][2]]
      /\ Len(y) = Len(B) /\ \A i \in 1 .. Len(B) : y[i] = m[B[i][1]][B[i][2]]
      /\ Len(z) = Len(Q) /\ \A i \in 1 .. Len(Q) : z[i] = m[Q[i][1]][Q[i][2]]
  BY <1>1, <1>2, <1>3, <1>5, <1>6, <1>7, BytesOfFacts
<1>9. /\ Len(Q) = Len(A) + Len(B) /\ Len(A) \in Nat /\ Len(B) \in Nat
      /\ \A i \in 1 .. Len(Q) : Q[i] = IF i <= Len(A) THEN A[i] ELSE B[i - Len(A)]
  BY <1>4
<1>10. PICK w \in Seq(Nat) : w = x \o y BY ConcatProperties
<1>11. /\ Len(w) = Len(Q)
       /\ \A i \in 1 .. Len(Q) : w[i] = IF i <= Len(A) THEN x[i] ELSE y[i - Len(A)]
  <2>1. /\ Len(w) = Len(x) + Len(y)
        /\ \A i \in 1 .. Len(x) + Len(y) : w[i] = IF i <= Len(x) THEN x[i] ELSE y[i - Len(x)]
    BY <1>10, ConcatProperties
  <2>2. Len(x) = Len(A) /\ Len(y) = Len(B) BY <1>8
  <2> QED BY <1>9, <2>1, <2>2
<1>12. ASSUME NEW i \in 1 .. Len(Q) PROVE z[i] = w[i]
  <2>1. CASE i <= Len(A)
    <3>1. i \in 1 .. Len(A) BY <1>9, <2>1
    <3>2. z[i] = m[A[i][1]][A[i][2]] BY <1>8, <1>9, <2>1
    <3>3. w[i] = x[i] BY <1>11, <2>1
    <3> QED BY <1>8, <3>1, <3>2, <3>3
  <2>2. CASE ~(i <= Len(A))
    <3>1. PICK j \in 1 .. Len(B) : j = i - Len(A) BY <1>9, <2>2
    <3>2. Q[i] = B[j] BY <1>9, <2>2, <3>1
    <3>3. z[i] = m[B[j][1]][B[j][2]] BY <1>8, <3>2
    <3>4. w[i] = y[j] BY <1>11, <2>2, <3>1
    <3> QED BY <1>8, <3>3, <3>4
  <2> QED BY <2>1, <2>2
<1>13. z = w BY <1>8, <1>11, <1>12, SeqEqual
<1> QED BY <1>5, <1>6, <1>7, <1>10, <1>13

\* What is not written stays.
LEMMA BytesKept ==
    ASSUME NEW m \in Memories, NEW mm \in Memories, NEW q \in Seq(Slices),
           \A x \in CellSet(q) : mm[x[1]][x[2]] = m[x[1]][x[2]]
    PROVE  BytesOf(mm, q) = BytesOf(m, q)
<1>1. PICK cs \in Seq(Spots) : cs = Cells(q) BY CellsType
<1>2. PICK x \in Seq(Nat) : x = BytesOf(m, q) BY BytesOfFacts
<1>3. PICK y \in Seq(Nat) : y = BytesOf(mm, q) BY BytesOfFacts
<1>4. /\ Len(x) = Len(cs) /\ \A i \in 1 .. Len(cs) : x[i] = m[cs[i][1]][cs[i][2]]
      /\ Len(y) = Len(cs) /\ \A i \in 1 .. Len(cs) : y[i] = mm[cs[i][1]][cs[i][2]]
  BY <1>1, <1>2, <1>3, BytesOfFacts
<1>5. \A i \in 1 .. Len(cs) : cs[i] \in CellSet(q) BY <1>1 DEF CellSet
<1>6. \A i \in 1 .. Len(cs) : x[i] = y[i] BY <1>4, <1>5
<1>7. x = y BY <1>4, <1>6, SeqEqual
<1> QED BY <1>2, <1>3, <1>7

\* Fill writes bs into the first cells of q and nothing elsewhere.
LEMMA FillFacts ==
    ASSUME NEW m \in Memories, NEW q \in Seq(Slices), DistinctCells(q),
           NEW bs \in Seq(Nat), Len(bs) <= Len(Cells(q)), NEW mm, mm = Fill(m, q, bs)
    PROVE  /\ mm \in Memories
           /\ \A i \in 1 .. Len(bs) : mm[Cells(q)[i][1]][Cells(q)[i][2]] = bs[i]
           /\ \A x \in Spots \ CellSet(q) : mm[x[1]][x[2]] = m[x[1]][x[2]]
<1>1. PICK cs \in Seq(Spots) : cs = Cells(q) BY CellsType
<1> DEFINE at(c, j) == {i \in DOMAIN bs : cs[i] = <<c, j>>}
           v(c, j) == IF at(c, j) = {} THEN m[c][j] ELSE bs[CHOOSE i \in at(c, j) : TRUE]
<1>2. mm = [c \in Chunks |-> [j \in 1 .. ChunkSize |-> v(c, j)]] BY <1>1 DEF Fill
<1>3. /\ DOMAIN bs = 1 .. Len(bs) /\ Len(bs) \in Nat /\ Len(cs) \in Nat /\ Len(bs) <= Len(cs)
      /\ \A i \in 1 .. Len(bs) : bs[i] \in Nat
      /\ \A i \in 1 .. Len(cs) : cs[i] \in Spots
  BY <1>1
<1>4. ASSUME NEW c \in Chunks, NEW j \in 1 .. ChunkSize
      PROVE  /\ v(c, j) \in Nat
             /\ \A i \in 1 .. Len(bs) : cs[i] = <<c, j>> => v(c, j) = bs[i]
             /\ <<c, j>> \notin CellSet(q) => v(c, j) = m[c][j]
  <2>1. m[c][j] \in Nat BY DEF Memories
  <2>2. CASE at(c, j) = {}
    <3>1. v(c, j) = m[c][j] BY <2>2
    <3>2. \A i \in 1 .. Len(bs) : cs[i] # <<c, j>> BY <1>3, <2>2
    <3> HIDE DEF v
    <3> QED BY <2>1, <3>1, <3>2
  <2>3. CASE at(c, j) # {}
    <3>1. PICK k \in at(c, j) : k = CHOOSE i \in at(c, j) : TRUE
      <4> HIDE DEF at
      <4> QED BY <2>3
    <3>2. v(c, j) = bs[k] BY <2>3, <3>1
    <3>3. k \in 1 .. Len(bs) /\ cs[k] = <<c, j>> /\ k \in 1 .. Len(cs)
      <4>1. \A i \in at(c, j) : i \in DOMAIN bs /\ cs[i] = <<c, j>> OBVIOUS
      <4> HIDE DEF at
      <4>2. k \in DOMAIN bs /\ cs[k] = <<c, j>> BY <4>1
      <4> QED BY <1>3, <4>2
    <3>4. <<c, j>> \in CellSet(q) BY <1>1, <3>3 DEF CellSet
    <3>5. ASSUME NEW i \in 1 .. Len(bs), cs[i] = <<c, j>> PROVE i = k
      <4>1. i \in 1 .. Len(cs) BY <1>3
      <4> QED BY <1>1, <3>3, <3>5, <4>1 DEF DistinctCells
    <3> HIDE DEF v
    <3> QED BY <1>3, <3>2, <3>3, <3>4, <3>5
  <2> QED BY <2>2, <2>3
<1> HIDE DEF v, at
<1>5. mm \in Memories
  <2>1. \A c \in Chunks, j \in 1 .. ChunkSize : v(c, j) \in Nat BY <1>4
  <2>2. \A c \in Chunks : [j \in 1 .. ChunkSize |-> v(c, j)] \in [1 .. ChunkSize -> Nat] BY <2>1
  <2> QED BY <1>2, <2>2 DEF Memories
<1>6. \A c \in Chunks, j \in 1 .. ChunkSize : mm[c][j] = v(c, j) BY <1>2
<1>7. ASSUME NEW i \in 1 .. Len(bs) PROVE mm[cs[i][1]][cs[i][2]] = bs[i]
  <2>1. i \in 1 .. Len(cs) BY <1>3
  <2>2. PICK c, j : c = cs[i][1] /\ j = cs[i][2] OBVIOUS
  <2>3. c \in Chunks /\ j \in 1 .. ChunkSize /\ cs[i] = <<c, j>> BY <1>3, <2>1, <2>2, SpotFacts
  <2>4. v(c, j) = bs[i] BY <1>4, <2>3
  <2>5. mm[c][j] = v(c, j) BY <1>6, <2>3
  <2> QED BY <2>2, <2>4, <2>5
<1>8. ASSUME NEW x \in Spots \ CellSet(q) PROVE mm[x[1]][x[2]] = m[x[1]][x[2]]
  <2>1. x[1] \in Chunks /\ x[2] \in 1 .. ChunkSize /\ x = <<x[1], x[2]>> BY SpotFacts
  <2>2. PICK c, j : c = x[1] /\ j = x[2] OBVIOUS
  <2>3. <<c, j>> \notin CellSet(q) BY <2>1, <2>2
  <2> QED BY <1>4, <1>6, <2>1, <2>2, <2>3
<1> QED BY <1>1, <1>5, <1>7, <1>8

\* What was written into the first part of q is read back.
Fills(m, q, bs, mm, a, b) ==
    /\ DistinctCells(q) /\ Len(bs) <= Len(Cells(q)) /\ mm = Fill(m, q, bs)
    /\ Cells(q) = Cells(a) \o Cells(b) /\ Len(Cells(a)) = Len(bs)

LEMMA FillRead ==
    ASSUME NEW m \in Memories, NEW q \in Seq(Slices), NEW bs \in Seq(Nat), NEW mm,
           NEW a \in Seq(Slices), NEW b \in Seq(Slices), Fills(m, q, bs, mm, a, b)
    PROVE  BytesOf(mm, a) = bs
<1>0. /\ DistinctCells(q) /\ Len(bs) <= Len(Cells(q)) /\ mm = Fill(m, q, bs)
      /\ Cells(q) = Cells(a) \o Cells(b) /\ Len(Cells(a)) = Len(bs)
  BY Zenon DEF Fills
<1>1. mm \in Memories /\ \A i \in 1 .. Len(bs) : mm[Cells(q)[i][1]][Cells(q)[i][2]] = bs[i]
  BY <1>0, FillFacts
<1>2. PICK A \in Seq(Spots) : A = Cells(a) BY CellsType
<1>3. PICK B \in Seq(Spots) : B = Cells(b) BY CellsType
<1>4. \A i \in 1 .. Len(A) : (A \o B)[i] = A[i] OBVIOUS
<1>5. \A i \in 1 .. Len(bs) : Cells(q)[i] = A[i] BY <1>0, <1>2, <1>3, <1>4
<1>6. PICK x \in Seq(Nat) : x = BytesOf(mm, a) BY <1>1, BytesOfFacts
<1>7. Len(x) = Len(bs) /\ \A i \in 1 .. Len(bs) : x[i] = mm[A[i][1]][A[i][2]]
  <2>1. Len(BytesOf(mm, a)) = Len(Cells(a)) BY <1>1, BytesOfFacts, Zenon
  <2>2. \A i \in 1 .. Len(Cells(a)) : BytesOf(mm, a)[i] = mm[Cells(a)[i][1]][Cells(a)[i][2]]
    BY <1>1, BytesOfFacts, Zenon
  <2> QED BY <1>0, <1>2, <1>6, <2>1, <2>2, Zenon
<1>8. \A i \in 1 .. Len(bs) : x[i] = bs[i] BY <1>1, <1>5, <1>7
<1>9. x = bs BY <1>7, <1>8, SeqEqual
<1> QED BY <1>6, <1>9

-----------------------------------------------------------------------------
(* Which cells are whose. *)

LEMMA CellSetConcat ==
    ASSUME NEW q \in Seq(Slices), NEW a \in Seq(Slices), NEW b \in Seq(Slices),
           Cells(q) = Cells(a) \o Cells(b)
    PROVE  /\ CellSet(q) = CellSet(a) \cup CellSet(b)
           /\ DistinctCells(q) <=>
                DistinctCells(a) /\ DistinctCells(b) /\ CellSet(a) \cap CellSet(b) = {}
<1>1. PICK A \in Seq(Spots) : A = Cells(a) BY CellsType
<1>2. PICK B \in Seq(Spots) : B = Cells(b) BY CellsType
<1>3. PICK Q \in Seq(Spots) : Q = Cells(q) BY CellsType
<1>4. PICK n \in Nat : n = Len(A) OBVIOUS
<1>5. PICK k \in Nat : k = Len(B) OBVIOUS
<1>6. Q = A \o B BY <1>1, <1>2, <1>3
<1>7. /\ Len(Q) = n + k
      /\ \A i \in 1 .. n : Q[i] = A[i]
      /\ \A i \in 1 .. k : Q[n + i] = B[i]
  BY <1>4, <1>5, <1>6
<1>8. /\ CellSet(a) = {A[i] : i \in 1 .. n} /\ CellSet(b) = {B[i] : i \in 1 .. k}
      /\ CellSet(q) = {Q[i] : i \in 1 .. n + k}
  BY <1>1, <1>2, <1>3, <1>4, <1>5, <1>7 DEF CellSet
<1>9. /\ DistinctCells(a) <=> \A i, j \in 1 .. n : A[i] = A[j] => i = j
      /\ DistinctCells(b) <=> \A i, j \in 1 .. k : B[i] = B[j] => i = j
      /\ DistinctCells(q) <=> \A i, j \in 1 .. n + k : Q[i] = Q[j] => i = j
  BY <1>1, <1>2, <1>3, <1>4, <1>5, <1>7 DEF DistinctCells
<1>10. \A i \in 1 .. n + k : i \in 1 .. n \/ \E j \in 1 .. k : i = n + j
  <2> SUFFICES ASSUME NEW i \in 1 .. n + k, i \notin 1 .. n PROVE \E j \in 1 .. k : i = n + j OBVIOUS
  <2>1. i - n \in 1 .. k /\ i = n + (i - n) OBVIOUS
  <2> QED BY <2>1
<1>11. CellSet(q) = CellSet(a) \cup CellSet(b)
  <2>1. ASSUME NEW x \in CellSet(q) PROVE x \in CellSet(a) \cup CellSet(b)
    <3>1. PICK i \in 1 .. n + k : x = Q[i] BY <1>8
    <3>2. CASE i \in 1 .. n
      <4>1. x = A[i] BY <1>7, <3>1, <3>2
      <4>2. x \in CellSet(a) BY <1>8, <3>2, <4>1
      <4> QED BY <4>2
    <3>3. ASSUME NEW j \in 1 .. k, i = n + j PROVE x \in CellSet(b)
      <4>1. x = B[j] BY <1>7, <3>1, <3>3
      <4> QED BY <1>8, <4>1
    <3> QED BY <1>10, <3>2, <3>3
  <2>2. ASSUME NEW x \in CellSet(a) PROVE x \in CellSet(q)
    <3>1. PICK i \in 1 .. n : x = A[i] BY <1>8
    <3>2. i \in 1 .. n + k /\ x = Q[i] BY <1>7, <3>1
    <3> QED BY <1>8, <3>2
  <2>3. ASSUME NEW x \in CellSet(b) PROVE x \in CellSet(q)
    <3>1. PICK i \in 1 .. k : x = B[i] BY <1>8
    <3>2. n + i \in 1 .. n + k OBVIOUS
    <3>3. Q[n + i] = B[i] BY <1>7
    <3> QED BY <1>8, <3>1, <3>2, <3>3
  <2> QED BY <2>1, <2>2, <2>3
<1>12. ASSUME DistinctCells(q)
       PROVE  DistinctCells(a) /\ DistinctCells(b) /\ CellSet(a) \cap CellSet(b) = {}
  <2>0. \A i, j \in 1 .. n + k : Q[i] = Q[j] => i = j BY <1>9, <1>12
  <2>1. ASSUME NEW i \in 1 .. n, NEW j \in 1 .. n, A[i] = A[j] PROVE i = j
    <3>1. i \in 1 .. n + k /\ j \in 1 .. n + k /\ Q[i] = Q[j] BY <1>7, <2>1
    <3> QED BY <2>0, <3>1
  <2>2. ASSUME NEW i \in 1 .. k, NEW j \in 1 .. k, B[i] = B[j] PROVE i = j
    <3>1. n + i \in 1 .. n + k /\ n + j \in 1 .. n + k OBVIOUS
    <3>a. Q[n + i] = B[i] /\ Q[n + j] = B[j] BY <1>7
    <3>b. Q[n + i] = Q[n + j] BY <2>2, <3>a
    <3>2. n + i = n + j BY <2>0, <3>1, <3>b
    <3> QED BY <3>2
  <2>3. ASSUME NEW x \in CellSet(a) \cap CellSet(b) PROVE FALSE
    <3>1. PICK i \in 1 .. n : x = A[i] BY <1>8
    <3>2. PICK j \in 1 .. k : x = B[j] BY <1>8
    <3>3. i \in 1 .. n + k /\ n + j \in 1 .. n + k OBVIOUS
    <3>a. Q[i] = A[i] /\ Q[n + j] = B[j] BY <1>7
    <3>4. i = n + j BY <2>0, <3>1, <3>2, <3>3, <3>a
    <3> QED BY <3>4
  <2> QED BY <1>9, <2>1, <2>2, <2>3
<1>13. ASSUME DistinctCells(a), DistinctCells(b), CellSet(a) \cap CellSet(b) = {}
       PROVE  DistinctCells(q)
  <2>1. ASSUME NEW i \in 1 .. n + k, NEW j \in 1 .. n + k, Q[i] = Q[j] PROVE i = j
    <3>1. CASE i \in 1 .. n /\ j \in 1 .. n BY <1>7, <1>9, <1>13, <2>1, <3>1
    <3>2. ASSUME NEW u \in 1 .. k, i = n + u, NEW v \in 1 .. k, j = n + v PROVE i = j
      <4>1. B[u] = B[v] BY <1>7, <2>1, <3>2
      <4>2. u = v BY <1>9, <1>13, <4>1
      <4> QED BY <3>2, <4>2
    <3>3. ASSUME NEW u \in 1 .. n, NEW v \in 1 .. k, Q[u] = Q[n + v] PROVE FALSE
      <4>1. A[u] = B[v] BY <1>7, <3>3
      <4>2. A[u] \in CellSet(a) /\ B[v] \in CellSet(b) BY <1>8
      <4> QED BY <1>13, <4>1, <4>2
    <3> QED BY <1>10, <2>1, <3>1, <3>2, <3>3
  <2> QED BY <1>9, <2>1
<1> QED BY <1>11, <1>12, <1>13

LEMMA RefCellsSet ==
    ASSUME NEW r \in Slices
    PROVE  DistinctCells(<<r>>) /\ \A x \in CellSet(<<r>>) : x[1] = r.chunk
<1>1. Cells(<<r>>) = RefCells(r) BY CellsOne
<1>2. /\ Len(RefCells(r)) = r.count
      /\ \A j \in 1 .. r.count : RefCells(r)[j] = <<r.chunk, r.off + j>>
  BY RefCellsFacts
<1>3. r.count \in Nat /\ r.off \in Nat BY SliceFacts
<1>4. ASSUME NEW i \in 1 .. r.count, NEW j \in 1 .. r.count, RefCells(r)[i] = RefCells(r)[j] PROVE i = j
  <2>1. r.off + i = r.off + j BY <1>2, <1>4
  <2> QED BY <1>3, <2>1
<1>5. DistinctCells(<<r>>) BY <1>1, <1>2, <1>4 DEF DistinctCells
<1>6. ASSUME NEW x \in CellSet(<<r>>) PROVE x[1] = r.chunk
  <2>1. PICK i \in 1 .. r.count : x = RefCells(r)[i] BY <1>1, <1>2 DEF CellSet
  <2> QED BY <1>2, <2>1
<1> QED BY <1>5, <1>6

\* The cells of a queue are in its chunks.
LEMMA CellsInChunks ==
    ASSUME NEW q \in Seq(Slices)
    PROVE  /\ CellSet(q) \subseteq Spots /\ ChunksIn(q) \subseteq Chunks
           /\ \A x \in CellSet(q) : x[1] \in ChunksIn(q)
           /\ (\A i, j \in 1 .. Len(q) : q[i].chunk = q[j].chunk => i = j) => DistinctCells(q)
<1> DEFINE N == Len(q)
           u(k) == SubSeq(q, 1, k)
           Apart == \A i, j \in 1 .. N : q[i].chunk = q[j].chunk => i = j
           P(k) == /\ \A x \in CellSet(u(k)) : \E i \in 1 .. k : x[1] = q[i].chunk
                   /\ Apart => DistinctCells(u(k))
           S == {k \in 0 .. N : P(k)}
<1>1. N \in Nat /\ DOMAIN q = 1 .. N /\ \A i \in 1 .. N : q[i] \in Slices OBVIOUS
<1>2. \A k \in 0 .. N : u(k) \in Seq(Slices) OBVIOUS
<1>3. CellSet(q) \subseteq Spots
  <2>1. PICK cs \in Seq(Spots) : cs = Cells(q) BY CellsType
  <2>2. \A i \in 1 .. Len(cs) : cs[i] \in Spots OBVIOUS
  <2> QED BY <2>1, <2>2 DEF CellSet
<1>4. ChunksIn(q) \subseteq Chunks BY <1>1, SliceFacts DEF ChunksIn
<1>5. 0 \in S
  <2>1. u(0) = <<>> OBVIOUS
  <2> HIDE DEF u
  <2>2. Cells(u(0)) = <<>> BY <2>1, CellsEmpty, Zenon
  <2>3. Len(Cells(u(0))) = 0 BY <2>2
  <2>4. CellSet(u(0)) = {} /\ DistinctCells(u(0)) BY <2>3 DEF CellSet, DistinctCells
  <2> QED BY <1>1, <2>4
<1>6. ASSUME NEW k \in 0 .. N, k \in S, k < N PROVE k + 1 \in S
  <2>1. PICK p \in Seq(Slices) : p = u(k) BY <1>2
  <2>2. PICK r \in Slices : r = q[k + 1] BY <1>1, <1>6
  <2>x. k + 1 \in 0 .. N BY <1>1, <1>6
  <2>y. u(k + 1) \in Seq(Slices)
    <3> HIDE DEF u
    <3> QED BY <1>2, <2>x
  <2>3. PICK t \in Seq(Slices) : t = u(k + 1) BY <2>y, Zenon
  <2>4. t = Append(p, r) BY <1>6, <2>1, <2>2, <2>3, OneMore
  <2>z. <<r>> \in Seq(Slices) OBVIOUS
  <2>5. PICK o \in Seq(Slices) : o = <<r>> BY <2>z, Zenon
  <2>a. Cells(Append(p, r)) = Cells(p) \o RefCells(r) BY CellsAppend
  <2>b. Cells(o) = RefCells(r) BY <2>5, CellsOne, Zenon
  <2>6. Cells(t) = Cells(p) \o Cells(o) BY <2>4, <2>a, <2>b, Zenon
  <2>c. /\ CellSet(t) = CellSet(p) \cup CellSet(o)
        /\ DistinctCells(p) /\ DistinctCells(o) /\ CellSet(p) \cap CellSet(o) = {} => DistinctCells(t)
    <3>1. p \in Seq(Slices) /\ t \in Seq(Slices) /\ o \in Seq(Slices) OBVIOUS
    <3>2. /\ CellSet(t) = CellSet(p) \cup CellSet(o)
          /\ DistinctCells(t) <=>
                DistinctCells(p) /\ DistinctCells(o) /\ CellSet(p) \cap CellSet(o) = {}
      BY <2>6, <3>1, CellSetConcat, Zenon
    <3> QED BY <3>2, Zenon
  <2>7. /\ CellSet(t) = CellSet(p) \cup CellSet(<<r>>)
        /\ DistinctCells(p) /\ DistinctCells(<<r>>) /\ CellSet(p) \cap CellSet(<<r>>) = {} => DistinctCells(t)
    BY <2>5, <2>c, Zenon
  <2>8. DistinctCells(<<r>>) /\ \A x \in CellSet(<<r>>) : x[1] = r.chunk BY RefCellsSet
  <2>9. /\ \A x \in CellSet(p) : \E i \in 1 .. k : x[1] = q[i].chunk
        /\ Apart => DistinctCells(p)
    BY <1>6, <2>1
  <2>10. k + 1 \in 1 .. N /\ k + 1 \in 0 .. N /\ k + 1 \in 1 .. k + 1 /\ 1 .. k \subseteq 1 .. k + 1 /\ 1 .. k \subseteq 1 .. N
    BY <1>1, <1>6
  <2>11. ASSUME NEW x \in CellSet(t) PROVE \E i \in 1 .. k + 1 : x[1] = q[i].chunk
    <3>1. CASE x \in CellSet(p) BY <2>9, <2>10, <3>1
    <3>2. CASE x \in CellSet(<<r>>) BY <2>2, <2>8, <2>10, <3>2
    <3> QED BY <2>7, <3>1, <3>2
  <2>12. ASSUME Apart PROVE DistinctCells(t)
    <3>1. ASSUME NEW x \in CellSet(p) \cap CellSet(<<r>>) PROVE FALSE
      <4>1. PICK i \in 1 .. k : x[1] = q[i].chunk BY <2>9
      <4>2. x[1] = q[k + 1].chunk BY <2>2, <2>8
      <4>3. i = k + 1 BY <2>10, <2>12, <4>1, <4>2
      <4> QED BY <4>3
    <3> QED BY <2>7, <2>8, <2>9, <2>12, <3>1
  <2> HIDE DEF u, Apart
  <2>13. P(k + 1) BY <2>3, <2>11, <2>12
  <2> QED BY <2>10, <2>13
<1>7. S \in SUBSET (0 .. N) OBVIOUS
<1>8. \A k \in S : P(k) OBVIOUS
<1> HIDE DEF S, P
<1>9. S = 0 .. N BY <1>1, <1>5, <1>6, <1>7, UpTo
<1>10. P(N) BY <1>1, <1>8, <1>9
<1>11. u(N) = q BY SubSeqFull
<1>12. \A x \in CellSet(q) : \E i \in 1 .. N : x[1] = q[i].chunk BY <1>10, <1>11 DEF P
<1>13. Apart => DistinctCells(q) BY <1>10, <1>11 DEF P
<1>14. \A i \in 1 .. N : q[i].chunk \in ChunksIn(q) BY <1>1 DEF ChunksIn
<1> QED BY <1>3, <1>4, <1>12, <1>13, <1>14

-----------------------------------------------------------------------------
(* The memory pool *)

\* No element of the sequence comes twice.
Injective(f) == \A i, j \in 1 .. Len(f) : f[i] = f[j] => i = j

\* Smallest takes as many different chunks as it is asked for.
LEMMA SmallestFacts ==
    ASSUME NEW S \in SUBSET Nat, IsFiniteSet(S), NEW n \in Nat, n <= Cardinality(S),
           NEW f, f = Smallest(S, n)
    PROVE  f \in Seq(S) /\ Len(f) = n /\ Injective(f)
<1> DEFINE below(c) == {d \in S : d < c}
           rank == [c \in S |-> Cardinality(below(c))]
           N == Cardinality(S)
<1>1. N \in Nat BY FS_CardinalityType
<1>2. ASSUME NEW c \in S
      PROVE  /\ IsFiniteSet(below(c)) /\ Cardinality(below(c)) \in Nat /\ Cardinality(below(c)) < N
  <2>1. PICK T \in SUBSET S : T = below(c) OBVIOUS
  <2>2. IsFiniteSet(T) /\ Cardinality(T) <= N /\ (N = Cardinality(T) => S = T) BY FS_Subset
  <2>3. c \notin T BY <2>1
  <2>4. Cardinality(T) \in Nat BY <2>2, FS_CardinalityType
  <2> QED BY <1>1, <2>1, <2>2, <2>3, <2>4
<1>3. ASSUME NEW c \in S, NEW d \in S, c < d PROVE Cardinality(below(c)) < Cardinality(below(d))
  <2>1. PICK T : T = below(d) OBVIOUS
  <2>a. c \in Nat /\ d \in Nat /\ \A x \in S : x \in Nat OBVIOUS
  <2>b. \A x \in below(c) : x \in below(d) BY <1>3, <2>a
  <2>2. PICK U \in SUBSET T : U = below(c) BY <2>1, <2>b
  <2>3. IsFiniteSet(T) BY <1>2, <2>1
  <2>4. Cardinality(U) <= Cardinality(T) /\ (Cardinality(T) = Cardinality(U) => T = U)
    BY <2>3, FS_Subset
  <2>5. c \in T /\ c \notin U BY <1>3, <2>1, <2>2
  <2>6. Cardinality(T) \in Nat /\ Cardinality(U) \in Nat BY <1>2, <2>1, <2>2
  <2> QED BY <2>1, <2>2, <2>4, <2>5, <2>6
<1> HIDE DEF below
<1>4. rank \in [S -> 0 .. N - 1] BY <1>1, <1>2
<1>5. ASSUME NEW c \in S, NEW d \in S, rank[c] = rank[d] PROVE c = d
  <2>1. Cardinality(below(c)) = Cardinality(below(d)) BY <1>5
  <2>2. c \in Nat /\ d \in Nat OBVIOUS
  <2>3. Cardinality(below(c)) \in Nat BY <1>2
  <2> QED BY <1>3, <2>1, <2>2, <2>3
<1>6. PICK I : I = 0 .. N - 1 OBVIOUS
<1>7. IsFiniteSet(I) /\ Cardinality(I) = N BY <1>1, <1>6, FS_Interval
<1> HIDE DEF rank
<1>a. rank \in [S -> I] /\ \A c, d \in S : rank[c] = rank[d] => c = d BY <1>4, <1>5, <1>6
<1>8. PICK r \in Injection(S, I) : r = rank BY <1>a, Zenon DEF Injection, IsInjective
<1>9. r \in Surjection(S, I) BY <1>7, <1>8, FS_Injection
<1>10. \A i \in I : \E c \in S : rank[c] = i BY <1>8, <1>9 DEF Surjection
<1>11. ASSUME NEW i \in 1 .. n PROVE f[i] \in S /\ rank[f[i]] = i - 1
  <2>1. i - 1 \in I BY <1>1, <1>6
  <2>2. PICK c \in S : rank[c] = i - 1 BY <1>10, <2>1
  <2>3. Cardinality(below(c)) = i - 1 BY <2>2 DEF rank
  <2>4. f[i] = CHOOSE d \in S : Cardinality(below(d)) = i - 1 BY DEF Smallest, below
  <2>5. f[i] \in S /\ Cardinality(below(f[i])) = i - 1 BY <2>3, <2>4
  <2> QED BY <2>5 DEF rank
<1>12. f \in [1 .. n -> S]
  <2> DEFINE pick(i) == CHOOSE c \in S : Cardinality({d \in S : d < c}) = i - 1
  <2>1. f = [i \in 1 .. n |-> pick(i)] BY DEF Smallest
  <2> HIDE DEF pick
  <2>2. \A i \in 1 .. n : pick(i) \in S BY <1>11, <2>1
  <2> QED BY <2>1, <2>2
<1>13. f \in Seq(S) /\ Len(f) = n BY <1>12
<1>14. ASSUME NEW i \in 1 .. n, NEW j \in 1 .. n, f[i] = f[j] PROVE i = j
  <2>1. i - 1 = j - 1 BY <1>11, <1>14
  <2> QED BY <2>1
<1> QED BY <1>13, <1>14 DEF Injective

\* A sequence has as many elements as places if and only if none comes twice.
LEMMA InjectiveIs ==
    ASSUME NEW T, NEW f \in Seq(T)
    PROVE  /\ IsFiniteSet(ToSet(f)) /\ ToSet(f) \subseteq T
           /\ Injective(f) => Cardinality(ToSet(f)) = Len(f)
<1>1. PICK N \in Nat : N = Len(f) OBVIOUS
<1>2. PICK I : I = 1 .. N OBVIOUS
<1>3. PICK R : R = ToSet(f) OBVIOUS
<1>4. R = {f[i] : i \in I} BY <1>1, <1>2, <1>3 DEF ToSet
<1>5. f \in [I -> R] /\ \A x \in R : \E i \in I : f[i] = x BY <1>1, <1>2, <1>4
<1>6. f \in Surjection(I, R) BY <1>5 DEF Surjection
<1>7. IsFiniteSet(I) /\ Cardinality(I) = N
  <2>1. 1 \in Int /\ N \in Int OBVIOUS
  <2>2. IsFiniteSet(1 .. N) /\ Cardinality(1 .. N) = IF 1 > N THEN 0 ELSE N - 1 + 1 BY <2>1, FS_Interval
  <2>3. (IF 1 > N THEN 0 ELSE N - 1 + 1) = N OBVIOUS
  <2> QED BY <1>2, <2>2, <2>3
<1>8. IsFiniteSet(R) /\ (Cardinality(R) = Cardinality(I) <=> f \in Injection(I, R))
  BY <1>6, <1>7, FS_Surjection
<1>9. Injective(f) => f \in Injection(I, R)
  <2>1. Injective(f) => \A i, j \in I : f[i] = f[j] => i = j BY <1>1, <1>2 DEF Injective
  <2> QED BY <1>5, <2>1, Zenon DEF Injection, IsInjective
<1>10. R \subseteq T BY <1>1, <1>2, <1>4
<1> QED BY <1>1, <1>3, <1>7, <1>8, <1>9, <1>10

LEMMA SeqOfMore ==
    ASSUME NEW S, NEW T, S \subseteq T, NEW s \in Seq(S) PROVE s \in Seq(T)
<1>1. \A i \in 1 .. Len(s) : s[i] \in T OBVIOUS
<1>2. s \in [1 .. Len(s) -> T] BY <1>1
<1> QED BY <1>2

\* Two sequences without common elements, one after the other.
Joined(T, a, b, f) ==
    /\ f \in Seq(T) /\ Len(f) = Len(a) + Len(b) /\ ToSet(f) = ToSet(a) \cup ToSet(b)
    /\ Injective(a) /\ Injective(b) /\ ToSet(a) \cap ToSet(b) = {} => Injective(f)

LEMMA InjectiveConcat ==
    ASSUME NEW T, NEW a \in Seq(T), NEW b \in Seq(T), NEW f, f = a \o b
    PROVE  Joined(T, a, b, f)
<1>1. PICK n \in Nat : n = Len(a) OBVIOUS
<1>2. PICK k \in Nat : k = Len(b) OBVIOUS
<1>3. /\ f \in Seq(T) /\ Len(f) = n + k
      /\ \A i \in 1 .. n : f[i] = a[i]
      /\ \A i \in 1 .. k : f[n + i] = b[i]
  BY <1>1, <1>2
<1>4. /\ ToSet(a) = {a[i] : i \in 1 .. n} /\ ToSet(b) = {b[i] : i \in 1 .. k}
      /\ ToSet(f) = {f[i] : i \in 1 .. n + k}
  <2>1. DOMAIN a = 1 .. n /\ DOMAIN b = 1 .. k /\ DOMAIN f = 1 .. n + k BY <1>1, <1>2, <1>3
  <2> QED BY <2>1, Zenon DEF ToSet
<1>5. \A i \in 1 .. n + k : i \in 1 .. n \/ \E j \in 1 .. k : i = n + j
  <2> SUFFICES ASSUME NEW i \in 1 .. n + k, i \notin 1 .. n PROVE \E j \in 1 .. k : i = n + j OBVIOUS
  <2>1. i - n \in 1 .. k /\ i = n + (i - n) OBVIOUS
  <2> QED BY <2>1
<1>6. ToSet(f) = ToSet(a) \cup ToSet(b)
  <2>1. ASSUME NEW x \in ToSet(f) PROVE x \in ToSet(a) \cup ToSet(b)
    <3>1. PICK i \in 1 .. n + k : x = f[i] BY <1>4
    <3>2. CASE i \in 1 .. n
      <4>1. x = a[i] BY <1>3, <3>1, <3>2
      <4>2. x \in ToSet(a) BY <1>4, <3>2, <4>1
      <4> QED BY <4>2
    <3>3. ASSUME NEW j \in 1 .. k, i = n + j PROVE x \in ToSet(b)
      <4>1. x = b[j] BY <1>3, <3>1, <3>3
      <4> QED BY <1>4, <4>1
    <3> QED BY <1>5, <3>2, <3>3
  <2>2. ASSUME NEW x \in ToSet(a) PROVE x \in ToSet(f)
    <3>1. PICK i \in 1 .. n : x = a[i] BY <1>4
    <3>2. i \in 1 .. n + k /\ x = f[i] BY <1>3, <3>1
    <3> QED BY <1>4, <3>2
  <2>3. ASSUME NEW x \in ToSet(b) PROVE x \in ToSet(f)
    <3>1. PICK i \in 1 .. k : x = b[i] BY <1>4
    <3>2. n + i \in 1 .. n + k /\ x = f[n + i] BY <1>3, <3>1
    <3> QED BY <1>4, <3>2
  <2> QED BY <2>1, <2>2, <2>3
<1>7. ASSUME Injective(a), Injective(b), ToSet(a) \cap ToSet(b) = {},
             NEW i \in 1 .. n + k, NEW j \in 1 .. n + k, f[i] = f[j] PROVE i = j
  <2>1. CASE i \in 1 .. n /\ j \in 1 .. n
    <3>1. a[i] = a[j] BY <1>3, <1>7, <2>1
    <3> QED BY <1>1, <1>7, <2>1, <3>1 DEF Injective
  <2>2. ASSUME NEW u \in 1 .. k, i = n + u, NEW v \in 1 .. k, j = n + v PROVE i = j
    <3>1. b[u] = b[v] BY <1>3, <1>7, <2>2
    <3>2. u = v BY <1>2, <1>7, <3>1 DEF Injective
    <3> QED BY <2>2, <3>2
  <2>3. ASSUME NEW u \in 1 .. n, NEW v \in 1 .. k, f[u] = f[n + v] PROVE FALSE
    <3>1. a[u] = b[v] BY <1>3, <2>3
    <3>2. a[u] \in ToSet(a) /\ b[v] \in ToSet(b) BY <1>4
    <3> QED BY <1>7, <3>1, <3>2
  <2> QED BY <1>5, <1>7, <2>1, <2>2, <2>3
<1> QED BY <1>1, <1>2, <1>3, <1>6, <1>7 DEF Injective, Joined

\* A part of a sequence.
Halves(T, f, k, a, b) ==
    /\ a \in Seq(T) /\ Len(a) = k /\ ToSet(a) \subseteq ToSet(f)
    /\ b \in Seq(T) /\ Len(b) = Len(f) - k /\ ToSet(b) \subseteq ToSet(f)
    /\ Injective(f) => Injective(a) /\ Injective(b) /\ ToSet(a) \cap ToSet(b) = {}

LEMMA InjectivePart ==
    ASSUME NEW T, NEW f \in Seq(T), NEW k \in 0 .. Len(f),
           NEW a, a = SubSeq(f, 1, k), NEW b, b = SubSeq(f, k + 1, Len(f))
    PROVE  Halves(T, f, k, a, b)
<1>1. PICK N \in Nat : N = Len(f) OBVIOUS
<1>2. /\ a \in Seq(T) /\ Len(a) = k /\ \A i \in 1 .. k : a[i] = f[i]
      /\ b \in Seq(T) /\ Len(b) = N - k /\ \A i \in 1 .. N - k : b[i] = f[k + i]
  BY <1>1
<1>3. /\ ToSet(a) = {a[i] : i \in 1 .. k} /\ ToSet(b) = {b[i] : i \in 1 .. N - k}
      /\ ToSet(f) = {f[i] : i \in 1 .. N}
  <2>1. DOMAIN a = 1 .. k /\ DOMAIN b = 1 .. N - k /\ DOMAIN f = 1 .. N BY <1>1, <1>2
  <2> QED BY <2>1, Zenon DEF ToSet
<1>4. ASSUME NEW x \in ToSet(a) PROVE \E i \in 1 .. k : i \in 1 .. N /\ x = f[i]
  <2>1. PICK i \in 1 .. k : x = a[i] BY <1>3
  <2> QED BY <1>1, <1>2, <2>1
<1>5. ASSUME NEW x \in ToSet(b) PROVE \E i \in 1 .. N - k : k + i \in 1 .. N /\ x = f[k + i]
  <2>1. PICK i \in 1 .. N - k : x = b[i] BY <1>3
  <2>2. k + i \in 1 .. N BY <1>1
  <2>3. b[i] = f[k + i] BY <1>2
  <2> QED BY <2>1, <2>2, <2>3
<1>6. ToSet(a) \subseteq ToSet(f)
  <2> SUFFICES ASSUME NEW x \in ToSet(a) PROVE x \in ToSet(f) OBVIOUS
  <2>1. PICK i \in 1 .. N : x = f[i] BY <1>4
  <2> QED BY <1>3, <2>1
<1>7. ToSet(b) \subseteq ToSet(f)
  <2> SUFFICES ASSUME NEW x \in ToSet(b) PROVE x \in ToSet(f) OBVIOUS
  <2>1. PICK i \in 1 .. N - k : k + i \in 1 .. N /\ x = f[k + i] BY <1>5
  <2> QED BY <1>3, <2>1
<1>8. ASSUME Injective(f) PROVE Injective(a) /\ Injective(b) /\ ToSet(a) \cap ToSet(b) = {}
  <2>0. \A i, j \in 1 .. N : f[i] = f[j] => i = j BY <1>1, <1>8 DEF Injective
  <2>1. ASSUME NEW i \in 1 .. k, NEW j \in 1 .. k, a[i] = a[j] PROVE i = j
    <3>1. i \in 1 .. N /\ j \in 1 .. N /\ f[i] = f[j] BY <1>1, <1>2, <2>1
    <3> QED BY <2>0, <3>1
  <2>2. ASSUME NEW i \in 1 .. N - k, NEW j \in 1 .. N - k, b[i] = b[j] PROVE i = j
    <3>1. k + i \in 1 .. N /\ k + j \in 1 .. N BY <1>1
    <3>2. f[k + i] = f[k + j] BY <1>2, <2>2
    <3>3. k + i = k + j BY <2>0, <3>1, <3>2
    <3> QED BY <3>3
  <2>3. ASSUME NEW x \in ToSet(a) \cap ToSet(b) PROVE FALSE
    <3>1. PICK i \in 1 .. k : i \in 1 .. N /\ x = f[i] BY <1>4
    <3>2. PICK j \in 1 .. N - k : k + j \in 1 .. N /\ x = f[k + j] BY <1>5
    <3>3. i = k + j BY <2>0, <3>1, <3>2
    <3> QED BY <3>3
  <2> QED BY <1>2, <2>1, <2>2, <2>3 DEF Injective
<1> QED BY <1>1, <1>2, <1>6, <1>7, <1>8 DEF Halves

\* What a pool with free list f may hold when the chunks of R are referenced.
Pool(f, R) ==
    /\ f \in Seq(Chunks) /\ Injective(f)
    /\ ToSet(f) \cap R = {}
    /\ Len(f) <= PoolSize

LEMMA WholeFacts ==
    ASSUME NEW c \in Chunks PROVE Whole(c) \in Slices /\ Whole(c).chunk = c /\ Whole(c).count = ChunkSize
<1>1. ChunkSize \in Nat /\ ChunkSize > 0 BY SocketAssumption
<1>2. Whole(c) \in Refs BY <1>1 DEF Whole, Refs
<1>3. Whole(c).off = 0 /\ Whole(c).count = ChunkSize BY DEF Whole
<1>4. Whole(c) \in Slices BY <1>1, <1>2, <1>3 DEF Slices
<1> QED BY <1>3, <1>4 DEF Whole

\* n whole chunks cover n times the size of one.
LEMMA WholeSize ==
    ASSUME NEW q \in Seq(Slices), \A i \in 1 .. Len(q) : q[i].count = ChunkSize
    PROVE  Size(q) = Len(q) * ChunkSize
<1>1. PICK N \in Nat : N = Len(q) OBVIOUS
<1>2. PICK C \in Nat : C = ChunkSize BY SocketAssumption
<1>3. PICK m : m = [i \in 0 .. N |-> i * C] OBVIOUS
<1>4. Sums(m, Counts(q), N)
  <2>1. ASSUME NEW i \in 1 .. N PROVE m[i] = m[i - 1] + Counts(q)[i]
    <3>1. Counts(q)[i] = C BY <1>1, <1>2 DEF Counts
    <3>2. m[i] = i * C /\ m[i - 1] = (i - 1) * C BY <1>3
    <3>3. i * C = (i - 1) * C + C BY <2>1
    <3> QED BY <3>1, <3>2, <3>3
  <2>2. m[0] = 0 /\ m \in [0 .. N -> Nat] BY <1>3
  <2> QED BY <2>1, <2>2 DEF Sums
<1>5. Sums(BytesBefore(q), Counts(q), N) BY <1>1, BytesBeforeIs
<1>6. BytesBefore(q) = m BY <1>4, <1>5, SumsUnique
<1>7. BytesBefore(q)[N] = N * C BY <1>3, <1>6
<1> QED BY <1>1, <1>2, <1>7 DEF Size

\* Aquire hands out chunks that nobody refers to, each once, and keeps the others.
Supply(n, R, a, g) ==
    /\ a \in Seq(Slices) /\ Len(a) = n /\ Size(a) = n * ChunkSize /\ DistinctCells(a)
    /\ ChunksIn(a) \cap R = {} /\ Pool(g, R \cup ChunksIn(a))

LEMMA AquiredFacts ==
    ASSUME NEW e, NEW n \in Nat, NEW R \in SUBSET Chunks, R = Referenced(client[e], held[e]),
           Pool(free[e], R), Supplied(e, n),
           NEW a, a = Aquired(e, n), NEW g, g = FreeAfterAquire(e, n)
    PROVE  Supply(n, R, a, g)
<1>1. PICK f \in Seq(Chunks) : f = free[e] BY DEF Pool
<1>2. Injective(f) /\ ToSet(f) \cap R = {} /\ Len(f) <= PoolSize BY <1>1 DEF Pool
<1>3. Len(f) \in Nat /\ PoolSize \in Nat BY SocketAssumption
<1>4. PICK p \in 0 .. Len(f) : p = Least(n, Len(f)) /\ p <= n /\ (p = n \/ p = Len(f))
  BY <1>3 DEF Least
<1>5. PICK U : U = Unused(e) OBVIOUS
<1>6. U = Chunks \ (R \cup ToSet(f)) BY <1>1, <1>5 DEF Unused
<1>7. U \in SUBSET Chunks /\ U \in SUBSET Nat /\ IsFiniteSet(U) /\ U \cap ToSet(f) = {} /\ U \cap R = {}
  <2>1. U \in SUBSET Chunks /\ U \cap ToSet(f) = {} /\ U \cap R = {} BY <1>6
  <2>2. Chunks \in SUBSET Nat /\ IsFiniteSet(Chunks) BY SocketAssumption
  <2>3. IsFiniteSet(U) BY <2>1, <2>2, FS_Subset
  <2> QED BY <2>1, <2>2, <2>3
<1>8. Cardinality(U) \in Nat BY <1>7, FS_CardinalityType
<1>9. n <= Len(f) + Cardinality(U) BY <1>1, <1>5 DEF Supplied
<1>10. n - p \in Nat /\ n - p <= Cardinality(U) BY <1>3, <1>4, <1>8, <1>9
<1>11. PICK z : z = Smallest(U, n - p) OBVIOUS
<1>12. z \in Seq(U) /\ Len(z) = n - p /\ Injective(z) BY <1>7, <1>10, <1>11, SmallestFacts
<1>13. ToSet(z) \subseteq U BY <1>12, InjectiveIs
<1>14. z \in Seq(Chunks)
  <2>1. U \subseteq Chunks BY <1>7
  <2> QED BY <1>12, <2>1, SeqOfMore, Zenon
<1>15. PICK y : y = SubSeq(f, 1, p) OBVIOUS
<1>16. g = SubSeq(f, p + 1, Len(f)) BY <1>1, <1>4 DEF FreeAfterAquire
<1>17. /\ y \in Seq(Chunks) /\ Len(y) = p /\ ToSet(y) \subseteq ToSet(f)
       /\ g \in Seq(Chunks) /\ Len(g) = Len(f) - p /\ ToSet(g) \subseteq ToSet(f)
       /\ Injective(y) /\ Injective(g) /\ ToSet(y) \cap ToSet(g) = {}
  <2>1. f \in Seq(Chunks) /\ p \in 0 .. Len(f) OBVIOUS
  <2>2. Halves(Chunks, f, p, y, g) BY <1>15, <1>16, <2>1, InjectivePart
  <2> QED BY <1>2, <2>2 DEF Halves
<1>18. PICK x : x = y \o z OBVIOUS
<1>19. /\ x \in Seq(Chunks) /\ Len(x) = n /\ ToSet(x) = ToSet(y) \cup ToSet(z) /\ Injective(x)
  <2>1. ToSet(y) \cap ToSet(z) = {} BY <1>7, <1>13, <1>17
  <2>2. /\ x \in Seq(Chunks) /\ Len(x) = Len(y) + Len(z) /\ ToSet(x) = ToSet(y) \cup ToSet(z)
        /\ Injective(x)
    <3>1. y \in Seq(Chunks) /\ z \in Seq(Chunks) BY <1>14, <1>17
    <3>2. Joined(Chunks, y, z, x) BY <1>18, <3>1, InjectiveConcat
    <3> QED BY <1>12, <1>17, <2>1, <3>2 DEF Joined
  <2> QED BY <1>4, <1>10, <1>12, <1>17, <2>2
<1>20. a = [i \in 1 .. n |-> Whole(x[i])]
  <2>1. n - Least(n, Len(free[e])) = n - p BY <1>1, <1>4
  <2>2. Smallest(Unused(e), n - Least(n, Len(free[e]))) = z BY <1>5, <1>11, <2>1
  <2>3. SubSeq(free[e], 1, Least(n, Len(free[e]))) = y BY <1>1, <1>4, <1>15
  <2> QED BY <1>18, <2>2, <2>3, Zenon DEF Aquired
<1>21. \A i \in 1 .. n : x[i] \in Chunks BY <1>19
<1>22. a \in Seq(Slices) /\ Len(a) = n BY <1>20, <1>21, WholeFacts
<1>23. \A i \in 1 .. n : a[i].count = ChunkSize /\ a[i].chunk = x[i] BY <1>20, <1>21, WholeFacts
<1>24. Size(a) = n * ChunkSize BY <1>22, <1>23, WholeSize
<1>25. DistinctCells(a)
  <2>1. \A i, j \in 1 .. n : x[i] = x[j] => i = j BY <1>19 DEF Injective
  <2>2. \A i, j \in 1 .. Len(a) : a[i].chunk = a[j].chunk => i = j BY <1>22, <1>23, <2>1
  <2> QED BY <1>22, <2>2, CellsInChunks
<1>26. ChunksIn(a) = ToSet(x)
  <2>1. DOMAIN a = 1 .. n /\ DOMAIN x = 1 .. n BY <1>19, <1>22
  <2>2. ChunksIn(a) = {a[i].chunk : i \in 1 .. n} BY <2>1 DEF ChunksIn
  <2>3. ToSet(x) = {x[i] : i \in 1 .. n} BY <2>1 DEF ToSet
  <2> QED BY <1>23, <2>2, <2>3
<1>27. ChunksIn(a) \cap R = {} BY <1>2, <1>7, <1>13, <1>17, <1>19, <1>26
<1>28. ToSet(g) \cap (R \cup ChunksIn(a)) = {} BY <1>2, <1>7, <1>13, <1>17, <1>19, <1>26
<1>29. Len(g) <= PoolSize BY <1>2, <1>3, <1>17
<1>30. Pool(g, R \cup ChunksIn(a)) BY <1>17, <1>28, <1>29 DEF Pool
<1> QED BY <1>22, <1>24, <1>25, <1>27, <1>30 DEF Supply

\* Chunks without a reference go back to the pool while it has room.
LEMMA RecycledFacts ==
    ASSUME NEW e, NEW c, NEW h, NEW R \in SUBSET Chunks, R = Referenced(client[e], held[e]),
           NEW RR \in SUBSET R, RR = Referenced(c, h), Pool(free[e], R),
           NEW g, g = Recycled(e, c, h)
    PROVE  Pool(g, RR)
<1>1. PICK f \in Seq(Chunks) : f = free[e] BY DEF Pool
<1>2. Injective(f) /\ ToSet(f) \cap R = {} /\ Len(f) <= PoolSize BY <1>1 DEF Pool
<1>3. Len(f) \in Nat /\ PoolSize \in Nat BY SocketAssumption
<1>4. PICK G : G = R \ RR OBVIOUS
<1>5. G \in SUBSET Chunks /\ G \in SUBSET Nat /\ IsFiniteSet(G)
  <2>1. G \in SUBSET Chunks BY <1>4
  <2>2. Chunks \in SUBSET Nat /\ IsFiniteSet(Chunks) BY SocketAssumption
  <2>3. IsFiniteSet(G) BY <2>1, <2>2, FS_Subset
  <2> QED BY <2>1, <2>2, <2>3
<1>6. Cardinality(G) \in Nat BY <1>5, FS_CardinalityType
<1>7. PICK k : k = Least(Cardinality(G), PoolSize - Least(PoolSize, Len(f))) OBVIOUS
<1>8. k \in Nat /\ k <= Cardinality(G) /\ Len(f) + k <= PoolSize BY <1>2, <1>3, <1>6, <1>7 DEF Least
<1>9. PICK z : z = Smallest(G, k) OBVIOUS
<1>10. z \in Seq(G) /\ Len(z) = k /\ Injective(z) BY <1>5, <1>8, <1>9, SmallestFacts
<1>11. ToSet(z) \subseteq G /\ z \in Seq(Chunks)
  <2>1. G \subseteq Chunks BY <1>5
  <2>2. z \in Seq(Chunks) BY <1>10, <2>1, SeqOfMore, Zenon
  <2> QED BY <1>10, <2>2, InjectiveIs
<1>12. g = f \o z BY <1>1, <1>4, <1>7, <1>9 DEF Recycled
<1>13. ToSet(f) \cap ToSet(z) = {} BY <1>2, <1>4, <1>11
<1>14. /\ g \in Seq(Chunks) /\ Len(g) = Len(f) + Len(z) /\ ToSet(g) = ToSet(f) \cup ToSet(z)
       /\ Injective(g)
  <2>1. f \in Seq(Chunks) /\ z \in Seq(Chunks) BY <1>11
  <2>2. Joined(Chunks, f, z, g) BY <1>12, <2>1, InjectiveConcat
  <2> QED BY <1>2, <1>10, <1>13, <2>2 DEF Joined
<1>15. ToSet(g) \cap RR = {} BY <1>2, <1>4, <1>11, <1>14
<1>16. Len(g) <= PoolSize BY <1>8, <1>10, <1>14
<1> QED BY <1>14, <1>15, <1>16 DEF Pool

-----------------------------------------------------------------------------
(* The two ends *)

LEMMA PeerFacts ==
    ASSUME NEW e \in Ends
    PROVE  /\ Peer(e) \in Ends /\ Peer(e) # e /\ Peer(Peer(e)) = e
           /\ \A d \in Ends : d = e \/ d = Peer(e)
<1>1. IsFiniteSet(Ends) BY SocketAssumption
<1>2. PICK T : T = Ends \ {e} OBVIOUS
<1>3. IsFiniteSet(T) /\ Cardinality(T) = 1 BY <1>1, <1>2, FS_RemoveElement, SocketAssumption
<1>4. PICK d : T = {d} BY <1>3, FS_Singleton
<1>5. d \in Ends /\ d # e /\ \A x \in Ends : x = e \/ x = d BY <1>2, <1>4
<1>6. Peer(e) = d BY <1>5 DEF Peer
<1>7. Peer(d) = e BY <1>5 DEF Peer
<1> QED BY <1>5, <1>6, <1>7

-----------------------------------------------------------------------------
(* The memory of an end *)

Clients ==
    [stage : {"new", "open", "closed", "gone"},
     connect : BOOLEAN, pending : BOOLEAN,
     pc : {"wait", "read", "receive", "handle", "send", "write", "connected", "aborted"},
     ret : {"wait", "handle", "connected"}, writeable : BOOLEAN,
     sendq : Seq(Slices), recvp : Seq(Slices), recvq : Seq(Slices)]

Kept == [packet : Nat, data : Seq(Slices)]

\* Whose cells the cells of q are not: those of the queues and of the packets held.
NotIn(q, c, h) ==
    /\ CellSet(q) \cap CellSet(c.recvq) = {} /\ CellSet(q) \cap CellSet(c.sendq) = {}
    /\ \A i \in 1 .. Len(h) : CellSet(q) \cap CellSet(h[i].data) = {}

\* The memory of an end with client object c, packets h and free list f: the
\* room that the next readv will write to is nobody else's.
Own(c, h, f) ==
    /\ Len(c.recvp) <= RECVP_SIZE
    /\ DistinctCells(c.recvp)
    /\ NotIn(c.recvp, c, h)
    /\ Pool(f, Referenced(c, h))

Entries == [interest : SUBSET {"r", "w"}, listed : BOOLEAN]

\* Everything but the clients and what they own has its type.
RestOK ==
    /\ lengths \in Workloads
    /\ epoll \in [Ends -> Entries]
    /\ link \in {"none", "syn", "up", "refused"}
    /\ pipe \in [Ends -> Seq(Nat)]
    /\ eof \in [Ends -> BOOLEAN]
    /\ mem \in [Ends -> Memories]
    /\ sent \in [Ends -> Nat]
    /\ got \in [Ends -> Seq(Nat)]

MemInv ==
    /\ RestOK
    /\ client \in [Ends -> Clients]
    /\ held \in [Ends -> Seq(Kept)]
    /\ free \in [Ends -> Seq(Chunks)]
    /\ \A e \in Ends : Own(client[e], held[e], free[e])

LEMMA ClientFacts ==
    ASSUME NEW c \in Clients
    PROVE  /\ c.stage \in {"new", "open", "closed", "gone"}
           /\ c.connect \in BOOLEAN /\ c.pending \in BOOLEAN /\ c.writeable \in BOOLEAN
           /\ c.pc \in {"wait", "read", "receive", "handle", "send", "write", "connected", "aborted"}
           /\ c.ret \in {"wait", "handle", "connected"}
           /\ c.sendq \in Seq(Slices) /\ c.recvp \in Seq(Slices) /\ c.recvq \in Seq(Slices)
BY DEF Clients

LEMMA KeptFacts ==
    ASSUME NEW h \in Seq(Kept), NEW i \in 1 .. Len(h)
    PROVE  /\ h[i] \in Kept /\ h[i].packet \in Nat /\ h[i].data \in Seq(Slices)
           /\ h[i].data \in Seq(Slices)
<1>1. h[i] \in Kept OBVIOUS
<1> QED BY <1>1 DEF Kept

\* The members of Referenced, one by one.
LEMMA ReferencedIs ==
    ASSUME NEW c \in Clients, NEW h \in Seq(Kept), NEW R, R = Referenced(c, h)
    PROVE  /\ \A x : x \in R <=> \/ x \in ChunksIn(c.sendq) \/ x \in ChunksIn(c.recvp)
                                 \/ x \in ChunksIn(c.recvq)
                                 \/ \E i \in 1 .. Len(h) : x \in ChunksIn(h[i].data)
           /\ R \in SUBSET Chunks
<1>1. DOMAIN h = 1 .. Len(h) OBVIOUS
<1> DEFINE H == UNION {ChunksIn(h[i].data) : i \in DOMAIN h}
<1>2. \A x : x \in H <=> \E i \in 1 .. Len(h) : x \in ChunksIn(h[i].data) BY <1>1, Zenon
<1>3. R = ChunksIn(c.sendq) \cup ChunksIn(c.recvp) \cup ChunksIn(c.recvq) \cup H BY Zenon DEF Referenced
<1> HIDE DEF H
<1>4. \A x : x \in R <=> \/ x \in ChunksIn(c.sendq) \/ x \in ChunksIn(c.recvp)
                         \/ x \in ChunksIn(c.recvq)
                         \/ \E i \in 1 .. Len(h) : x \in ChunksIn(h[i].data)
  BY <1>2, <1>3, Zenon
<1>5. /\ ChunksIn(c.sendq) \subseteq Chunks /\ ChunksIn(c.recvp) \subseteq Chunks
      /\ ChunksIn(c.recvq) \subseteq Chunks
  BY ClientFacts, CellsInChunks
<1>6. \A i \in 1 .. Len(h) : ChunksIn(h[i].data) \subseteq Chunks BY KeptFacts, CellsInChunks
<1>7. R \in SUBSET Chunks BY <1>4, <1>5, <1>6
<1> QED BY <1>4, <1>7

Refers(c, h, x) ==
    \/ x \in ChunksIn(c.sendq) \/ x \in ChunksIn(c.recvp) \/ x \in ChunksIn(c.recvq)
    \/ \E i \in 1 .. Len(h) : x \in ChunksIn(h[i].data)

LEMMA RefersIs ==
    ASSUME NEW c \in Clients, NEW h \in Seq(Kept), NEW x
    PROVE  x \in Referenced(c, h) <=> Refers(c, h, x)
BY ReferencedIs DEF Refers

\* A step of one end.
LEMMA MemStep ==
    ASSUME MemInv, NEW e \in Ends, NEW c \in Clients, NEW h \in Seq(Kept), NEW f \in Seq(Chunks),
           client' = [client EXCEPT ![e] = c], held' = [held EXCEPT ![e] = h],
           free' = [free EXCEPT ![e] = f], RestOK', Own(c, h, f)
    PROVE  MemInv'
<1>1. /\ client' \in [Ends -> Clients] /\ held' \in [Ends -> Seq(Kept)] /\ free' \in [Ends -> Seq(Chunks)]
  BY DEF MemInv
<1>2. ASSUME NEW d \in Ends PROVE Own(client'[d], held'[d], free'[d])
  <2>1. CASE d = e
    <3>1. client'[d] = c /\ held'[d] = h /\ free'[d] = f BY <2>1 DEF MemInv
    <3> QED BY <3>1
  <2>2. CASE d # e
    <3>1. client'[d] = client[d] /\ held'[d] = held[d] /\ free'[d] = free[d] BY <2>2 DEF MemInv
    <3> QED BY <3>1 DEF MemInv
  <2> QED BY <2>1, <2>2
<1>3. (\A d \in Ends : Own(client[d], held[d], free[d]))' <=> \A d \in Ends : Own(client'[d], held'[d], free'[d])
  BY DEF Own, NotIn, Pool, Referenced
<1> QED BY <1>1, <1>2, <1>3 DEF MemInv

LEMMA OwnFacts ==
    ASSUME MemInv, NEW e \in Ends
    PROVE  /\ client[e] \in Clients /\ held[e] \in Seq(Kept) /\ free[e] \in Seq(Chunks)
           /\ mem[e] \in Memories /\ pipe[e] \in Seq(Nat) /\ sent[e] \in Nat /\ got[e] \in Seq(Nat)
           /\ lengths[e] \in Seq(Nat)
           /\ Own(client[e], held[e], free[e])
           /\ Referenced(client[e], held[e]) \in SUBSET Chunks
<1>1. /\ client[e] \in Clients /\ held[e] \in Seq(Kept) /\ free[e] \in Seq(Chunks)
      /\ mem[e] \in Memories /\ pipe[e] \in Seq(Nat) /\ sent[e] \in Nat /\ got[e] \in Seq(Nat)
      /\ Own(client[e], held[e], free[e])
  BY DEF MemInv, RestOK
<1>2. lengths \in [Ends -> Seq(Nat)] BY SocketAssumption DEF MemInv, RestOK
<1>3. Referenced(client[e], held[e]) \in SUBSET Chunks BY <1>1, ReferencedIs
<1> QED BY <1>1, <1>2, <1>3

\* A step that changes neither queues nor packets.
LEMMA MemQuiet ==
    ASSUME MemInv, NEW e \in Ends, NEW c \in Clients,
           c.sendq = client[e].sendq, c.recvp = client[e].recvp, c.recvq = client[e].recvq,
           client' = [client EXCEPT ![e] = c], held' = held, free' = free, RestOK'
    PROVE  MemInv'
<1>1. /\ client[e] \in Clients /\ held[e] \in Seq(Kept) /\ free[e] \in Seq(Chunks)
      /\ Own(client[e], held[e], free[e])
  BY OwnFacts
<1>2. held' = [held EXCEPT ![e] = held[e]] /\ free' = [free EXCEPT ![e] = free[e]] BY DEF MemInv
<1>3. Referenced(c, held[e]) = Referenced(client[e], held[e]) BY Zenon DEF Referenced
<1>4. Own(c, held[e], free[e]) BY <1>1, <1>3, Zenon DEF Own, NotIn
<1> QED BY <1>1, <1>2, <1>4, MemStep

-----------------------------------------------------------------------------
(* Memory: the steps that leave queues and packets alone *)

LEMMA EntryFacts ==
    ASSUME NEW r \in Entries, NEW b \in BOOLEAN
    PROVE  /\ [r EXCEPT !.listed = b] = [interest |-> r.interest, listed |-> b]
           /\ [r EXCEPT !.listed = b] \in Entries
           /\ r.interest \in SUBSET {"r", "w"} /\ r.listed \in BOOLEAN
BY DEF Entries

LEMMA ShutRest ==
    ASSUME MemInv, NEW e \in Ends, NEW c, Shut(e, c),
           UNCHANGED <<lengths, pipe, mem, sent, got>>
    PROVE  RestOK'
<1>1. Peer(e) \in Ends /\ Peer(e) # e BY PeerFacts
<1>2. epoll \in [Ends -> Entries] BY DEF MemInv, RestOK
<1>3. epoll' \in [Ends -> Entries]
  <2>1. PICK p \in Ends : p = Peer(e) BY <1>1
  <2>0. PICK b \in BOOLEAN : b = (epoll[p].listed \/ epoll[p].interest # {}) OBVIOUS
  <2>2. PICK o : o = [epoll[p] EXCEPT !.listed = b] OBVIOUS
  <2>a. PICK ep : ep = [epoll EXCEPT ![e] = NotRegistered] OBVIOUS
  <2>b. ep[p] = epoll[p] BY <1>1, <1>2, <2>1, <2>a
  <2>c. epoll' = [ep EXCEPT ![p].listed = epoll[p].listed \/ epoll[p].interest # {}]
    BY <2>1, <2>a DEF Shut
  <2>d. epoll' = [ep EXCEPT ![p] = o] BY <2>0, <2>2, <2>b, <2>c
  <2>3. epoll' = [d \in Ends |-> IF d = p THEN o ELSE IF d = e THEN NotRegistered ELSE epoll[d]]
    BY <1>2, <2>a, <2>d
  <2>4. o \in Entries BY <1>2, <2>2, EntryFacts
  <2>5. NotRegistered \in Entries BY DEF NotRegistered, Entries
  <2> QED BY <1>2, <2>3, <2>4, <2>5
<1>4. eof' \in [Ends -> BOOLEAN] /\ link' \in {"none", "syn", "up", "refused"}
  BY <1>1 DEF Shut, MemInv, RestOK
<1> QED BY <1>3, <1>4 DEF MemInv, RestOK

LEMMA ShutClient ==
    ASSUME NEW c \in Clients, NEW z, z = [c EXCEPT !.stage = "closed"]
    PROVE  z \in Clients /\ z.sendq = c.sendq /\ z.recvp = c.recvp /\ z.recvq = c.recvq
BY DEF Clients

LEMMA MemShut ==
    ASSUME MemInv, NEW e \in Ends, NEW c \in Clients,
           c.sendq = client[e].sendq, c.recvp = client[e].recvp, c.recvq = client[e].recvq,
           Shut(e, c), UNCHANGED <<pipe, buffers, history>>
    PROVE  MemInv'
<1>1. RestOK' BY ShutRest DEF buffers, history
<1>2. PICK z : z = [c EXCEPT !.stage = "closed"] OBVIOUS
<1>3. z \in Clients /\ z.sendq = c.sendq /\ z.recvp = c.recvp /\ z.recvq = c.recvq BY <1>2, ShutClient
<1>4. client' = [client EXCEPT ![e] = z] BY <1>2 DEF Shut
<1> QED BY <1>1, <1>3, <1>4, MemQuiet DEF buffers

LEMMA MemShutIfOpen ==
    ASSUME MemInv, NEW e \in Ends, NEW c \in Clients,
           c.sendq = client[e].sendq, c.recvp = client[e].recvp, c.recvq = client[e].recvq,
           ShutIfOpen(e, c), UNCHANGED <<pipe, buffers, history>>
    PROVE  MemInv'
<1>1. CASE client[e].stage = "open" BY <1>1, MemShut DEF ShutIfOpen
<1>2. CASE client[e].stage # "open"
  <2>1. client' = [client EXCEPT ![e] = c] /\ UNCHANGED <<epoll, link, eof>> BY <1>2 DEF ShutIfOpen
  <2>2. RestOK' BY <2>1 DEF MemInv, RestOK, buffers, history
  <2> QED BY <2>1, <2>2, MemQuiet DEF buffers
<1> QED BY <1>1, <1>2

LEMMA MemConnect ==
    ASSUME MemInv, NEW e \in Ends, Connect(e) PROVE MemInv'
<1>1. client[e] \in Clients BY OwnFacts
<1>2. RestOK'
  <2>1. epoll \in [Ends -> Entries] /\ link \in {"none", "syn", "up", "refused"} BY DEF MemInv, RestOK
  <2>2. [interest |-> {"w"}, listed |-> FALSE] \in Entries BY DEF Entries
  <2>3. epoll' \in [Ends -> Entries] /\ link' \in {"none", "syn", "up", "refused"} BY <2>1, <2>2 DEF Connect
  <2> QED BY <2>3 DEF Connect, MemInv, RestOK, buffers, history
<1>3. CASE client' = [client EXCEPT ![e].stage = "open", ![e].pending = TRUE]
  <2>1. PICK z : z = [client[e] EXCEPT !.stage = "open", !.pending = TRUE] OBVIOUS
  <2>2. z \in Clients /\ z.sendq = client[e].sendq /\ z.recvp = client[e].recvp /\ z.recvq = client[e].recvq
    BY <1>1, <2>1 DEF Clients
  <2>3. client' = [client EXCEPT ![e] = z] BY <1>3, <2>1 DEF MemInv
  <2> QED BY <1>2, <2>2, <2>3, MemQuiet DEF Connect, buffers
<1>4. CASE client' = [client EXCEPT ![e].stage = "closed"]
  <2>1. PICK z : z = [client[e] EXCEPT !.stage = "closed"] OBVIOUS
  <2>2. z \in Clients /\ z.sendq = client[e].sendq /\ z.recvp = client[e].recvp /\ z.recvq = client[e].recvq
    BY <1>1, <2>1 DEF Clients
  <2>3. client' = [client EXCEPT ![e] = z] BY <1>4, <2>1 DEF MemInv
  <2> QED BY <1>2, <2>2, <2>3, MemQuiet DEF Connect, buffers
<1> QED BY <1>3, <1>4 DEF Connect

LEMMA EdgeType ==
    ASSUME MemInv, NEW e \in Ends, NEW x
    PROVE  /\ Edge(epoll, e, x) \in [Ends -> Entries]
           /\ \A d \in Ends : Edge(epoll, e, x)[d] =
                IF d = e THEN [interest |-> epoll[d].interest,
                               listed |-> epoll[d].listed \/ x \in epoll[d].interest]
                ELSE epoll[d]
<1>1. epoll \in [Ends -> Entries] BY DEF MemInv, RestOK
<1>a. PICK b \in BOOLEAN : b = (epoll[e].listed \/ x \in epoll[e].interest) OBVIOUS
<1>2. PICK o : o = [epoll[e] EXCEPT !.listed = b] OBVIOUS
<1>b. Edge(epoll, e, x) = [epoll EXCEPT ![e].listed = epoll[e].listed \/ x \in epoll[e].interest]
  BY Zenon DEF Edge
<1>c. Edge(epoll, e, x) = [epoll EXCEPT ![e] = o] BY <1>a, <1>2, <1>b
<1>3. Edge(epoll, e, x) = [d \in Ends |-> IF d = e THEN o ELSE epoll[d]] BY <1>1, <1>c
<1>4. o \in Entries /\ o = [interest |-> epoll[e].interest, listed |-> b] BY <1>1, <1>2, EntryFacts
<1>5. Edge(epoll, e, x) \in [Ends -> Entries] BY <1>1, <1>3, <1>4
<1>6. ASSUME NEW d \in Ends
      PROVE  Edge(epoll, e, x)[d] = IF d = e THEN [interest |-> epoll[d].interest,
                               listed |-> epoll[d].listed \/ x \in epoll[d].interest]
                                    ELSE epoll[d]
  BY <1>a, <1>3, <1>4
<1> QED BY <1>5, <1>6

LEMMA MemHandshake ==
    ASSUME MemInv, Handshake PROVE MemInv'
<1>1. Opener \in Ends BY SocketAssumption
<1>2. epoll' \in [Ends -> Entries] BY <1>1, EdgeType DEF Handshake
<1>3. RestOK' BY <1>2 DEF Handshake, MemInv, RestOK, buffers, history
<1>4. client[Opener] \in Clients BY <1>1, OwnFacts
<1>5. client' = [client EXCEPT ![Opener] = client[Opener]] BY <1>1 DEF Handshake, MemInv
<1> QED BY <1>1, <1>3, <1>4, <1>5, MemQuiet DEF Handshake, buffers

\* What EPOLL_CTL_MOD leaves behind.
Modified(ep, e, i) ==
    /\ ep \in [Ends -> Entries]
    /\ ep[e].interest = i /\ ep[e].listed = (Level(e) \cap i # {})
    /\ \A d \in Ends : d # e => ep[d] = epoll[d]

LEMMA RegisteredType ==
    ASSUME MemInv, NEW e \in Ends, NEW i \in SUBSET {"r", "w"}, NEW ep,
           ep = [epoll EXCEPT ![e] = Registered(e, i)]
    PROVE  Modified(ep, e, i)
<1>1. epoll \in [Ends -> Entries] BY DEF MemInv, RestOK
<1>2. PICK b \in BOOLEAN : b = (Level(e) \cap i # {}) OBVIOUS
<1>3. PICK o : o = [interest |-> i, listed |-> b] OBVIOUS
<1>a. Registered(e, i) = o BY <1>2, <1>3, Zenon DEF Registered
<1>4. ep = [epoll EXCEPT ![e] = o] BY <1>a
<1>5. o \in Entries BY <1>3 DEF Entries
<1> QED BY <1>1, <1>2, <1>3, <1>4, <1>5 DEF Modified

LEMMA MemAccept ==
    ASSUME MemInv, NEW e \in Ends, Accept(e) PROVE MemInv'
<1>1. client[e] \in Clients BY OwnFacts
<1>a. {"w"} \in SUBSET {"r", "w"} OBVIOUS
<1>c. PICK ep : ep = [epoll EXCEPT ![e] = Registered(e, {"w"})] OBVIOUS
<1>d. PICK i \in SUBSET {"r", "w"} : i = {"w"} BY <1>a, Zenon
<1>f. ep = [epoll EXCEPT ![e] = Registered(e, i)] BY <1>c, <1>d, Zenon
<1>g. Modified(ep, e, i) BY <1>f, RegisteredType
<1>e. ep \in [Ends -> Entries] BY <1>g DEF Modified
<1>b. epoll' \in [Ends -> Entries] BY <1>c, <1>e DEF Accept
<1>2. RestOK' BY <1>b DEF Accept, MemInv, RestOK, kernel, buffers, history
<1>3. PICK z : z = [client[e] EXCEPT !.stage = "open", !.connect = TRUE] OBVIOUS
<1>4. z \in Clients /\ z.sendq = client[e].sendq /\ z.recvp = client[e].recvp /\ z.recvq = client[e].recvq
  BY <1>1, <1>3 DEF Clients
<1>5. client' = [client EXCEPT ![e] = z] BY <1>3 DEF Accept, MemInv
<1> QED BY <1>2, <1>4, <1>5, MemQuiet DEF Accept, buffers

LEMMA MemPoll ==
    ASSUME MemInv, NEW e \in Ends, Poll(e) PROVE MemInv'
<1> DEFINE ready == Level(e) \cap epoll[e].interest
<1>1. client[e] \in Clients BY OwnFacts
<1>a. epoll \in [Ends -> Entries] BY DEF MemInv, RestOK
<1>b. epoll' = [epoll EXCEPT ![e] = [epoll[e] EXCEPT !.listed = FALSE]] BY DEF Poll
<1>c. epoll' \in [Ends -> Entries] BY <1>a, <1>b, EntryFacts
<1>2. RestOK' BY <1>c DEF Poll, MemInv, RestOK, kernel, buffers, history
<1>3. PICK pc \in {"wait", "read", "write"} :
        pc = IF "r" \in ready THEN "read" ELSE IF "w" \in ready THEN "write" ELSE "wait"
  OBVIOUS
<1>4. PICK w \in BOOLEAN : w = ("w" \in ready)
  <2>1. CASE "w" \in ready BY <2>1, Zenon
  <2>2. CASE "w" \notin ready
    <3>1. FALSE = ("w" \in ready) BY <2>2
    <3> QED BY <3>1
  <2> QED BY <2>1, <2>2
<1>5. PICK z : z = [client[e] EXCEPT !.pc = pc, !.writeable = w] OBVIOUS
<1>6. z \in Clients /\ z.sendq = client[e].sendq /\ z.recvp = client[e].recvp /\ z.recvq = client[e].recvq
  BY <1>1, <1>5 DEF Clients
<1>7. client' = [client EXCEPT ![e] = z] BY <1>3, <1>4, <1>5 DEF Poll, MemInv
<1> QED BY <1>2, <1>6, <1>7, MemQuiet DEF Poll, buffers

LEMMA MemClose ==
    ASSUME MemInv, NEW e \in Ends, Close(e) PROVE MemInv'
<1>1. client[e] \in Clients BY OwnFacts
<1> QED BY <1>1, MemShut DEF Close

\* Only the place in the code changes.
LEMMA StayedClient ==
    ASSUME NEW c \in Clients,
           NEW pc \in {"wait", "read", "receive", "handle", "send", "write", "connected", "aborted"},
           NEW z, z = [c EXCEPT !.pc = pc]
    PROVE  z \in Clients /\ z.sendq = c.sendq /\ z.recvp = c.recvp /\ z.recvq = c.recvq
BY DEF Clients

LEMMA MemMoves ==
    ASSUME MemInv, NEW e \in Ends,
           NEW pc \in {"wait", "read", "receive", "handle", "send", "write", "connected", "aborted"},
           client' = [client EXCEPT ![e] = [client[e] EXCEPT !.pc = pc]], held' = held, free' = free, RestOK'
    PROVE  MemInv'
<1>1. client[e] \in Clients BY OwnFacts
<1>2. PICK z : z = [client[e] EXCEPT !.pc = pc] OBVIOUS
<1>3. z \in Clients /\ z.sendq = client[e].sendq /\ z.recvp = client[e].recvp /\ z.recvq = client[e].recvq
  BY <1>1, <1>2, StayedClient
<1>4. client' = [client EXCEPT ![e] = z] BY <1>2
<1> QED BY <1>3, <1>4, MemQuiet

LEMMA MemReadStops ==
    ASSUME MemInv, NEW e \in Ends, ReadStops(e) PROVE MemInv'
<1>1. PICK pc \in {"wait", "write"} :
        pc = IF client[e].pc = "read" /\ client[e].writeable /\ client[e].stage = "open" THEN "write" ELSE "wait"
  OBVIOUS
<1>2. client' = [client EXCEPT ![e] = [client[e] EXCEPT !.pc = pc]] BY <1>1 DEF ReadStops, ReadDone
<1>3. RestOK' BY DEF ReadStops, MemInv, RestOK, kernel, buffers, history
<1> QED BY <1>2, <1>3, MemMoves DEF ReadStops, buffers

LEMMA MemReceiveMore ==
    ASSUME MemInv, NEW e \in Ends, ReceiveMore(e) PROVE MemInv'
<1>2. client' = [client EXCEPT ![e] = [client[e] EXCEPT !.pc = "read"]] BY DEF ReceiveMore
<1>3. RestOK' BY DEF ReceiveMore, MemInv, RestOK, kernel, buffers, history
<1> QED BY <1>2, <1>3, MemMoves DEF ReceiveMore, buffers

LEMMA MemReceiveBroken ==
    ASSUME MemInv, NEW e \in Ends, ReceiveBroken(e) PROVE MemInv'
<1>1. client[e] \in Clients BY OwnFacts
<1>2. PICK z : z = [client[e] EXCEPT !.pc = "read"] OBVIOUS
<1>3. z \in Clients /\ z.sendq = client[e].sendq /\ z.recvp = client[e].recvp /\ z.recvq = client[e].recvq
  BY <1>1, <1>2, StayedClient
<1>4. ShutIfOpen(e, z) /\ UNCHANGED <<pipe, buffers, history>> BY <1>2 DEF ReceiveBroken
<1> QED BY <1>3, <1>4, MemShutIfOpen

LEMMA ReturnedClient ==
    ASSUME MemInv, NEW e \in Ends, NEW z, z = SendReturns(e, client[e])
    PROVE  z \in Clients /\ z.sendq = client[e].sendq /\ z.recvp = client[e].recvp /\ z.recvq = client[e].recvq
<1>1. client[e] \in Clients BY OwnFacts
<1>2. PICK r \in {"wait", "handle", "connected"} : r = client[e].ret BY <1>1, ClientFacts
<1>3. z = [client[e] EXCEPT !.pc = r, !.ret = "wait"] BY <1>2 DEF SendReturns
<1>4. r \in {"wait", "read", "receive", "handle", "send", "write", "connected", "aborted"} BY <1>2
<1> QED BY <1>1, <1>3, <1>4 DEF Clients

LEMMA MemSendDone ==
    ASSUME MemInv, NEW e \in Ends, SendDone(e) PROVE MemInv'
<1>1. PICK z : z = SendReturns(e, client[e]) OBVIOUS
<1>2. z \in Clients /\ z.sendq = client[e].sendq /\ z.recvp = client[e].recvp /\ z.recvq = client[e].recvq
  BY <1>1, ReturnedClient
<1>3. client' = [client EXCEPT ![e] = z] BY <1>1 DEF SendDone
<1>4. RestOK' BY DEF SendDone, MemInv, RestOK, kernel, buffers, history
<1> QED BY <1>2, <1>3, <1>4, MemQuiet DEF SendDone, buffers

LEMMA MemSendBlocked ==
    ASSUME MemInv, NEW e \in Ends, SendBlocked(e) PROVE MemInv'
<1>1. PICK z : z = SendReturns(e, client[e]) OBVIOUS
<1>2. z \in Clients /\ z.sendq = client[e].sendq /\ z.recvp = client[e].recvp /\ z.recvq = client[e].recvq
  BY <1>1, ReturnedClient
<1>3. client' = [client EXCEPT ![e] = z] BY <1>1 DEF SendBlocked
<1>4. PICK i \in SUBSET {"r", "w"} : i = {"r", "w"} OBVIOUS
<1>5. PICK ep : ep = [epoll EXCEPT ![e] = Registered(e, {"r", "w"})] OBVIOUS
<1>6. ep = [epoll EXCEPT ![e] = Registered(e, i)] BY <1>4, <1>5, Zenon
<1>7. Modified(ep, e, i) BY <1>6, RegisteredType
<1>8. epoll' \in [Ends -> Entries] BY <1>5, <1>7 DEF Modified, SendBlocked
<1>9. RestOK' BY <1>8 DEF SendBlocked, MemInv, RestOK, kernel, buffers, history
<1> QED BY <1>2, <1>3, <1>9, MemQuiet DEF SendBlocked, buffers

LEMMA MemSendFails ==
    ASSUME MemInv, NEW e \in Ends, SendFails(e) PROVE MemInv'
<1>1. PICK z : z = SendReturns(e, client[e]) OBVIOUS
<1>2. z \in Clients /\ z.sendq = client[e].sendq /\ z.recvp = client[e].recvp /\ z.recvq = client[e].recvq
  BY <1>1, ReturnedClient
<1>3. Shut(e, z) /\ UNCHANGED <<pipe, buffers, history>> BY <1>1 DEF SendFails
<1> QED BY <1>2, <1>3, MemShut

LEMMA MemConnectCompleted ==
    ASSUME MemInv, NEW e \in Ends, ConnectCompleted(e) PROVE MemInv'
<1>1. client[e] \in Clients BY OwnFacts
<1>2. CASE link = "up"
  <2>1. PICK z : z = [client[e] EXCEPT !.pending = FALSE, !.connect = TRUE, !.pc = "connected"] OBVIOUS
  <2>2. z \in Clients /\ z.sendq = client[e].sendq /\ z.recvp = client[e].recvp /\ z.recvq = client[e].recvq
    BY <1>1, <2>1 DEF Clients
  <2>3. client' = [client EXCEPT ![e] = z] /\ UNCHANGED <<epoll, link, eof>>
    BY <1>2, <2>1 DEF ConnectCompleted, MemInv
  <2>4. RestOK' BY <2>3 DEF ConnectCompleted, MemInv, RestOK, buffers, history
  <2> QED BY <2>2, <2>3, <2>4, MemQuiet DEF ConnectCompleted, buffers
<1>3. CASE link # "up"
  <2>1. PICK z : z = [client[e] EXCEPT !.pending = FALSE, !.pc = "wait"] OBVIOUS
  <2>2. z \in Clients /\ z.sendq = client[e].sendq /\ z.recvp = client[e].recvp /\ z.recvq = client[e].recvq
    BY <1>1, <2>1 DEF Clients
  <2>3. Shut(e, z) /\ UNCHANGED <<pipe, buffers, history>> BY <1>3, <2>1 DEF ConnectCompleted
  <2> QED BY <2>2, <2>3, MemShut
<1> QED BY <1>2, <1>3

LEMMA MemWriteable ==
    ASSUME MemInv, NEW e \in Ends, Writeable(e) PROVE MemInv'
<1>1. client[e] \in Clients BY OwnFacts
<1>2. CASE client[e].stage = "open"
  <2>1. PICK z : z = [client[e] EXCEPT !.pc = "send", !.ret = "wait"] OBVIOUS
  <2>2. z \in Clients /\ z.sendq = client[e].sendq /\ z.recvp = client[e].recvp /\ z.recvq = client[e].recvq
    BY <1>1, <2>1 DEF Clients
  <2>3. client' = [client EXCEPT ![e] = z] BY <1>2, <2>1 DEF Writeable, MemInv
  <2>a. {"r"} \in SUBSET {"r", "w"} OBVIOUS
  <2>4. PICK i \in SUBSET {"r", "w"} : i = {"r"} BY <2>a, Zenon
  <2>5. PICK ep : ep = [epoll EXCEPT ![e] = Registered(e, {"r"})] OBVIOUS
  <2>6. ep = [epoll EXCEPT ![e] = Registered(e, i)] BY <2>4, <2>5, Zenon
  <2>7. Modified(ep, e, i) BY <2>6, RegisteredType
  <2>8. epoll' \in [Ends -> Entries] BY <1>2, <2>5, <2>7 DEF Modified, Writeable
  <2>9. RestOK' BY <2>8 DEF Writeable, MemInv, RestOK, kernel, buffers, history
  <2> QED BY <2>2, <2>3, <2>9, MemQuiet DEF Writeable, buffers
<1>3. CASE client[e].stage # "open"
  <2>1. client' = [client EXCEPT ![e] = [client[e] EXCEPT !.pc = "aborted"]] /\ UNCHANGED epoll
    BY <1>3 DEF Writeable
  <2>2. RestOK' BY <2>1 DEF Writeable, MemInv, RestOK, kernel, buffers, history
  <2> QED BY <2>1, <2>2, MemMoves DEF Writeable, buffers
<1> QED BY <1>2, <1>3

LEMMA MemReset ==
    ASSUME MemInv, NEW e \in Ends, Reset(e) PROVE MemInv'
<1>1. client[e] \in Clients BY OwnFacts
<1>2. pipe' \in [Ends -> Seq(Nat)] BY DEF Reset, MemInv, RestOK
<1>3. RestOK' BY <1>2 DEF Reset, MemInv, RestOK, buffers, history
<1>4. client' = [client EXCEPT ![e] = client[e]] BY DEF Reset, MemInv
<1> QED BY <1>1, <1>3, <1>4, MemQuiet DEF Reset, buffers

-----------------------------------------------------------------------------
(* Memory: the steps that move references *)

LEMMA EmptyQueue ==
    ASSUME NEW q, q = <<>>
    PROVE  /\ q \in Seq(Slices) /\ Len(q) = 0 /\ Cells(q) = <<>>
           /\ CellSet(q) = {} /\ DistinctCells(q) /\ ChunksIn(q) = {}
<1>1. Cells(q) = <<>> BY CellsEmpty, Zenon
<1>2. Len(Cells(q)) = 0 BY <1>1
<1>3. CellSet(q) = {} /\ DistinctCells(q) BY <1>2 DEF CellSet, DistinctCells
<1>4. q \in Seq(Slices) /\ Len(q) = 0 /\ DOMAIN q = {} OBVIOUS
<1>5. ChunksIn(q) = {} BY <1>4, Zenon DEF ChunksIn
<1> QED BY <1>1, <1>3, <1>4, <1>5

\* References into different chunks have no cell in common.
LEMMA OtherChunks ==
    ASSUME NEW q \in Seq(Slices), NEW p \in Seq(Slices), ChunksIn(q) \cap ChunksIn(p) = {}
    PROVE  CellSet(q) \cap CellSet(p) = {}
<1>1. \A x \in CellSet(q) : x[1] \in ChunksIn(q) BY CellsInChunks
<1>2. \A x \in CellSet(p) : x[1] \in ChunksIn(p) BY CellsInChunks
<1>3. ASSUME NEW x \in CellSet(q) \cap CellSet(p) PROVE FALSE
  <2>1. x[1] \in ChunksIn(q) /\ x[1] \in ChunksIn(p) BY <1>1, <1>2
  <2> QED BY <2>1
<1> QED BY <1>3

\* Chunks that nobody refers to have no cell in common with anything.
LEMMA FreshCells ==
    ASSUME NEW c \in Clients, NEW h \in Seq(Kept), NEW a \in Seq(Slices),
           ChunksIn(a) \cap Referenced(c, h) = {}
    PROVE  NotIn(a, c, h) /\ CellSet(a) \cap CellSet(c.recvp) = {}
<1>1. PICK R : R = Referenced(c, h) OBVIOUS
<1>2. \A x : x \in R <=> \/ x \in ChunksIn(c.sendq) \/ x \in ChunksIn(c.recvp)
                         \/ x \in ChunksIn(c.recvq)
                         \/ \E i \in 1 .. Len(h) : x \in ChunksIn(h[i].data)
  BY <1>1, ReferencedIs
<1>3. ASSUME NEW q \in Seq(Slices), \A x \in ChunksIn(q) : x \in R PROVE CellSet(a) \cap CellSet(q) = {}
  <2>1. ChunksIn(a) \cap ChunksIn(q) = {} BY <1>1, <1>3
  <2> QED BY <2>1, OtherChunks
<1>4. c.sendq \in Seq(Slices) /\ c.recvp \in Seq(Slices) /\ c.recvq \in Seq(Slices) BY ClientFacts
<1>5. CellSet(a) \cap CellSet(c.sendq) = {} BY <1>2, <1>3, <1>4
<1>6. CellSet(a) \cap CellSet(c.recvp) = {} BY <1>2, <1>3, <1>4
<1>7. CellSet(a) \cap CellSet(c.recvq) = {} BY <1>2, <1>3, <1>4
<1>8. ASSUME NEW i \in 1 .. Len(h) PROVE CellSet(a) \cap CellSet(h[i].data) = {}
  <2>1. h[i].data \in Seq(Slices) BY KeptFacts
  <2>2. \A x \in ChunksIn(h[i].data) : x \in R BY <1>2
  <2> QED BY <1>3, <2>1, <2>2
<1> QED BY <1>5, <1>6, <1>7, <1>8 DEF NotIn

LEMMA PoolOfLess ==
    ASSUME NEW f, NEW R, Pool(f, R), NEW RR, \A x \in RR : x \in R PROVE Pool(f, RR)
<1>1. ToSet(f) \cap RR = {} BY Zenon DEF Pool
<1> QED BY <1>1 DEF Pool

\* Fewer packets are held.
LEMMA FewerHeld ==
    ASSUME NEW c \in Clients, NEW h \in Seq(Kept), NEW hh \in Seq(Kept),
           \A i \in 1 .. Len(hh) : \E j \in 1 .. Len(h) : hh[i] = h[j]
    PROVE  /\ \A x \in Referenced(c, hh) : x \in Referenced(c, h)
           /\ \A q : NotIn(q, c, h) => NotIn(q, c, hh)
<1>1. PICK R : R = Referenced(c, h) OBVIOUS
<1>2. PICK RR : RR = Referenced(c, hh) OBVIOUS
<1>3. \A x : x \in R <=> \/ x \in ChunksIn(c.sendq) \/ x \in ChunksIn(c.recvp)
                         \/ x \in ChunksIn(c.recvq)
                         \/ \E i \in 1 .. Len(h) : x \in ChunksIn(h[i].data)
  BY <1>1, ReferencedIs
<1>4. \A x : x \in RR <=> \/ x \in ChunksIn(c.sendq) \/ x \in ChunksIn(c.recvp)
                          \/ x \in ChunksIn(c.recvq)
                          \/ \E i \in 1 .. Len(hh) : x \in ChunksIn(hh[i].data)
  BY <1>2, ReferencedIs
<1>5. ASSUME NEW x \in RR PROVE x \in R
  <2>1. ASSUME NEW i \in 1 .. Len(hh), x \in ChunksIn(hh[i].data) PROVE x \in R
    <3>1. PICK j \in 1 .. Len(h) : hh[i] = h[j] OBVIOUS
    <3>2. x \in ChunksIn(h[j].data) BY <2>1, <3>1
    <3> QED BY <1>3, <3>2
  <2> QED BY <1>3, <1>4, <2>1
<1>6. ASSUME NEW q, NotIn(q, c, h) PROVE NotIn(q, c, hh)
  <2>1. ASSUME NEW i \in 1 .. Len(hh) PROVE CellSet(q) \cap CellSet(hh[i].data) = {}
    <3>1. PICK j \in 1 .. Len(h) : hh[i] = h[j] OBVIOUS
    <3>2. CellSet(q) \cap CellSet(h[j].data) = {} BY <1>6, Zenon DEF NotIn
    <3> QED BY <3>1, <3>2
  <2> QED BY <1>6, <2>1, Zenon DEF NotIn
<1> QED BY <1>1, <1>2, <1>5, <1>6

LEMMA FrontHeld ==
    ASSUME NEW h \in Seq(Kept), NEW hh, hh = Front(h)
    PROVE  hh \in Seq(Kept) /\ \A i \in 1 .. Len(hh) : i \in 1 .. Len(h) /\ hh[i] = h[i]
BY DEF Front

LEMMA RemoveHeld ==
    ASSUME NEW h \in Seq(Kept), NEW k \in 1 .. Len(h), NEW hh, hh = RemoveAt(h, k)
    PROVE  hh \in Seq(Kept) /\ \A i \in 1 .. Len(hh) : \E j \in 1 .. Len(h) : hh[i] = h[j]
<1>1. PICK N \in Nat : N = Len(h) OBVIOUS
<1>2. PICK a : a = SubSeq(h, 1, k - 1) OBVIOUS
<1>3. PICK b : b = SubSeq(h, k + 1, N) OBVIOUS
<1>4. a \in Seq(Kept) /\ Len(a) = k - 1 /\ \A i \in 1 .. k - 1 : a[i] = h[i] BY <1>2
<1>5. b \in Seq(Kept) /\ Len(b) = N - k /\ \A i \in 1 .. N - k : b[i] = h[k + i] BY <1>1, <1>3
<1>6. hh = a \o b BY <1>1, <1>2, <1>3 DEF RemoveAt
<1>7. hh \in Seq(Kept) /\ Len(hh) = N - 1 BY <1>1, <1>4, <1>5, <1>6
<1>8. ASSUME NEW i \in 1 .. N - 1 PROVE \E j \in 1 .. N : hh[i] = h[j]
  <2>1. CASE i <= k - 1
    <3>1. hh[i] = a[i] BY <1>4, <1>5, <1>6, <2>1
    <3> QED BY <1>1, <1>4, <2>1, <3>1
  <2>2. CASE ~(i <= k - 1)
    <3>1. i - (k - 1) \in 1 .. N - k BY <1>1, <2>2
    <3>2. hh[i] = b[i - (k - 1)] BY <1>4, <1>5, <1>6, <1>7, <2>2
    <3>3. b[i - (k - 1)] = h[k + (i - (k - 1))] BY <1>5, <3>1
    <3>4. k + (i - (k - 1)) \in 1 .. N BY <1>1, <3>1
    <3> QED BY <3>2, <3>3, <3>4
  <2> QED BY <2>1, <2>2
<1> QED BY <1>1, <1>7, <1>8

\* References go away, and chunks return to the pool.
LEMMA MemShrinks ==
    ASSUME MemInv, NEW e \in Ends, NEW c \in Clients, NEW h \in Seq(Kept),
           client' = [client EXCEPT ![e] = c], held' = [held EXCEPT ![e] = h],
           free' = [free EXCEPT ![e] = Recycled(e, c, h)], RestOK',
           \A x \in Referenced(c, h) : x \in Referenced(client[e], held[e]),
           Len(c.recvp) <= RECVP_SIZE, DistinctCells(c.recvp), NotIn(c.recvp, c, h)
    PROVE  MemInv'
<1>1. PICK R : R = Referenced(client[e], held[e]) OBVIOUS
<1>2. PICK RR : RR = Referenced(c, h) OBVIOUS
<1>3. R \in SUBSET Chunks /\ Pool(free[e], R) BY <1>1, OwnFacts DEF Own
<1>4. RR \in SUBSET R BY <1>1, <1>2
<1>5. PICK g : g = Recycled(e, c, h) OBVIOUS
<1>6. Pool(g, RR) BY <1>1, <1>2, <1>3, <1>4, <1>5, RecycledFacts
<1>7. g \in Seq(Chunks) BY <1>6 DEF Pool
<1>8. Own(c, h, g) BY <1>2, <1>6 DEF Own
<1> QED BY <1>5, <1>7, <1>8, MemStep

LEMMA MemDrain ==
    ASSUME MemInv, NEW e \in Ends, Drain(e) PROVE MemInv'
<1>1. client[e] \in Clients /\ held[e] \in Seq(Kept) BY OwnFacts
<1>2. PICK n : n = <<>> OBVIOUS
<1>3. PICK c : c = [client[e] EXCEPT !.stage = "gone", !.connect = FALSE, !.pending = FALSE,
                               !.sendq = n, !.recvp = n, !.recvq = n] OBVIOUS
<1>4. /\ n \in Seq(Slices) /\ Len(n) = 0
      /\ CellSet(n) = {} /\ DistinctCells(n) /\ ChunksIn(n) = {}
  BY <1>2, EmptyQueue
<1>5. c = [client[e] EXCEPT !.stage = "gone", !.connect = FALSE, !.pending = FALSE,
                            !.sendq = <<>>, !.recvp = <<>>, !.recvq = <<>>]
  BY <1>2, <1>3, Zenon
<1>6. c \in Clients /\ c.sendq = n /\ c.recvp = n /\ c.recvq = n BY <1>1, <1>3, <1>4 DEF Clients
<1>7. client' = [client EXCEPT ![e] = c] /\ free' = [free EXCEPT ![e] = Recycled(e, c, held[e])]
  BY <1>5, Zenon DEF Drain
<1>8. held' = [held EXCEPT ![e] = held[e]] BY DEF Drain, MemInv
<1>9. RestOK' BY DEF Drain, MemInv, RestOK, kernel, history
<1>10. Len(c.recvp) <= RECVP_SIZE BY <1>4, <1>6, SocketAssumption
<1>11. DistinctCells(c.recvp) /\ NotIn(c.recvp, c, held[e]) BY <1>4, <1>6 DEF NotIn
<1>12. \A x \in Referenced(c, held[e]) : x \in Referenced(client[e], held[e])
  <2>1. PICK R : R = Referenced(client[e], held[e]) OBVIOUS
  <2>2. PICK RR : RR = Referenced(c, held[e]) OBVIOUS
  <2>3. \A x : (\E i \in 1 .. Len(held[e]) : x \in ChunksIn(held[e][i].data)) => x \in R
    BY <1>1, <2>1, ReferencedIs
  <2>4. \A x : x \in RR => \/ x \in ChunksIn(n)
                           \/ \E i \in 1 .. Len(held[e]) : x \in ChunksIn(held[e][i].data)
    BY <1>1, <1>6, <2>2, ReferencedIs
  <2> QED BY <1>4, <2>1, <2>2, <2>3, <2>4
<1> QED BY <1>1, <1>6, <1>7, <1>8, <1>9, <1>10, <1>11, <1>12, MemShrinks

\* A packet goes.
LEMMA MemReleases ==
    ASSUME MemInv, NEW e \in Ends, NEW c \in Clients, NEW h \in Seq(Kept),
           c.sendq = client[e].sendq, c.recvp = client[e].recvp, c.recvq = client[e].recvq,
           \A i \in 1 .. Len(h) : \E j \in 1 .. Len(held[e]) : h[i] = held[e][j],
           client' = [client EXCEPT ![e] = c], held' = [held EXCEPT ![e] = h],
           free' = [free EXCEPT ![e] = Recycled(e, client[e], h)], RestOK'
    PROVE  MemInv'
<1>1. client[e] \in Clients /\ held[e] \in Seq(Kept) /\ Own(client[e], held[e], free[e]) BY OwnFacts
<1>2. PICK o \in Clients : o = client[e] BY <1>1
<1>3. PICK k \in Seq(Kept) : k = held[e] BY <1>1
<1>4. Referenced(c, h) = Referenced(o, h) /\ \A g : NotIn(c.recvp, o, g) <=> NotIn(c.recvp, c, g)
  BY <1>2, Zenon DEF Referenced, NotIn
<1>5. \A i \in 1 .. Len(h) : \E j \in 1 .. Len(k) : h[i] = k[j] BY <1>3
<1>6. /\ \A x \in Referenced(o, h) : x \in Referenced(o, k)
      /\ \A q : NotIn(q, o, k) => NotIn(q, o, h)
  BY <1>5, FewerHeld
<1>7. /\ Len(c.recvp) <= RECVP_SIZE /\ DistinctCells(c.recvp) /\ NotIn(c.recvp, o, k)
  BY <1>1, <1>2, <1>3 DEF Own
<1>8. NotIn(c.recvp, c, h) BY <1>4, <1>6, <1>7
<1>9. Recycled(e, c, h) = Recycled(e, client[e], h) BY <1>2, <1>4, Zenon DEF Recycled
<1>10. \A x \in Referenced(c, h) : x \in Referenced(client[e], held[e]) BY <1>2, <1>3, <1>4, <1>6
<1>11. free' = [free EXCEPT ![e] = Recycled(e, c, h)] BY <1>9
<1> QED BY <1>7, <1>8, <1>10, <1>11, MemShrinks

LEMMA MemHandled ==
    ASSUME MemInv, NEW e \in Ends, Handled(e) PROVE MemInv'
<1>1. client[e] \in Clients /\ held[e] \in Seq(Kept) BY OwnFacts
<1>2. RestOK' BY DEF Handled, MemInv, RestOK, kernel, history
<1>3. client' = [client EXCEPT ![e] = [client[e] EXCEPT !.pc = "receive"]] BY DEF Handled
<1>4. CASE UNCHANGED <<held, free>> BY <1>2, <1>3, <1>4, MemMoves
<1>5. CASE /\ held' = [held EXCEPT ![e] = Front(held[e])]
           /\ free' = [free EXCEPT ![e] = Recycled(e, client[e], Front(held[e]))]
  <2>1. PICK h : h = Front(held[e]) OBVIOUS
  <2>2. h \in Seq(Kept) /\ \A i \in 1 .. Len(h) : i \in 1 .. Len(held[e]) /\ h[i] = held[e][i]
    BY <1>1, <2>1, FrontHeld
  <2>3. PICK z : z = [client[e] EXCEPT !.pc = "receive"] OBVIOUS
  <2>4. z \in Clients /\ z.sendq = client[e].sendq /\ z.recvp = client[e].recvp /\ z.recvq = client[e].recvq
    BY <1>1, <2>3, StayedClient
  <2>5. /\ client' = [client EXCEPT ![e] = z] /\ held' = [held EXCEPT ![e] = h]
        /\ free' = [free EXCEPT ![e] = Recycled(e, client[e], h)]
    BY <1>3, <1>5, <2>1, <2>3
  <2>6. \A i \in 1 .. Len(h) : \E j \in 1 .. Len(held[e]) : h[i] = held[e][j] BY <2>2
  <2> QED BY <1>2, <2>2, <2>4, <2>5, <2>6, MemReleases
<1> QED BY <1>4, <1>5 DEF Handled

LEMMA MemHandlerThrows ==
    ASSUME MemInv, NEW e \in Ends, HandlerThrows(e) PROVE MemInv'
<1>1. client[e] \in Clients /\ held[e] \in Seq(Kept) BY OwnFacts
<1>2. PICK h : h = Front(held[e]) OBVIOUS
<1>3. h \in Seq(Kept) /\ \A i \in 1 .. Len(h) : i \in 1 .. Len(held[e]) /\ h[i] = held[e][i]
  BY <1>1, <1>2, FrontHeld
<1>4. \A i \in 1 .. Len(h) : \E j \in 1 .. Len(held[e]) : h[i] = held[e][j] BY <1>3
<1>5. PICK z : z = [client[e] EXCEPT !.pc = "read"] OBVIOUS
<1>6. z \in Clients /\ z.sendq = client[e].sendq /\ z.recvp = client[e].recvp /\ z.recvq = client[e].recvq
  BY <1>1, <1>5, StayedClient
<1>7. /\ ShutIfOpen(e, z) /\ held' = [held EXCEPT ![e] = h]
      /\ free' = [free EXCEPT ![e] = Recycled(e, client[e], h)] /\ UNCHANGED <<pipe, mem, history>>
  BY <1>2, <1>5 DEF HandlerThrows
<1>8. CASE client[e].stage = "open"
  <2>1. PICK y : y = [z EXCEPT !.stage = "closed"] OBVIOUS
  <2>2. y \in Clients /\ y.sendq = client[e].sendq /\ y.recvp = client[e].recvp /\ y.recvq = client[e].recvq
    BY <1>6, <2>1, ShutClient
  <2>3. Shut(e, z) BY <1>7, <1>8 DEF ShutIfOpen
  <2>4. client' = [client EXCEPT ![e] = y] BY <2>1, <2>3 DEF Shut
  <2>5. RestOK' BY <1>7, <2>3, ShutRest DEF history
  <2> QED BY <1>3, <1>4, <1>7, <2>2, <2>4, <2>5, MemReleases
<1>9. CASE client[e].stage # "open"
  <2>1. client' = [client EXCEPT ![e] = z] /\ UNCHANGED <<epoll, link, eof>> BY <1>7, <1>9 DEF ShutIfOpen
  <2>2. RestOK' BY <1>7, <2>1 DEF MemInv, RestOK, history
  <2> QED BY <1>3, <1>4, <1>6, <1>7, <2>1, <2>2, MemReleases
<1> QED BY <1>8, <1>9

LEMMA MemReleasePacket ==
    ASSUME MemInv, NEW e \in Ends, ReleasePacket(e) PROVE MemInv'
<1>1. client[e] \in Clients /\ held[e] \in Seq(Kept) BY OwnFacts
<1>a. DOMAIN held[e] = 1 .. Len(held[e]) BY <1>1
<1>2. PICK k \in 1 .. Len(held[e]) :
        /\ held' = [held EXCEPT ![e] = RemoveAt(held[e], k)]
        /\ free' = [free EXCEPT ![e] = Recycled(e, client[e], RemoveAt(held[e], k))]
  BY <1>a, Zenon DEF ReleasePacket
<1>b. PICK s \in Seq(Kept) : s = held[e] BY <1>1
<1>3. PICK h : h = RemoveAt(s, k) OBVIOUS
<1>c. k \in 1 .. Len(s) BY <1>b
<1>d. h \in Seq(Kept) /\ \A i \in 1 .. Len(h) : \E j \in 1 .. Len(s) : h[i] = s[j]
  BY <1>3, <1>c, RemoveHeld
<1>4. h \in Seq(Kept) /\ \A i \in 1 .. Len(h) : \E j \in 1 .. Len(held[e]) : h[i] = held[e][j]
  BY <1>b, <1>d
<1>5. RestOK' BY DEF ReleasePacket, MemInv, RestOK, kernel, history
<1>6. client' = [client EXCEPT ![e] = client[e]] BY DEF ReleasePacket, MemInv
<1>7. /\ held' = [held EXCEPT ![e] = h]
      /\ free' = [free EXCEPT ![e] = Recycled(e, client[e], h)]
  BY <1>2, <1>3, <1>b, Zenon
<1> QED BY <1>1, <1>4, <1>5, <1>6, <1>7, MemReleases

\* The two parts of a queue that is cut have its cells and its chunks.
SplitParts(q, n, a, b) ==
    /\ a \in Seq(Slices) /\ b \in Seq(Slices)
    /\ Cells(q) = Cells(a) \o Cells(b)
    /\ Len(Cells(a)) = n
    /\ Len(b) <= Len(q)
    /\ \A x \in ChunksIn(a) : x \in ChunksIn(q)
    /\ \A x \in ChunksIn(b) : x \in ChunksIn(q)
    /\ \A x : x \in CellSet(q) <=> x \in CellSet(a) \/ x \in CellSet(b)
    /\ DistinctCells(q) => /\ DistinctCells(a) /\ DistinctCells(b)
                           /\ CellSet(a) \cap CellSet(b) = {}

LEMMA SplitCells ==
    ASSUME NEW q \in Seq(Slices), NEW n \in Nat, n <= Size(q), NEW s, s = Split(q, n)
    PROVE  SplitParts(q, n, s.taken, s.left)
<1>1. PICK a : a = s.taken OBVIOUS
<1>2. PICK b : b = s.left OBVIOUS
<1>3. /\ a \in Seq(Slices) /\ b \in Seq(Slices)
      /\ Cells(q) = Cells(a) \o Cells(b)
      /\ Len(Cells(a)) = n
      /\ ChunksIn(a) \subseteq ChunksIn(q) /\ ChunksIn(b) \subseteq ChunksIn(q)
      /\ Len(b) <= Len(q)
  BY <1>1, <1>2, SplitFacts, ZenonT(30)
<1>4. CellSet(q) = CellSet(a) \cup CellSet(b) BY <1>3, CellSetConcat, Zenon
<1>5. DistinctCells(q) => /\ DistinctCells(a) /\ DistinctCells(b)
                          /\ CellSet(a) \cap CellSet(b) = {}
  BY <1>3, CellSetConcat, Zenon
<1>6. \A x : x \in CellSet(q) <=> x \in CellSet(a) \/ x \in CellSet(b) BY <1>4
<1>7. (\A x \in ChunksIn(a) : x \in ChunksIn(q)) /\ \A x \in ChunksIn(b) : x \in ChunksIn(q) BY <1>3, Zenon
<1> QED BY <1>1, <1>2, <1>3, <1>5, <1>6, <1>7, Zenon DEF SplitParts

\* The sum of the lengths of packets.
LEMMA LastByteIs ==
    ASSUME NEW e \in Ends, lengths \in Workloads
    PROVE  /\ lengths[e] \in Seq(Nat)
           /\ \E n : /\ Sums(n, lengths[e], Len(lengths[e]))
                     /\ \A k \in 0 .. Len(lengths[e]) : LastByte(e, k) = n[k]
<1>1. lengths[e] \in Seq(Nat) BY SocketAssumption
<1>2. PICK a \in Seq(Nat) : a = lengths[e] BY <1>1
<1>3. PICK N \in Nat : N = Len(a) OBVIOUS
<1>4. a \in [1 .. N -> Nat] BY <1>3
<1>5. PICK n : Sums(n, a, N) BY <1>4, SumsExist
<1> DEFINE f == CHOOSE g : g = [i \in 0 .. N |-> IF i = 0 THEN 0 ELSE g[i - 1] + a[i]]
           Is(g) == g = [i \in 0 .. N |-> IF i = 0 THEN 0 ELSE g[i - 1] + a[i]]
<1>6. Is(n)
  <2>1. n \in [0 .. N -> Nat] /\ n[0] = 0 /\ \A i \in 1 .. N : n[i] = n[i - 1] + a[i] BY <1>5 DEF Sums
  <2>2. \A i \in 0 .. N : n[i] = IF i = 0 THEN 0 ELSE n[i - 1] + a[i] BY <1>3, <2>1
  <2> QED BY <2>1, <2>2
<1>7. PICK g : g = f OBVIOUS
<1>8. Is(g) BY <1>6, <1>7
<1>9. Sums(g, a, N)
  <2>1. \A i \in 0 .. N : g[i] = IF i = 0 THEN 0 ELSE g[i - 1] + a[i] BY <1>8
  <2>2. DOMAIN g = 0 .. N /\ g = [i \in 0 .. N |-> g[i]] BY <1>8
  <2> DEFINE S == {i \in 0 .. N : g[i] = n[i]}
  <2>3. 0 \in S BY <1>3, <1>5, <2>1 DEF Sums
  <2>4. ASSUME NEW i \in 0 .. N, i \in S, i < N PROVE i + 1 \in S
    <3>1. i + 1 \in 0 .. N /\ i + 1 \in 1 .. N /\ (i + 1) - 1 = i /\ i + 1 # 0 BY <1>3, <2>4
    <3>2. g[i + 1] = g[i] + a[i + 1] BY <2>1, <3>1
    <3>3. n[i + 1] = n[i] + a[i + 1] BY <1>5, <3>1 DEF Sums
    <3> QED BY <2>4, <3>1, <3>2, <3>3
  <2>5. S \in SUBSET (0 .. N) OBVIOUS
  <2>6. S = 0 .. N BY <1>3, <2>3, <2>4, <2>5, UpTo
  <2>7. \A i \in 0 .. N : g[i] = n[i] BY <2>6
  <2>8. n = [i \in 0 .. N |-> n[i]] BY <1>5 DEF Sums
  <2>9. g = n BY <2>2, <2>7, <2>8
  <2> QED BY <1>5, <2>9
<1>10. \A k \in 0 .. Len(lengths[e]) : LastByte(e, k) = g[k]
  BY <1>2, <1>3, <1>7, Zenon DEF LastByte
<1> QED BY <1>1, <1>2, <1>3, <1>9, <1>10

LEMMA PacketFacts ==
    ASSUME NEW e \in Ends, lengths \in Workloads, NEW k \in 1 .. Len(lengths[e])
    PROVE  /\ lengths[e] \in Seq(Nat) /\ lengths[e][k] \in Nat /\ lengths[e][k] >= HEAD_SIZE
           /\ LastByte(e, k) \in Nat /\ LastByte(e, k - 1) \in Nat
           /\ LastByte(e, k) = LastByte(e, k - 1) + lengths[e][k]
           /\ PacketBytes(e, k) \in Seq(Nat) /\ Len(PacketBytes(e, k)) = lengths[e][k]
           /\ \A i \in 1 .. lengths[e][k] : PacketBytes(e, k)[i] = LastByte(e, k - 1) + i
<1>1. lengths[e] \in Seq(Nat) BY LastByteIs
<1>2. PICK n : /\ Sums(n, lengths[e], Len(lengths[e]))
               /\ \A j \in 0 .. Len(lengths[e]) : LastByte(e, j) = n[j]
  BY LastByteIs
<1>3. k \in 0 .. Len(lengths[e]) /\ k - 1 \in 0 .. Len(lengths[e]) BY <1>1
<1>4. lengths[e][k] \in Nat BY <1>1
<1>5. lengths[e][k] >= HEAD_SIZE
  <2>1. k \in DOMAIN lengths[e] BY <1>1
  <2> QED BY <2>1, SocketAssumption
<1>6. /\ n[k] \in Nat /\ n[k - 1] \in Nat /\ n[k] = n[k - 1] + lengths[e][k] BY <1>2, <1>3 DEF Sums
<1>7. /\ LastByte(e, k) \in Nat /\ LastByte(e, k - 1) \in Nat
      /\ LastByte(e, k) = LastByte(e, k - 1) + lengths[e][k]
  BY <1>2, <1>3, <1>6
<1>8. PICK b \in Nat : b = LastByte(e, k - 1) BY <1>7
<1>9. PICK l \in Nat : l = lengths[e][k] BY <1>4
<1>10. PacketBytes(e, k) = [i \in 1 .. l |-> b + i] BY <1>8, <1>9 DEF PacketBytes
<1>11. /\ PacketBytes(e, k) \in Seq(Nat) /\ Len(PacketBytes(e, k)) = l
       /\ \A i \in 1 .. l : PacketBytes(e, k)[i] = b + i
  BY <1>10
<1> QED BY <1>1, <1>4, <1>5, <1>7, <1>8, <1>9, <1>11

\* Declared lengths and the header.
LEMMA HeaderFacts ==
    ASSUME MemInv, NEW e \in Ends, NEW k \in Header(e)
    PROVE  /\ k \in 1 .. Len(lengths[Peer(e)]) /\ k \in Nat
           /\ Declared(Peer(e), k) \in Nat /\ Declared(Peer(e), k) >= HEAD_SIZE
           /\ BytesOf(mem[e], Split(client[e].recvq, HEAD_SIZE).taken)
                = SubSeq(PacketBytes(Peer(e), k), 1, HEAD_SIZE)
<1>1. PICK p \in Ends : p = Peer(e) BY PeerFacts
<1>2. lengths[p] \in Seq(Nat) BY OwnFacts
<1>3. /\ k \in DOMAIN lengths[p] /\ Declared(p, k) >= HEAD_SIZE
      /\ BytesOf(mem[e], Split(client[e].recvq, HEAD_SIZE).taken) = SubSeq(PacketBytes(p, k), 1, HEAD_SIZE)
  BY <1>1, Zenon DEF Header, HeaderOf
<1>4. k \in 1 .. Len(lengths[p]) BY <1>2, <1>3
<1>5. lengths[p][k] \in Nat /\ k \in Nat BY <1>2, <1>4
<1>6. LengthMod \in Nat /\ LengthMod > 0 BY SocketAssumption
<1>7. Declared(p, k) \in Nat BY <1>5, <1>6 DEF Declared
<1> QED BY <1>1, <1>3, <1>4, <1>5, <1>7

\* What ReceivePacket does to client and packets.
Popped(e, k, z, a, b, h) ==
    /\ client[e].pc = "receive" /\ Size(client[e].recvq) >= HEAD_SIZE
    /\ Declared(Peer(e), k) <= Size(client[e].recvq)
    /\ SplitParts(client[e].recvq, Declared(Peer(e), k), a, b)
    /\ z = [client[e] EXCEPT !.recvq = b, !.pc = "handle"]
    /\ z.sendq = client[e].sendq /\ z.recvp = client[e].recvp /\ z.recvq = b
    /\ h = Append(held[e], [packet |-> k, data |-> a])
    /\ client' = [client EXCEPT ![e] = z]
    /\ held' = [held EXCEPT ![e] = h]
    /\ got' = [got EXCEPT ![e] = Append(got[e], k)]

LEMMA ReceivePacketIs ==
    ASSUME MemInv, NEW e \in Ends, ReceivePacket(e)
    PROVE  \E k \in Header(e), z \in Clients, a \in Seq(Slices), b \in Seq(Slices), h \in Seq(Kept) :
               Popped(e, k, z, a, b, h)
<1>1. client[e] \in Clients /\ held[e] \in Seq(Kept) BY OwnFacts
<1>2. PICK k \in Header(e) :
        LET s == Split(client[e].recvq, Declared(Peer(e), k)) IN
        /\ Size(client[e].recvq) >= Declared(Peer(e), k)
        /\ client' = [client EXCEPT ![e].recvq = s.left, ![e].pc = "handle"]
        /\ held' = [held EXCEPT ![e] = Append(held[e], [packet |-> k, data |-> s.taken])]
        /\ got' = [got EXCEPT ![e] = Append(got[e], k)]
  BY DEF ReceivePacket
<1>3. PICK q \in Seq(Slices) : q = client[e].recvq BY <1>1, ClientFacts
<1>4. PICK n \in Nat : n = Declared(Peer(e), k) BY HeaderFacts
<1>5. Size(q) \in Nat BY CellsType
<1>6. n <= Size(q) BY <1>2, <1>3, <1>4, <1>5
<1>7. PICK s : s = Split(q, n) OBVIOUS
<1>8. PICK a : a = s.taken OBVIOUS
<1>9. PICK b : b = s.left OBVIOUS
<1>10. SplitParts(q, n, a, b) BY <1>6, <1>7, <1>8, <1>9, SplitCells
<1>11. a \in Seq(Slices) /\ b \in Seq(Slices) BY <1>10 DEF SplitParts
<1>12. client' = [client EXCEPT ![e] = [client[e] EXCEPT !.recvq = b, !.pc = "handle"]]
  <2>1. Split(client[e].recvq, Declared(Peer(e), k)).left = b BY <1>3, <1>4, <1>7, <1>9, Zenon
  <2>2. client' = [client EXCEPT ![e].recvq = b, ![e].pc = "handle"] BY <1>2, <2>1, Zenon
  <2> QED BY <2>2 DEF MemInv
<1>13. PICK z : z = [client[e] EXCEPT !.recvq = b, !.pc = "handle"] OBVIOUS
<1>14. z \in Clients /\ z.sendq = client[e].sendq /\ z.recvp = client[e].recvp /\ z.recvq = b
  BY <1>1, <1>11, <1>13 DEF Clients
<1>15. PICK h : h = Append(held[e], [packet |-> k, data |-> a]) OBVIOUS
<1>16. h \in Seq(Kept)
  <2>1. [packet |-> k, data |-> a] \in Kept BY <1>11, HeaderFacts DEF Kept
  <2> QED BY <1>1, <1>15, <2>1
<1>17. held' = [held EXCEPT ![e] = h] BY <1>2, <1>3, <1>4, <1>7, <1>8, <1>15, Zenon
<1>18. client' = [client EXCEPT ![e] = z] BY <1>12, <1>13
<1>19. SplitParts(client[e].recvq, Declared(Peer(e), k), a, b) BY <1>3, <1>4, <1>10
<1>20. Declared(Peer(e), k) <= Size(client[e].recvq) BY <1>3, <1>4, <1>6
<1>21. client[e].pc = "receive" /\ Size(client[e].recvq) >= HEAD_SIZE BY DEF ReceivePacket
<1>22. Popped(e, k, z, a, b, h)
  BY <1>2, <1>13, <1>14, <1>15, <1>17, <1>18, <1>19, <1>20, <1>21 DEF Popped
<1> QED BY <1>11, <1>14, <1>16, <1>22

LEMMA MemReceivePacket ==
    ASSUME MemInv, NEW e \in Ends, ReceivePacket(e) PROVE MemInv'
<1>1. client[e] \in Clients /\ held[e] \in Seq(Kept) /\ free[e] \in Seq(Chunks) /\ Own(client[e], held[e], free[e])
  BY OwnFacts
<1>p. PICK k \in Header(e), z \in Clients, a \in Seq(Slices), b \in Seq(Slices), h \in Seq(Kept) :
        Popped(e, k, z, a, b, h)
  BY ReceivePacketIs
<1>2.        /\ SplitParts(client[e].recvq, Declared(Peer(e), k), a, b)
             /\ z.sendq = client[e].sendq /\ z.recvp = client[e].recvp /\ z.recvq = b
             /\ h = Append(held[e], [packet |-> k, data |-> a])
             /\ client' = [client EXCEPT ![e] = z]
             /\ held' = [held EXCEPT ![e] = h]
             /\ got' = [got EXCEPT ![e] = Append(got[e], k)]
  BY <1>p DEF Popped
<1>3. PICK o \in Clients : o = client[e] BY <1>1
<1>4. PICK g \in Seq(Kept) : g = held[e] BY <1>1
<1>5. PICK q \in Seq(Slices) : q = o.recvq BY ClientFacts
<1>6. PICK p \in Seq(Slices) : p = o.recvp BY ClientFacts
<1>7. PICK n \in Nat : n = Len(g) OBVIOUS
<1>8. /\ Len(h) = n + 1 /\ \A i \in 1 .. n : h[i] = g[i]
      /\ h[n + 1].data = a
  <2>1. h = Append(g, [packet |-> k, data |-> a]) BY <1>2, <1>4
  <2>2. h[n + 1] = [packet |-> k, data |-> a] BY <1>7, <2>1
  <2> QED BY <1>7, <2>1, <2>2
<1>9. SplitParts(q, Declared(Peer(e), k), a, b) BY <1>2, <1>3, <1>5
<1>10. \A i \in 1 .. n + 1 : i \in 1 .. n \/ i = n + 1 OBVIOUS
<1>11. NotIn(p, o, g) /\ Len(p) <= RECVP_SIZE /\ DistinctCells(p) /\ Pool(free[e], Referenced(o, g))
  BY <1>1, <1>3, <1>4, <1>6 DEF Own
<1>12. NotIn(p, z, h)
  <2>0. \A x \in CellSet(p) : x \notin CellSet(q) BY <1>5, <1>11 DEF NotIn
  <2>1. CellSet(p) \cap CellSet(b) = {} BY <1>9, <2>0 DEF SplitParts
  <2>2. CellSet(p) \cap CellSet(a) = {} BY <1>9, <2>0 DEF SplitParts
  <2>3. ASSUME NEW i \in 1 .. Len(h) PROVE CellSet(p) \cap CellSet(h[i].data) = {}
    <3>1. CASE i \in 1 .. n
      <4>1. CellSet(p) \cap CellSet(g[i].data) = {} BY <1>7, <1>11, <3>1, Zenon DEF NotIn
      <4> QED BY <1>8, <3>1, <4>1
    <3>2. CASE i = n + 1
      <4>1. h[i].data = a BY <1>8, <3>2
      <4> QED BY <2>2, <4>1, Zenon
    <3> QED BY <1>8, <1>10, <3>1, <3>2
  <2>4. CellSet(p) \cap CellSet(z.sendq) = {} BY <1>2, <1>3, <1>11 DEF NotIn
  <2>5. CellSet(p) \cap CellSet(z.recvq) = {} BY <1>2, <2>1, Zenon
  <2> QED BY <2>3, <2>4, <2>5 DEF NotIn
<1>13. ASSUME NEW x \in Referenced(z, h) PROVE x \in Referenced(o, g)
  <2>1. PICK R : R = Referenced(o, g) OBVIOUS
  <2>2. PICK RR : RR = Referenced(z, h) OBVIOUS
  <2>3. \A y : y \in R <=> \/ y \in ChunksIn(o.sendq) \/ y \in ChunksIn(o.recvp)
                           \/ y \in ChunksIn(o.recvq)
                           \/ \E i \in 1 .. Len(g) : y \in ChunksIn(g[i].data)
    BY <2>1, ReferencedIs
  <2>4. \A y : y \in RR <=> \/ y \in ChunksIn(z.sendq) \/ y \in ChunksIn(z.recvp)
                            \/ y \in ChunksIn(z.recvq)
                            \/ \E i \in 1 .. Len(h) : y \in ChunksIn(h[i].data)
    BY <2>2, ReferencedIs
  <2>5. x \in RR BY <2>2
  <2>6. CASE x \in ChunksIn(b) \/ x \in ChunksIn(a) BY <1>5, <1>9, <2>1, <2>3, <2>6 DEF SplitParts
  <2>7. ASSUME NEW i \in 1 .. Len(h), x \in ChunksIn(h[i].data) PROVE x \in R
    <3>1. CASE i \in 1 .. n
      <4>1. x \in ChunksIn(g[i].data) BY <1>8, <2>7, <3>1
      <4> QED BY <1>7, <2>3, <3>1, <4>1
    <3>2. CASE i = n + 1
      <4>1. x \in ChunksIn(a) BY <1>8, <2>7, <3>2
      <4> QED BY <2>1, <2>6, <4>1
    <3> QED BY <1>8, <1>10, <3>1, <3>2
  <2>8. z.sendq = o.sendq /\ z.recvp = o.recvp /\ z.recvq = b BY <1>2, <1>3
  <2> QED BY <2>1, <2>3, <2>4, <2>5, <2>6, <2>7, <2>8
<1>14. Pool(free[e], Referenced(z, h)) BY <1>11, <1>13, PoolOfLess
<1>15. z.recvp = p BY <1>2, <1>3, <1>6
<1>16. Own(z, h, free[e]) BY <1>11, <1>12, <1>14, <1>15 DEF Own
<1>17. RestOK'
  <2>1. k \in Nat /\ got[e] \in Seq(Nat) BY HeaderFacts, OwnFacts
  <2>2. got' \in [Ends -> Seq(Nat)] BY <1>2, <2>1 DEF MemInv, RestOK
  <2> QED BY <2>2 DEF ReceivePacket, MemInv, RestOK, kernel
<1>18. free' = [free EXCEPT ![e] = free[e]] BY DEF ReceivePacket, MemInv
<1> QED BY <1>1, <1>2, <1>16, <1>17, <1>18, MemStep

\* The first references of a queue cover no more than all of them.
LEMMA SizeOfFront ==
    ASSUME NEW q \in Seq(Slices), NEW k \in 0 .. Len(q) PROVE Size(SubSeq(q, 1, k)) <= Size(q)
<1>1. PICK u \in Seq(Slices) : u = SubSeq(q, 1, k) /\ Len(Cells(u)) = BytesBefore(q)[k] BY CellsBefore
<1>2. Size(u) = BytesBefore(q)[k] BY <1>1, CellsType
<1>3. PICK N \in Nat : N = Len(q) OBVIOUS
<1>4. Counts(q) \in [1 .. N -> Nat] /\ Sums(BytesBefore(q), Counts(q), N) BY <1>3, BytesBeforeIs
<1>5. PICK n : n = BytesBefore(q) OBVIOUS
<1>6. \A i, j \in 0 .. N : i <= j => n[i] <= n[j] BY <1>4, <1>5, SumsGrow
<1>7. n[k] <= n[N] BY <1>3, <1>6
<1> QED BY <1>1, <1>2, <1>3, <1>5, <1>7 DEF Size

\* What SendSome does.
Written(e, n, z, a, b) ==
    /\ client[e].pc = "send" /\ client[e].sendq # <<>> /\ client[e].stage = "open"
    /\ n > 0 /\ SplitParts(client[e].sendq, n, a, b)
    /\ z = [client[e] EXCEPT !.sendq = b]
    /\ z.sendq = b /\ z.recvp = client[e].recvp /\ z.recvq = client[e].recvq
    /\ client' = [client EXCEPT ![e] = z]
    /\ free' = [free EXCEPT ![e] = Recycled(e, z, held[e])]
    /\ eof[e] => pipe' = pipe /\ epoll' = epoll
    /\ ~eof[e] => /\ pipe' = [pipe EXCEPT ![Peer(e)] = pipe[Peer(e)] \o BytesOf(mem[e], a)]
                  /\ epoll' = Edge(epoll, Peer(e), "r")

LEMMA SendSomeIs ==
    ASSUME MemInv, NEW e \in Ends, SendSome(e)
    PROVE  \E n \in Nat, z \in Clients, a \in Seq(Slices), b \in Seq(Slices) : Written(e, n, z, a, b)
<1>1. client[e] \in Clients BY OwnFacts
<1>2. PICK q \in Seq(Slices) : q = client[e].sendq BY <1>1, ClientFacts
<1>3. PICK l \in 0 .. Len(q) : l = Least(SENDIOV_SIZE, Len(q)) BY SocketAssumption DEF Least
<1>4. PICK most : most = Size(SubSeq(q, 1, l)) OBVIOUS
<1>5. most \in Nat /\ Size(q) \in Nat /\ most <= Size(q)
  <2>1. SubSeq(q, 1, l) \in Seq(Slices) BY CellsBefore
  <2> QED BY <1>4, <2>1, CellsType, SizeOfFront
<1>6. PICK room : room = IF eof[e] THEN most ELSE Least(most, Capacity - Len(pipe[Peer(e)])) OBVIOUS
<1>7. room \in Int /\ room <= most
  <2>1. pipe[Peer(e)] \in Seq(Nat) BY PeerFacts, OwnFacts
  <2>2. Capacity - Len(pipe[Peer(e)]) \in Int BY <2>1, SocketAssumption
  <2> QED BY <1>5, <1>6, <2>2 DEF Least
<1>8. PICK n \in 1 .. room :
        LET s == Split(q, n)
            c == [client[e] EXCEPT !.sendq = s.left]
        IN  /\ client' = [client EXCEPT ![e] = c]
            /\ free' = [free EXCEPT ![e] = Recycled(e, c, held[e])]
            /\ IF eof[e]
               THEN UNCHANGED <<pipe, epoll>>
               ELSE /\ pipe' = [pipe EXCEPT ![Peer(e)] = pipe[Peer(e)] \o BytesOf(mem[e], s.taken)]
                    /\ epoll' = Edge(epoll, Peer(e), "r")
  BY <1>2, <1>3, <1>4, <1>6, Zenon DEF SendSome
<1>9. n \in Nat /\ n > 0 /\ n <= Size(q) BY <1>5, <1>7
<1>10. PICK s : s = Split(q, n) OBVIOUS
<1>11. PICK a : a = s.taken OBVIOUS
<1>12. PICK b : b = s.left OBVIOUS
<1>13. SplitParts(q, n, a, b) BY <1>9, <1>10, <1>11, <1>12, SplitCells
<1>14. a \in Seq(Slices) /\ b \in Seq(Slices) BY <1>13 DEF SplitParts
<1>15. PICK z : z = [client[e] EXCEPT !.sendq = b] OBVIOUS
<1>16. z \in Clients /\ z.sendq = b /\ z.recvp = client[e].recvp /\ z.recvq = client[e].recvq
  BY <1>1, <1>14, <1>15 DEF Clients
<1>17. /\ client' = [client EXCEPT ![e] = z]
       /\ free' = [free EXCEPT ![e] = Recycled(e, z, held[e])]
  BY <1>8, <1>10, <1>12, <1>15, Zenon
<1>18. eof[e] => pipe' = pipe /\ epoll' = epoll BY <1>8
<1>19. ~eof[e] => /\ pipe' = [pipe EXCEPT ![Peer(e)] = pipe[Peer(e)] \o BytesOf(mem[e], a)]
                  /\ epoll' = Edge(epoll, Peer(e), "r")
  BY <1>8, <1>10, <1>11, Zenon
<1>20. client[e].pc = "send" /\ client[e].sendq # <<>> /\ client[e].stage = "open" BY DEF SendSome, Sending
<1>21. SplitParts(client[e].sendq, n, a, b) BY <1>2, <1>13
<1>22. Written(e, n, z, a, b) BY <1>9, <1>15, <1>16, <1>17, <1>18, <1>19, <1>20, <1>21 DEF Written
<1> QED BY <1>9, <1>14, <1>16, <1>22

LEMMA MemSendSome ==
    ASSUME MemInv, NEW e \in Ends, SendSome(e) PROVE MemInv'
<1>1. client[e] \in Clients /\ held[e] \in Seq(Kept) /\ Own(client[e], held[e], free[e]) /\ mem[e] \in Memories
  BY OwnFacts
<1>2. PICK n \in Nat, z \in Clients, a \in Seq(Slices), b \in Seq(Slices) : Written(e, n, z, a, b)
  BY SendSomeIs
<1>3. PICK o \in Clients : o = client[e] BY <1>1
<1>4. PICK h \in Seq(Kept) : h = held[e] BY <1>1
<1>5. /\ z.sendq = b /\ z.recvp = o.recvp /\ z.recvq = o.recvq
      /\ SplitParts(o.sendq, n, a, b)
  BY <1>2, <1>3 DEF Written
<1>6. NotIn(o.recvp, o, h) /\ Len(o.recvp) <= RECVP_SIZE /\ DistinctCells(o.recvp)
  BY <1>1, <1>3, <1>4 DEF Own
<1>7. NotIn(z.recvp, z, h)
  <2>0. \A x \in CellSet(o.recvp) : x \notin CellSet(o.sendq) BY <1>6 DEF NotIn
  <2>1. CellSet(o.recvp) \cap CellSet(b) = {} BY <1>5, <2>0 DEF SplitParts
  <2> QED BY <1>5, <1>6, <2>1, Zenon DEF NotIn
<1>8. ASSUME NEW x \in Referenced(z, h) PROVE x \in Referenced(o, h)
  <2>1. PICK R : R = Referenced(o, h) OBVIOUS
  <2>2. PICK RR : RR = Referenced(z, h) OBVIOUS
  <2>3. \A y : y \in R <=> \/ y \in ChunksIn(o.sendq) \/ y \in ChunksIn(o.recvp)
                           \/ y \in ChunksIn(o.recvq)
                           \/ \E i \in 1 .. Len(h) : y \in ChunksIn(h[i].data)
    BY <2>1, ReferencedIs
  <2>4. \A y : y \in RR <=> \/ y \in ChunksIn(z.sendq) \/ y \in ChunksIn(z.recvp)
                            \/ y \in ChunksIn(z.recvq)
                            \/ \E i \in 1 .. Len(h) : y \in ChunksIn(h[i].data)
    BY <2>2, ReferencedIs
  <2>5. x \in RR BY <2>2
  <2>6. x \in ChunksIn(b) => x \in ChunksIn(o.sendq) BY <1>5 DEF SplitParts
  <2> QED BY <1>5, <2>1, <2>3, <2>4, <2>5, <2>6, Zenon
<1>9. RestOK'
  <2>1. PICK p \in Ends : p = Peer(e) BY PeerFacts
  <2>2. pipe' \in [Ends -> Seq(Nat)]
    <3>0. pipe \in [Ends -> Seq(Nat)] BY DEF MemInv, RestOK
    <3>1. PICK bs \in Seq(Nat) : bs = BytesOf(mem[e], a) BY <1>1, BytesOfFacts
    <3>2. pipe[p] \o bs \in Seq(Nat) BY <3>0
    <3>3. CASE eof[e] BY <1>2, <3>0, <3>3 DEF Written
    <3>4. CASE ~eof[e]
      <4>1. pipe' = [pipe EXCEPT ![p] = pipe[p] \o bs] BY <1>2, <2>1, <3>1, <3>4 DEF Written
      <4> QED BY <3>0, <3>2, <4>1
    <3> QED BY <3>3, <3>4
  <2>3. epoll' \in [Ends -> Entries]
    <3>1. CASE eof[e] BY <1>2, <3>1 DEF Written, MemInv, RestOK
    <3>2. CASE ~eof[e]
      <4>1. epoll' = Edge(epoll, p, "r") BY <1>2, <2>1, <3>2 DEF Written
      <4>2. Edge(epoll, p, "r") \in [Ends -> Entries] BY EdgeType, Zenon
      <4> QED BY <4>1, <4>2
    <3> QED BY <3>1, <3>2
  <2> QED BY <2>2, <2>3 DEF SendSome, MemInv, RestOK, history
<1>10. held' = [held EXCEPT ![e] = held[e]] BY DEF SendSome, MemInv
<1>11. client' = [client EXCEPT ![e] = z] /\ free' = [free EXCEPT ![e] = Recycled(e, z, held[e])]
  BY <1>2 DEF Written
<1>12. \A x \in Referenced(z, held[e]) : x \in Referenced(client[e], held[e]) BY <1>3, <1>4, <1>8
<1>13. Len(z.recvp) <= RECVP_SIZE /\ DistinctCells(z.recvp) /\ NotIn(z.recvp, z, held[e])
  BY <1>4, <1>5, <1>6, <1>7
<1> QED BY <1>1, <1>9, <1>10, <1>11, <1>12, <1>13, MemShrinks

\* recvp_ topped up: room that is nobody else's.
Room(e, rv, g) ==
    /\ rv \in Seq(Slices) /\ Len(rv) = RECVP_SIZE /\ DistinctCells(rv)
    /\ NotIn(rv, client[e], held[e])
    /\ Pool(g, Referenced(client[e], held[e]) \cup ChunksIn(rv))
    /\ Size(rv) > 0

LEMMA SizePositive ==
    ASSUME NEW q \in Seq(Slices), Len(q) > 0 PROVE Size(q) > 0
<1>1. PICK N \in Nat : N = Len(q) OBVIOUS
<1>2. Counts(q) \in [1 .. N -> Nat] /\ Sums(BytesBefore(q), Counts(q), N) BY <1>1, BytesBeforeIs
<1>3. \A i \in 1 .. N : Counts(q)[i] > 0
  <2>1. ASSUME NEW i \in 1 .. N PROVE Counts(q)[i] > 0
    <3>1. q[i] \in Slices BY <1>1
    <3>2. q[i].count > 0 BY <3>1, SliceFacts
    <3> QED BY <1>1, <3>2 DEF Counts
  <2> QED BY <2>1
<1>4. PICK n : n = BytesBefore(q) OBVIOUS
<1>5. \A i, j \in 0 .. N : i < j => n[i] < n[j] BY <1>2, <1>3, <1>4, SumsGrow
<1>6. n[0] = 0 BY <1>2, <1>4 DEF Sums
<1>7. n[0] < n[N] BY <1>1, <1>5
<1> QED BY <1>1, <1>4, <1>6, <1>7 DEF Size

LEMMA ReceiversFacts ==
    ASSUME MemInv, NEW e \in Ends, Reading(e), NEW rv, rv = Receivers(e),
           NEW g, g = FreeAfterAquire(e, RECVP_SIZE - Len(client[e].recvp))
    PROVE  Room(e, rv, g)
<1>1. client[e] \in Clients /\ held[e] \in Seq(Kept) /\ Own(client[e], held[e], free[e]) BY OwnFacts
<1>2. PICK o \in Clients : o = client[e] BY <1>1
<1>3. PICK h \in Seq(Kept) : h = held[e] BY <1>1
<1>4. PICK p \in Seq(Slices) : p = o.recvp BY ClientFacts
<1>5. Len(p) <= RECVP_SIZE /\ DistinctCells(p) /\ NotIn(p, o, h) BY <1>1, <1>2, <1>3, <1>4 DEF Own
<1>6. PICK n \in Nat : n = RECVP_SIZE - Len(p) BY <1>5, SocketAssumption
<1>7. PICK R \in SUBSET Chunks : R = Referenced(client[e], held[e]) BY OwnFacts
<1>8. Pool(free[e], R) BY <1>1, <1>7 DEF Own
<1>9. Supplied(e, n) BY <1>2, <1>4, <1>6 DEF Reading
<1>10. PICK a : a = Aquired(e, n) OBVIOUS
<1>11. g = FreeAfterAquire(e, n) BY <1>2, <1>4, <1>6
<1>12. /\ a \in Seq(Slices) /\ Len(a) = n /\ DistinctCells(a)
       /\ ChunksIn(a) \cap R = {} /\ Pool(g, R \cup ChunksIn(a))
  <2>1. Supply(n, R, a, g) BY <1>7, <1>8, <1>9, <1>10, <1>11, AquiredFacts
  <2> QED BY <2>1 DEF Supply
<1>13. rv = p \o a BY <1>2, <1>4, <1>6, <1>10 DEF Receivers
<1>14. rv \in Seq(Slices) /\ Cells(rv) = Cells(p) \o Cells(a)
  BY <1>12, <1>13, CellsConcat
<1>15. Len(rv) = RECVP_SIZE
  <2>1. Len(p \o a) = Len(p) + Len(a) BY <1>12, SMTT(30)
  <2> QED BY <1>6, <1>12, <1>13, <2>1, SocketAssumption
<1>16. NotIn(a, o, h) /\ CellSet(a) \cap CellSet(p) = {}
  BY <1>2, <1>3, <1>4, <1>7, <1>12, FreshCells
<1>17. CellSet(rv) = CellSet(p) \cup CellSet(a) BY <1>12, <1>14, CellSetConcat, Zenon
<1>18. CellSet(p) \cap CellSet(a) = {} BY <1>16
<1>19. DistinctCells(rv) BY <1>5, <1>12, <1>14, <1>18, CellSetConcat, Zenon
<1>20. NotIn(rv, o, h)
  <2>1. CellSet(rv) \cap CellSet(o.recvq) = {} /\ CellSet(rv) \cap CellSet(o.sendq) = {}
    BY <1>5, <1>16, <1>17 DEF NotIn
  <2>2. ASSUME NEW i \in 1 .. Len(h) PROVE CellSet(rv) \cap CellSet(h[i].data) = {}
    <3>1. CellSet(p) \cap CellSet(h[i].data) = {} /\ CellSet(a) \cap CellSet(h[i].data) = {}
      BY <1>5, <1>16, Zenon DEF NotIn
    <3> QED BY <1>17, <3>1
  <2> QED BY <2>1, <2>2 DEF NotIn
<1>21. Pool(g, R \cup ChunksIn(rv))
  <2>1. ChunksIn(rv) = ChunksIn(p) \cup ChunksIn(a) BY <1>12, <1>13, ChunksInConcat, Zenon
  <2>2. \A x \in ChunksIn(p) : x \in R BY <1>1, <1>2, <1>3, <1>4, <1>7, ReferencedIs
  <2>3. PICK RR : RR = R \cup ChunksIn(a) OBVIOUS
  <2>4. \A x \in R \cup ChunksIn(rv) : x \in RR BY <2>1, <2>2, <2>3
  <2> QED BY <1>12, <2>3, <2>4, PoolOfLess
<1>22. Size(rv) > 0 BY <1>14, <1>15, SizePositive, SocketAssumption
<1> QED BY <1>2, <1>3, <1>7, <1>14, <1>15, <1>19, <1>20, <1>21, <1>22 DEF Room

\* The references move around inside the room and the receive queue.
LEMMA OwnAfterRead ==
    ASSUME MemInv, NEW e \in Ends, NEW rv, NEW g, Room(e, rv, g), NEW c \in Clients,
           c.sendq = client[e].sendq, NEW a \in Seq(Slices), NEW b \in Seq(Slices), NEW n,
           SplitParts(rv, n, a, b), c.recvp = b, c.recvq = client[e].recvq \o a
    PROVE  Own(c, held[e], g)
<1>1. client[e] \in Clients /\ held[e] \in Seq(Kept) BY OwnFacts
<1>2. PICK o \in Clients : o = client[e] BY <1>1
<1>3. PICK h \in Seq(Kept) : h = held[e] BY <1>1
<1>4. PICK q \in Seq(Slices) : q = o.recvq BY ClientFacts
<1>5. PICK qq : qq = q \o a OBVIOUS
<1>6. qq \in Seq(Slices) /\ Cells(qq) = Cells(q) \o Cells(a) BY <1>5, CellsConcat
<1>7. CellSet(qq) = CellSet(q) \cup CellSet(a) BY <1>6, CellSetConcat, ZenonT(90)
<1>8. ChunksIn(qq) = ChunksIn(q) \cup ChunksIn(a) BY <1>5, ChunksInConcat, Zenon
<1>9. c.recvq = qq /\ c.recvp = b /\ c.sendq = o.sendq BY <1>2, <1>4, <1>5, Zenon
<1>10. /\ rv \in Seq(Slices) /\ Len(rv) = RECVP_SIZE /\ DistinctCells(rv) /\ NotIn(rv, o, h)
       /\ Pool(g, Referenced(o, h) \cup ChunksIn(rv))
  BY <1>2, <1>3 DEF Room
<1>11. /\ Len(b) <= RECVP_SIZE /\ DistinctCells(b) /\ CellSet(a) \cap CellSet(b) = {}
       /\ \A x : x \in CellSet(b) => x \in CellSet(rv)
       /\ \A x : x \in ChunksIn(a) \/ x \in ChunksIn(b) => x \in ChunksIn(rv)
  BY <1>10 DEF SplitParts
<1>12. NotIn(b, c, h)
  <2>1. CellSet(b) \cap CellSet(o.sendq) = {} /\ CellSet(b) \cap CellSet(q) = {}
    BY <1>4, <1>10, <1>11 DEF NotIn
  <2>2. CellSet(b) \cap CellSet(qq) = {} BY <1>7, <1>11, <2>1
  <2>3. ASSUME NEW i \in 1 .. Len(h) PROVE CellSet(b) \cap CellSet(h[i].data) = {}
    <3>1. CellSet(rv) \cap CellSet(h[i].data) = {} BY <1>10, Zenon DEF NotIn
    <3> QED BY <1>11, <3>1
  <2> QED BY <1>9, <2>1, <2>2, <2>3, Zenon DEF NotIn
<1>13. ASSUME NEW x \in Referenced(c, h) PROVE x \in Referenced(o, h) \cup ChunksIn(rv)
  <2>1. Refers(c, h, x) BY RefersIs
  <2>a. \/ x \in ChunksIn(c.sendq) \/ x \in ChunksIn(c.recvp) \/ x \in ChunksIn(c.recvq)
        \/ \E i \in 1 .. Len(h) : x \in ChunksIn(h[i].data)
    BY <2>1, Zenon DEF Refers
  <2>5. \/ x \in ChunksIn(o.sendq) \/ x \in ChunksIn(b) \/ x \in ChunksIn(qq)
        \/ \E i \in 1 .. Len(h) : x \in ChunksIn(h[i].data)
    BY <1>9, <2>a, Zenon
  <2>6. x \in ChunksIn(qq) => x \in ChunksIn(o.recvq) \/ x \in ChunksIn(a) BY <1>4, <1>8
  <2>7. Refers(o, h, x) \/ x \in ChunksIn(rv) BY <1>11, <2>5, <2>6, Zenon DEF Refers
  <2>8. x \in Referenced(o, h) \/ x \in ChunksIn(rv) BY <2>7, RefersIs
  <2> QED BY <2>8
<1>14. Pool(g, Referenced(c, h)) BY <1>10, <1>13, PoolOfLess
<1> QED BY <1>3, <1>9, <1>11, <1>12, <1>14 DEF Own

\* What ReadSome does.
Taken(e, n, z, a, b, rv, g) ==
    /\ client[e].pc = "read" /\ client[e].connect /\ client[e].stage = "open"
    /\ Room(e, rv, g)
    /\ n > 0 /\ n <= Len(pipe[e]) /\ n <= Size(rv) /\ SplitParts(rv, n, a, b)
    /\ z = [client[e] EXCEPT !.recvp = b, !.recvq = client[e].recvq \o a, !.pc = "receive"]
    /\ z.sendq = client[e].sendq /\ z.recvp = b /\ z.recvq = client[e].recvq \o a
    /\ client' = [client EXCEPT ![e] = z]
    /\ free' = [free EXCEPT ![e] = g]
    /\ pipe' = [pipe EXCEPT ![e] = SubSeq(pipe[e], n + 1, Len(pipe[e]))]
    /\ mem' = [mem EXCEPT ![e] = Fill(mem[e], rv, SubSeq(pipe[e], 1, n))]
    /\ epoll' = Edge(epoll, Peer(e), "w")

LEMMA ReadSomeIs ==
    ASSUME MemInv, NEW e \in Ends, ReadSome(e)
    PROVE  \E n \in Nat, z \in Clients, a \in Seq(Slices), b \in Seq(Slices), rv \in Seq(Slices),
              g \in Seq(Chunks) : Taken(e, n, z, a, b, rv, g)
<1>1. client[e] \in Clients /\ pipe[e] \in Seq(Nat) BY OwnFacts
<1>2. Reading(e) BY DEF ReadSome
<1>3. PICK rv : rv = Receivers(e) OBVIOUS
<1>4. PICK g : g = FreeAfterAquire(e, RECVP_SIZE - Len(client[e].recvp)) OBVIOUS
<1>5. Room(e, rv, g) BY <1>2, <1>3, <1>4, ReceiversFacts
<1>6. rv \in Seq(Slices) /\ g \in Seq(Chunks) /\ Size(rv) > 0 BY <1>5 DEF Room, Pool
<1>7. Size(rv) \in Nat BY <1>6, CellsType
<1>8. pipe[e] # <<>> BY DEF ReadSome
<1>9. Len(pipe[e]) \in Nat /\ Len(pipe[e]) > 0 BY <1>1, <1>8
<1>10. PICK n : n = Least(Len(pipe[e]), Size(rv)) OBVIOUS
<1>11. n \in Nat /\ n > 0 /\ n <= Len(pipe[e]) /\ n <= Size(rv) BY <1>6, <1>7, <1>9, <1>10 DEF Least
<1>12. PICK s : s = Split(rv, n) OBVIOUS
<1>13. PICK a : a = s.taken OBVIOUS
<1>14. PICK b : b = s.left OBVIOUS
<1>15. SplitParts(rv, n, a, b) BY <1>6, <1>11, <1>12, <1>13, <1>14, SplitCells
<1>16. a \in Seq(Slices) /\ b \in Seq(Slices) BY <1>15 DEF SplitParts
<1>17. PICK qq : qq = client[e].recvq \o a OBVIOUS
<1>18. qq \in Seq(Slices)
  <2>1. client[e].recvq \in Seq(Slices) BY <1>1, ClientFacts
  <2> QED BY <1>16, <1>17, <2>1, CellsConcat
<1>19. PICK z : z = [client[e] EXCEPT !.recvp = b, !.recvq = qq, !.pc = "receive"] OBVIOUS
<1>20. z \in Clients /\ z.sendq = client[e].sendq /\ z.recvp = b /\ z.recvq = qq
  BY <1>1, <1>16, <1>18, <1>19 DEF Clients
<1>21. /\ client' = [client EXCEPT ![e].recvp = b, ![e].recvq = @ \o a, ![e].pc = "receive"]
       /\ pipe' = [pipe EXCEPT ![e] = SubSeq(pipe[e], n + 1, Len(pipe[e]))]
       /\ mem' = [mem EXCEPT ![e] = Fill(mem[e], rv, SubSeq(pipe[e], 1, n))]
       /\ epoll' = Edge(epoll, Peer(e), "w")
  BY <1>3, <1>10, <1>12, <1>13, <1>14, Zenon DEF ReadSome
<1>22. client' = [client EXCEPT ![e] = z]
  <2>1. client' = [client EXCEPT ![e].recvp = b, ![e].recvq = qq, ![e].pc = "receive"] BY <1>17, <1>21, Zenon
  <2> QED BY <1>19, <2>1 DEF MemInv
<1>23. free' = [free EXCEPT ![e] = g] BY <1>4 DEF ReadSome, Reading
<1>24. client[e].pc = "read" /\ client[e].connect /\ client[e].stage = "open" BY <1>2 DEF Reading
<1>25. Taken(e, n, z, a, b, rv, g)
  <2>1. /\ z = [client[e] EXCEPT !.recvp = b, !.recvq = client[e].recvq \o a, !.pc = "receive"]
        /\ z.recvq = client[e].recvq \o a
    BY <1>17, <1>19, <1>20, Zenon
  <2> QED BY <1>5, <1>11, <1>15, <1>20, <1>21, <1>22, <1>23, <1>24, <2>1, Zenon DEF Taken
<1> QED BY <1>6, <1>11, <1>16, <1>20, <1>25

LEMMA MemReadSome ==
    ASSUME MemInv, NEW e \in Ends, ReadSome(e) PROVE MemInv'
<1>1. client[e] \in Clients /\ pipe[e] \in Seq(Nat) /\ mem[e] \in Memories /\ held[e] \in Seq(Kept) BY OwnFacts
<1>2. PICK n \in Nat, z \in Clients, a \in Seq(Slices), b \in Seq(Slices), rv \in Seq(Slices),
           g \in Seq(Chunks) : Taken(e, n, z, a, b, rv, g)
  BY ReadSomeIs
<1>3. Own(z, held[e], g) BY <1>2, OwnAfterRead DEF Taken
<1>4. PICK bs : bs = SubSeq(pipe[e], 1, n) OBVIOUS
<1>5. n <= Len(pipe[e]) /\ n <= Size(rv) /\ DistinctCells(rv) BY <1>2 DEF Taken, Room
<1>6. bs \in Seq(Nat) /\ Len(bs) = n BY <1>1, <1>4, <1>5
<1>7. Len(bs) <= Len(Cells(rv)) BY <1>5, <1>6, CellsType
<1>8. PICK m \in Memories : m = mem[e] BY <1>1
<1>9. PICK mm : mm = Fill(m, rv, bs) OBVIOUS
<1>10. mm \in Memories BY <1>5, <1>6, <1>7, <1>9, FillFacts
<1>11. mem' = [mem EXCEPT ![e] = mm] BY <1>2, <1>4, <1>8, <1>9, Zenon DEF Taken
<1>12. SubSeq(pipe[e], n + 1, Len(pipe[e])) \in Seq(Nat) BY <1>1, <1>5
<1>13. PICK p \in Ends : p = Peer(e) BY PeerFacts
<1>14. Edge(epoll, p, "w") \in [Ends -> Entries] BY EdgeType, Zenon
<1>15. epoll' \in [Ends -> Entries] BY <1>2, <1>13, <1>14 DEF Taken
<1>16. RestOK'
  <2>1. mem' \in [Ends -> Memories] BY <1>10, <1>11 DEF MemInv, RestOK
  <2>2. pipe' \in [Ends -> Seq(Nat)] BY <1>2, <1>12 DEF Taken, MemInv, RestOK
  <2> QED BY <1>15, <2>1, <2>2 DEF ReadSome, MemInv, RestOK, history
<1>17. held' = [held EXCEPT ![e] = held[e]] BY DEF ReadSome, MemInv
<1>18. client' = [client EXCEPT ![e] = z] /\ free' = [free EXCEPT ![e] = g] BY <1>2 DEF Taken
<1> QED BY <1>1, <1>3, <1>16, <1>17, <1>18, MemStep

\* readv got nothing: recvp_ keeps what was added to it.
LEMMA OwnAfterTopUp ==
    ASSUME MemInv, NEW e \in Ends, NEW rv, NEW g, Room(e, rv, g), NEW c \in Clients,
           c.sendq = client[e].sendq, c.recvp = rv, c.recvq = client[e].recvq
    PROVE  Own(c, held[e], g)
<1>1. client[e] \in Clients /\ held[e] \in Seq(Kept) BY OwnFacts
<1>2. PICK o \in Clients : o = client[e] BY <1>1
<1>3. PICK h \in Seq(Kept) : h = held[e] BY <1>1
<1>10. /\ rv \in Seq(Slices) /\ Len(rv) = RECVP_SIZE /\ DistinctCells(rv) /\ NotIn(rv, o, h)
       /\ Pool(g, Referenced(o, h) \cup ChunksIn(rv))
  BY <1>2, <1>3 DEF Room
<1>11. NotIn(c.recvp, c, h) BY <1>2, <1>10, Zenon DEF NotIn
<1>12. ASSUME NEW x \in Referenced(c, h) PROVE x \in Referenced(o, h) \cup ChunksIn(rv)
  <2>1. Refers(c, h, x) BY RefersIs
  <2>2. Refers(o, h, x) \/ x \in ChunksIn(rv) BY <1>2, <2>1, Zenon DEF Refers
  <2>3. x \in Referenced(o, h) \/ x \in ChunksIn(rv) BY <2>2, RefersIs
  <2> QED BY <2>3
<1>13. Pool(g, Referenced(c, h)) BY <1>10, <1>12, PoolOfLess
<1>14. Len(c.recvp) <= RECVP_SIZE /\ DistinctCells(c.recvp) BY <1>10, SocketAssumption
<1> QED BY <1>3, <1>11, <1>13, <1>14 DEF Own

LEMMA MemReadNothing ==
    ASSUME MemInv, NEW e \in Ends, ReadNothing(e) PROVE MemInv'
<1>1. client[e] \in Clients /\ held[e] \in Seq(Kept) BY OwnFacts
<1>2. Reading(e) BY DEF ReadNothing
<1>3. PICK rv : rv = Receivers(e) OBVIOUS
<1>4. PICK g : g = FreeAfterAquire(e, RECVP_SIZE - Len(client[e].recvp)) OBVIOUS
<1>5. Room(e, rv, g) BY <1>2, <1>3, <1>4, ReceiversFacts
<1>6. rv \in Seq(Slices) /\ g \in Seq(Chunks) BY <1>5 DEF Room, Pool
<1>7. PICK pc \in {"wait", "write"} :
        pc = IF client[e].pc = "read" /\ client[e].writeable /\ client[e].stage = "open" THEN "write" ELSE "wait"
  OBVIOUS
<1>8. PICK z : z = [client[e] EXCEPT !.pc = pc, !.recvp = rv] OBVIOUS
<1>9. z \in Clients /\ z.sendq = client[e].sendq /\ z.recvp = rv /\ z.recvq = client[e].recvq
  BY <1>1, <1>6, <1>8 DEF Clients
<1>10. client' = [client EXCEPT ![e] = z] BY <1>3, <1>7, <1>8 DEF ReadNothing, ReadDone
<1>11. Own(z, held[e], g) BY <1>5, <1>9, OwnAfterTopUp
<1>12. free' = [free EXCEPT ![e] = g] BY <1>2, <1>4 DEF Reading
<1>13. held' = [held EXCEPT ![e] = held[e]] BY DEF ReadNothing, MemInv
<1>14. RestOK' BY DEF ReadNothing, MemInv, RestOK, kernel, history
<1> QED BY <1>1, <1>6, <1>9, <1>10, <1>11, <1>12, <1>13, <1>14, MemStep

LEMMA MemReadEnd ==
    ASSUME MemInv, NEW e \in Ends, ReadEnd(e) PROVE MemInv'
<1>1. client[e] \in Clients /\ held[e] \in Seq(Kept) BY OwnFacts
<1>2. Reading(e) BY DEF ReadEnd
<1>3. PICK rv : rv = Receivers(e) OBVIOUS
<1>4. PICK g : g = FreeAfterAquire(e, RECVP_SIZE - Len(client[e].recvp)) OBVIOUS
<1>5. Room(e, rv, g) BY <1>2, <1>3, <1>4, ReceiversFacts
<1>6. rv \in Seq(Slices) /\ g \in Seq(Chunks) BY <1>5 DEF Room, Pool
<1>7. PICK c : c = [client[e] EXCEPT !.pc = "wait", !.recvp = rv] OBVIOUS
<1>8. c \in Clients /\ c.sendq = client[e].sendq /\ c.recvp = rv /\ c.recvq = client[e].recvq
  BY <1>1, <1>6, <1>7 DEF Clients
<1>9. Shut(e, c) BY <1>3, <1>7 DEF ReadEnd
<1>10. PICK z : z = [c EXCEPT !.stage = "closed"] OBVIOUS
<1>11. z \in Clients /\ z.sendq = client[e].sendq /\ z.recvp = rv /\ z.recvq = client[e].recvq
  BY <1>8, <1>10, ShutClient
<1>12. client' = [client EXCEPT ![e] = z] BY <1>9, <1>10 DEF Shut
<1>13. RestOK' BY <1>9, ShutRest DEF ReadEnd, history
<1>14. Own(z, held[e], g) BY <1>5, <1>11, OwnAfterTopUp
<1>15. free' = [free EXCEPT ![e] = g] BY <1>2, <1>4 DEF Reading
<1>16. held' = [held EXCEPT ![e] = held[e]] BY DEF ReadEnd, MemInv
<1> QED BY <1>1, <1>6, <1>11, <1>12, <1>13, <1>14, <1>15, <1>16, MemStep

\* Enough chunks for a packet.
LEMMA EnoughChunks ==
    ASSUME NEW l \in Nat, NEW C \in Nat, C > 0, NEW n, n = (l + C - 1) \div C
    PROVE  n \in Nat /\ l <= n * C
<1>1. PICK a \in Nat : a = l + C - 1 OBVIOUS
<1>2. n = a \div C BY <1>1
<1>3. n \in Nat BY <1>2
<1>4. a < n * C + C BY <1>2, <1>3
<1>5. PICK t \in Nat : t = n * C BY <1>3
<1> QED BY <1>1, <1>3, <1>4, <1>5

\* What PushSend does.
Pushed(e, k, z, ck, g, mm) ==
    /\ k = sent[e] + 1 /\ k \in 1 .. Len(lengths[e])
    /\ client[e].pc \in {"wait", "handle", "connected"} /\ client[e].connect
    /\ DistinctCells(ck) /\ Len(Cells(ck)) = lengths[e][k]
    /\ \A x \in ChunksIn(ck) : x \notin Referenced(client[e], held[e])
    /\ Pool(g, Referenced(client[e], held[e]) \cup ChunksIn(ck))
    /\ mm = Fill(mem[e], ck, PacketBytes(e, k))
    /\ z = [client[e] EXCEPT !.sendq = client[e].sendq \o ck, !.ret = client[e].pc, !.pc = "send"]
    /\ z.sendq = client[e].sendq \o ck /\ z.recvp = client[e].recvp /\ z.recvq = client[e].recvq
    /\ client' = [client EXCEPT ![e] = z]
    /\ free' = [free EXCEPT ![e] = g]
    /\ mem' = [mem EXCEPT ![e] = mm]
    /\ sent' = [sent EXCEPT ![e] = k]

LEMMA PushSendIs ==
    ASSUME MemInv, NEW e \in Ends, PushSend(e)
    PROVE  \E k \in Nat, z \in Clients, ck \in Seq(Slices), g \in Seq(Chunks), mm \in Memories :
              Pushed(e, k, z, ck, g, mm)
<1>1. /\ client[e] \in Clients /\ held[e] \in Seq(Kept) /\ Own(client[e], held[e], free[e])
      /\ mem[e] \in Memories /\ sent[e] \in Nat /\ lengths[e] \in Seq(Nat)
  BY OwnFacts
<1>2. PICK k \in Nat : k = sent[e] + 1 BY <1>1
<1>3. k \in DOMAIN lengths[e] BY <1>2 DEF PushSend
<1>4. k \in 1 .. Len(lengths[e]) BY <1>1, <1>3
<1>5. PICK l \in Nat : l = lengths[e][k] BY <1>1, <1>4
<1>6. PICK C \in Nat : C = ChunkSize /\ C > 0 BY SocketAssumption
<1>7. PICK n : n = (l + C - 1) \div C OBVIOUS
<1>8. n \in Nat /\ l <= n * C BY <1>6, <1>7, EnoughChunks
<1>9. n = (lengths[e][sent[e] + 1] + ChunkSize - 1) \div ChunkSize BY <1>2, <1>5, <1>6, <1>7
<1>10. Supplied(e, n) BY <1>9 DEF PushSend
<1>11. PICK R \in SUBSET Chunks : R = Referenced(client[e], held[e]) BY OwnFacts
<1>12. Pool(free[e], R) BY <1>1, <1>11 DEF Own
<1>13. PICK w : w = Aquired(e, n) OBVIOUS
<1>14. PICK g : g = FreeAfterAquire(e, n) OBVIOUS
<1>15. Supply(n, R, w, g) BY <1>8, <1>10, <1>11, <1>12, <1>13, <1>14, AquiredFacts
<1>16. /\ w \in Seq(Slices) /\ Size(w) = n * C /\ DistinctCells(w) /\ ChunksIn(w) \cap R = {}
       /\ Pool(g, R \cup ChunksIn(w))
  BY <1>6, <1>15 DEF Supply
<1>17. PICK s : s = Split(w, l) OBVIOUS
<1>18. PICK ck : ck = s.taken OBVIOUS
<1>19. l <= Size(w) BY <1>8, <1>16
<1>20. SplitParts(w, l, ck, s.left) BY <1>16, <1>17, <1>18, <1>19, SplitCells
<1>21. /\ ck \in Seq(Slices) /\ DistinctCells(ck) /\ Len(Cells(ck)) = l
       /\ \A x \in ChunksIn(ck) : x \in ChunksIn(w)
  BY <1>16, <1>20 DEF SplitParts
<1>22. \A x \in ChunksIn(ck) : x \notin R BY <1>16, <1>21
<1>23. Pool(g, R \cup ChunksIn(ck))
  <2>1. \A x \in R \cup ChunksIn(ck) : x \in R \cup ChunksIn(w) BY <1>21
  <2>2. PICK RR : RR = R \cup ChunksIn(w) OBVIOUS
  <2>3. PICK RS : RS = R \cup ChunksIn(ck) OBVIOUS
  <2>4. Pool(g, RR) /\ \A x \in RS : x \in RR BY <1>16, <2>1, <2>2, <2>3
  <2>5. Pool(g, RS) BY <2>4, PoolOfLess
  <2> QED BY <2>3, <2>5
<1>24. PICK qq : qq = client[e].sendq \o ck OBVIOUS
<1>25. qq \in Seq(Slices)
  <2>1. client[e].sendq \in Seq(Slices) BY <1>1, ClientFacts
  <2> QED BY <1>21, <1>24, <2>1, CellsConcat
<1>26. PICK r \in {"wait", "handle", "connected"} : r = client[e].pc BY DEF PushSend
<1>27. PICK z : z = [client[e] EXCEPT !.sendq = qq, !.ret = r, !.pc = "send"] OBVIOUS
<1>28. z \in Clients /\ z.sendq = qq /\ z.recvp = client[e].recvp /\ z.recvq = client[e].recvq
  BY <1>1, <1>25, <1>27 DEF Clients
<1>29. PICK m \in Memories : m = mem[e] BY <1>1
<1>30. PICK bs : bs = PacketBytes(e, k) OBVIOUS
<1>31. bs \in Seq(Nat) /\ Len(bs) = l
  <2>1. lengths \in Workloads BY DEF MemInv, RestOK
  <2> QED BY <1>4, <1>5, <1>30, <2>1, PacketFacts
<1>32. PICK mm : mm = Fill(m, ck, bs) OBVIOUS
<1>33. mm \in Memories BY <1>21, <1>31, <1>32, FillFacts
<1>34. /\ ck = Split(Aquired(e, (lengths[e][sent[e] + 1] + ChunkSize - 1) \div ChunkSize), lengths[e][sent[e] + 1]).taken
       /\ mm = Fill(mem[e], ck, PacketBytes(e, sent[e] + 1))
       /\ k = sent[e] + 1
       /\ g = FreeAfterAquire(e, (lengths[e][sent[e] + 1] + ChunkSize - 1) \div ChunkSize)
  <2>1. ck = Split(Aquired(e, n), l).taken /\ lengths[e][sent[e] + 1] = l
    BY <1>2, <1>5, <1>13, <1>17, <1>18, Zenon
  <2>2. mm = Fill(mem[e], ck, PacketBytes(e, sent[e] + 1)) BY <1>2, <1>29, <1>30, <1>32, Zenon
  <2> QED BY <1>2, <1>9, <1>14, <2>1, <2>2, Zenon
<1>35. /\ sent' = [sent EXCEPT ![e] = k]
       /\ mem' = [mem EXCEPT ![e] = mm]
       /\ free' = [free EXCEPT ![e] = g]
       /\ client' = [client EXCEPT ![e].sendq = qq, ![e].ret = client[e].pc, ![e].pc = "send"]
  BY <1>24, <1>34, Zenon DEF PushSend
<1>36. client' = [client EXCEPT ![e] = z]
  <2>1. client' = [client EXCEPT ![e].sendq = qq, ![e].ret = r, ![e].pc = "send"] BY <1>26, <1>35, Zenon
  <2> QED BY <1>27, <2>1 DEF MemInv
<1>37. client[e].pc \in {"wait", "handle", "connected"} /\ client[e].connect BY DEF PushSend
<1>38. Pushed(e, k, z, ck, g, mm)
  <2>1. /\ z = [client[e] EXCEPT !.sendq = client[e].sendq \o ck, !.ret = client[e].pc, !.pc = "send"]
        /\ z.sendq = client[e].sendq \o ck
    BY <1>24, <1>26, <1>27, <1>28, Zenon
  <2>2. /\ \A x \in ChunksIn(ck) : x \notin Referenced(client[e], held[e])
        /\ Pool(g, Referenced(client[e], held[e]) \cup ChunksIn(ck))
    BY <1>11, <1>22, <1>23, Zenon
  <2>3. mm = Fill(mem[e], ck, PacketBytes(e, k)) /\ Len(Cells(ck)) = lengths[e][k]
    BY <1>5, <1>21, <1>29, <1>30, <1>32, Zenon
  <2> QED BY <1>2, <1>4, <1>21, <1>28, <1>35, <1>36, <1>37, <2>1, <2>2, <2>3, Zenon DEF Pushed
<1>39. g \in Seq(Chunks) BY <1>23 DEF Pool
<1> QED BY <1>21, <1>28, <1>33, <1>38, <1>39

LEMMA MemPushSend ==
    ASSUME MemInv, NEW e \in Ends, PushSend(e) PROVE MemInv'
<1>1. client[e] \in Clients /\ held[e] \in Seq(Kept) /\ Own(client[e], held[e], free[e]) BY OwnFacts
<1>2. PICK k \in Nat, z \in Clients, ck \in Seq(Slices), g \in Seq(Chunks), mm \in Memories :
        Pushed(e, k, z, ck, g, mm)
  BY PushSendIs
<1>3. PICK o \in Clients : o = client[e] BY <1>1
<1>4. PICK h \in Seq(Kept) : h = held[e] BY <1>1
<1>5. PICK q \in Seq(Slices) : q = o.sendq BY ClientFacts
<1>6. PICK qq : qq = q \o ck OBVIOUS
<1>7. qq \in Seq(Slices) /\ Cells(qq) = Cells(q) \o Cells(ck) BY <1>6, CellsConcat
<1>8. CellSet(qq) = CellSet(q) \cup CellSet(ck) BY <1>7, CellSetConcat, Zenon
<1>9. ChunksIn(qq) = ChunksIn(q) \cup ChunksIn(ck) BY <1>6, ChunksInConcat, Zenon
<1>10. /\ \A x \in ChunksIn(ck) : x \notin Referenced(o, h)
       /\ Pool(g, Referenced(o, h) \cup ChunksIn(ck))
       /\ z.sendq = qq /\ z.recvp = o.recvp /\ z.recvq = o.recvq
  BY <1>2, <1>3, <1>4, <1>5, <1>6, Zenon DEF Pushed
<1>11. NotIn(o.recvp, o, h) /\ Len(o.recvp) <= RECVP_SIZE /\ DistinctCells(o.recvp)
  BY <1>1, <1>3, <1>4 DEF Own
<1>12. CellSet(ck) \cap CellSet(o.recvp) = {}
  <2>1. ChunksIn(ck) \cap Referenced(o, h) = {} BY <1>10
  <2> QED BY <2>1, FreshCells
<1>13. NotIn(z.recvp, z, h)
  <2>1. CellSet(o.recvp) \cap CellSet(qq) = {} BY <1>5, <1>8, <1>11, <1>12 DEF NotIn
  <2> QED BY <1>10, <1>11, <2>1, Zenon DEF NotIn
<1>14. ASSUME NEW x \in Referenced(z, h) PROVE x \in Referenced(o, h) \cup ChunksIn(ck)
  <2>1. Refers(z, h, x) BY RefersIs
  <2>a. x \in ChunksIn(qq) => x \in ChunksIn(o.sendq) \/ x \in ChunksIn(ck) BY <1>5, <1>9
  <2>2. Refers(o, h, x) \/ x \in ChunksIn(ck) BY <1>10, <2>1, <2>a, Zenon DEF Refers
  <2>3. x \in Referenced(o, h) \/ x \in ChunksIn(ck) BY <2>2, RefersIs
  <2> QED BY <2>3
<1>15. Pool(g, Referenced(z, h)) BY <1>10, <1>14, PoolOfLess
<1>16. Own(z, held[e], g) BY <1>4, <1>10, <1>11, <1>13, <1>15 DEF Own
<1>17. RestOK'
  <2>1. mem' \in [Ends -> Memories] /\ sent' \in [Ends -> Nat] BY <1>2 DEF Pushed, MemInv, RestOK
  <2> QED BY <2>1 DEF PushSend, MemInv, RestOK, kernel
<1>18. held' = [held EXCEPT ![e] = held[e]] BY DEF PushSend, MemInv
<1>19. client' = [client EXCEPT ![e] = z] /\ free' = [free EXCEPT ![e] = g] BY <1>2 DEF Pushed
<1> QED BY <1>1, <1>16, <1>17, <1>18, <1>19, MemStep

LEMMA MemInit == Init => MemInv
<1> SUFFICES ASSUME Init PROVE MemInv OBVIOUS
<1>1. NewClient \in Clients /\ NewClient.sendq = <<>> /\ NewClient.recvp = <<>> /\ NewClient.recvq = <<>>
  BY DEF NewClient, Clients
<1>2. client \in [Ends -> Clients] /\ \A e \in Ends : client[e] = NewClient BY <1>1 DEF Init
<1>3. held \in [Ends -> Seq(Kept)] /\ \A e \in Ends : held[e] = <<>> BY DEF Init
<1>4. PICK f : f = Smallest(Chunks, PoolSize) OBVIOUS
<1>5. f \in Seq(Chunks) /\ Len(f) = PoolSize /\ Injective(f)
  <2>1. /\ Chunks \in SUBSET Nat /\ IsFiniteSet(Chunks) /\ PoolSize \in Nat
        /\ PoolSize <= Cardinality(Chunks)
    BY SocketAssumption
  <2> QED BY <1>4, <2>1, SmallestFacts
<1>6. free \in [Ends -> Seq(Chunks)] /\ \A e \in Ends : free[e] = f BY <1>4, <1>5 DEF Init
<1>7. PICK h \in Seq(Kept) : h = <<>>
  <2>1. <<>> \in Seq(Kept) OBVIOUS
  <2> QED BY <2>1
<1>8. PICK c \in Clients : c = NewClient BY <1>1
<1>9. CellSet(<<>>) = {} /\ DistinctCells(<<>>) /\ ChunksIn(<<>>) = {} BY EmptyQueue
<1>10. Own(c, h, f)
  <2>1. NotIn(c.recvp, c, h) BY <1>1, <1>7, <1>8, <1>9 DEF NotIn
  <2>2. Len(c.recvp) <= RECVP_SIZE BY <1>1, <1>8, SocketAssumption
  <2>3. \A x \in Referenced(c, h) : FALSE
    <3> SUFFICES ASSUME NEW x \in Referenced(c, h) PROVE FALSE OBVIOUS
    <3>1. Refers(c, h, x) BY RefersIs
    <3> QED BY <1>1, <1>7, <1>8, <1>9, <3>1 DEF Refers
  <2>4. Pool(f, Referenced(c, h)) BY <1>5, <2>3, SocketAssumption DEF Pool
  <2> QED BY <1>1, <1>8, <1>9, <2>1, <2>2, <2>4 DEF Own
<1>11. RestOK
  <2>1. mem \in [Ends -> Memories] BY DEF Init, Memories
  <2>2. epoll \in [Ends -> Entries] BY DEF Init, NotRegistered, Entries
  <2>3. pipe \in [Ends -> Seq(Nat)] /\ got \in [Ends -> Seq(Nat)] BY DEF Init
  <2> QED BY <2>1, <2>2, <2>3 DEF Init, RestOK
<1> QED BY <1>2, <1>3, <1>6, <1>7, <1>8, <1>10, <1>11 DEF MemInv

LEMMA MemNext == MemInv /\ [Next]_vars => MemInv'
<1> SUFFICES ASSUME MemInv, [Next]_vars PROVE MemInv' OBVIOUS
<1>1. CASE UNCHANGED vars
  <2>1. Opener \in Ends /\ client[Opener] \in Clients BY SocketAssumption, OwnFacts
  <2>2. client' = [client EXCEPT ![Opener] = client[Opener]] BY <1>1, <2>1 DEF vars, MemInv
  <2>3. RestOK' BY <1>1 DEF vars, MemInv, RestOK
  <2> QED BY <1>1, <2>1, <2>2, <2>3, MemQuiet DEF vars
<1>2. CASE Handshake BY <1>2, MemHandshake
<1>3. CASE \E e \in Ends :
             \/ Loop(e) \/ Connect(e) \/ Accept(e) \/ Close(e) \/ PushSend(e)
             \/ HandlerThrows(e) \/ ReleasePacket(e) \/ Reset(e)
  <2>1. PICK e \in Ends :
             \/ Loop(e) \/ Connect(e) \/ Accept(e) \/ Close(e) \/ PushSend(e)
             \/ HandlerThrows(e) \/ ReleasePacket(e) \/ Reset(e)
    BY <1>3
  <2>2. CASE Connect(e) \/ Accept(e) \/ Close(e) \/ PushSend(e)
             \/ HandlerThrows(e) \/ ReleasePacket(e) \/ Reset(e)
    BY <2>2, MemConnect, MemAccept, MemClose, MemPushSend, MemHandlerThrows, MemReleasePacket,
       MemReset, Zenon
  <2>3. CASE Poll(e) \/ Drain(e) \/ ReadStops(e) \/ ReadSome(e) \/ ReadNothing(e) \/ ReadEnd(e)
    BY <2>3, MemPoll, MemDrain, MemReadStops, MemReadSome, MemReadNothing, MemReadEnd, Zenon
  <2>4. CASE ReceivePacket(e) \/ ReceiveMore(e) \/ ReceiveBroken(e) \/ Handled(e)
    BY <2>4, MemReceivePacket, MemReceiveMore, MemReceiveBroken, MemHandled, Zenon
  <2>5. CASE SendDone(e) \/ SendSome(e) \/ SendBlocked(e) \/ SendFails(e)
             \/ ConnectCompleted(e) \/ Writeable(e)
    BY <2>5, MemSendDone, MemSendSome, MemSendBlocked, MemSendFails, MemConnectCompleted,
       MemWriteable, Zenon
  <2> QED BY <2>1, <2>2, <2>3, <2>4, <2>5, Zenon DEF Loop
<1> QED BY <1>1, <1>2, <1>3, Zenon DEF Next

LEMMA MemType == MemInv => TypeOK
<1> SUFFICES ASSUME MemInv PROVE TypeOK OBVIOUS
<1>1. Slices \subseteq Refs BY DEF Slices
<1>2. ASSUME NEW e \in Ends
      PROVE  client[e] \in
         [stage : {"new", "open", "closed", "gone"},
          connect : BOOLEAN, pending : BOOLEAN,
          pc : {"wait", "read", "receive", "handle", "send", "write", "connected", "aborted"},
          ret : {"wait", "handle", "connected"}, writeable : BOOLEAN,
          sendq : Seq(Refs), recvp : Seq(Refs), recvq : Seq(Refs)]
  <2>1. PICK c \in Clients : c = client[e] BY DEF MemInv
  <2>2. c.sendq \in Seq(Refs) /\ c.recvp \in Seq(Refs) /\ c.recvq \in Seq(Refs)
    BY <1>1, ClientFacts, SeqOfMore
  <2> QED BY <2>1, <2>2 DEF Clients
<1>3. ASSUME NEW e \in Ends PROVE held[e] \in Seq([packet : Nat, data : Seq(Refs)])
  <2>1. PICK h \in Seq(Kept) : h = held[e] BY DEF MemInv
  <2>2. PICK K : K = [packet : Nat, data : Seq(Refs)] OBVIOUS
  <2>3. Kept \subseteq K
    <3> SUFFICES ASSUME NEW x \in Kept PROVE x \in K OBVIOUS
    <3>1. PICK s \in Seq(Slices) : s = x.data BY DEF Kept
    <3>2. s \in Seq(Refs) BY <1>1, SeqOfMore
    <3> QED BY <2>2, <3>1, <3>2 DEF Kept
  <2>4. h \in Seq(K) BY <2>3, SeqOfMore
  <2> QED BY <2>1, <2>2, <2>4
<1>4. client \in [Ends -> [stage : {"new", "open", "closed", "gone"},
          connect : BOOLEAN, pending : BOOLEAN,
          pc : {"wait", "read", "receive", "handle", "send", "write", "connected", "aborted"},
          ret : {"wait", "handle", "connected"}, writeable : BOOLEAN,
          sendq : Seq(Refs), recvp : Seq(Refs), recvq : Seq(Refs)]]
  BY <1>2 DEF MemInv
<1>5. held \in [Ends -> Seq([packet : Nat, data : Seq(Refs)])] BY <1>3 DEF MemInv
<1> QED BY <1>4, <1>5 DEF MemInv, RestOK, Entries, Memories, TypeOK

LEMMA MemPool == MemInv => PoolConsistent
<1> SUFFICES ASSUME MemInv, NEW e \in Ends
             PROVE  /\ Cardinality(ToSet(free[e])) = Len(free[e])
                    /\ ToSet(free[e]) \cap Referenced(client[e], held[e]) = {}
                    /\ Len(free[e]) <= PoolSize
  BY DEF PoolConsistent
<1>1. Pool(free[e], Referenced(client[e], held[e])) BY DEF MemInv, Own
<1>2. PICK f \in Seq(Chunks) : f = free[e] BY DEF MemInv
<1>3. Injective(f) => Cardinality(ToSet(f)) = Len(f) BY InjectiveIs
<1> QED BY <1>1, <1>2, <1>3 DEF Pool

\* The types, and a memory pool whose free chunks are all different, at most
\* poolsize_ of them, and referred to by no queue and no packet that is kept
\* (memorypool.h:46-75, memorychunk.cpp:9-22), after every step of either end.
THEOREM MemorySound == Spec => [](TypeOK /\ PoolConsistent)
<1>1. MemInv => TypeOK /\ PoolConsistent BY MemType, MemPool
<1> QED BY <1>1, MemInit, MemNext, PTL DEF Spec

-----------------------------------------------------------------------------
(* The control invariant, and with it the edges *)

\* Asleep in epoll_wait, or on its way there.
Asleep(c) == c.pc = "wait" \/ (c.pc = "send" /\ c.ret = "wait")

\* In OnEventIOReadable, which goes on until there is nothing left to read.
Reads(c) == c.pc \in {"read", "receive", "handle"} \/ (c.pc = "send" /\ c.ret = "handle")

\* A client with object c and epoll entry en will hear of everything it waits
\* for, when it has input (has) and room for output (can).  Asleep, it is on the
\* ready list if the socket is ready for what it asked for.  Reading, it
\* needs no edge for more input, and it is on the ready list for its output or
\* OnEventIOWriteable is still to come.  And it asks for writability whenever
\* it has output left.
Watches(c, en, has, can) ==
    /\ Asleep(c) =>
          /\ has /\ "r" \in en.interest => en.listed
          /\ can /\ "w" \in en.interest => en.listed
    /\ Reads(c) => (can /\ "w" \in en.interest => en.listed \/ c.writeable)
    /\ c.pc \in {"wait", "read", "receive", "handle"} /\ c.sendq # <<>> => "w" \in en.interest

\* Where a client stands.
Placed(c) ==
    /\ c.stage = "new" => ~c.connect /\ ~c.pending /\ c.sendq = <<>>
    /\ c.stage = "open" => ~(c.connect /\ c.pending)
    /\ c.stage = "gone" => c.pc = "wait" /\ ~c.connect
    /\ c.pc = "write" => c.stage = "open"
    /\ ~EarlyReset =>
          /\ c.pc # "aborted"
          /\ c.pc = "connected" \/ (c.pc = "send" /\ c.ret = "connected") => c.stage = "open"

Fine(c, en, has, can) ==
    /\ Placed(c)
    /\ c.stage = "open" => en.interest # {}
    /\ c.stage = "open" /\ c.connect => Watches(c, en, has, can)

Over(c) == c.stage \in {"closed", "gone"}

Control(e) ==
    /\ Fine(client[e], epoll[e], pipe[e] # <<>> \/ eof[e], Len(pipe[Peer(e)]) < Capacity \/ eof[e])
    /\ eof[e] => Over(client[Peer(e)])

ControlInv == \A e \in Ends : Control(e)

\* Level, one event at a time.
LEMMA LevelIs ==
    ASSUME NEW e \in Ends, ~client[e].pending
    PROVE  /\ "r" \in Level(e) <=> pipe[e] # <<>> \/ eof[e]
           /\ "w" \in Level(e) <=> Len(pipe[Peer(e)]) < Capacity \/ eof[e]
BY Zenon DEF Level

\* An entry that is listed sooner, for the same interest, does no harm.
LEMMA StillFine ==
    ASSUME NEW c, NEW a, NEW b, NEW has \in BOOLEAN, NEW can \in BOOLEAN,
           NEW has2 \in BOOLEAN, NEW can2 \in BOOLEAN,
           Fine(c, a, has, can), b.interest = a.interest, a.listed => b.listed,
           has2 => has \/ ("r" \in a.interest => b.listed),
           can2 => can \/ ("w" \in a.interest => b.listed)
    PROVE  Fine(c, b, has2, can2)
BY Zenon DEF Fine, Watches

\* A step of end e, which leaves the client object of its peer alone.
LEMMA ControlStep ==
    ASSUME MemInv, ControlInv, NEW e \in Ends, NEW p, p = Peer(e), NEW z,
           client' = [client EXCEPT ![e] = z], Over(client[e]) => Over(z),
           Fine(z, epoll'[e], pipe'[e] # <<>> \/ eof'[e], Len(pipe'[p]) < Capacity \/ eof'[e]),
           epoll'[p].interest = epoll[p].interest, epoll[p].listed => epoll'[p].listed,
           pipe'[p] # <<>> \/ eof'[p] =>
              pipe[p] # <<>> \/ eof[p] \/ ("r" \in epoll[p].interest => epoll'[p].listed),
           Len(pipe'[e]) < Capacity \/ eof'[p] =>
              Len(pipe[e]) < Capacity \/ eof[p] \/ ("w" \in epoll[p].interest => epoll'[p].listed),
           eof'[e] => eof[e], eof'[p] => eof[p] \/ Over(z)
    PROVE  ControlInv'
<1>1. p \in Ends /\ p # e /\ Peer(p) = e /\ \A d \in Ends : d = e \/ d = p BY PeerFacts
<1>2. client'[e] = z /\ client'[p] = client[p] BY <1>1 DEF MemInv
<1>3. Control(e) /\ Control(p) BY <1>1 DEF ControlInv
<1>4. Fine(client[p], epoll'[p], pipe'[p] # <<>> \/ eof'[p], Len(pipe'[e]) < Capacity \/ eof'[p])
  <2>1. PICK h \in BOOLEAN : h = (pipe[p] # <<>> \/ eof[p]) BY Zenon
  <2>2. PICK k \in BOOLEAN : k = (Len(pipe[e]) < Capacity \/ eof[p]) BY Zenon
  <2>3. PICK h2 \in BOOLEAN : h2 = (pipe'[p] # <<>> \/ eof'[p]) BY Zenon
  <2>4. PICK k2 \in BOOLEAN : k2 = (Len(pipe'[e]) < Capacity \/ eof'[p]) BY Zenon
  <2>5. Fine(client[p], epoll[p], h, k) BY <1>1, <1>3, <2>1, <2>2, Zenon DEF Control
  <2>6. PICK a : a = epoll[p] OBVIOUS
  <2>7. PICK b : b = epoll'[p] OBVIOUS
  <2>8. PICK c : c = client[p] OBVIOUS
  <2>9. Fine(c, b, h2, k2)
    BY <2>1, <2>2, <2>3, <2>4, <2>5, <2>6, <2>7, <2>8, StillFine, Zenon
  <2> QED BY <2>3, <2>4, <2>7, <2>8, <2>9, Zenon
<1>5. Control(e)'
  <2>1. eof'[e] => Over(client'[p]) BY <1>2, <1>3, Zenon DEF Control
  <2> QED BY <1>2, <2>1, Zenon DEF Control
<1>6. Control(p)'
  <2>1. eof'[p] => Over(client'[e])
    <3>1. eof[p] => Over(client[e]) BY <1>1, <1>3, Zenon DEF Control
    <3> QED BY <1>2, <3>1, Zenon
  <2> QED BY <1>1, <1>2, <1>4, <2>1, Zenon DEF Control
<1> QED BY <1>1, <1>5, <1>6 DEF ControlInv

\* What the invariant says of e, by its parts.
View(e, c, en, has, can) ==
    /\ c = client[e] /\ en = epoll[e]
    /\ has = (pipe[e] # <<>> \/ eof[e])
    /\ can = (Len(pipe[Peer(e)]) < Capacity \/ eof[e])
    /\ Fine(c, en, has, can)

LEMMA ViewOf ==
    ASSUME MemInv, ControlInv, NEW e \in Ends
    PROVE  \E c \in Clients, en \in Entries, has \in BOOLEAN, can \in BOOLEAN : View(e, c, en, has, can)
<1>1. client[e] \in Clients /\ epoll[e] \in Entries BY DEF MemInv, RestOK
<1>2. Control(e) BY DEF ControlInv
<1> QED BY <1>1, <1>2, Zenon DEF Control, View

\* A step that changes the client object of e only.
LEMMA ControlQuiet ==
    ASSUME MemInv, ControlInv, NEW e \in Ends, NEW c, NEW en, NEW has, NEW can, NEW z,
           View(e, c, en, has, can),
           client' = [client EXCEPT ![e] = z], Over(c) => Over(z),
           epoll' = epoll, pipe' = pipe, eof' = eof, Fine(z, en, has, can)
    PROVE  ControlInv'
<1>1. PICK p : p = Peer(e) OBVIOUS
<1>2. Fine(z, epoll'[e], pipe'[e] # <<>> \/ eof'[e], Len(pipe'[p]) < Capacity \/ eof'[e])
  BY <1>1, Zenon DEF View
<1>3. Over(client[e]) => Over(z) BY Zenon DEF View
<1> QED BY <1>1, <1>2, <1>3, ControlStep, Zenon

\* A step that changes the client object and the epoll entry of e.
LEMMA ControlModify ==
    ASSUME MemInv, ControlInv, NEW e \in Ends, NEW c, NEW en, NEW has, NEW can, NEW z, NEW new,
           View(e, c, en, has, can),
           client' = [client EXCEPT ![e] = z], Over(c) => Over(z),
           epoll' = [epoll EXCEPT ![e] = new], pipe' = pipe, eof' = eof, Fine(z, new, has, can)
    PROVE  ControlInv'
<1>1. PICK p : p = Peer(e) OBVIOUS
<1>2. p \in Ends /\ p # e BY <1>1, PeerFacts
<1>3. epoll'[e] = new /\ epoll'[p] = epoll[p] BY <1>2 DEF MemInv, RestOK
<1>4. Fine(z, epoll'[e], pipe'[e] # <<>> \/ eof'[e], Len(pipe'[p]) < Capacity \/ eof'[e])
  BY <1>1, <1>3, Zenon DEF View
<1>5. Over(client[e]) => Over(z) BY Zenon DEF View
<1> QED BY <1>1, <1>3, <1>4, <1>5, ControlStep, Zenon

\* The close of e.
LEMMA ControlShut ==
    ASSUME MemInv, ControlInv, NEW e \in Ends, NEW z, NEW c \in Clients, Shut(e, c),
           pipe' = pipe, z = [c EXCEPT !.stage = "closed"], Placed(z)
    PROVE  ControlInv'
<1>1. PICK p : p = Peer(e) OBVIOUS
<1>2. p \in Ends /\ p # e BY <1>1, PeerFacts
<1>3. client' = [client EXCEPT ![e] = z] BY Zenon DEF Shut
<1>4. z.stage = "closed" BY DEF Clients
<1>5. Over(z) BY <1>4 DEF Over
<1>6. /\ epoll'[p].interest = epoll[p].interest
      /\ epoll'[p].listed <=> epoll[p].listed \/ epoll[p].interest # {}
  BY <1>1, <1>2 DEF Shut, MemInv, RestOK, Entries
<1>7. eof'[e] = eof[e] BY <1>1, <1>2 DEF Shut, MemInv, RestOK
<1>8. Fine(z, epoll'[e], pipe'[e] # <<>> \/ eof'[e], Len(pipe'[p]) < Capacity \/ eof'[e])
  BY <1>4 DEF Fine
<1>9. ("r" \in epoll[p].interest => epoll'[p].listed) /\ ("w" \in epoll[p].interest => epoll'[p].listed)
  BY <1>6
<1> QED BY <1>1, <1>3, <1>5, <1>6, <1>7, <1>8, <1>9, ControlStep, Zenon

\* A client that moves on, with the rest of its object as it was.
LEMMA Moved ==
    ASSUME NEW c \in Clients,
           NEW x \in {"wait", "read", "receive", "handle", "send", "write", "connected", "aborted"},
           NEW z, z = [c EXCEPT !.pc = x]
    PROVE  /\ z \in Clients /\ z.stage = c.stage /\ z.connect = c.connect /\ z.pending = c.pending
           /\ z.pc = x /\ z.ret = c.ret /\ z.writeable = c.writeable /\ z.sendq = c.sendq
           /\ z.recvp = c.recvp /\ z.recvq = c.recvq
BY DEF Clients

LEMMA ReadDoneIs ==
    ASSUME MemInv, NEW e \in Ends, client[e].pc = "read", NEW z, z = ReadDone(e)
    PROVE  /\ z \in Clients /\ z.stage = client[e].stage /\ z.connect = client[e].connect
           /\ z.pending = client[e].pending /\ z.ret = client[e].ret
           /\ z.writeable = client[e].writeable /\ z.sendq = client[e].sendq
           /\ z.recvp = client[e].recvp /\ z.recvq = client[e].recvq
           /\ z.pc = IF client[e].writeable /\ client[e].stage = "open" THEN "write" ELSE "wait"
<1>1. PICK c \in Clients : c = client[e] BY DEF MemInv
<1>2. PICK x \in {"write", "wait"} : x = IF c.writeable /\ c.stage = "open" THEN "write" ELSE "wait" OBVIOUS
<1>3. z = [c EXCEPT !.pc = x] BY <1>1, <1>2 DEF ReadDone
<1> QED BY <1>1, <1>2, <1>3, Moved

LEMMA ControlReadStops ==
    ASSUME MemInv, ControlInv, NEW e \in Ends, ReadStops(e) PROVE ControlInv'
<1>1. PICK c \in Clients, en \in Entries, has \in BOOLEAN, can \in BOOLEAN : View(e, c, en, has, can)
  BY ViewOf
<1>2. PICK z : z = ReadDone(e) OBVIOUS
<1>3. c = client[e] /\ Fine(c, en, has, can) BY <1>1 DEF View
<1>4. c.pc = "read" /\ (~c.connect \/ c.stage # "open") BY <1>3 DEF ReadStops
<1>5. /\ z.stage = c.stage /\ z.connect = c.connect /\ z.pending = c.pending /\ z.sendq = c.sendq
      /\ z.pc = IF c.writeable /\ c.stage = "open" THEN "write" ELSE "wait"
  BY <1>2, <1>3, <1>4, ReadDoneIs
<1>6. Fine(z, en, has, can) BY <1>3, <1>4, <1>5 DEF Fine, Placed
<1>7. Over(c) => Over(z) BY <1>5 DEF Over
<1> QED BY <1>1, <1>2, <1>6, <1>7, ControlQuiet DEF ReadStops, kernel

LEMMA ControlReadNothing ==
    ASSUME MemInv, ControlInv, NEW e \in Ends, ReadNothing(e) PROVE ControlInv'
<1>1. PICK c \in Clients, en \in Entries, has \in BOOLEAN, can \in BOOLEAN : View(e, c, en, has, can)
  BY ViewOf
<1>2. PICK y : y = ReadDone(e) OBVIOUS
<1>3. PICK r : r = Receivers(e) OBVIOUS
<1>4. PICK z : z = [y EXCEPT !.recvp = r] OBVIOUS
<1>5. c = client[e] /\ Fine(c, en, has, can) /\ has = (pipe[e] # <<>> \/ eof[e]) BY <1>1 DEF View
<1>6. c.pc = "read" /\ c.stage = "open" /\ c.connect /\ ~has BY <1>5 DEF ReadNothing, Reading
<1>7. /\ y \in Clients /\ y.stage = c.stage /\ y.connect = c.connect /\ y.pending = c.pending
      /\ y.sendq = c.sendq /\ y.pc = IF c.writeable /\ c.stage = "open" THEN "write" ELSE "wait"
  BY <1>2, <1>5, <1>6, ReadDoneIs, ZenonT(30)
<1>8. /\ z.stage = c.stage /\ z.connect = c.connect /\ z.pending = c.pending /\ z.sendq = c.sendq
      /\ z.pc = IF c.writeable THEN "write" ELSE "wait"
  BY <1>4, <1>6, <1>7 DEF Clients
<1>9. Fine(z, en, has, can) BY <1>5, <1>6, <1>8 DEF Fine, Placed, Watches, Asleep, Reads
<1>10. Over(c) => Over(z) BY <1>8 DEF Over
<1>11. client' = [client EXCEPT ![e] = z] BY <1>2, <1>3, <1>4, Zenon DEF ReadNothing
<1> QED BY <1>1, <1>9, <1>10, <1>11, ControlQuiet DEF ReadNothing, kernel

LEMMA ControlReceiveMore ==
    ASSUME MemInv, ControlInv, NEW e \in Ends, ReceiveMore(e) PROVE ControlInv'
<1>1. PICK c \in Clients, en \in Entries, has \in BOOLEAN, can \in BOOLEAN : View(e, c, en, has, can)
  BY ViewOf
<1>2. PICK z : z = [c EXCEPT !.pc = "read"] OBVIOUS
<1>3. c = client[e] /\ Fine(c, en, has, can) BY <1>1 DEF View
<1>4. c.pc = "receive" BY <1>3 DEF ReceiveMore
<1>5. /\ z.stage = c.stage /\ z.connect = c.connect /\ z.pending = c.pending /\ z.sendq = c.sendq
      /\ z.pc = "read" /\ z.writeable = c.writeable
  BY <1>2, Moved
<1>6. Fine(z, en, has, can) BY <1>3, <1>4, <1>5 DEF Fine, Placed, Watches, Asleep, Reads
<1>7. Over(c) => Over(z) BY <1>5 DEF Over
<1>8. client' = [client EXCEPT ![e] = z] BY <1>2, <1>3 DEF ReceiveMore, MemInv
<1> QED BY <1>1, <1>6, <1>7, <1>8, ControlQuiet DEF ReceiveMore, kernel

LEMMA ControlHandled ==
    ASSUME MemInv, ControlInv, NEW e \in Ends, Handled(e) PROVE ControlInv'
<1>1. PICK c \in Clients, en \in Entries, has \in BOOLEAN, can \in BOOLEAN : View(e, c, en, has, can)
  BY ViewOf
<1>2. PICK z : z = [c EXCEPT !.pc = "receive"] OBVIOUS
<1>3. c = client[e] /\ Fine(c, en, has, can) BY <1>1 DEF View
<1>4. c.pc = "handle" BY <1>3 DEF Handled
<1>5. /\ z.stage = c.stage /\ z.connect = c.connect /\ z.pending = c.pending /\ z.sendq = c.sendq
      /\ z.pc = "receive" /\ z.writeable = c.writeable
  BY <1>2, Moved
<1>6. Fine(z, en, has, can) BY <1>3, <1>4, <1>5 DEF Fine, Placed, Watches, Asleep, Reads
<1>7. Over(c) => Over(z) BY <1>5 DEF Over
<1>8. client' = [client EXCEPT ![e] = z] BY <1>2, <1>3 DEF Handled, MemInv
<1> QED BY <1>1, <1>6, <1>7, <1>8, ControlQuiet DEF Handled, kernel

LEMMA ControlReceivePacket ==
    ASSUME MemInv, ControlInv, NEW e \in Ends, ReceivePacket(e) PROVE ControlInv'
<1>1. PICK c \in Clients, en \in Entries, has \in BOOLEAN, can \in BOOLEAN : View(e, c, en, has, can)
  BY ViewOf
<1>2. c = client[e] /\ Fine(c, en, has, can) BY <1>1 DEF View
<1>3. c.pc = "receive" BY <1>2 DEF ReceivePacket
<1>4. PICK q : client' = [client EXCEPT ![e].recvq = q, ![e].pc = "handle"] BY DEF ReceivePacket
<1>5. PICK z : z = [c EXCEPT !.recvq = q, !.pc = "handle"] OBVIOUS
<1>6. /\ z.stage = c.stage /\ z.connect = c.connect /\ z.pending = c.pending /\ z.sendq = c.sendq
      /\ z.pc = "handle" /\ z.writeable = c.writeable
  BY <1>5 DEF Clients
<1>7. Fine(z, en, has, can) BY <1>2, <1>3, <1>6 DEF Fine, Placed, Watches, Asleep, Reads
<1>8. Over(c) => Over(z) BY <1>6 DEF Over
<1>9. client' = [client EXCEPT ![e] = z] BY <1>2, <1>4, <1>5 DEF MemInv
<1> QED BY <1>1, <1>7, <1>8, <1>9, ControlQuiet DEF ReceivePacket, kernel

\* What SendReturns leaves.
LEMMA Returned ==
    ASSUME NEW c \in Clients, NEW e, NEW z, z = SendReturns(e, c)
    PROVE  /\ z \in Clients /\ z.stage = c.stage /\ z.connect = c.connect /\ z.pending = c.pending
           /\ z.pc = c.ret /\ z.ret = "wait" /\ z.writeable = c.writeable /\ z.sendq = c.sendq
           /\ z.recvp = c.recvp /\ z.recvq = c.recvq
BY DEF Clients, SendReturns

LEMMA ControlSendDone ==
    ASSUME MemInv, ControlInv, NEW e \in Ends, SendDone(e) PROVE ControlInv'
<1>1. PICK c \in Clients, en \in Entries, has \in BOOLEAN, can \in BOOLEAN : View(e, c, en, has, can)
  BY ViewOf
<1>2. PICK z : z = SendReturns(e, c) OBVIOUS
<1>3. c = client[e] /\ Fine(c, en, has, can) BY <1>1 DEF View
<1>4. c.pc = "send" /\ (c.sendq = <<>> \/ c.stage # "open") BY <1>3, Zenon DEF SendDone
<1>5. /\ z.stage = c.stage /\ z.connect = c.connect /\ z.pending = c.pending /\ z.sendq = c.sendq
      /\ z.pc = c.ret /\ z.ret = "wait" /\ z.writeable = c.writeable
  BY <1>2, Returned
<1>a. c.ret \in {"wait", "handle", "connected"} BY ClientFacts
<1>6. Fine(z, en, has, can) BY <1>3, <1>4, <1>5, <1>a DEF Fine, Placed, Watches, Asleep, Reads
<1>7. Over(c) => Over(z) BY <1>5 DEF Over
<1>8. client' = [client EXCEPT ![e] = z] BY <1>2, <1>3 DEF SendDone, MemInv
<1> QED BY <1>1, <1>6, <1>7, <1>8, ControlQuiet DEF SendDone, kernel

LEMMA ControlPushSend ==
    ASSUME MemInv, ControlInv, NEW e \in Ends, PushSend(e) PROVE ControlInv'
<1>1. PICK c \in Clients, en \in Entries, has \in BOOLEAN, can \in BOOLEAN : View(e, c, en, has, can)
  BY ViewOf
<1>2. PICK k \in Nat, z \in Clients, ck \in Seq(Slices), g \in Seq(Chunks), mm \in Memories :
        Pushed(e, k, z, ck, g, mm)
  BY PushSendIs
<1>3. c = client[e] /\ Fine(c, en, has, can) BY <1>1 DEF View
<1>4. /\ c.pc \in {"wait", "handle", "connected"} /\ c.connect
      /\ client' = [client EXCEPT ![e] = z]
  BY <1>2, <1>3 DEF Pushed
<1>5. PICK q : z = [c EXCEPT !.sendq = q, !.ret = c.pc, !.pc = "send"] BY <1>2, <1>3 DEF Pushed
<1>6. /\ z.stage = c.stage /\ z.connect = c.connect /\ z.pending = c.pending
      /\ z.pc = "send" /\ z.ret = c.pc /\ z.writeable = c.writeable
  BY <1>5 DEF Clients
<1>7. Fine(z, en, has, can) BY <1>3, <1>4, <1>6 DEF Fine, Placed, Watches, Asleep, Reads
<1>8. Over(c) => Over(z) BY <1>6 DEF Over
<1> QED BY <1>1, <1>4, <1>7, <1>8, ControlQuiet DEF PushSend, kernel

LEMMA ControlDrain ==
    ASSUME MemInv, ControlInv, NEW e \in Ends, Drain(e) PROVE ControlInv'
<1>1. PICK c \in Clients, en \in Entries, has \in BOOLEAN, can \in BOOLEAN : View(e, c, en, has, can)
  BY ViewOf
<1>2. PICK z : z = [client[e] EXCEPT !.stage = "gone", !.connect = FALSE, !.pending = FALSE,
                                     !.sendq = <<>>, !.recvp = <<>>, !.recvq = <<>>]
  OBVIOUS
<1>3. c = client[e] /\ Fine(c, en, has, can) BY <1>1 DEF View
<1>4. c.pc = "wait" BY <1>3 DEF Drain
<1>5. z.stage = "gone" /\ z.connect = FALSE /\ z.pending = FALSE /\ z.pc = "wait"
  BY <1>2, <1>3, <1>4 DEF Clients
<1>6. Fine(z, en, has, can) BY <1>5 DEF Fine, Placed
<1>7. Over(z) BY <1>5 DEF Over
<1>8. client' = [client EXCEPT ![e] = z] BY <1>2, Zenon DEF Drain
<1> QED BY <1>1, <1>6, <1>7, <1>8, ControlQuiet DEF Drain, kernel

LEMMA ControlReleasePacket ==
    ASSUME MemInv, ControlInv, NEW e \in Ends, ReleasePacket(e) PROVE ControlInv'
<1>1. PICK c \in Clients, en \in Entries, has \in BOOLEAN, can \in BOOLEAN : View(e, c, en, has, can)
  BY ViewOf
<1>2. c = client[e] /\ Fine(c, en, has, can) BY <1>1 DEF View
<1>3. client' = [client EXCEPT ![e] = c] BY <1>2 DEF ReleasePacket, MemInv
<1> QED BY <1>1, <1>2, <1>3, ControlQuiet DEF ReleasePacket, kernel

LEMMA ControlConnect ==
    ASSUME MemInv, ControlInv, NEW e \in Ends, Connect(e) PROVE ControlInv'
<1>1. PICK c \in Clients, en \in Entries, has \in BOOLEAN, can \in BOOLEAN : View(e, c, en, has, can)
  BY ViewOf
<1>2. c = client[e] /\ Fine(c, en, has, can) BY <1>1 DEF View
<1>3. c.stage = "new" BY <1>2 DEF Connect
<1>4. CASE /\ client' = [client EXCEPT ![e].stage = "open", ![e].pending = TRUE]
           /\ epoll' = [epoll EXCEPT ![e] = [interest |-> {"w"}, listed |-> FALSE]]
  <2>1. PICK z : z = [c EXCEPT !.stage = "open", !.pending = TRUE] OBVIOUS
  <2>2. PICK new : new = [interest |-> {"w"}, listed |-> FALSE] OBVIOUS
  <2>3. z.stage = "open" /\ z.pending = TRUE /\ z.connect = c.connect /\ z.pc = c.pc /\ z.ret = c.ret
    BY <2>1 DEF Clients
  <2>4. Fine(z, new, has, can)
    <3>1. new.interest # {} BY <2>2
    <3> QED BY <1>2, <1>3, <2>3, <3>1 DEF Fine, Placed
  <2>5. client' = [client EXCEPT ![e] = z] BY <1>2, <1>4, <2>1 DEF MemInv
  <2>6. ~Over(c) BY <1>3 DEF Over
  <2>7. epoll' = [epoll EXCEPT ![e] = new] BY <1>4, <2>2, Zenon
  <2> QED BY <1>1, <2>4, <2>5, <2>6, <2>7, ControlModify DEF Connect
<1>5. CASE client' = [client EXCEPT ![e].stage = "closed"] /\ UNCHANGED epoll
  <2>1. PICK z : z = [c EXCEPT !.stage = "closed"] OBVIOUS
  <2>2. z.stage = "closed" /\ z.connect = c.connect /\ z.pc = c.pc /\ z.ret = c.ret
    BY <2>1 DEF Clients
  <2>3. Fine(z, en, has, can) BY <1>2, <1>3, <2>2 DEF Fine, Placed
  <2>4. client' = [client EXCEPT ![e] = z] BY <1>2, <1>5, <2>1 DEF MemInv
  <2>5. Over(z) BY <2>2 DEF Over
  <2> QED BY <1>1, <1>5, <2>3, <2>4, <2>5, ControlQuiet DEF Connect
<1> QED BY <1>4, <1>5 DEF Connect

\* EPOLL_CTL_ADD or EPOLL_CTL_MOD of a connected client: an event that is there
\* already is on the list.
LEMMA Noticed ==
    ASSUME MemInv, NEW e \in Ends, NEW i \in SUBSET {"r", "w"},
           NEW c, NEW en, NEW has, NEW can, View(e, c, en, has, can),
           NEW new, new = Registered(e, i)
    PROVE  /\ new.interest = i
           /\ ~c.pending => (new.listed <=> (has /\ "r" \in i) \/ (can /\ "w" \in i))
<1>1. new.interest = i /\ (new.listed <=> Level(e) \cap i # {}) BY DEF Registered
<1>2. ASSUME ~c.pending
      PROVE  ("r" \in Level(e) <=> has) /\ ("w" \in Level(e) <=> can)
  <2>1. ~client[e].pending BY <1>2, Zenon DEF View
  <2> QED BY <2>1, LevelIs, Zenon DEF View
<1>3. Level(e) \cap i # {} <=> ("r" \in Level(e) /\ "r" \in i) \/ ("w" \in Level(e) /\ "w" \in i)
  OBVIOUS
<1> QED BY <1>1, <1>2, <1>3, Zenon

LEMMA ControlAccept ==
    ASSUME MemInv, ControlInv, NEW e \in Ends, Accept(e) PROVE ControlInv'
<1>1. PICK c \in Clients, en \in Entries, has \in BOOLEAN, can \in BOOLEAN : View(e, c, en, has, can)
  BY ViewOf
<1>2. c = client[e] /\ Fine(c, en, has, can) BY <1>1 DEF View
<1>3. c.stage = "new" /\ ~c.pending /\ c.sendq = <<>> BY <1>2 DEF Accept, Fine, Placed
<1>4. PICK i \in SUBSET {"r", "w"} : i = {"w"} OBVIOUS
<1>5. PICK new : new = Registered(e, i) OBVIOUS
<1>6. new.interest = {"w"} /\ (new.listed <=> (has /\ "r" \in i) \/ (can /\ "w" \in i))
  <2>1. new.interest = i /\ (~c.pending => (new.listed <=> (has /\ "r" \in i) \/ (can /\ "w" \in i)))
    BY <1>1, <1>5, Noticed
  <2> QED BY <1>3, <1>4, <2>1, Zenon
<1>7. PICK z : z = [c EXCEPT !.stage = "open", !.connect = TRUE] OBVIOUS
<1>8. /\ z.stage = "open" /\ z.pending = c.pending /\ z.pc = c.pc /\ z.ret = c.ret
      /\ z.sendq = c.sendq /\ z.writeable = c.writeable
  BY <1>7 DEF Clients
<1>9. Watches(z, new, has, can)
  <2>1. "w" \in i /\ "r" \notin new.interest BY <1>4, <1>6
  <2>2. can => new.listed BY <1>6, <2>1, Zenon
  <2> QED BY <1>3, <1>8, <2>1, <2>2, Zenon DEF Watches
<1>10. Fine(z, new, has, can)
  <2>1. new.interest # {} BY <1>6
  <2> QED BY <1>2, <1>3, <1>8, <1>9, <2>1 DEF Fine, Placed
<1>11. client' = [client EXCEPT ![e] = z] BY <1>2, <1>7 DEF Accept, MemInv
<1>12. ~Over(c) BY <1>3 DEF Over
<1>13. epoll' = [epoll EXCEPT ![e] = new] BY <1>4, <1>5, Zenon DEF Accept
<1> QED BY <1>1, <1>10, <1>11, <1>12, <1>13, ControlModify DEF Accept, kernel

LEMMA ControlPoll ==
    ASSUME MemInv, ControlInv, NEW e \in Ends, Poll(e) PROVE ControlInv'
<1>1. PICK c \in Clients, en \in Entries, has \in BOOLEAN, can \in BOOLEAN : View(e, c, en, has, can)
  BY ViewOf
<1>2. c = client[e] /\ en = epoll[e] /\ Fine(c, en, has, can) BY <1>1 DEF View
<1>3. c.pc = "wait" /\ c.stage = "open" BY <1>2 DEF Poll
<1>4. PICK ready : ready = Level(e) \cap en.interest OBVIOUS
<1>5. PICK x \in {"wait", "read", "write"} :
        x = IF "r" \in ready THEN "read" ELSE IF "w" \in ready THEN "write" ELSE "wait"
  OBVIOUS
<1>6. PICK w \in BOOLEAN : w <=> "w" \in ready
  <2>1. CASE "w" \in ready BY <2>1
  <2>2. CASE "w" \notin ready BY <2>2
  <2> QED BY <2>1, <2>2
<1>7. w = ("w" \in ready) BY <1>6
<1>8. PICK z : z = [c EXCEPT !.pc = x, !.writeable = w] OBVIOUS
<1>9. /\ z.stage = c.stage /\ z.connect = c.connect /\ z.pending = c.pending /\ z.sendq = c.sendq
      /\ z.pc = x /\ z.writeable = w
  BY <1>8 DEF Clients
<1>10. PICK new : new = [en EXCEPT !.listed = FALSE] OBVIOUS
<1>11. new.interest = en.interest BY <1>10 DEF Entries
<1>12. ASSUME c.connect PROVE Watches(z, new, has, can)
  <2>1. ~c.pending BY <1>2, <1>3, <1>12 DEF Fine, Placed
  <2>2. ("r" \in Level(e) <=> has) /\ ("w" \in Level(e) <=> can)
    <3>1. ~client[e].pending BY <1>2, <2>1, Zenon
    <3> QED BY <1>1, <3>1, LevelIs, Zenon DEF View
  <2>3. ("r" \in ready <=> has /\ "r" \in en.interest) /\ ("w" \in ready <=> can /\ "w" \in en.interest)
    BY <1>4, <2>2
  <2>4. Watches(c, en, has, can) BY <1>2, <1>3, <1>12 DEF Fine
  <2>5. c.sendq # <<>> => "w" \in en.interest BY <1>3, <2>4 DEF Watches
  <2>6. CASE x = "wait"
    <3>1. ~(has /\ "r" \in en.interest) /\ ~(can /\ "w" \in en.interest) BY <1>5, <2>3, <2>6
    <3> QED BY <1>9, <1>11, <2>5, <2>6, <3>1 DEF Watches, Asleep, Reads
  <2>7. CASE x = "read" BY <1>6, <1>9, <1>11, <2>3, <2>5, <2>7 DEF Watches, Asleep, Reads
  <2>8. CASE x = "write" BY <1>9, <2>8 DEF Watches, Asleep, Reads
  <2> QED BY <2>6, <2>7, <2>8
<1>13. Fine(z, new, has, can) BY <1>2, <1>3, <1>9, <1>11, <1>12 DEF Fine, Placed
<1>14. ~Over(c) BY <1>3 DEF Over
<1>15. client' = [client EXCEPT ![e] = z] BY <1>2, <1>4, <1>5, <1>7, <1>8 DEF Poll, MemInv
<1>16. epoll' = [epoll EXCEPT ![e] = new] BY <1>2, <1>10 DEF Poll, MemInv, RestOK
<1> QED BY <1>1, <1>13, <1>14, <1>15, <1>16, ControlModify DEF Poll, kernel

LEMMA ControlSendBlocked ==
    ASSUME MemInv, ControlInv, NEW e \in Ends, SendBlocked(e) PROVE ControlInv'
<1>1. PICK c \in Clients, en \in Entries, has \in BOOLEAN, can \in BOOLEAN : View(e, c, en, has, can)
  BY ViewOf
<1>2. c = client[e] /\ Fine(c, en, has, can) BY <1>1 DEF View
<1>3. c.stage = "open" /\ c.pc = "send" BY <1>2 DEF SendBlocked, Sending
<1>4. PICK i \in SUBSET {"r", "w"} : i = {"r", "w"} OBVIOUS
<1>5. PICK new : new = Registered(e, i) OBVIOUS
<1>6. new.interest = i /\ (~c.pending => (new.listed <=> (has /\ "r" \in i) \/ (can /\ "w" \in i)))
  BY <1>1, <1>5, Noticed
<1>7. PICK z : z = SendReturns(e, c) OBVIOUS
<1>8. /\ z.stage = c.stage /\ z.connect = c.connect /\ z.pending = c.pending /\ z.sendq = c.sendq
      /\ z.pc = c.ret /\ z.ret = "wait" /\ z.writeable = c.writeable
  BY <1>7, Returned
<1>a. c.ret \in {"wait", "handle", "connected"} BY ClientFacts
<1>9. ASSUME c.connect PROVE Watches(z, new, has, can)
  <2>1. ~c.pending BY <1>2, <1>3, <1>9 DEF Fine, Placed
  <2>2. "r" \in i /\ "w" \in i BY <1>4
  <2>3. has \/ can => new.listed BY <1>6, <2>1, <2>2, Zenon
  <2> QED BY <1>6, <2>2, <2>3, Zenon DEF Watches
<1>10. Fine(z, new, has, can)
  <2>1. new.interest # {} BY <1>4, <1>6
  <2> QED BY <1>2, <1>3, <1>8, <1>a, <1>9, <2>1 DEF Fine, Placed
<1>11. client' = [client EXCEPT ![e] = z] BY <1>2, <1>7 DEF SendBlocked, MemInv
<1>12. ~Over(c) BY <1>3 DEF Over
<1>13. epoll' = [epoll EXCEPT ![e] = new] BY <1>4, <1>5, Zenon DEF SendBlocked
<1> QED BY <1>1, <1>10, <1>11, <1>12, <1>13, ControlModify DEF SendBlocked, kernel

LEMMA ControlWriteable ==
    ASSUME MemInv, ControlInv, NEW e \in Ends, Writeable(e) PROVE ControlInv'
<1>1. PICK c \in Clients, en \in Entries, has \in BOOLEAN, can \in BOOLEAN : View(e, c, en, has, can)
  BY ViewOf
<1>2. c = client[e] /\ Fine(c, en, has, can) BY <1>1 DEF View
<1>3. c.pc \in {"connected", "write"} BY <1>2 DEF Writeable
<1>4. CASE c.stage = "open"
  <2>1. PICK i \in SUBSET {"r", "w"} : i = {"r"} OBVIOUS
  <2>2. PICK new : new = Registered(e, i) OBVIOUS
  <2>3. new.interest = i /\ (~c.pending => (new.listed <=> (has /\ "r" \in i) \/ (can /\ "w" \in i)))
    BY <1>1, <2>2, Noticed
  <2>4. PICK z : z = [c EXCEPT !.pc = "send", !.ret = "wait"] OBVIOUS
  <2>5. /\ z.stage = c.stage /\ z.connect = c.connect /\ z.pending = c.pending /\ z.sendq = c.sendq
        /\ z.pc = "send" /\ z.ret = "wait" /\ z.writeable = c.writeable
    BY <2>4 DEF Clients
  <2>6. ASSUME c.connect PROVE Watches(z, new, has, can)
    <3>1. ~c.pending BY <1>2, <1>4, <2>6 DEF Fine, Placed
    <3>2. "r" \in i /\ "w" \notin i BY <2>1
    <3>3. has => new.listed BY <2>3, <3>1, <3>2, Zenon
    <3> QED BY <2>3, <2>5, <3>2, <3>3 DEF Watches, Asleep, Reads
  <2>7. Fine(z, new, has, can)
    <3>1. new.interest # {} BY <2>1, <2>3
    <3> QED BY <1>2, <1>4, <2>5, <2>6, <3>1 DEF Fine, Placed
  <2>8. ~Over(c) BY <1>4 DEF Over
  <2>9. client[e].stage = "open" BY <1>2, <1>4, Zenon
  <2>10. client' = [client EXCEPT ![e] = z]
    <3>1. client' = [client EXCEPT ![e].pc = "send", ![e].ret = "wait"] BY <2>9 DEF Writeable
    <3> QED BY <1>2, <2>4, <3>1 DEF MemInv
  <2>11. epoll' = [epoll EXCEPT ![e] = new] BY <2>1, <2>2, <2>9, Zenon DEF Writeable
  <2> QED BY <1>1, <2>7, <2>8, <2>10, <2>11, ControlModify DEF Writeable, kernel
<1>5. CASE c.stage # "open"
  <2>1. PICK z : z = [c EXCEPT !.pc = "aborted"] OBVIOUS
  <2>2. z.stage = c.stage /\ z.connect = c.connect /\ z.pending = c.pending /\ z.sendq = c.sendq /\ z.pc = "aborted"
    BY <2>1, Moved
  <2>3. EarlyReset /\ c.stage # "gone" BY <1>2, <1>3, <1>5 DEF Fine, Placed
  <2>4. Fine(z, en, has, can) BY <1>2, <1>5, <2>2, <2>3 DEF Fine, Placed
  <2>5. Over(c) => Over(z) BY <2>2 DEF Over
  <2>6. client[e].stage # "open" BY <1>2, <1>5, Zenon
  <2>7. client' = [client EXCEPT ![e].pc = "aborted"] /\ epoll' = epoll BY <2>6, Zenon DEF Writeable
  <2>8. client' = [client EXCEPT ![e] = z] BY <1>2, <2>1, <2>7 DEF MemInv
  <2> QED BY <1>1, <2>4, <2>5, <2>7, <2>8, ControlQuiet DEF Writeable, kernel
<1> QED BY <1>4, <1>5

\* A client that closes where its thread may be then.
LEMMA ControlShuts ==
    ASSUME MemInv, ControlInv, NEW e \in Ends, NEW c \in Clients, Shut(e, c), pipe' = pipe,
           c.pc \in {"wait", "read", "handle"} \/ (c.pc = "connected" /\ EarlyReset)
    PROVE  ControlInv'
<1>1. PICK z : z = [c EXCEPT !.stage = "closed"] OBVIOUS
<1>2. z.stage = "closed" /\ z.pc = c.pc BY <1>1 DEF Clients
<1>3. Placed(z) BY <1>2, SocketAssumption DEF Placed
<1> QED BY <1>1, <1>3, ControlShut

LEMMA ControlClose ==
    ASSUME MemInv, ControlInv, NEW e \in Ends, Close(e) PROVE ControlInv'
<1>1. PICK c \in Clients : c = client[e] BY DEF MemInv
<1>2. Shut(e, c) /\ pipe' = pipe /\ c.pc \in {"wait", "handle"} BY <1>1 DEF Close
<1> QED BY <1>2, ControlShuts

LEMMA ControlReadEnd ==
    ASSUME MemInv, ControlInv, NEW e \in Ends, ReadEnd(e) PROVE ControlInv'
<1>1. PICK r : r = Receivers(e) OBVIOUS
<1>2. PICK c : c = [client[e] EXCEPT !.pc = "wait", !.recvp = r] OBVIOUS
<1>3. Shut(e, c) /\ pipe' = pipe BY <1>1, <1>2, Zenon DEF ReadEnd
<1>4. r \in Seq(Slices)
  <2>1. PICK g : g = FreeAfterAquire(e, RECVP_SIZE - Len(client[e].recvp)) OBVIOUS
  <2>2. Reading(e) BY DEF ReadEnd
  <2>3. Room(e, r, g) BY <1>1, <2>1, <2>2, ReceiversFacts
  <2> QED BY <2>3 DEF Room
<1>5. client[e] \in Clients BY DEF MemInv
<1>6. c \in Clients /\ c.pc = "wait" BY <1>2, <1>4, <1>5 DEF Clients
<1> QED BY <1>3, <1>6, ControlShuts

LEMMA ControlSendFails ==
    ASSUME MemInv, ControlInv, NEW e \in Ends, SendFails(e) PROVE ControlInv'
<1>1. PICK o \in Clients : o = client[e] BY DEF MemInv
<1>2. PICK c : c = SendReturns(e, o) OBVIOUS
<1>3. Shut(e, c) /\ pipe' = pipe /\ (o.ret = "connected" => EarlyReset) BY <1>1, <1>2, Zenon DEF SendFails
<1>4. c \in Clients /\ c.pc = o.ret BY <1>2, Returned
<1>5. o.ret \in {"wait", "handle", "connected"} BY ClientFacts
<1> QED BY <1>3, <1>4, <1>5, ControlShuts

\* Close of a client that may be closed already.
LEMMA ControlShutIfOpen ==
    ASSUME MemInv, ControlInv, NEW e \in Ends, pipe' = pipe, client[e].pc \in {"receive", "handle"},
           ShutIfOpen(e, [client[e] EXCEPT !.pc = "read"])
    PROVE  ControlInv'
<1>1. PICK c \in Clients, en \in Entries, has \in BOOLEAN, can \in BOOLEAN : View(e, c, en, has, can)
  BY ViewOf
<1>2. c = client[e] /\ Fine(c, en, has, can) BY <1>1 DEF View
<1>3. PICK z : z = [c EXCEPT !.pc = "read"] OBVIOUS
<1>4. z \in Clients /\ z.stage = c.stage /\ z.connect = c.connect /\ z.pending = c.pending
      /\ z.sendq = c.sendq /\ z.pc = "read"
  BY <1>3, Moved
<1>5. CASE c.stage = "open"
  <2>1. Shut(e, z) BY <1>2, <1>3, <1>5, Zenon DEF ShutIfOpen
  <2> QED BY <1>4, <2>1, ControlShuts
<1>6. CASE c.stage # "open"
  <2>1. client' = [client EXCEPT ![e] = z] /\ epoll' = epoll /\ eof' = eof
    BY <1>2, <1>3, <1>6, Zenon DEF ShutIfOpen
  <2>2. Fine(z, en, has, can) BY <1>2, <1>4, <1>6 DEF Fine, Placed
  <2>3. Over(c) => Over(z) BY <1>4 DEF Over
  <2> QED BY <1>1, <2>1, <2>2, <2>3, ControlQuiet
<1> QED BY <1>5, <1>6

LEMMA ControlReceiveBroken ==
    ASSUME MemInv, ControlInv, NEW e \in Ends, ReceiveBroken(e) PROVE ControlInv'
BY ControlShutIfOpen DEF ReceiveBroken

LEMMA ControlHandlerThrows ==
    ASSUME MemInv, ControlInv, NEW e \in Ends, HandlerThrows(e) PROVE ControlInv'
BY ControlShutIfOpen DEF HandlerThrows

LEMMA ControlConnectCompleted ==
    ASSUME MemInv, ControlInv, NEW e \in Ends, ConnectCompleted(e) PROVE ControlInv'
<1>1. PICK c \in Clients, en \in Entries, has \in BOOLEAN, can \in BOOLEAN : View(e, c, en, has, can)
  BY ViewOf
<1>2. c = client[e] /\ Fine(c, en, has, can) BY <1>1 DEF View
<1>3. c.pc = "write" /\ c.stage = "open" BY <1>2 DEF ConnectCompleted, Fine, Placed
<1>4. CASE link = "up"
  <2>1. PICK z : z = [c EXCEPT !.pending = FALSE, !.connect = TRUE, !.pc = "connected"] OBVIOUS
  <2>2. z.stage = c.stage /\ z.pending = FALSE /\ z.pc = "connected" BY <2>1 DEF Clients
  <2>3. Fine(z, en, has, can) BY <1>2, <1>3, <2>2 DEF Fine, Placed, Watches, Asleep, Reads
  <2>4. ~Over(c) BY <1>3 DEF Over
  <2>5. client' = [client EXCEPT ![e].pending = FALSE, ![e].connect = TRUE, ![e].pc = "connected"]
        /\ epoll' = epoll /\ eof' = eof /\ pipe' = pipe
    BY <1>4, Zenon DEF ConnectCompleted
  <2>6. client' = [client EXCEPT ![e] = z] BY <1>2, <2>1, <2>5 DEF MemInv
  <2> QED BY <1>1, <2>3, <2>4, <2>5, <2>6, ControlQuiet
<1>5. CASE link # "up"
  <2>1. PICK z : z = [c EXCEPT !.pending = FALSE, !.pc = "wait"] OBVIOUS
  <2>2. z \in Clients /\ z.pc = "wait" BY <2>1 DEF Clients
  <2>3. Shut(e, z) /\ pipe' = pipe BY <1>2, <1>5, <2>1, Zenon DEF ConnectCompleted
  <2> QED BY <2>2, <2>3, ControlShuts
<1> QED BY <1>4, <1>5

LEMMA ControlHandshake ==
    ASSUME MemInv, ControlInv, Handshake PROVE ControlInv'
<1>1. PICK e \in Ends : e = Opener BY SocketAssumption
<1>2. PICK c \in Clients, en \in Entries, has \in BOOLEAN, can \in BOOLEAN : View(e, c, en, has, can)
  BY ViewOf
<1>3. c = client[e] /\ en = epoll[e] /\ Fine(c, en, has, can) BY <1>2 DEF View
<1>4. PICK b \in BOOLEAN : b = (en.listed \/ "w" \in en.interest) BY DEF Entries
<1>5. PICK new : new = [en EXCEPT !.listed = b] OBVIOUS
<1>6. new.interest = en.interest /\ (en.listed => new.listed) BY <1>4, <1>5 DEF Entries
<1>7. Fine(c, new, has, can) BY <1>3, <1>6, StillFine
<1>8. epoll' = [epoll EXCEPT ![e] = new]
  <2>1. epoll' = [epoll EXCEPT ![e].listed = epoll[e].listed \/ "w" \in epoll[e].interest]
    BY <1>1, Zenon DEF Handshake, Edge
  <2> QED BY <1>3, <1>4, <1>5, <2>1 DEF MemInv, RestOK
<1>9. client' = [client EXCEPT ![e] = c] BY <1>3 DEF Handshake, MemInv
<1> QED BY <1>2, <1>7, <1>8, <1>9, ControlModify DEF Handshake

LEMMA ControlReset ==
    ASSUME MemInv, ControlInv, NEW e \in Ends, Reset(e) PROVE ControlInv'
<1>1. PICK p : p = Peer(e) OBVIOUS
<1>2. p \in Ends /\ p # e /\ Peer(p) = e /\ \A d \in Ends : d = e \/ d = p BY <1>1, PeerFacts
<1>3. Control(e) /\ Control(p) BY <1>2 DEF ControlInv
<1>4. eof[e] /\ pipe'[p] = pipe[p] /\ client' = client /\ epoll' = epoll /\ eof' = eof
  BY <1>2 DEF Reset, MemInv, RestOK
<1>5. client[p].stage # "open" BY <1>1, <1>3, <1>4 DEF Control, Over
<1>6. Control(e)'
  <2>1. (pipe[e] # <<>> \/ eof[e]) = (pipe'[e] # <<>> \/ eof'[e]) BY <1>4, Zenon
  <2> QED BY <1>1, <1>3, <1>4, <2>1, Zenon DEF Control
<1>7. Control(p)'
  <2>1. Placed(client[p]) BY <1>3 DEF Control, Fine
  <2>2. ASSUME NEW h, NEW k PROVE Fine(client[p], epoll[p], h, k) BY <1>5, <2>1 DEF Fine
  <2> QED BY <1>3, <1>4, <2>2, Zenon DEF Control
<1> QED BY <1>2, <1>6, <1>7 DEF ControlInv

\* What an edge leaves behind.
LEMMA EdgeStep ==
    ASSUME MemInv, NEW p \in Ends, NEW x, epoll' = Edge(epoll, p, x)
    PROVE  /\ epoll'[p].interest = epoll[p].interest
           /\ epoll[p].listed => epoll'[p].listed
           /\ x \in epoll[p].interest => epoll'[p].listed
           /\ \A d \in Ends : d # p => epoll'[d] = epoll[d]
<1>1. PICK ep : ep = Edge(epoll, p, x) OBVIOUS
<1>2. \A d \in Ends : ep[d] =
                IF d = p THEN [interest |-> epoll[d].interest,
                               listed |-> epoll[d].listed \/ x \in epoll[d].interest]
                ELSE epoll[d]
  <2>1. \A d \in Ends : Edge(epoll, p, x)[d] =
                IF d = p THEN [interest |-> epoll[d].interest,
                               listed |-> epoll[d].listed \/ x \in epoll[d].interest]
                ELSE epoll[d]
    BY EdgeType
  <2> QED BY <1>1, <2>1, Zenon
<1>3. epoll[p] \in Entries BY DEF MemInv, RestOK
<1>4. PICK b \in BOOLEAN : b <=> epoll[p].listed \/ x \in epoll[p].interest BY <1>3 DEF Entries
<1>5. b = (epoll[p].listed \/ x \in epoll[p].interest) BY <1>3, <1>4 DEF Entries
<1>6. ep[p] = [interest |-> epoll[p].interest, listed |-> b] BY <1>2, <1>5, Zenon
<1>7. ep[p].interest = epoll[p].interest /\ ep[p].listed = b BY <1>6
<1>8. \A d \in Ends : d # p => ep[d] = epoll[d] BY <1>2, Zenon
<1> QED BY <1>1, <1>4, <1>7, <1>8

LEMMA ControlReadSome ==
    ASSUME MemInv, ControlInv, NEW e \in Ends, ReadSome(e) PROVE ControlInv'
<1>1. PICK c \in Clients, en \in Entries, has \in BOOLEAN, can \in BOOLEAN : View(e, c, en, has, can)
  BY ViewOf
<1>2. c = client[e] /\ en = epoll[e] /\ Fine(c, en, has, can) BY <1>1 DEF View
<1>3. PICK n \in Nat, z \in Clients, a \in Seq(Slices), b \in Seq(Slices), rv \in Seq(Slices),
           g \in Seq(Chunks) : Taken(e, n, z, a, b, rv, g)
  BY ReadSomeIs
<1>4. PICK p : p = Peer(e) OBVIOUS
<1>5. p \in Ends /\ p # e BY <1>4, PeerFacts
<1>6. c.pc = "read" /\ c.connect /\ c.stage = "open" /\ client' = [client EXCEPT ![e] = z]
  BY <1>2, <1>3 DEF Taken
<1>7. PICK q : z = [c EXCEPT !.recvp = b, !.recvq = q, !.pc = "receive"] BY <1>2, <1>3 DEF Taken
<1>8. /\ z.stage = c.stage /\ z.connect = c.connect /\ z.pending = c.pending /\ z.sendq = c.sendq
      /\ z.pc = "receive" /\ z.writeable = c.writeable
  BY <1>7 DEF Clients
<1>9. ASSUME NEW h PROVE Fine(z, en, h, can)
  BY <1>2, <1>6, <1>8 DEF Fine, Placed, Watches, Asleep, Reads
<1>10. epoll' = Edge(epoll, p, "w") BY <1>3, <1>4, Zenon DEF Taken
<1>11. epoll'[e] = en BY <1>2, <1>5, <1>10, EdgeStep
<1>12. /\ epoll'[p].interest = epoll[p].interest /\ (epoll[p].listed => epoll'[p].listed)
       /\ ("w" \in epoll[p].interest => epoll'[p].listed)
  BY <1>5, <1>10, EdgeStep
<1>13. pipe'[p] = pipe[p] /\ eof' = eof BY <1>3, <1>5 DEF Taken, ReadSome, MemInv, RestOK
<1>14. can = (Len(pipe'[p]) < Capacity \/ eof'[e]) BY <1>1, <1>4, <1>13, Zenon DEF View
<1>15. Fine(z, epoll'[e], pipe'[e] # <<>> \/ eof'[e], Len(pipe'[p]) < Capacity \/ eof'[e])
  BY <1>9, <1>11, <1>14, Zenon
<1>16. ~Over(client[e]) BY <1>2, <1>6 DEF Over
<1> QED BY <1>4, <1>6, <1>12, <1>13, <1>15, <1>16, ControlStep, Zenon

LEMMA ControlSendSome ==
    ASSUME MemInv, ControlInv, NEW e \in Ends, SendSome(e) PROVE ControlInv'
<1>1. PICK c \in Clients, en \in Entries, has \in BOOLEAN, can \in BOOLEAN : View(e, c, en, has, can)
  BY ViewOf
<1>2. c = client[e] /\ en = epoll[e] /\ Fine(c, en, has, can) BY <1>1 DEF View
<1>3. PICK n \in Nat, z \in Clients, a \in Seq(Slices), b \in Seq(Slices) : Written(e, n, z, a, b)
  BY SendSomeIs
<1>4. PICK p : p = Peer(e) OBVIOUS
<1>5. p \in Ends /\ p # e BY <1>4, PeerFacts
<1>6. /\ c.pc = "send" /\ c.stage = "open" /\ client' = [client EXCEPT ![e] = z]
      /\ z = [c EXCEPT !.sendq = b]
  BY <1>2, <1>3 DEF Written
<1>7. /\ z.stage = c.stage /\ z.connect = c.connect /\ z.pending = c.pending
      /\ z.pc = "send" /\ z.ret = c.ret /\ z.writeable = c.writeable
  BY <1>6 DEF Clients
<1>8. Fine(z, en, has, can) BY <1>2, <1>6, <1>7 DEF Fine, Placed, Watches, Asleep, Reads
<1>9. ~Over(c) BY <1>6 DEF Over
<1>10. CASE eof[e]
  <2>1. pipe' = pipe /\ epoll' = epoll /\ eof' = eof BY <1>3, <1>10 DEF Written, SendSome
  <2> QED BY <1>1, <1>6, <1>8, <1>9, <2>1, ControlQuiet
<1>11. CASE ~eof[e]
  <2>1. epoll' = Edge(epoll, p, "r") BY <1>3, <1>4, <1>11, Zenon DEF Written
  <2>2. epoll'[e] = en BY <1>2, <1>5, <2>1, EdgeStep
  <2>3. /\ epoll'[p].interest = epoll[p].interest /\ (epoll[p].listed => epoll'[p].listed)
        /\ ("r" \in epoll[p].interest => epoll'[p].listed)
    BY <1>5, <2>1, EdgeStep
  <2>4. PICK bs : bs = BytesOf(mem[e], a) OBVIOUS
  <2>5. bs \in Seq(Nat)
    <3>1. mem[e] \in Memories BY OwnFacts
    <3> QED BY <2>4, <3>1, BytesOfFacts
  <2>6. pipe' = [pipe EXCEPT ![p] = pipe[p] \o bs] BY <1>3, <1>4, <1>11, <2>4, Zenon DEF Written
  <2>7. pipe'[e] = pipe[e] /\ pipe'[p] = pipe[p] \o bs BY <1>5, <2>6 DEF MemInv, RestOK
  <2>8. eof' = eof BY DEF SendSome
  <2>9. Len(pipe'[p]) < Capacity => Len(pipe[p]) < Capacity
    <3>1. pipe[p] \in Seq(Nat) BY <1>5, OwnFacts
    <3>2. Len(pipe'[p]) = Len(pipe[p]) + Len(bs) /\ Len(pipe[p]) \in Nat /\ Len(bs) \in Nat
      BY <2>5, <2>7, <3>1
    <3> QED BY <3>2, SocketAssumption
  <2>10. PICK h2 \in BOOLEAN : h2 = (pipe'[e] # <<>> \/ eof'[e]) BY Zenon
  <2>11. PICK k2 \in BOOLEAN : k2 = (Len(pipe'[p]) < Capacity \/ eof'[e]) BY Zenon
  <2>12. (h2 => has) /\ (k2 => can) BY <1>1, <1>4, <2>7, <2>8, <2>9, <2>10, <2>11, Zenon DEF View
  <2>13. Fine(z, en, h2, k2) BY <1>8, <2>12, StillFine
  <2>14. Fine(z, epoll'[e], pipe'[e] # <<>> \/ eof'[e], Len(pipe'[p]) < Capacity \/ eof'[e])
    BY <2>2, <2>10, <2>11, <2>13, Zenon
  <2>15. ~Over(client[e]) BY <1>2, <1>9, Zenon
  <2> QED BY <1>4, <1>6, <2>3, <2>7, <2>8, <2>14, <2>15, ControlStep, Zenon
<1> QED BY <1>10, <1>11

LEMMA ControlInit == Init => ControlInv
<1> SUFFICES ASSUME Init, NEW e \in Ends PROVE Control(e) BY DEF ControlInv
<1>1. client[e] = NewClient /\ eof[e] = FALSE BY DEF Init
<1>2. /\ NewClient.stage = "new" /\ NewClient.connect = FALSE /\ NewClient.pending = FALSE
      /\ NewClient.sendq = <<>> /\ NewClient.pc = "wait"
  BY DEF NewClient
<1>3. Placed(client[e]) BY <1>1, <1>2 DEF Placed
<1> QED BY <1>1, <1>2, <1>3 DEF Control, Fine

LEMMA ControlNext == MemInv /\ ControlInv /\ [Next]_vars => ControlInv'
<1> SUFFICES ASSUME MemInv, ControlInv, [Next]_vars PROVE ControlInv' OBVIOUS
<1>1. CASE UNCHANGED vars
  <2>1. client' = client /\ epoll' = epoll /\ pipe' = pipe /\ eof' = eof BY <1>1 DEF vars
  <2> QED BY <2>1, Zenon DEF ControlInv, Control
<1>2. CASE Handshake BY <1>2, ControlHandshake
<1>3. CASE \E e \in Ends :
             \/ Loop(e) \/ Connect(e) \/ Accept(e) \/ Close(e) \/ PushSend(e)
             \/ HandlerThrows(e) \/ ReleasePacket(e) \/ Reset(e)
  <2>1. PICK e \in Ends :
             \/ Loop(e) \/ Connect(e) \/ Accept(e) \/ Close(e) \/ PushSend(e)
             \/ HandlerThrows(e) \/ ReleasePacket(e) \/ Reset(e)
    BY <1>3
  <2>2. CASE Connect(e) \/ Accept(e) \/ Close(e) \/ PushSend(e)
             \/ HandlerThrows(e) \/ ReleasePacket(e) \/ Reset(e)
    BY <2>2, ControlConnect, ControlAccept, ControlClose, ControlPushSend, ControlHandlerThrows,
       ControlReleasePacket, ControlReset, Zenon
  <2>3. CASE Poll(e) \/ Drain(e) \/ ReadStops(e) \/ ReadSome(e) \/ ReadNothing(e) \/ ReadEnd(e)
    BY <2>3, ControlPoll, ControlDrain, ControlReadStops, ControlReadSome, ControlReadNothing,
       ControlReadEnd, Zenon
  <2>4. CASE ReceivePacket(e) \/ ReceiveMore(e) \/ ReceiveBroken(e) \/ Handled(e)
    BY <2>4, ControlReceivePacket, ControlReceiveMore, ControlReceiveBroken, ControlHandled, Zenon
  <2>5. CASE SendDone(e) \/ SendSome(e) \/ SendBlocked(e) \/ SendFails(e)
             \/ ConnectCompleted(e) \/ Writeable(e)
    BY <2>5, ControlSendDone, ControlSendSome, ControlSendBlocked, ControlSendFails,
       ControlConnectCompleted, ControlWriteable, Zenon
  <2> QED BY <2>1, <2>2, <2>3, <2>4, <2>5, Zenon DEF Loop
<1> QED BY <1>1, <1>2, <1>3, Zenon DEF Next

LEMMA ControlEdges == MemInv /\ ControlInv => NoLostEdge
<1> SUFFICES ASSUME MemInv, ControlInv, NEW e \in Ends,
                    client[e].pc = "wait" /\ client[e].stage = "open" /\ client[e].connect
             PROVE  /\ "r" \in Level(e) =>
                          epoll[e].listed \/ (epoll[e].interest = {"w"} /\ "w" \notin Level(e))
                    /\ client[e].sendq # <<>> =>
                          /\ "w" \in epoll[e].interest
                          /\ "w" \in Level(e) => epoll[e].listed
  BY DEF NoLostEdge
<1>1. PICK c \in Clients, en \in Entries, has \in BOOLEAN, can \in BOOLEAN : View(e, c, en, has, can)
  BY ViewOf
<1>2. c = client[e] /\ en = epoll[e] /\ Fine(c, en, has, can) BY <1>1 DEF View
<1>3. c.pc = "wait" /\ c.stage = "open" /\ c.connect BY <1>2
<1>4. en.interest # {} /\ ~c.pending /\ Watches(c, en, has, can) BY <1>2, <1>3 DEF Fine, Placed
<1>5. ("r" \in Level(e) <=> has) /\ ("w" \in Level(e) <=> can)
  <2>1. ~client[e].pending BY <1>2, <1>4, Zenon
  <2> QED BY <1>1, <2>1, LevelIs, Zenon DEF View
<1>6. /\ has /\ "r" \in en.interest => en.listed
      /\ can /\ "w" \in en.interest => en.listed
      /\ c.sendq # <<>> => "w" \in en.interest
  BY <1>3, <1>4, Zenon DEF Watches, Asleep
<1>7. "r" \notin en.interest => en.interest = {"w"} BY <1>4 DEF Entries
<1>8. ~en.listed /\ has => en.interest = {"w"} /\ ~can BY <1>6, <1>7
<1> QED BY <1>2, <1>5, <1>6, <1>8, Zenon

\* No client sleeps through input or room for its output: edge-triggered
\* registration, with OnEventIOReadable reading to EAGAIN and InvokeSend asking for
\* writability at EAGAIN, never leaves work behind that no event announces.
THEOREM NoEdgeIsLost == Spec => []NoLostEdge
<1>1. Init => MemInv /\ ControlInv BY MemInit, ControlInit
<1>2. MemInv /\ ControlInv /\ [Next]_vars => MemInv' /\ ControlInv' BY MemNext, ControlNext
<1> QED BY <1>1, <1>2, ControlEdges, PTL DEF Spec

LEMMA ControlModifies == ~EarlyReset /\ ControlInv => ModifySucceeds
BY DEF ControlInv, Control, Fine, Placed, ModifySucceeds

\* The types, a memory pool whose chunks are nobody's, and, as long as no write
\* fails inside OnConnect, no EPOLL_CTL_MOD of a closed descriptor.
THEOREM SocketIsSound ==
    ASSUME ~EarlyReset PROVE Spec => []SocketSound
<1> SUFFICES ASSUME ~EarlyReset PROVE Spec => []SocketSound OBVIOUS
<1>1. Init => MemInv /\ ControlInv BY MemInit, ControlInit
<1>2. MemInv /\ ControlInv /\ [Next]_vars => MemInv' /\ ControlInv' BY MemNext, ControlNext
<1>3. MemInv /\ ControlInv => SocketSound BY MemType, MemPool, ControlModifies DEF SocketSound
<1> QED BY <1>1, <1>2, <1>3, PTL DEF Spec

-----------------------------------------------------------------------------
(* The stream *)

\* LastByte and PacketBytes of an end whose packets have the lengths l.
LastOf(l, k) ==
    LET n[i \in 0 .. Len(l)] == IF i = 0 THEN 0 ELSE n[i - 1] + l[i] IN n[k]

Packet(l, k) == [i \in 1 .. l[k] |-> LastOf(l, k - 1) + i]

LEMMA LastByteOf == \A e, k : LastByte(e, k) = LastOf(lengths[e], k)
BY Zenon DEF LastByte, LastOf

LEMMA PacketBytesOf == \A e, k : PacketBytes(e, k) = Packet(lengths[e], k)
BY LastByteOf, Zenon DEF PacketBytes, Packet

\* Packets that are not empty, one after the other.
Ruled(l) ==
    /\ l \in Seq(Nat)
    /\ \A k \in 1 .. Len(l) : l[k] >= HEAD_SIZE /\ LastOf(l, k) = LastOf(l, k - 1) + l[k]
    /\ \A k \in 0 .. Len(l) : LastOf(l, k) \in Nat
    /\ \A i, j \in 0 .. Len(l) : i < j => LastOf(l, i) < LastOf(l, j)
    /\ LastOf(l, 0) = 0

LEMMA RuledIs ==
    ASSUME NEW e \in Ends, lengths \in Workloads, NEW l, l = lengths[e] PROVE Ruled(l)
<1>1. l \in Seq(Nat) BY LastByteIs
<1>2. PICK N \in Nat : N = Len(l) BY <1>1
<1>3. PICK n : Sums(n, l, N) /\ \A k \in 0 .. N : LastByte(e, k) = n[k] BY <1>2, LastByteIs
<1>4. \A k \in 0 .. N : LastOf(l, k) = n[k] BY <1>3, LastByteOf, Zenon
<1>5. l \in [1 .. N -> Nat] BY <1>1, <1>2
<1>6. \A k \in 1 .. N : l[k] >= HEAD_SIZE /\ l[k] \in Nat BY <1>2, PacketFacts
<1>7. \A k \in 1 .. N : l[k] > 0 BY <1>6, SocketAssumption
<1>8. \A i, j \in 0 .. N : i < j => n[i] < n[j] BY <1>3, <1>5, <1>7, SumsGrow
<1>9. n \in [0 .. N -> Nat] /\ n[0] = 0 /\ \A i \in 1 .. N : n[i] = n[i - 1] + l[i] BY <1>3 DEF Sums
<1>10. \A k \in 1 .. N : k \in 0 .. N /\ k - 1 \in 0 .. N OBVIOUS
<1>11. \A k \in 1 .. N : LastOf(l, k) = LastOf(l, k - 1) + l[k] BY <1>4, <1>9, <1>10
<1>12. \A i, j \in 0 .. N : i < j => LastOf(l, i) < LastOf(l, j) BY <1>4, <1>8
<1>13. \A k \in 0 .. N : LastOf(l, k) \in Nat BY <1>4, <1>9
<1>14. LastOf(l, 0) = 0 BY <1>4, <1>9
<1> QED BY <1>1, <1>2, <1>6, <1>11, <1>12, <1>13, <1>14 DEF Ruled

\* s is the bytes after byte g, without a gap.
Run(s, g) == s \in Seq(Nat) /\ \A i \in 1 .. Len(s) : s[i] = g + i

LEMMA RunJoin ==
    ASSUME NEW g \in Nat, NEW a \in Seq(Nat), NEW b \in Seq(Nat), NEW s, s = a \o b
    PROVE  /\ s \in Seq(Nat) /\ Len(s) = Len(a) + Len(b)
           /\ Run(s, g) <=> Run(a, g) /\ Run(b, g + Len(a))
<1>1. PICK n \in Nat : n = Len(a) OBVIOUS
<1>2. PICK m \in Nat : m = Len(b) OBVIOUS
<1>3. s \in Seq(Nat) /\ Len(s) = n + m BY <1>1, <1>2
<1>4. \A i \in 1 .. n : s[i] = a[i] BY <1>1
<1>5. \A i \in 1 .. m : s[n + i] = b[i] BY <1>1, <1>2
<1>6. ASSUME Run(s, g) PROVE Run(a, g) /\ Run(b, g + n)
  <2>1. ASSUME NEW i \in 1 .. n PROVE a[i] = g + i
    <3>1. i \in 1 .. Len(s) BY <1>3
    <3> QED BY <1>4, <1>6, <3>1 DEF Run
  <2>2. ASSUME NEW i \in 1 .. m PROVE b[i] = g + n + i
    <3>1. n + i \in 1 .. Len(s) BY <1>3
    <3>2. s[n + i] = g + (n + i) BY <1>6, <3>1 DEF Run
    <3>3. s[n + i] = b[i] BY <1>5
    <3>4. g + (n + i) = g + n + i OBVIOUS
    <3> QED BY <3>2, <3>3, <3>4
  <2> QED BY <1>1, <1>2, <2>1, <2>2 DEF Run
<1>7. ASSUME Run(a, g), Run(b, g + n) PROVE Run(s, g)
  <2> SUFFICES ASSUME NEW i \in 1 .. Len(s) PROVE s[i] = g + i BY <1>3 DEF Run
  <2>1. CASE i \in 1 .. n
    <3>1. a[i] = g + i BY <1>1, <1>7, <2>1 DEF Run
    <3> QED BY <1>4, <2>1, <3>1
  <2>2. CASE i \notin 1 .. n
    <3>1. PICK j \in 1 .. m : i = n + j
      <4>1. i - n \in 1 .. m /\ i = n + (i - n) BY <1>3, <2>2
      <4> QED BY <4>1
    <3>2. b[j] = g + n + j BY <1>2, <1>7, <3>1 DEF Run
    <3>3. s[i] = b[j] BY <1>5, <3>1
    <3> QED BY <3>1, <3>2, <3>3
  <2> QED BY <2>1, <2>2
<1> QED BY <1>1, <1>2, <1>3, <1>6, <1>7

\* Packet k of l is a run.
LEMMA PacketRuns ==
    ASSUME NEW l, Ruled(l), NEW k \in 1 .. Len(l)
    PROVE  /\ k - 1 \in 0 .. Len(l) /\ k \in 0 .. Len(l) /\ LastOf(l, k - 1) \in Nat /\ l[k] \in Nat
           /\ l[k] >= HEAD_SIZE /\ LastOf(l, k) = LastOf(l, k - 1) + l[k] /\ LastOf(l, k) \in Nat
           /\ Packet(l, k) \in Seq(Nat) /\ Len(Packet(l, k)) = l[k]
           /\ Run(Packet(l, k), LastOf(l, k - 1))
<1>1. k - 1 \in 0 .. Len(l) /\ k \in 0 .. Len(l) BY DEF Ruled
<1>2. PICK g \in Nat : g = LastOf(l, k - 1) BY <1>1 DEF Ruled
<1>3. PICK n \in Nat : n = l[k] BY DEF Ruled
<1>4. PICK s : s = [i \in 1 .. n |-> g + i] OBVIOUS
<1>5. s \in Seq(Nat) /\ Len(s) = n /\ \A i \in 1 .. n : s[i] = g + i BY <1>4
<1>6. Packet(l, k) = s BY <1>2, <1>3, <1>4, Zenon DEF Packet
<1>7. Run(s, g) BY <1>5 DEF Run
<1>8. l[k] >= HEAD_SIZE /\ LastOf(l, k) = LastOf(l, k - 1) + l[k] /\ LastOf(l, k) \in Nat
  BY <1>1 DEF Ruled
<1> QED BY <1>1, <1>2, <1>3, <1>5, <1>6, <1>7, <1>8

\* Two runs with the same bytes.
LEMMA RunsEqual ==
    ASSUME NEW g \in Nat, NEW a, NEW b, Run(a, g), Run(b, g), Len(a) = Len(b) PROVE a = b
<1>1. PICK n \in Nat : n = Len(a) BY DEF Run
<1>2. \A i \in 1 .. n : a[i] = b[i] BY <1>1 DEF Run
<1>3. a \in [1 .. n -> Nat] /\ b \in [1 .. n -> Nat] BY <1>1 DEF Run
<1> QED BY <1>2, <1>3

\* One direction of the connection.  n packets of the lengths l have been popped and
\* m pushed; R is what the reader has buffered, P is in flight, S is what the
\* writer has queued.  The reader is gone, or it has a run of the bytes that
\* follow the packets it popped; while both are there nothing is missing.
Flows(l, R, P, S, n, m, gone, both) ==
    /\ m \in 0 .. Len(l) /\ n \in 0 .. m
    /\ R \in Seq(Nat) /\ P \in Seq(Nat) /\ S \in Seq(Nat)
    /\ ~gone => /\ Run(R, LastOf(l, n)) /\ Run(P, LastOf(l, n) + Len(R))
                /\ LastOf(l, n) + Len(R) + Len(P) <= LastOf(l, m)
    /\ both => /\ Run(S, LastOf(l, n) + Len(R) + Len(P))
               /\ LastOf(l, n) + Len(R) + Len(P) + Len(S) = LastOf(l, m)

LEMMA FlowsLess ==
    ASSUME NEW l, NEW R, NEW P, NEW S, NEW n, NEW m, NEW gone, NEW both, NEW gone2, NEW both2,
           Flows(l, R, P, S, n, m, gone, both), gone => gone2, both2 => both
    PROVE  Flows(l, R, P, S, n, m, gone2, both2)
BY Zenon DEF Flows

LEMMA FlowsNat ==
    ASSUME NEW l, Ruled(l), NEW R, NEW P, NEW S, NEW n, NEW m, NEW gone, NEW both,
           Flows(l, R, P, S, n, m, gone, both)
    PROVE  /\ m \in 0 .. Len(l) /\ n \in 0 .. Len(l) /\ n <= m /\ n \in Nat /\ m \in Nat /\ Len(l) \in Nat
           /\ LastOf(l, n) \in Nat /\ LastOf(l, m) \in Nat
           /\ Len(R) \in Nat /\ Len(P) \in Nat /\ Len(S) \in Nat
<1>1. Len(l) \in Nat BY DEF Ruled
<1>2. m \in 0 .. Len(l) /\ n \in 0 .. Len(l) /\ n <= m /\ n \in Nat /\ m \in Nat BY <1>1 DEF Flows
<1> QED BY <1>1, <1>2 DEF Flows, Ruled

\* writev moves bytes from the queue into the pipe.
LEMMA FlowsSend ==
    ASSUME NEW l, Ruled(l), NEW R, NEW P, NEW S, NEW n, NEW m,
           Flows(l, R, P, S, n, m, FALSE, TRUE),
           NEW a \in Seq(Nat), NEW b \in Seq(Nat), S = a \o b, NEW Q, Q = P \o a
    PROVE  Flows(l, R, Q, b, n, m, FALSE, TRUE)
<1>1. PICK g \in Nat : g = LastOf(l, n) BY FlowsNat
<1>2. PICK t \in Nat : t = LastOf(l, m) BY FlowsNat
<1>3. PICK r \in Nat : r = Len(R) BY FlowsNat
<1>4. PICK p \in Nat : p = Len(P) BY FlowsNat
<1>5. P \in Seq(Nat) /\ Run(R, g) /\ Run(P, g + r) /\ Run(S, g + r + p) /\ g + r + p + Len(S) = t
  BY <1>1, <1>2, <1>3, <1>4 DEF Flows
<1>6. PICK h \in Nat : h = g + r OBVIOUS
<1>7. PICK k \in Nat : k = g + r + p OBVIOUS
<1>8. Run(a, k) /\ Run(b, k + Len(a)) /\ Len(S) = Len(a) + Len(b) BY <1>5, <1>7, RunJoin
<1>9. Run(P, h) /\ Run(a, h + Len(P)) BY <1>4, <1>5, <1>6, <1>7, <1>8
<1>10. Q \in Seq(Nat) /\ Run(Q, h) /\ Len(Q) = Len(P) + Len(a) BY <1>5, <1>9, RunJoin
<1>11. PICK x \in Nat : x = Len(a) OBVIOUS
<1>12. PICK y \in Nat : y = Len(b) OBVIOUS
<1>13. Run(b, g + r + Len(Q)) /\ g + r + Len(Q) + Len(b) = t /\ g + r + Len(Q) <= t
  <2>1. Len(Q) = p + x /\ k + x = g + r + (p + x) /\ g + r + p + (x + y) = t
    BY <1>4, <1>5, <1>7, <1>8, <1>10, <1>11, <1>12
  <2>2. Run(b, g + r + Len(Q)) BY <1>8, <1>11, <2>1
  <2> QED BY <1>12, <2>1, <2>2
<1> QED BY <1>1, <1>2, <1>3, <1>5, <1>6, <1>10, <1>13 DEF Flows

\* readv moves bytes from the pipe into the buffer.
LEMMA FlowsRead ==
    ASSUME NEW l, Ruled(l), NEW R, NEW P, NEW S, NEW n, NEW m, NEW both,
           Flows(l, R, P, S, n, m, FALSE, both),
           NEW a \in Seq(Nat), NEW b \in Seq(Nat), P = a \o b, NEW Q, Q = R \o a
    PROVE  Flows(l, Q, b, S, n, m, FALSE, both)
<1>1. PICK g \in Nat : g = LastOf(l, n) BY FlowsNat
<1>2. PICK t \in Nat : t = LastOf(l, m) BY FlowsNat
<1>3. PICK r \in Nat : r = Len(R) BY FlowsNat
<1>4. R \in Seq(Nat) /\ Run(R, g) /\ Run(P, g + r) /\ g + r + Len(P) <= t
  BY <1>1, <1>2, <1>3 DEF Flows
<1>5. PICK h \in Nat : h = g + r OBVIOUS
<1>6. Run(a, h) /\ Run(b, h + Len(a)) /\ Len(P) = Len(a) + Len(b) BY <1>4, <1>5, RunJoin
<1>7. Run(a, g + Len(R)) BY <1>3, <1>5, <1>6
<1>8. Q \in Seq(Nat) /\ Run(Q, g) /\ Len(Q) = Len(R) + Len(a) BY <1>4, <1>7, RunJoin
<1>9. PICK x \in Nat : x = Len(a) OBVIOUS
<1>10. PICK y \in Nat : y = Len(b) OBVIOUS
<1>11. Len(Q) = r + x /\ Len(P) = x + y /\ h + x = g + (r + x) BY <1>3, <1>5, <1>6, <1>8, <1>9, <1>10
<1>12. Run(b, g + Len(Q)) BY <1>6, <1>9, <1>11
<1>13. g + Len(Q) + Len(b) = g + r + Len(P) BY <1>10, <1>11
<1>14. S \in Seq(Nat) /\ m \in 0 .. Len(l) /\ n \in 0 .. m BY DEF Flows
<1>15. both => Run(S, g + r + Len(P)) /\ g + r + Len(P) + Len(S) = t
  BY <1>1, <1>2, <1>3 DEF Flows
<1>16. both => Run(S, g + Len(Q) + Len(b)) /\ g + Len(Q) + Len(b) + Len(S) = t BY <1>13, <1>15, Zenon
<1> QED BY <1>1, <1>2, <1>4, <1>8, <1>12, <1>13, <1>14, <1>16 DEF Flows

\* PushSend queues the next packet.
LEMMA FlowsPush ==
    ASSUME NEW l, Ruled(l), NEW R, NEW P, NEW S, NEW n, NEW m, NEW gone, NEW both,
           Flows(l, R, P, S, n, m, gone, both),
           NEW k \in 1 .. Len(l), k = m + 1, NEW a, a = Packet(l, k), NEW Q, Q = S \o a
    PROVE  Flows(l, R, P, Q, n, k, gone, both)
<1>1. PICK g \in Nat : g = LastOf(l, n) BY FlowsNat
<1>2. PICK t \in Nat : t = LastOf(l, m) BY FlowsNat
<1>3. PICK r \in Nat : r = Len(R) BY FlowsNat
<1>4. PICK p \in Nat : p = Len(P) BY FlowsNat
<1>5. PICK x \in Nat : x = l[k] BY PacketRuns
<1>6. m \in Nat /\ n \in Nat /\ n <= m /\ k - 1 = m BY FlowsNat
<1>7. /\ LastOf(l, k - 1) = t /\ LastOf(l, k) = t + x /\ a \in Seq(Nat) /\ Len(a) = x /\ Run(a, t)
  BY <1>2, <1>5, <1>6, PacketRuns
<1>8. R \in Seq(Nat) /\ P \in Seq(Nat) /\ S \in Seq(Nat) BY DEF Flows
<1>9. Q \in Seq(Nat) /\ Len(Q) = Len(S) + Len(a) BY <1>7, <1>8, RunJoin
<1>10. k \in 0 .. Len(l) /\ n \in 0 .. k BY <1>6, FlowsNat
<1>11. ~gone => Run(R, g) /\ Run(P, g + r) /\ g + r + p <= t + x
  <2>1. ~gone => Run(R, g) /\ Run(P, g + r) /\ g + r + p <= t BY <1>1, <1>2, <1>3, <1>4 DEF Flows
  <2>2. g + r + p <= t => g + r + p <= t + x OBVIOUS
  <2> QED BY <2>1, <2>2
<1>12. ASSUME both PROVE Run(Q, g + r + p) /\ g + r + p + Len(Q) = t + x
  <2>1. Run(S, g + r + p) /\ g + r + p + Len(S) = t BY <1>1, <1>2, <1>3, <1>4, <1>12 DEF Flows
  <2>2. PICK h \in Nat : h = g + r + p OBVIOUS
  <2>3. Run(S, h) /\ Run(a, h + Len(S)) BY <1>7, <2>1, <2>2
  <2>4. Run(Q, h) BY <1>7, <1>8, <2>3, RunJoin
  <2>5. PICK y \in Nat : y = Len(S) BY <1>8
  <2>6. h + (y + x) = t + x BY <2>1, <2>2, <2>5
  <2> QED BY <1>7, <1>9, <2>2, <2>4, <2>5, <2>6
<1> QED BY <1>1, <1>3, <1>4, <1>7, <1>8, <1>9, <1>10, <1>11, <1>12 DEF Flows

\* PopReceive: the header that is in front is the one of the next packet.
Pops(l, R, P, S, n, m, both, k, a, b) ==
    /\ Flows(l, R, P, S, n, m, FALSE, both)
    /\ R = a \o b /\ Len(a) = l[k] /\ a[1] = LastOf(l, k - 1) + 1

After(l, P, S, n, m, both, k, a, b) ==
    k = n + 1 /\ k <= m /\ a = Packet(l, k) /\ Flows(l, b, P, S, k, m, FALSE, both)

LEMMA FlowsPop ==
    ASSUME NEW l, Ruled(l), NEW R, NEW P, NEW S, NEW n, NEW m, NEW both,
           NEW k \in 1 .. Len(l), NEW a \in Seq(Nat), NEW b \in Seq(Nat),
           Pops(l, R, P, S, n, m, both, k, a, b)
    PROVE  After(l, P, S, n, m, both, k, a, b)
<1>a. Flows(l, R, P, S, n, m, FALSE, both) BY Zenon DEF Pops
<1>b. R = a \o b BY Zenon DEF Pops
<1>c. Len(a) = l[k] BY Zenon DEF Pops
<1>d. a[1] = LastOf(l, k - 1) + 1 BY Zenon DEF Pops
<1>1. PICK g \in Nat : g = LastOf(l, n) BY <1>a, FlowsNat
<1>2. PICK t \in Nat : t = LastOf(l, m) BY <1>a, FlowsNat
<1>3. PICK x \in Nat : x = l[k] BY PacketRuns
<1>4. PICK p \in Nat : p = Len(P) BY <1>a, FlowsNat
<1>5. x > 0
  <2>1. HEAD_SIZE \in Nat /\ HEAD_SIZE > 0 BY SocketAssumption
  <2>2. l[k] >= HEAD_SIZE BY PacketRuns
  <2> QED BY <1>3, <2>1, <2>2
<1>6. Run(R, g) /\ Run(P, g + Len(R)) /\ g + Len(R) + p <= t BY <1>a, <1>1, <1>2, <1>4 DEF Flows
<1>7. Run(a, g) /\ Run(b, g + Len(a)) /\ Len(R) = Len(a) + Len(b) BY <1>b, <1>6, RunJoin
<1>8. PICK y \in Nat : y = Len(b) OBVIOUS
<1>9. Len(R) = x + y BY <1>c, <1>3, <1>7, <1>8
<1>10. a[1] = g + 1
  <2>1. 1 \in 1 .. Len(a) BY <1>c, <1>3, <1>5
  <2> QED BY <1>7, <2>1 DEF Run
<1>11. k - 1 \in 0 .. Len(l) /\ k \in 0 .. Len(l) /\ n \in 0 .. Len(l) /\ m \in 0 .. Len(l)
       /\ n \in Nat /\ m \in Nat /\ k \in Nat /\ Len(l) \in Nat
  <2>1. n \in 0 .. Len(l) /\ m \in 0 .. Len(l) /\ n \in Nat /\ m \in Nat /\ Len(l) \in Nat BY <1>a, FlowsNat
  <2>2. k - 1 \in 0 .. Len(l) /\ k \in 0 .. Len(l) BY PacketRuns
  <2> QED BY <2>1, <2>2
<1>12. LastOf(l, k - 1) = g
  <2>1. LastOf(l, k - 1) \in Nat BY PacketRuns
  <2> QED BY <1>d, <1>10, <2>1
<1>13. k = n + 1
  <2>a. PICK j \in Nat : j = k - 1 BY <1>11
  <2>b. j \in 0 .. Len(l) /\ LastOf(l, j) = g BY <1>11, <1>12, <2>a
  <2>c. (j < n => LastOf(l, j) < LastOf(l, n)) /\ (n < j => LastOf(l, n) < LastOf(l, j))
    BY <1>11, <2>b DEF Ruled
  <2>1. ~(k - 1 < n) /\ ~(n < k - 1) BY <1>1, <2>a, <2>b, <2>c
  <2> QED BY <1>11, <2>1
<1>14. LastOf(l, k) = g + x BY <1>3, <1>12, PacketRuns
<1>15. k <= m
  <2>1. g + x <= t BY <1>6, <1>9
  <2>2. ~(m < k) BY <1>2, <1>11, <1>14, <2>1 DEF Ruled
  <2> QED BY <1>11, <2>2
<1>16. a = Packet(l, k)
  <2>1. Run(Packet(l, k), g) /\ Len(Packet(l, k)) = x BY <1>3, <1>12, PacketRuns
  <2> QED BY <1>c, <1>3, <1>7, <2>1, RunsEqual
<1>17. PICK f \in Nat : f = LastOf(l, k) BY PacketRuns
<1>18. f = g + x BY <1>14, <1>17
<1>19. Run(b, f) BY <1>c, <1>3, <1>7, <1>18
<1>20. f + Len(b) = g + Len(R) BY <1>8, <1>9, <1>18
<1>21. Run(P, f + Len(b)) /\ f + Len(b) + p <= t BY <1>6, <1>20
<1>22. P \in Seq(Nat) /\ S \in Seq(Nat) /\ (both => Run(S, g + Len(R) + Len(P)) /\ g + Len(R) + Len(P) + Len(S) = t)
  BY <1>a, <1>1, <1>2 DEF Flows
<1>23. both => Run(S, f + Len(b) + Len(P)) /\ f + Len(b) + Len(P) + Len(S) = t BY <1>20, <1>22, Zenon
<1>24. k \in 0 .. m BY <1>11, <1>15
<1> QED BY <1>2, <1>4, <1>11, <1>13, <1>15, <1>16, <1>17, <1>19, <1>21, <1>22, <1>23, <1>24 DEF After, Flows

\* What is in flight is lost once somebody has closed.
LEMMA FlowsReset ==
    ASSUME NEW l, Ruled(l), NEW R, NEW P, NEW S, NEW n, NEW m, NEW gone,
           Flows(l, R, P, S, n, m, gone, FALSE), NEW Q, Q = <<>>
    PROVE  Flows(l, R, Q, S, n, m, gone, FALSE)
<1>1. PICK g \in Nat : g = LastOf(l, n) BY FlowsNat
<1>2. PICK t \in Nat : t = LastOf(l, m) BY FlowsNat
<1>3. PICK r \in Nat : r = Len(R) BY FlowsNat
<1>4. PICK p \in Nat : p = Len(P) BY FlowsNat
<1>5. Q \in Seq(Nat) /\ Len(Q) = 0 OBVIOUS
<1>6. Run(Q, g + r) BY <1>5 DEF Run
<1>7. ~gone => Run(R, g) /\ g + r + p <= t BY <1>1, <1>2, <1>3, <1>4 DEF Flows
<1>8. g + r + p <= t => g + r + 0 <= t OBVIOUS
<1> QED BY <1>1, <1>2, <1>3, <1>5, <1>6, <1>7, <1>8 DEF Flows

\* A step that leaves the stages and the link as they are, with z the new
\* client object of e ...
Goes(e, z) ==
    /\ client' = [client EXCEPT ![e] = z]
    /\ z.stage = client[e].stage
    /\ link' = link /\ eof' = eof

\* ... and the queues too.
SameQueues(o, z) == z.recvq = o.recvq /\ z.sendq = o.sendq

\* A close.
Closes(e, c) ==
    /\ Shut(e, c) /\ client[e].stage = "open"
    /\ c \in Clients /\ SameQueues(client[e], c)

LEMMA QuietPoll ==
    ASSUME MemInv, NEW e \in Ends, Poll(e) PROVE \E z : Goes(e, z) /\ SameQueues(client[e], z)
<1>1. PICK c \in Clients : c = client[e] BY DEF MemInv
<1>2. PICK x, w : client' = [client EXCEPT ![e].pc = x, ![e].writeable = w] BY DEF Poll
<1>3. PICK z : z = [c EXCEPT !.pc = x, !.writeable = w] OBVIOUS
<1>4. z.stage = c.stage /\ z.recvq = c.recvq /\ z.sendq = c.sendq BY <1>3 DEF Clients
<1>5. client' = [client EXCEPT ![e] = z] BY <1>1, <1>2, <1>3 DEF MemInv
<1> QED BY <1>1, <1>4, <1>5 DEF Goes, SameQueues, Poll, kernel

LEMMA QuietReadStops ==
    ASSUME MemInv, NEW e \in Ends, ReadStops(e) PROVE \E z : Goes(e, z) /\ SameQueues(client[e], z)
<1>1. PICK z : z = ReadDone(e) OBVIOUS
<1>2. z.stage = client[e].stage /\ z.recvq = client[e].recvq /\ z.sendq = client[e].sendq
  BY <1>1, ReadDoneIs DEF ReadStops
<1> QED BY <1>1, <1>2 DEF Goes, SameQueues, ReadStops, kernel

LEMMA QuietReadNothing ==
    ASSUME MemInv, NEW e \in Ends, ReadNothing(e) PROVE \E z : Goes(e, z) /\ SameQueues(client[e], z)
<1>1. PICK y : y = ReadDone(e) OBVIOUS
<1>2. y \in Clients /\ y.stage = client[e].stage /\ y.recvq = client[e].recvq /\ y.sendq = client[e].sendq
  BY <1>1, ReadDoneIs DEF ReadNothing, Reading
<1>3. PICK r : r = Receivers(e) OBVIOUS
<1>4. PICK z : z = [y EXCEPT !.recvp = r] OBVIOUS
<1>5. z.stage = y.stage /\ z.recvq = y.recvq /\ z.sendq = y.sendq BY <1>2, <1>4 DEF Clients
<1>6. client' = [client EXCEPT ![e] = z] BY <1>1, <1>3, <1>4, Zenon DEF ReadNothing
<1> QED BY <1>2, <1>5, <1>6 DEF Goes, SameQueues, ReadNothing, kernel

LEMMA QuietMoves ==
    ASSUME MemInv, NEW e \in Ends,
           NEW x \in {"wait", "read", "receive", "handle", "send", "write", "connected", "aborted"},
           client' = [client EXCEPT ![e].pc = x], link' = link, eof' = eof
    PROVE  \E z : Goes(e, z) /\ SameQueues(client[e], z)
<1>1. PICK c \in Clients : c = client[e] BY DEF MemInv
<1>2. PICK z : z = [c EXCEPT !.pc = x] OBVIOUS
<1>3. z.stage = c.stage /\ z.recvq = c.recvq /\ z.sendq = c.sendq BY <1>2, Moved
<1>4. client' = [client EXCEPT ![e] = z] BY <1>1, <1>2 DEF MemInv
<1> QED BY <1>1, <1>3, <1>4 DEF Goes, SameQueues

LEMMA QuietReceiveMore ==
    ASSUME MemInv, NEW e \in Ends, ReceiveMore(e) PROVE \E z : Goes(e, z) /\ SameQueues(client[e], z)
BY QuietMoves DEF ReceiveMore, kernel

LEMMA QuietHandled ==
    ASSUME MemInv, NEW e \in Ends, Handled(e) PROVE \E z : Goes(e, z) /\ SameQueues(client[e], z)
BY QuietMoves DEF Handled, kernel

LEMMA QuietReleasePacket ==
    ASSUME MemInv, NEW e \in Ends, ReleasePacket(e) PROVE \E z : Goes(e, z) /\ SameQueues(client[e], z)
<1>1. client' = [client EXCEPT ![e] = client[e]] BY DEF ReleasePacket, MemInv
<1> QED BY <1>1 DEF Goes, SameQueues, ReleasePacket, kernel

LEMMA QuietReset ==
    ASSUME MemInv, NEW e \in Ends, Reset(e) PROVE \E z : Goes(e, z) /\ SameQueues(client[e], z)
<1>1. client' = [client EXCEPT ![e] = client[e]] BY DEF Reset, MemInv
<1> QED BY <1>1 DEF Goes, SameQueues, Reset

LEMMA QuietSendDone ==
    ASSUME MemInv, NEW e \in Ends, SendDone(e) \/ SendBlocked(e)
    PROVE  \E z : Goes(e, z) /\ SameQueues(client[e], z)
<1>1. PICK c \in Clients : c = client[e] BY DEF MemInv
<1>2. PICK z : z = SendReturns(e, c) OBVIOUS
<1>3. z.stage = c.stage /\ z.recvq = c.recvq /\ z.sendq = c.sendq BY <1>2, Returned
<1>4. client' = [client EXCEPT ![e] = z] BY <1>1, <1>2 DEF SendDone, SendBlocked, MemInv
<1> QED BY <1>1, <1>3, <1>4 DEF Goes, SameQueues, SendDone, SendBlocked, kernel

LEMMA QuietWriteable ==
    ASSUME MemInv, NEW e \in Ends, Writeable(e) PROVE \E z : Goes(e, z) /\ SameQueues(client[e], z)
<1>1. PICK c \in Clients : c = client[e] BY DEF MemInv
<1>2. CASE client' = [client EXCEPT ![e].pc = "aborted"] BY <1>2, QuietMoves DEF Writeable, kernel
<1>3. CASE client' = [client EXCEPT ![e].pc = "send", ![e].ret = "wait"]
  <2>1. PICK z : z = [c EXCEPT !.pc = "send", !.ret = "wait"] OBVIOUS
  <2>2. z.stage = c.stage /\ z.recvq = c.recvq /\ z.sendq = c.sendq BY <2>1 DEF Clients
  <2>3. client' = [client EXCEPT ![e] = z] BY <1>1, <1>3, <2>1 DEF MemInv
  <2> QED BY <1>1, <2>2, <2>3 DEF Goes, SameQueues, Writeable, kernel
<1> QED BY <1>2, <1>3 DEF Writeable

LEMMA QuietClose ==
    ASSUME MemInv, NEW e \in Ends, Close(e) PROVE \E c : Closes(e, c)
BY DEF Close, Closes, SameQueues, MemInv

LEMMA QuietReadEnd ==
    ASSUME MemInv, NEW e \in Ends, ReadEnd(e) PROVE \E c : Closes(e, c)
<1>1. PICK r : r = Receivers(e) OBVIOUS
<1>2. PICK c : c = [client[e] EXCEPT !.pc = "wait", !.recvp = r] OBVIOUS
<1>3. Shut(e, c) BY <1>1, <1>2, Zenon DEF ReadEnd
<1>4. r \in Seq(Slices)
  <2>1. PICK g : g = FreeAfterAquire(e, RECVP_SIZE - Len(client[e].recvp)) OBVIOUS
  <2>2. Reading(e) BY DEF ReadEnd
  <2>3. Room(e, r, g) BY <1>1, <2>1, <2>2, ReceiversFacts
  <2> QED BY <2>3 DEF Room
<1>5. client[e] \in Clients BY DEF MemInv
<1>6. c \in Clients /\ c.recvq = client[e].recvq /\ c.sendq = client[e].sendq
  BY <1>2, <1>4, <1>5 DEF Clients
<1>7. client[e].stage = "open" BY DEF ReadEnd, Reading
<1> QED BY <1>3, <1>6, <1>7 DEF Closes, SameQueues

LEMMA QuietSendFails ==
    ASSUME MemInv, NEW e \in Ends, SendFails(e) PROVE \E c : Closes(e, c)
<1>1. PICK o \in Clients : o = client[e] BY DEF MemInv
<1>2. PICK c : c = SendReturns(e, o) OBVIOUS
<1>3. Shut(e, c) BY <1>1, <1>2, Zenon DEF SendFails
<1>4. c \in Clients /\ c.recvq = o.recvq /\ c.sendq = o.sendq BY <1>2, Returned
<1>5. client[e].stage = "open" BY DEF SendFails, Sending
<1> QED BY <1>1, <1>3, <1>4, <1>5 DEF Closes, SameQueues

LEMMA QuietShutIfOpen ==
    ASSUME MemInv, NEW e \in Ends, ShutIfOpen(e, [client[e] EXCEPT !.pc = "read"])
    PROVE  (\E c : Closes(e, c)) \/ (\E z : Goes(e, z) /\ SameQueues(client[e], z))
<1>1. PICK o \in Clients : o = client[e] BY DEF MemInv
<1>2. PICK c : c = [o EXCEPT !.pc = "read"] OBVIOUS
<1>3. c \in Clients /\ c.stage = o.stage /\ c.recvq = o.recvq /\ c.sendq = o.sendq BY <1>2, Moved
<1>4. ShutIfOpen(e, c) BY <1>1, <1>2, Zenon
<1>5. SameQueues(client[e], c) BY <1>1, <1>3 DEF SameQueues
<1>6. CASE client[e].stage = "open"
  <2>1. Shut(e, c) BY <1>4, <1>6, Zenon DEF ShutIfOpen
  <2> QED BY <1>3, <1>5, <1>6, <2>1 DEF Closes
<1>7. CASE client[e].stage # "open"
  <2>1. client' = [client EXCEPT ![e] = c] /\ link' = link /\ eof' = eof
    BY <1>4, <1>7, Zenon DEF ShutIfOpen
  <2> QED BY <1>1, <1>3, <1>5, <2>1 DEF Goes
<1> QED BY <1>6, <1>7

LEMMA QuietConnectCompleted ==
    ASSUME MemInv, ControlInv, NEW e \in Ends, ConnectCompleted(e)
    PROVE  (\E c : Closes(e, c)) \/ (\E z : Goes(e, z) /\ SameQueues(client[e], z))
<1>1. PICK o \in Clients : o = client[e] BY DEF MemInv
<1>2. client[e].stage = "open" BY DEF ConnectCompleted, ControlInv, Control, Fine, Placed
<1>3. CASE link = "up"
  <2>1. PICK z : z = [o EXCEPT !.pending = FALSE, !.connect = TRUE, !.pc = "connected"] OBVIOUS
  <2>2. z.stage = o.stage /\ z.recvq = o.recvq /\ z.sendq = o.sendq BY <2>1 DEF Clients
  <2>3. client' = [client EXCEPT ![e].pending = FALSE, ![e].connect = TRUE, ![e].pc = "connected"]
        /\ link' = link /\ eof' = eof
    BY <1>3, Zenon DEF ConnectCompleted
  <2>4. client' = [client EXCEPT ![e] = z] BY <1>1, <2>1, <2>3 DEF MemInv
  <2> QED BY <1>1, <2>2, <2>3, <2>4 DEF Goes, SameQueues
<1>4. CASE link # "up"
  <2>1. PICK c : c = [o EXCEPT !.pending = FALSE, !.pc = "wait"] OBVIOUS
  <2>2. c \in Clients /\ c.recvq = o.recvq /\ c.sendq = o.sendq BY <2>1 DEF Clients
  <2>3. Shut(e, c) BY <1>1, <1>4, <2>1, Zenon DEF ConnectCompleted
  <2> QED BY <1>1, <1>2, <2>2, <2>3 DEF Closes, SameQueues
<1> QED BY <1>3, <1>4

\* Who closed has told the other end, unless the two never met.
Told(e) ==
    Over(client[e]) =>
        eof[Peer(e)] \/ (e = Opener /\ link = "none" /\ client[Peer(e)].stage = "new")

\* Before Connect there is no link and nobody to accept it.
Unlinked ==
    client[Opener].stage = "new" => link = "none" /\ client[Peer(Opener)].stage = "new"

LinkInv == Unlinked /\ \A e \in Ends : Told(e)

LEMMA LinkStays ==
    ASSUME LinkInv, \A d \in Ends : client'[d].stage = client[d].stage, link' = link, eof' = eof
    PROVE  LinkInv'
<1>1. Opener \in Ends /\ \A d \in Ends : Peer(d) \in Ends BY SocketAssumption, PeerFacts
<1>2. Unlinked' BY <1>1, Zenon DEF LinkInv, Unlinked
<1>3. ASSUME NEW d \in Ends PROVE Told(d)'
  <2>1. Told(d) /\ Peer(d) \in Ends BY <1>1 DEF LinkInv
  <2> QED BY <2>1, Zenon DEF Told, Over
<1> QED BY <1>2, <1>3 DEF LinkInv

LEMMA LinkGoes ==
    ASSUME MemInv, LinkInv, NEW e \in Ends, NEW z, Goes(e, z) PROVE LinkInv'
<1>1. \A d \in Ends : client'[d].stage = client[d].stage BY DEF Goes, MemInv
<1> QED BY <1>1, LinkStays DEF Goes

LEMMA LinkCloses ==
    ASSUME MemInv, LinkInv, NEW e \in Ends, NEW c, Closes(e, c) PROVE LinkInv'
<1>1. PICK p : p = Peer(e) OBVIOUS
<1>2. p \in Ends /\ p # e /\ Peer(p) = e /\ \A d \in Ends : d = e \/ d = p BY <1>1, PeerFacts
<1>3. client'[e].stage = "closed" /\ client'[p] = client[p] /\ client[e].stage = "open"
  BY <1>2 DEF Closes, Shut, MemInv, Clients
<1>4. eof'[p] = TRUE /\ eof'[e] = eof[e] BY <1>1, <1>2 DEF Closes, Shut, MemInv, RestOK
<1>5. Told(e)' BY <1>1, <1>4 DEF Told
<1>6. Told(p)'
  <2>1. Told(p) BY <1>2 DEF LinkInv
  <2>2. Over(client[p]) => eof[e] BY <1>2, <1>3, <2>1 DEF Told
  <2> QED BY <1>2, <1>3, <1>4, <2>2, Zenon DEF Told
<1>7. Unlinked'
  <2>1. Opener \in Ends BY SocketAssumption
  <2>2. client'[Opener].stage # "new"
    <3>1. CASE Opener = e BY <1>3, <3>1
    <3>2. CASE Opener = p
      <4>1. client[Opener].stage = "new" => client[e].stage = "new"
        BY <1>2, <3>2, Zenon DEF LinkInv, Unlinked
      <4> QED BY <1>3, <3>2, <4>1
    <3> QED BY <1>2, <2>1, <3>1, <3>2
  <2> QED BY <2>2, Zenon DEF Unlinked
<1> QED BY <1>2, <1>5, <1>6, <1>7 DEF LinkInv

LEMMA LinkConnect ==
    ASSUME MemInv, LinkInv, NEW e \in Ends, Connect(e) PROVE LinkInv'
<1>1. PICK p : p = Peer(e) OBVIOUS
<1>2. p \in Ends /\ p # e /\ Peer(p) = e /\ \A d \in Ends : d = e \/ d = p BY <1>1, PeerFacts
<1>3. e = Opener /\ client[e].stage = "new" BY DEF Connect
<1>4. link = "none" /\ client[p].stage = "new" BY <1>1, <1>3, Zenon DEF LinkInv, Unlinked
<1>5. client'[p] = client[p] /\ eof' = eof BY <1>2 DEF Connect, MemInv
<1>6. client'[e].stage = "open" \/ (client'[e].stage = "closed" /\ link' = link)
  BY DEF Connect, MemInv, Clients
<1>7. Told(e)' BY <1>1, <1>3, <1>4, <1>5, <1>6 DEF Told, Over
<1>8. Told(p)' BY <1>4, <1>5 DEF Told, Over
<1>9. Unlinked'
  <2>1. client'[Opener].stage # "new" BY <1>3, <1>6
  <2> QED BY <2>1, Zenon DEF Unlinked
<1> QED BY <1>2, <1>7, <1>8, <1>9 DEF LinkInv

LEMMA LinkHandshake ==
    ASSUME MemInv, LinkInv, Handshake PROVE LinkInv'
<1>1. link = "syn" /\ client' = client /\ eof' = eof BY DEF Handshake
<1>2. Unlinked' BY <1>1 DEF LinkInv, Unlinked
<1>3. ASSUME NEW d \in Ends PROVE Told(d)'
  <2>1. Told(d) BY DEF LinkInv
  <2> QED BY <1>1, <2>1 DEF Told
<1> QED BY <1>2, <1>3 DEF LinkInv

LEMMA LinkAccept ==
    ASSUME MemInv, LinkInv, NEW e \in Ends, Accept(e) PROVE LinkInv'
<1>1. PICK p : p = Peer(e) OBVIOUS
<1>2. p \in Ends /\ p # e /\ Peer(p) = e /\ \A d \in Ends : d = e \/ d = p BY <1>1, PeerFacts
<1>3. link = "up" /\ link' = link /\ eof' = eof BY DEF Accept, kernel
<1>4. client'[p] = client[p] /\ client'[e].stage = "open" BY <1>2 DEF Accept, MemInv, Clients
<1>5. Told(e)' BY <1>4 DEF Told, Over
<1>6. Told(p)'
  <2>1. Told(p) BY <1>2 DEF LinkInv
  <2>2. Over(client[p]) => eof[e] BY <1>2, <1>3, <2>1 DEF Told
  <2> QED BY <1>2, <1>3, <1>4, <2>2, Zenon DEF Told
<1>7. Unlinked'
  <2>1. Opener = p BY <1>2, SocketAssumption DEF Accept
  <2>2. client[Opener].stage # "new" BY <1>3 DEF LinkInv, Unlinked
  <2> QED BY <1>4, <2>1, <2>2, Zenon DEF Unlinked
<1> QED BY <1>2, <1>5, <1>6, <1>7 DEF LinkInv

LEMMA LinkDrain ==
    ASSUME MemInv, LinkInv, NEW e \in Ends, Drain(e) PROVE LinkInv'
<1>1. PICK p : p = Peer(e) OBVIOUS
<1>2. p \in Ends /\ p # e /\ Peer(p) = e /\ \A d \in Ends : d = e \/ d = p BY <1>1, PeerFacts
<1>3. link' = link /\ eof' = eof /\ client[e].stage = "closed" BY DEF Drain, kernel
<1>4. client'[p] = client[p] /\ client'[e].stage = "gone" BY <1>2 DEF Drain, MemInv, Clients
<1>5. Told(e)'
  <2>1. Told(e) /\ Over(client[e]) BY <1>3 DEF LinkInv, Over
  <2> QED BY <1>1, <1>3, <1>4, <2>1, Zenon DEF Told
<1>6. Told(p)'
  <2>1. Told(p) BY <1>2 DEF LinkInv
  <2>2. Over(client[p]) => eof[e] BY <1>2, <1>3, <2>1 DEF Told
  <2> QED BY <1>2, <1>3, <1>4, <2>2, Zenon DEF Told
<1>7. Unlinked'
  <2>1. Opener = e \/ Opener = p BY <1>2, SocketAssumption
  <2>2. client'[Opener].stage # "new"
    <3>1. CASE Opener = e BY <1>4, <3>1
    <3>2. CASE Opener = p
      <4>1. client[Opener].stage = "new" => client[e].stage = "new"
        BY <1>2, <3>2, Zenon DEF LinkInv, Unlinked
      <4> QED BY <1>3, <1>4, <3>2, <4>1
    <3> QED BY <2>1, <3>1, <3>2
  <2> QED BY <2>2, Zenon DEF Unlinked
<1> QED BY <1>2, <1>5, <1>6, <1>7 DEF LinkInv

LEMMA GoesReadSome ==
    ASSUME MemInv, NEW e \in Ends, ReadSome(e) PROVE \E z : Goes(e, z)
<1>1. PICK n \in Nat, z \in Clients, a \in Seq(Slices), b \in Seq(Slices), rv \in Seq(Slices),
           g \in Seq(Chunks) : Taken(e, n, z, a, b, rv, g)
  BY ReadSomeIs
<1>2. PICK c \in Clients : c = client[e] BY DEF MemInv
<1>3. PICK q : z = [c EXCEPT !.recvp = b, !.recvq = q, !.pc = "receive"] BY <1>1, <1>2 DEF Taken
<1>4. z.stage = c.stage BY <1>3 DEF Clients
<1>5. client' = [client EXCEPT ![e] = z] BY <1>1 DEF Taken
<1> QED BY <1>2, <1>4, <1>5 DEF Goes, ReadSome

LEMMA GoesSendSome ==
    ASSUME MemInv, NEW e \in Ends, SendSome(e) PROVE \E z : Goes(e, z)
<1>1. PICK n \in Nat, z \in Clients, a \in Seq(Slices), b \in Seq(Slices) : Written(e, n, z, a, b)
  BY SendSomeIs
<1>2. PICK c \in Clients : c = client[e] BY DEF MemInv
<1>3. z = [c EXCEPT !.sendq = b] /\ client' = [client EXCEPT ![e] = z] BY <1>1, <1>2 DEF Written
<1>4. z.stage = c.stage BY <1>3 DEF Clients
<1> QED BY <1>2, <1>3, <1>4 DEF Goes, SendSome

LEMMA GoesPushSend ==
    ASSUME MemInv, NEW e \in Ends, PushSend(e) PROVE \E z : Goes(e, z)
<1>1. PICK k \in Nat, z \in Clients, ck \in Seq(Slices), g \in Seq(Chunks), mm \in Memories :
        Pushed(e, k, z, ck, g, mm)
  BY PushSendIs
<1>2. PICK c \in Clients : c = client[e] BY DEF MemInv
<1>3. PICK q : z = [c EXCEPT !.sendq = q, !.ret = c.pc, !.pc = "send"] BY <1>1, <1>2 DEF Pushed
<1>4. z.stage = c.stage BY <1>3 DEF Clients
<1>5. client' = [client EXCEPT ![e] = z] BY <1>1 DEF Pushed
<1> QED BY <1>2, <1>4, <1>5 DEF Goes, PushSend, kernel

LEMMA GoesReceivePacket ==
    ASSUME MemInv, NEW e \in Ends, ReceivePacket(e) PROVE \E z : Goes(e, z)
<1>1. PICK k \in Header(e), z \in Clients, a \in Seq(Slices), b \in Seq(Slices), h \in Seq(Kept) :
        Popped(e, k, z, a, b, h)
  BY ReceivePacketIs
<1>2. PICK c \in Clients : c = client[e] BY DEF MemInv
<1>3. z = [c EXCEPT !.recvq = b, !.pc = "handle"] /\ client' = [client EXCEPT ![e] = z]
  BY <1>1, <1>2 DEF Popped
<1>4. z.stage = c.stage BY <1>3 DEF Clients
<1> QED BY <1>2, <1>3, <1>4 DEF Goes, ReceivePacket, kernel

LEMMA LinkInit == Init => LinkInv
<1> SUFFICES ASSUME Init PROVE LinkInv OBVIOUS
<1>1. \A d \in Ends : client[d].stage = "new" BY DEF Init, NewClient
<1>2. Opener \in Ends /\ Peer(Opener) \in Ends BY SocketAssumption, PeerFacts
<1>3. Unlinked BY <1>1, <1>2 DEF Init, Unlinked
<1>4. \A d \in Ends : Told(d) BY <1>1 DEF Told, Over
<1> QED BY <1>3, <1>4 DEF LinkInv

LEMMA LinkNext == MemInv /\ ControlInv /\ LinkInv /\ [Next]_vars => LinkInv'
<1> SUFFICES ASSUME MemInv, ControlInv, LinkInv, [Next]_vars PROVE LinkInv' OBVIOUS
<1>1. CASE UNCHANGED vars
  <2>1. client' = client /\ link' = link /\ eof' = eof BY <1>1 DEF vars
  <2> QED BY <2>1, LinkStays
<1>2. CASE Handshake BY <1>2, LinkHandshake
<1>3. CASE \E e \in Ends :
             \/ Loop(e) \/ Connect(e) \/ Accept(e) \/ Close(e) \/ PushSend(e)
             \/ HandlerThrows(e) \/ ReleasePacket(e) \/ Reset(e)
  <2>1. PICK e \in Ends :
             \/ Loop(e) \/ Connect(e) \/ Accept(e) \/ Close(e) \/ PushSend(e)
             \/ HandlerThrows(e) \/ ReleasePacket(e) \/ Reset(e)
    BY <1>3
  <2>2. CASE Connect(e) \/ Accept(e) \/ Drain(e)
    BY <2>2, LinkConnect, LinkAccept, LinkDrain, Zenon
  <2>3. ASSUME \E c : Closes(e, c) PROVE LinkInv' BY <2>3, LinkCloses
  <2>4. ASSUME \E z : Goes(e, z) PROVE LinkInv' BY <2>4, LinkGoes
  <2>5. CASE Close(e) \/ ReadEnd(e) \/ SendFails(e)
    BY <2>3, <2>5, QuietClose, QuietReadEnd, QuietSendFails, Zenon
  <2>6. CASE PushSend(e) \/ ReadSome(e) \/ SendSome(e) \/ ReceivePacket(e)
    BY <2>4, <2>6, GoesPushSend, GoesReadSome, GoesSendSome, GoesReceivePacket, Zenon
  <2>7. CASE HandlerThrows(e) \/ ReceiveBroken(e)
    <3>1. ShutIfOpen(e, [client[e] EXCEPT !.pc = "read"]) BY <2>7 DEF HandlerThrows, ReceiveBroken
    <3> QED BY <2>3, <2>4, <3>1, QuietShutIfOpen, Zenon
  <2>8. CASE ConnectCompleted(e) BY <2>3, <2>4, <2>8, QuietConnectCompleted, Zenon
  <2>9. CASE Poll(e) \/ ReadStops(e) \/ ReadNothing(e) \/ ReceiveMore(e) \/ Handled(e)
    BY <2>4, <2>9, QuietPoll, QuietReadStops, QuietReadNothing, QuietReceiveMore, QuietHandled, Zenon
  <2>10. CASE ReleasePacket(e) \/ Reset(e) \/ SendDone(e) \/ SendBlocked(e) \/ Writeable(e)
    BY <2>4, <2>10, QuietReleasePacket, QuietReset, QuietSendDone, QuietWriteable, Zenon
  <2> QED BY <2>1, <2>2, <2>5, <2>6, <2>7, <2>8, <2>9, <2>10, Zenon DEF Loop
<1> QED BY <1>1, <1>2, <1>3, Zenon DEF Next

-----------------------------------------------------------------------------
(* The stream invariant *)

Direction(e) ==
    Flows(lengths[Peer(e)], BytesOf(mem[e], client[e].recvq), pipe[e],
          BytesOf(mem[Peer(e)], client[Peer(e)].sendq), Len(got[e]), sent[Peer(e)],
          client[e].stage = "gone", ~Over(client[e]) /\ ~Over(client[Peer(e)]))

\* The packets h, in memory m, are those of an end with packets of the lengths l.
Intact(l, m, h) ==
    \A i \in 1 .. Len(h) :
        h[i].packet \in 1 .. Len(l) /\ BytesOf(m, h[i].data) = Packet(l, h[i].packet)

InOrder(g) == \A i \in 1 .. Len(g) : g[i] = i

StreamOf(e) ==
    Direction(e) /\ Intact(lengths[Peer(e)], mem[e], held[e]) /\ InOrder(got[e])

StreamInv == Fits => \A e \in Ends : StreamOf(e)

\* lengths is a constant of the run.
LEMMA LengthsStay == ASSUME [Next]_vars PROVE lengths' = lengths
<1>1. CASE UNCHANGED vars BY <1>1 DEF vars
<1>2. CASE Next
  <2>1. CASE Handshake BY <2>1 DEF Handshake, history
  <2>2. ASSUME NEW e \in Ends, Connect(e) \/ Accept(e) \/ Close(e) \/ PushSend(e)
             \/ HandlerThrows(e) \/ ReleasePacket(e) \/ Reset(e)
        PROVE  lengths' = lengths
    BY <2>2 DEF Connect, Accept, Close, PushSend, HandlerThrows, ReleasePacket, Reset, history
  <2>3. ASSUME NEW e \in Ends, Poll(e) \/ Drain(e) \/ ReadStops(e) \/ ReadSome(e) \/ ReadNothing(e)
             \/ ReadEnd(e) \/ ReceivePacket(e) \/ ReceiveMore(e)
        PROVE  lengths' = lengths
    BY <2>3 DEF Poll, Drain, ReadStops, ReadSome, ReadNothing, ReadEnd, ReceivePacket, ReceiveMore, history
  <2>4. ASSUME NEW e \in Ends, ReceiveBroken(e) \/ Handled(e)
             \/ SendDone(e) \/ SendSome(e) \/ SendBlocked(e) \/ SendFails(e)
             \/ ConnectCompleted(e) \/ Writeable(e)
        PROVE  lengths' = lengths
    BY <2>4 DEF ReceiveBroken, Handled, SendDone, SendSome, SendBlocked, SendFails, ConnectCompleted,
              Writeable, history
  <2> QED BY <1>2, <2>1, <2>2, <2>3, <2>4, Zenon DEF Next, Loop
<1> QED BY <1>1, <1>2

LEMMA FitsStays == ASSUME lengths' = lengths PROVE Fits' <=> Fits
BY Zenon DEF Fits

\* A step that moves no byte.
QuietClients ==
    \A d \in Ends :
        /\ SameQueues(client[d], client'[d])
        /\ Over(client[d]) => Over(client'[d])
        /\ client[d].stage = "gone" => client'[d].stage = "gone"

FewerPackets ==
    \A d \in Ends : \A i \in 1 .. Len(held'[d]) : \E j \in 1 .. Len(held[d]) : held'[d][i] = held[d][j]

LEMMA IntactLess ==
    ASSUME NEW l, NEW m, NEW h, NEW hh, Intact(l, m, h),
           \A i \in 1 .. Len(hh) : \E j \in 1 .. Len(h) : hh[i] = h[j]
    PROVE  Intact(l, m, hh)
BY Zenon DEF Intact

LEMMA StreamQuiet ==
    ASSUME StreamInv, lengths' = lengths, mem' = mem, pipe' = pipe, got' = got, sent' = sent,
           QuietClients, FewerPackets
    PROVE  StreamInv'
<1> SUFFICES ASSUME Fits, NEW e \in Ends PROVE StreamOf(e)' BY FitsStays, Zenon DEF StreamInv
<1>1. StreamOf(e) BY DEF StreamInv
<1>2. PICK p : p = Peer(e) OBVIOUS
<1>3. p \in Ends BY <1>2, PeerFacts
<1>4. client'[e].recvq = client[e].recvq /\ client'[p].sendq = client[p].sendq
  BY <1>3 DEF QuietClients, SameQueues
<1>5. /\ Over(client[e]) => Over(client'[e])
      /\ Over(client[p]) => Over(client'[p])
      /\ client[e].stage = "gone" => client'[e].stage = "gone"
  BY <1>3, Zenon DEF QuietClients
<1>6. PICK l : l = lengths[p] OBVIOUS
<1>7. PICK R : R = BytesOf(mem[e], client[e].recvq) OBVIOUS
<1>8. PICK S : S = BytesOf(mem[p], client[p].sendq) OBVIOUS
<1>9. Flows(l, R, pipe[e], S, Len(got[e]), sent[p], client[e].stage = "gone",
            ~Over(client[e]) /\ ~Over(client[p]))
  BY <1>1, <1>2, <1>6, <1>7, <1>8, Zenon DEF StreamOf, Direction
<1>10. PICK P : P = pipe[e] OBVIOUS
<1>11. PICK n : n = Len(got[e]) OBVIOUS
<1>12. PICK m : m = sent[p] OBVIOUS
<1>13. Flows(l, R, P, S, n, m, client'[e].stage = "gone", ~Over(client'[e]) /\ ~Over(client'[p]))
  <2>1. PICK g1 : g1 = (client[e].stage = "gone") OBVIOUS
  <2>2. PICK g2 : g2 = (client'[e].stage = "gone") OBVIOUS
  <2>3. PICK b1 : b1 = (~Over(client[e]) /\ ~Over(client[p])) OBVIOUS
  <2>4. PICK b2 : b2 = (~Over(client'[e]) /\ ~Over(client'[p])) OBVIOUS
  <2>5. Flows(l, R, P, S, n, m, g1, b1) BY <1>9, <1>10, <1>11, <1>12, <2>1, <2>3, Zenon
  <2>6. (g1 => g2) /\ (b2 => b1) BY <1>5, <2>1, <2>2, <2>3, <2>4, Zenon
  <2>7. Flows(l, R, P, S, n, m, g2, b2) BY <2>5, <2>6, FlowsLess
  <2> QED BY <2>2, <2>4, <2>7, Zenon
<1>14. Direction(e)'
  <2>1. /\ R = BytesOf(mem'[e], client'[e].recvq) /\ S = BytesOf(mem'[p], client'[p].sendq)
        /\ l = lengths'[p] /\ P = pipe'[e] /\ n = Len(got'[e]) /\ m = sent'[p]
    BY <1>4, <1>6, <1>7, <1>8, <1>10, <1>11, <1>12, Zenon
  <2> QED BY <1>2, <1>13, <2>1, Zenon DEF Direction
<1>15. Intact(lengths[p], mem[e], held'[e])
  <2>1. PICK h : h = held[e] OBVIOUS
  <2>2. PICK hh : hh = held'[e] OBVIOUS
  <2>3. \A i \in 1 .. Len(hh) : \E j \in 1 .. Len(h) : hh[i] = h[j] BY <2>1, <2>2, Zenon DEF FewerPackets
  <2>4. Intact(lengths[p], mem[e], h) BY <1>1, <1>2, <2>1, Zenon DEF StreamOf
  <2>5. Intact(lengths[p], mem[e], hh) BY <2>3, <2>4, IntactLess
  <2> QED BY <2>2, <2>5, Zenon
<1>16. InOrder(got[e]) BY <1>1 DEF StreamOf
<1> QED BY <1>2, <1>14, <1>15, <1>16, Zenon DEF StreamOf

LEMMA QuietIfGoes ==
    ASSUME MemInv, NEW e \in Ends, \E z : Goes(e, z) /\ SameQueues(client[e], z) PROVE QuietClients
<1>1. PICK z : Goes(e, z) /\ SameQueues(client[e], z) OBVIOUS
<1> SUFFICES ASSUME NEW d \in Ends
             PROVE  /\ SameQueues(client[d], client'[d])
                    /\ Over(client[d]) => Over(client'[d])
                    /\ client[d].stage = "gone" => client'[d].stage = "gone"
  BY DEF QuietClients
<1>2. client'[d] = IF d = e THEN z ELSE client[d] BY <1>1 DEF Goes, MemInv
<1> QED BY <1>1, <1>2 DEF Goes, SameQueues, Over

LEMMA QuietIfCloses ==
    ASSUME MemInv, NEW e \in Ends, \E c : Closes(e, c) PROVE QuietClients
<1>1. PICK c : Closes(e, c) OBVIOUS
<1>2. c \in Clients /\ Shut(e, c) /\ client[e].stage = "open" /\ SameQueues(client[e], c)
  BY <1>1 DEF Closes
<1>3. PICK z : z = [c EXCEPT !.stage = "closed"] OBVIOUS
<1>4. z.sendq = c.sendq /\ z.recvq = c.recvq /\ z.stage = "closed" BY <1>2, <1>3 DEF Clients
<1> SUFFICES ASSUME NEW d \in Ends
             PROVE  /\ SameQueues(client[d], client'[d])
                    /\ Over(client[d]) => Over(client'[d])
                    /\ client[d].stage = "gone" => client'[d].stage = "gone"
  BY DEF QuietClients
<1>5. client'[d] = IF d = e THEN z ELSE client[d] BY <1>2, <1>3 DEF Shut, MemInv
<1> QED BY <1>2, <1>4, <1>5 DEF SameQueues, Over

LEMMA QuietConnect ==
    ASSUME MemInv, NEW e \in Ends, Connect(e) \/ Accept(e) PROVE QuietClients
<1>1. PICK c \in Clients : c = client[e] BY DEF MemInv
<1>2. c.stage = "new" BY <1>1 DEF Connect, Accept
<1>3. ASSUME NEW z, client' = [client EXCEPT ![e] = z], SameQueues(c, z) PROVE QuietClients
  <2> SUFFICES ASSUME NEW d \in Ends
               PROVE  /\ SameQueues(client[d], client'[d])
                      /\ Over(client[d]) => Over(client'[d])
                      /\ client[d].stage = "gone" => client'[d].stage = "gone"
    BY DEF QuietClients
  <2>1. client'[d] = IF d = e THEN z ELSE client[d] BY <1>3 DEF MemInv
  <2> QED BY <1>1, <1>2, <1>3, <2>1 DEF SameQueues, Over
<1>4. CASE client' = [client EXCEPT ![e].stage = "open", ![e].pending = TRUE]
  <2>1. PICK z : z = [c EXCEPT !.stage = "open", !.pending = TRUE] OBVIOUS
  <2>2. SameQueues(c, z) BY <2>1 DEF Clients, SameQueues
  <2>3. client' = [client EXCEPT ![e] = z] BY <1>1, <1>4, <2>1 DEF MemInv
  <2> QED BY <1>3, <2>2, <2>3
<1>5. CASE client' = [client EXCEPT ![e].stage = "closed"]
  <2>1. PICK z : z = [c EXCEPT !.stage = "closed"] OBVIOUS
  <2>2. SameQueues(c, z) BY <2>1 DEF Clients, SameQueues
  <2>3. client' = [client EXCEPT ![e] = z] BY <1>1, <1>5, <2>1 DEF MemInv
  <2> QED BY <1>3, <2>2, <2>3
<1>6. CASE client' = [client EXCEPT ![e].stage = "open", ![e].connect = TRUE]
  <2>1. PICK z : z = [c EXCEPT !.stage = "open", !.connect = TRUE] OBVIOUS
  <2>2. SameQueues(c, z) BY <2>1 DEF Clients, SameQueues
  <2>3. client' = [client EXCEPT ![e] = z] BY <1>1, <1>6, <2>1 DEF MemInv
  <2> QED BY <1>3, <2>2, <2>3
<1> QED BY <1>4, <1>5, <1>6 DEF Connect, Accept

LEMMA QuietHeld ==
    ASSUME held' = held PROVE FewerPackets
BY Zenon DEF FewerPackets

\* The handler lets go of the packet it was given.
LEMMA FrontPackets ==
    ASSUME MemInv, NEW e \in Ends, held' = [held EXCEPT ![e] = Front(held[e])] PROVE FewerPackets
<1>1. PICK h \in Seq(Kept) : h = held[e] BY DEF MemInv
<1>2. PICK hh : hh = Front(h) OBVIOUS
<1>3. \A i \in 1 .. Len(hh) : i \in 1 .. Len(h) /\ hh[i] = h[i] BY <1>2, FrontHeld
<1>4. held' = [held EXCEPT ![e] = hh] BY <1>1, <1>2, Zenon
<1> SUFFICES ASSUME NEW d \in Ends, NEW i \in 1 .. Len(held'[d])
             PROVE  \E j \in 1 .. Len(held[d]) : held'[d][i] = held[d][j]
  BY DEF FewerPackets
<1>5. CASE d = e
  <2>1. held'[d] = hh BY <1>4, <1>5 DEF MemInv
  <2> QED BY <1>1, <1>3, <1>5, <2>1, Zenon
<1>6. CASE d # e
  <2>1. held'[d] = held[d] BY <1>4, <1>6 DEF MemInv
  <2> QED BY <2>1, Zenon
<1> QED BY <1>5, <1>6

LEMMA RemovedPackets ==
    ASSUME MemInv, NEW e \in Ends, ReleasePacket(e) PROVE FewerPackets
<1>1. PICK h \in Seq(Kept) : h = held[e] BY DEF MemInv
<1>2. PICK k \in DOMAIN held[e] : held' = [held EXCEPT ![e] = RemoveAt(held[e], k)]
  BY Zenon DEF ReleasePacket
<1>3. k \in 1 .. Len(h) BY <1>1, <1>2
<1>4. PICK hh : hh = RemoveAt(h, k) OBVIOUS
<1>5. \A i \in 1 .. Len(hh) : \E j \in 1 .. Len(h) : hh[i] = h[j] BY <1>3, <1>4, RemoveHeld
<1>6. held' = [held EXCEPT ![e] = hh] BY <1>1, <1>2, <1>4, Zenon
<1> SUFFICES ASSUME NEW d \in Ends, NEW i \in 1 .. Len(held'[d])
             PROVE  \E j \in 1 .. Len(held[d]) : held'[d][i] = held[d][j]
  BY DEF FewerPackets
<1>7. CASE d = e
  <2>1. held'[d] = hh BY <1>6, <1>7 DEF MemInv
  <2> QED BY <1>1, <1>5, <1>7, <2>1, Zenon
<1>8. CASE d # e
  <2>1. held'[d] = held[d] BY <1>6, <1>8 DEF MemInv
  <2> QED BY <2>1, Zenon
<1> QED BY <1>7, <1>8

\* Steps that leave the stream alone.
LEMMA StepRests ==
    ASSUME MemInv, ControlInv, NEW e \in Ends,
           \/ Poll(e) \/ ReadStops(e) \/ ReadNothing(e) \/ ReadEnd(e) \/ ReceiveMore(e)
           \/ SendDone(e) \/ SendBlocked(e) \/ SendFails(e) \/ ConnectCompleted(e) \/ Writeable(e)
           \/ Connect(e) \/ Accept(e) \/ Close(e) \/ ReceiveBroken(e)
    PROVE  /\ mem' = mem /\ pipe' = pipe /\ got' = got /\ sent' = sent /\ held' = held
           /\ QuietClients
<1>1. mem' = mem /\ pipe' = pipe /\ got' = got /\ sent' = sent /\ held' = held
  <2>1. CASE Poll(e) \/ ReadStops(e) \/ ReadNothing(e) \/ ReadEnd(e) \/ ReceiveMore(e)
    BY <2>1 DEF Poll, ReadStops, ReadNothing, ReadEnd, ReceiveMore, kernel, buffers, history
  <2>2. CASE SendDone(e) \/ SendBlocked(e) \/ SendFails(e) \/ ConnectCompleted(e) \/ Writeable(e)
    BY <2>2 DEF SendDone, SendBlocked, SendFails, ConnectCompleted, Writeable, kernel, buffers, history
  <2>3. CASE Connect(e) \/ Accept(e) \/ Close(e) \/ ReceiveBroken(e)
    BY <2>3 DEF Connect, Accept, Close, ReceiveBroken, kernel, buffers, history
  <2> QED BY <2>1, <2>2, <2>3, Zenon
<1>2. QuietClients
  <2>1. CASE Connect(e) \/ Accept(e) BY <2>1, QuietConnect
  <2>2. CASE Poll(e) \/ ReadStops(e) \/ ReadNothing(e) \/ ReceiveMore(e) \/ SendDone(e) \/ SendBlocked(e)
             \/ Writeable(e)
    <3>1. \E z : Goes(e, z) /\ SameQueues(client[e], z)
      BY <2>2, QuietPoll, QuietReadStops, QuietReadNothing, QuietReceiveMore, QuietSendDone,
         QuietWriteable, Zenon
    <3> QED BY <3>1, QuietIfGoes
  <2>3. CASE Close(e) \/ ReadEnd(e) \/ SendFails(e)
    <3>1. \E c : Closes(e, c) BY <2>3, QuietClose, QuietReadEnd, QuietSendFails, Zenon
    <3> QED BY <3>1, QuietIfCloses
  <2>4. CASE ConnectCompleted(e) BY <2>4, QuietConnectCompleted, QuietIfGoes, QuietIfCloses, Zenon
  <2>5. CASE ReceiveBroken(e)
    <3>1. ShutIfOpen(e, [client[e] EXCEPT !.pc = "read"]) BY <2>5 DEF ReceiveBroken
    <3> QED BY <3>1, QuietShutIfOpen, QuietIfGoes, QuietIfCloses, Zenon
  <2> QED BY <2>1, <2>2, <2>3, <2>4, <2>5, Zenon
<1> QED BY <1>1, <1>2

LEMMA StreamRests ==
    ASSUME MemInv, ControlInv, StreamInv, lengths' = lengths, NEW e \in Ends,
           \/ Poll(e) \/ ReadStops(e) \/ ReadNothing(e) \/ ReadEnd(e) \/ ReceiveMore(e)
           \/ SendDone(e) \/ SendBlocked(e) \/ SendFails(e) \/ ConnectCompleted(e) \/ Writeable(e)
           \/ Connect(e) \/ Accept(e) \/ Close(e) \/ ReceiveBroken(e)
    PROVE  StreamInv'
<1>1. /\ mem' = mem /\ pipe' = pipe /\ got' = got /\ sent' = sent /\ held' = held
      /\ QuietClients
  BY StepRests, Zenon
<1> QED BY <1>1, QuietHeld, StreamQuiet

LEMMA StepReleases ==
    ASSUME MemInv, NEW e \in Ends,
           Handled(e) \/ HandlerThrows(e) \/ ReleasePacket(e)
    PROVE  mem' = mem /\ pipe' = pipe /\ got' = got /\ sent' = sent /\ QuietClients /\ FewerPackets
<1>1. mem' = mem /\ pipe' = pipe /\ got' = got /\ sent' = sent
  BY DEF Handled, HandlerThrows, ReleasePacket, kernel, history
<1>2. QuietClients
  <2>1. CASE Handled(e) \/ ReleasePacket(e)
    <3>1. \E z : Goes(e, z) /\ SameQueues(client[e], z) BY <2>1, QuietHandled, QuietReleasePacket, Zenon
    <3> QED BY <3>1, QuietIfGoes
  <2>2. CASE HandlerThrows(e)
    <3>1. ShutIfOpen(e, [client[e] EXCEPT !.pc = "read"]) BY <2>2 DEF HandlerThrows
    <3> QED BY <3>1, QuietShutIfOpen, QuietIfGoes, QuietIfCloses, Zenon
  <2> QED BY <2>1, <2>2
<1>3. FewerPackets
  <2>1. CASE ReleasePacket(e) BY <2>1, RemovedPackets
  <2>2. CASE Handled(e) \/ HandlerThrows(e)
    <3>1. held' = held \/ held' = [held EXCEPT ![e] = Front(held[e])]
      BY <2>2, Zenon DEF Handled, HandlerThrows
    <3> QED BY <3>1, QuietHeld, FrontPackets, Zenon
  <2> QED BY <2>1, <2>2
<1> QED BY <1>1, <1>2, <1>3

LEMMA StreamReleases ==
    ASSUME MemInv, StreamInv, lengths' = lengths, NEW e \in Ends,
           Handled(e) \/ HandlerThrows(e) \/ ReleasePacket(e)
    PROVE  StreamInv'
<1>1. mem' = mem /\ pipe' = pipe /\ got' = got /\ sent' = sent /\ QuietClients /\ FewerPackets
  BY StepReleases, Zenon
<1> QED BY <1>1, StreamQuiet

\* Nothing is claimed any more of bytes that only a closed end still has.
LEMMA FlowsOver ==
    ASSUME NEW l, NEW R, NEW P, NEW S, NEW n, NEW m, NEW gone, NEW both,
           Flows(l, R, P, S, n, m, gone, both), NEW S2 \in Seq(Nat)
    PROVE  Flows(l, R, P, S2, n, m, gone, FALSE)
BY Zenon DEF Flows

LEMMA FlowsGone ==
    ASSUME NEW l, NEW R, NEW P, NEW S, NEW n, NEW m, NEW gone, NEW both,
           Flows(l, R, P, S, n, m, gone, both), NEW R2 \in Seq(Nat)
    PROVE  Flows(l, R2, P, S, n, m, TRUE, FALSE)
BY Zenon DEF Flows

\* A direction from a writer with memory mo and client co to a reader with m and c.
Carries(l, m, c, P, mo, co, n, k) ==
    Flows(l, BytesOf(m, c.recvq), P, BytesOf(mo, co.sendq), n, k,
          c.stage = "gone", ~Over(c) /\ ~Over(co))

\* Everything about end e and its peer p, with c, m and so on for e.
Streams(e, p, c, m, h, g, s, P, Q) ==
    /\ Carries(lengths[p], m, c, P, mem[p], client[p], Len(g), sent[p])
    /\ Carries(lengths[e], mem[p], client[p], Q, m, c, Len(got[p]), s)
    /\ Intact(lengths[p], m, h) /\ InOrder(g)

LEMMA StreamHas ==
    ASSUME StreamInv, Fits, NEW e \in Ends, NEW p, p = Peer(e)
    PROVE  Streams(e, p, client[e], mem[e], held[e], got[e], sent[e], pipe[e], pipe[p])
<1>1. p \in Ends /\ Peer(p) = e BY PeerFacts
<1>2. StreamOf(e) /\ StreamOf(p) BY <1>1 DEF StreamInv
<1>3. Direction(e) /\ Direction(p) /\ Intact(lengths[p], mem[e], held[e]) /\ InOrder(got[e])
  BY <1>2, Zenon DEF StreamOf
<1>4. Carries(lengths[p], mem[e], client[e], pipe[e], mem[p], client[p], Len(got[e]), sent[p])
  BY <1>3, Zenon DEF Direction, Carries
<1>5. Carries(lengths[e], mem[p], client[p], pipe[p], mem[e], client[e], Len(got[p]), sent[e])
  BY <1>1, <1>3, Zenon DEF Direction, Carries
<1> QED BY <1>3, <1>4, <1>5 DEF Streams

\* A step of end e.
LEMMA StreamStep ==
    ASSUME MemInv, StreamInv, lengths' = lengths, NEW e \in Ends, NEW p, p = Peer(e),
           NEW c, client' = [client EXCEPT ![e] = c],
           NEW m, mem' = [mem EXCEPT ![e] = m],
           NEW h, held' = [held EXCEPT ![e] = h],
           NEW g, got' = [got EXCEPT ![e] = g],
           NEW s, sent' = [sent EXCEPT ![e] = s],
           NEW P, P = pipe'[e], NEW Q, Q = pipe'[p],
           Fits => Streams(e, p, c, m, h, g, s, P, Q)
    PROVE  StreamInv'
<1> SUFFICES ASSUME Fits PROVE StreamOf(e)' /\ StreamOf(p)'
  <2>1. \A d \in Ends : d = e \/ d = p BY PeerFacts
  <2> QED BY <2>1, FitsStays, Zenon DEF StreamInv
<1>1. p \in Ends /\ Peer(p) = e /\ p # e BY PeerFacts
<1>2. StreamOf(p) BY <1>1 DEF StreamInv
<1>3. /\ client'[e] = c /\ mem'[e] = m /\ held'[e] = h /\ got'[e] = g /\ sent'[e] = s
      /\ client'[p] = client[p] /\ mem'[p] = mem[p] /\ held'[p] = held[p] /\ got'[p] = got[p]
      /\ sent'[p] = sent[p]
  BY <1>1 DEF MemInv, RestOK
<1>4. Streams(e, p, c, m, h, g, s, P, Q) OBVIOUS
<1>5. Direction(e)' BY <1>3, <1>4, Zenon DEF Direction, Carries, Streams
<1>6. Direction(p)' BY <1>1, <1>3, <1>4, Zenon DEF Direction, Carries, Streams
<1>7. Intact(lengths'[p], mem'[e], held'[e]) /\ InOrder(got'[e]) BY <1>3, <1>4, Zenon DEF Streams
<1>8. Intact(lengths'[e], mem'[p], held'[p]) /\ InOrder(got'[p]) BY <1>1, <1>2, <1>3, Zenon DEF StreamOf
<1> QED BY <1>1, <1>5, <1>6, <1>7, <1>8, Zenon DEF StreamOf

LEMMA StreamStill ==
    ASSUME StreamInv, lengths' = lengths,
           client' = client, mem' = mem, pipe' = pipe, got' = got, sent' = sent, held' = held
    PROVE  StreamInv'
<1>1. QuietClients BY DEF QuietClients, SameQueues
<1> QED BY <1>1, QuietHeld, StreamQuiet

\* The types of what a step of e starts from.
LEMMA StreamTypes ==
    ASSUME MemInv, NEW e \in Ends
    PROVE  /\ client[e] \in Clients /\ mem[e] \in Memories /\ held[e] \in Seq(Kept)
           /\ got[e] \in Seq(Nat) /\ sent[e] \in Nat /\ pipe[e] \in Seq(Nat)
           /\ client[e].recvq \in Seq(Slices) /\ client[e].sendq \in Seq(Slices)
           /\ Ruled(lengths[e])
<1>1. client[e] \in Clients BY OwnFacts
<1>2. lengths \in Workloads BY DEF MemInv, RestOK
<1>3. Ruled(lengths[e]) BY <1>2, RuledIs
<1>4. client[e].recvq \in Seq(Slices) /\ client[e].sendq \in Seq(Slices) BY <1>1, ClientFacts
<1> QED BY <1>3, <1>4, OwnFacts

\* The queues of a closed client go.
LEMMA StreamDrain ==
    ASSUME MemInv, StreamInv, lengths' = lengths, NEW e \in Ends, Drain(e) PROVE StreamInv'
<1>1. PICK p : p = Peer(e) OBVIOUS
<1>2. p \in Ends BY <1>1, PeerFacts
<1>3. PICK c \in Clients : c = client[e] BY StreamTypes
<1>4. PICK z : z = [c EXCEPT !.stage = "gone", !.connect = FALSE, !.pending = FALSE,
                             !.sendq = <<>>, !.recvp = <<>>, !.recvq = <<>>]
  OBVIOUS
<1>5. z.stage = "gone" /\ z.sendq = <<>> /\ z.recvq = <<>> BY <1>3, <1>4 DEF Clients
<1>6. client' = [client EXCEPT ![e] = z] BY <1>3, <1>4, Zenon DEF Drain
<1>7. pipe' = pipe /\ mem' = mem /\ held' = held /\ got' = got /\ sent' = sent
  BY DEF Drain, kernel, history
<1>8. /\ mem' = [mem EXCEPT ![e] = mem[e]] /\ held' = [held EXCEPT ![e] = held[e]]
      /\ got' = [got EXCEPT ![e] = got[e]] /\ sent' = [sent EXCEPT ![e] = sent[e]]
  BY <1>7 DEF MemInv, RestOK
<1>9. ASSUME Fits PROVE Streams(e, p, z, mem[e], held[e], got[e], sent[e], pipe[e], pipe[p])
  <2>1. Streams(e, p, c, mem[e], held[e], got[e], sent[e], pipe[e], pipe[p])
    BY <1>1, <1>3, <1>9, StreamHas, Zenon
  <2>2. PICK m \in Memories : m = mem[e] BY StreamTypes
  <2>3. PICK N \in Seq(Nat) : N = BytesOf(m, <<>>)
    <3>1. <<>> \in Seq(Slices) OBVIOUS
    <3> QED BY <3>1, BytesOfFacts
  <2>4. Carries(lengths[p], m, z, pipe[e], mem[p], client[p], Len(got[e]), sent[p])
    <3>1. Carries(lengths[p], m, c, pipe[e], mem[p], client[p], Len(got[e]), sent[p])
      BY <2>1, <2>2, Zenon DEF Streams
    <3>2. Flows(lengths[p], N, pipe[e], BytesOf(mem[p], client[p].sendq), Len(got[e]), sent[p], TRUE, FALSE)
      BY <3>1, FlowsGone DEF Carries
    <3>3. (z.stage = "gone") = TRUE /\ (~Over(z) /\ ~Over(client[p])) = FALSE BY <1>5 DEF Over
    <3> QED BY <1>5, <2>3, <3>2, <3>3, Zenon DEF Carries
  <2>5. Carries(lengths[e], mem[p], client[p], pipe[p], m, z, Len(got[p]), sent[e])
    <3>1. Carries(lengths[e], mem[p], client[p], pipe[p], m, c, Len(got[p]), sent[e])
      BY <2>1, <2>2, Zenon DEF Streams
    <3>2. PICK w : w = (client[p].stage = "gone") OBVIOUS
    <3>3. Flows(lengths[e], BytesOf(mem[p], client[p].recvq), pipe[p], N, Len(got[p]), sent[e], w, FALSE)
      BY <3>1, <3>2, FlowsOver DEF Carries
    <3>4. (~Over(client[p]) /\ ~Over(z)) = FALSE BY <1>5 DEF Over
    <3> QED BY <1>5, <2>3, <3>2, <3>3, <3>4, Zenon DEF Carries
  <2> QED BY <2>1, <2>2, <2>4, <2>5, Zenon DEF Streams
<1>10. pipe[e] = pipe'[e] /\ pipe[p] = pipe'[p] BY <1>7
<1> QED BY <1>1, <1>6, <1>8, <1>9, <1>10, StreamStep

\* What is in flight towards e is lost.
LEMMA StreamReset ==
    ASSUME MemInv, ControlInv, StreamInv, lengths' = lengths, NEW e \in Ends, Reset(e) PROVE StreamInv'
<1>1. PICK p : p = Peer(e) OBVIOUS
<1>2. p \in Ends /\ p # e BY <1>1, PeerFacts
<1>3. client' = client /\ mem' = mem /\ held' = held /\ got' = got /\ sent' = sent
      /\ pipe' = [pipe EXCEPT ![e] = <<>>]
  BY DEF Reset, buffers, history
<1>4. /\ client' = [client EXCEPT ![e] = client[e]]
      /\ mem' = [mem EXCEPT ![e] = mem[e]] /\ held' = [held EXCEPT ![e] = held[e]]
      /\ got' = [got EXCEPT ![e] = got[e]] /\ sent' = [sent EXCEPT ![e] = sent[e]]
  BY <1>3 DEF MemInv, RestOK
<1>5. PICK N : N = <<>> OBVIOUS
<1>6. N = pipe'[e] /\ pipe[p] = pipe'[p] BY <1>2, <1>3, <1>5 DEF MemInv, RestOK
<1>7. Over(client[p]) BY <1>1 DEF ControlInv, Control, Reset
<1>8. ASSUME Fits PROVE Streams(e, p, client[e], mem[e], held[e], got[e], sent[e], N, pipe[p])
  <2>1. Streams(e, p, client[e], mem[e], held[e], got[e], sent[e], pipe[e], pipe[p])
    BY <1>1, <1>8, StreamHas, Zenon
  <2>2. Carries(lengths[p], mem[e], client[e], N, mem[p], client[p], Len(got[e]), sent[p])
    <3>1. Carries(lengths[p], mem[e], client[e], pipe[e], mem[p], client[p], Len(got[e]), sent[p])
      BY <2>1, Zenon DEF Streams
    <3>2. (~Over(client[e]) /\ ~Over(client[p])) = FALSE BY <1>7
    <3>3. PICK w : w = (client[e].stage = "gone") OBVIOUS
    <3>4. PICK l : l = lengths[p] /\ Ruled(l) BY <1>2, StreamTypes
    <3>5. PICK R : R = BytesOf(mem[e], client[e].recvq) OBVIOUS
    <3>6. PICK S : S = BytesOf(mem[p], client[p].sendq) OBVIOUS
    <3>7. Flows(l, R, pipe[e], S, Len(got[e]), sent[p], w, FALSE)
      BY <3>1, <3>2, <3>3, <3>4, <3>5, <3>6, Zenon DEF Carries
    <3>8. Flows(l, R, N, S, Len(got[e]), sent[p], w, FALSE) BY <1>5, <3>4, <3>7, FlowsReset
    <3> QED BY <3>2, <3>3, <3>4, <3>5, <3>6, <3>8, Zenon DEF Carries
  <2> QED BY <2>1, <2>2, Zenon DEF Streams
<1> QED BY <1>1, <1>4, <1>6, <1>8, StreamStep

\* writev takes bytes of e's queue; nobody sees them if the reader has closed.
LEMMA StreamSendSome ==
    ASSUME MemInv, ControlInv, LinkInv, StreamInv, lengths' = lengths, NEW e \in Ends, SendSome(e)
    PROVE  StreamInv'
<1>1. PICK p : p = Peer(e) OBVIOUS
<1>2. p \in Ends /\ p # e /\ Peer(p) = e BY <1>1, PeerFacts
<1>3. PICK n \in Nat, z \in Clients, a \in Seq(Slices), b \in Seq(Slices) : Written(e, n, z, a, b)
  BY SendSomeIs
<1>4. PICK c \in Clients : c = client[e] BY StreamTypes
<1>5. z = [c EXCEPT !.sendq = b] /\ client' = [client EXCEPT ![e] = z] BY <1>3, <1>4 DEF Written
<1>6. z.stage = c.stage /\ z.recvq = c.recvq /\ z.sendq = b BY <1>5 DEF Clients
<1>7. c.stage = "open" /\ SplitParts(c.sendq, n, a, b) BY <1>3, <1>4 DEF Written
<1>8. mem' = mem /\ held' = held /\ got' = got /\ sent' = sent BY DEF SendSome, history
<1>9. /\ mem' = [mem EXCEPT ![e] = mem[e]] /\ held' = [held EXCEPT ![e] = held[e]]
      /\ got' = [got EXCEPT ![e] = got[e]] /\ sent' = [sent EXCEPT ![e] = sent[e]]
  BY <1>8 DEF MemInv, RestOK
<1>10. PICK m \in Memories : m = mem[e] BY StreamTypes
<1>11. PICK A \in Seq(Nat) : A = BytesOf(m, a) BY BytesOfFacts
<1>12. PICK B \in Seq(Nat) : B = BytesOf(m, b) BY BytesOfFacts
<1>13. PICK q \in Seq(Slices) : q = c.sendq BY ClientFacts
<1>14. PICK S : S = BytesOf(m, q) OBVIOUS
<1>15. Cells(q) = Cells(a) \o Cells(b) BY <1>7, <1>13 DEF SplitParts
<1>16. S = A \o B BY <1>11, <1>12, <1>14, <1>15, BytesOfConcat
<1>17. PICK Q : Q = pipe'[p] OBVIOUS
<1>18. eof[e] => Q = pipe[p] BY <1>3, <1>17 DEF Written
<1>19. ~eof[e] => Q = pipe[p] \o A BY <1>1, <1>2, <1>3, <1>10, <1>11, <1>17 DEF Written, MemInv, RestOK
<1>20. pipe[e] = pipe'[e]
  <2>1. CASE eof[e] BY <1>3, <2>1 DEF Written
  <2>2. CASE ~eof[e]
    <3>1. pipe' = [pipe EXCEPT ![Peer(e)] = pipe[Peer(e)] \o BytesOf(mem[e], a)] BY <1>3, <2>2 DEF Written
    <3> QED BY <1>1, <1>2, <3>1 DEF MemInv, RestOK
  <2> QED BY <2>1, <2>2
<1>21. eof[e] => Over(client[p]) BY <1>1 DEF ControlInv, Control
<1>22. Over(client[p]) => eof[e]
  <2>1. Told(p) BY <1>2 DEF LinkInv
  <2> QED BY <1>2, <1>4, <1>7, <2>1 DEF Told
<1>23. ASSUME Fits PROVE Streams(e, p, z, m, held[e], got[e], sent[e], pipe[e], Q)
  <2>1. Streams(e, p, c, m, held[e], got[e], sent[e], pipe[e], pipe[p])
    BY <1>1, <1>4, <1>10, <1>23, StreamHas, Zenon
  <2>2. Carries(lengths[p], m, z, pipe[e], mem[p], client[p], Len(got[e]), sent[p])
    BY <1>6, <2>1, Zenon DEF Streams, Carries, Over
  <2>3. PICK l : l = lengths[e] /\ Ruled(l) BY StreamTypes
  <2>4. PICK R : R = BytesOf(mem[p], client[p].recvq) OBVIOUS
  <2>5. PICK w : w = (client[p].stage = "gone") OBVIOUS
  <2>6. PICK v : v = (~Over(client[p]) /\ ~Over(c)) OBVIOUS
  <2>7. v = (~Over(client[p]) /\ ~Over(z)) BY <1>6, <2>6, Zenon DEF Over
  <2>8. Flows(l, R, pipe[p], S, Len(got[p]), sent[e], w, v)
    BY <1>13, <1>14, <2>1, <2>3, <2>4, <2>5, <2>6, Zenon DEF Streams, Carries
  <2>9. Flows(l, R, Q, B, Len(got[p]), sent[e], w, v)
    <3>1. CASE eof[e]
      <4>1. v = FALSE BY <1>21, <2>6, <3>1
      <4>2. Flows(l, R, pipe[p], B, Len(got[p]), sent[e], w, FALSE) BY <2>8, FlowsOver
      <4> QED BY <1>18, <3>1, <4>1, <4>2, Zenon
    <3>2. CASE ~eof[e]
      <4>1. v = TRUE /\ w = FALSE BY <1>7, <1>22, <2>5, <2>6, <3>2 DEF Over
      <4>2. PICK P : P = pipe[p] OBVIOUS
      <4>3. Flows(l, R, P, S, Len(got[p]), sent[e], FALSE, TRUE) BY <2>8, <4>1, <4>2, Zenon
      <4>4. Q = P \o A BY <1>19, <3>2, <4>2
      <4>5. Flows(l, R, Q, B, Len(got[p]), sent[e], FALSE, TRUE) BY <1>16, <2>3, <4>3, <4>4, FlowsSend
      <4> QED BY <4>1, <4>5, Zenon
    <3> QED BY <3>1, <3>2
  <2>10. Carries(lengths[e], mem[p], client[p], Q, m, z, Len(got[p]), sent[e])
    BY <1>6, <1>12, <2>3, <2>4, <2>5, <2>7, <2>9, Zenon DEF Carries
  <2> QED BY <2>1, <2>2, <2>10, Zenon DEF Streams
<1> QED BY <1>1, <1>5, <1>9, <1>10, <1>17, <1>20, <1>23, StreamStep

\* Bytes written to cells of nobody else change nothing that is somebody's.
Untouched(m, mm, c, h) ==
    /\ mm \in Memories
    /\ BytesOf(mm, c.recvq) = BytesOf(m, c.recvq) /\ BytesOf(mm, c.sendq) = BytesOf(m, c.sendq)
    /\ \A i \in 1 .. Len(h) : BytesOf(mm, h[i].data) = BytesOf(m, h[i].data)

LEMMA FillElsewhere ==
    ASSUME NEW m \in Memories, NEW q \in Seq(Slices), DistinctCells(q),
           NEW bs \in Seq(Nat), Len(bs) <= Len(Cells(q)), NEW mm, mm = Fill(m, q, bs),
           NEW c \in Clients, NEW h \in Seq(Kept), NotIn(q, c, h)
    PROVE  Untouched(m, mm, c, h)
<1>1. mm \in Memories /\ \A x \in Spots \ CellSet(q) : mm[x[1]][x[2]] = m[x[1]][x[2]]
  BY FillFacts
<1>2. ASSUME NEW r \in Seq(Slices), CellSet(q) \cap CellSet(r) = {} PROVE BytesOf(mm, r) = BytesOf(m, r)
  <2>1. CellSet(r) \subseteq Spots BY CellsInChunks
  <2>2. \A x \in CellSet(r) : mm[x[1]][x[2]] = m[x[1]][x[2]] BY <1>1, <1>2, <2>1
  <2> QED BY <1>1, <2>2, BytesKept
<1>3. BytesOf(mm, c.recvq) = BytesOf(m, c.recvq) /\ BytesOf(mm, c.sendq) = BytesOf(m, c.sendq)
  <2>1. c.recvq \in Seq(Slices) /\ c.sendq \in Seq(Slices) BY ClientFacts
  <2> QED BY <1>2, <2>1 DEF NotIn
<1>4. ASSUME NEW i \in 1 .. Len(h) PROVE BytesOf(mm, h[i].data) = BytesOf(m, h[i].data)
  <2>1. h[i].data \in Seq(Slices) BY KeptFacts
  <2> QED BY <1>2, <2>1 DEF NotIn
<1> QED BY <1>1, <1>3, <1>4 DEF Untouched

LEMMA IntactStays ==
    ASSUME NEW l, NEW m, NEW mm, NEW c, NEW h, Untouched(m, mm, c, h), Intact(l, m, h)
    PROVE  Intact(l, mm, h)
BY Zenon DEF Untouched, Intact

\* A sequence cut in two.
Parts(P, n, a, b) == a \in Seq(Nat) /\ Len(a) = n /\ b \in Seq(Nat) /\ P = a \o b

LEMMA CutSeq ==
    ASSUME NEW P \in Seq(Nat), NEW n \in Nat, n <= Len(P),
           NEW a, a = SubSeq(P, 1, n), NEW b, b = SubSeq(P, n + 1, Len(P))
    PROVE  Parts(P, n, a, b)
<1>1. PICK N \in Nat : N = Len(P) OBVIOUS
<1>2. a \in Seq(Nat) /\ Len(a) = n BY <1>1
<1>3. b \in Seq(Nat) BY <1>1
<1>4. SubSeq(P, 1, n) \o SubSeq(P, n + 1, N) = SubSeq(P, 1, N)
  <2>1. 1 \in 1 .. Len(P) + 1 /\ n \in 1 - 1 .. Len(P) /\ N \in n .. Len(P) BY <1>1
  <2> QED BY <2>1, ConcatAdjacentSubSeq
<1>5. SubSeq(P, 1, N) = P BY <1>1, SubSeqFull
<1>6. P = a \o b BY <1>1, <1>4, <1>5, Zenon
<1> QED BY <1>2, <1>3, <1>6, Zenon DEF Parts

\* readv writes into the room and the references move to the receive queue.
LEMMA StreamReadSome ==
    ASSUME MemInv, StreamInv, lengths' = lengths, NEW e \in Ends, ReadSome(e)
    PROVE  StreamInv'
<1>1. PICK p : p = Peer(e) OBVIOUS
<1>2. p \in Ends /\ p # e /\ Peer(p) = e BY <1>1, PeerFacts
<1>3. PICK n \in Nat, z \in Clients, a \in Seq(Slices), b \in Seq(Slices), rv \in Seq(Slices),
           g \in Seq(Chunks) : Taken(e, n, z, a, b, rv, g)
  BY ReadSomeIs
<1>4. PICK c \in Clients : c = client[e] BY StreamTypes
<1>5. PICK m \in Memories : m = mem[e] BY StreamTypes
<1>6. PICK P \in Seq(Nat) : P = pipe[e] BY StreamTypes
<1>7. PICK h \in Seq(Kept) : h = held[e] BY StreamTypes
<1>8. PICK bs : bs = SubSeq(P, 1, n) OBVIOUS
<1>9. PICK rest : rest = SubSeq(P, n + 1, Len(P)) OBVIOUS
<1>10. PICK mm : mm = Fill(m, rv, bs) OBVIOUS
<1>11. PICK q \in Seq(Slices) : q = c.recvq BY ClientFacts
<1>12. PICK qq : qq = q \o a OBVIOUS
<1>13. /\ n <= Len(P) /\ n <= Size(rv) /\ SplitParts(rv, n, a, b) /\ DistinctCells(rv) /\ NotIn(rv, c, h)
       /\ c.stage = "open"
  BY <1>3, <1>4, <1>6, <1>7 DEF Taken, Room
<1>14. z = [c EXCEPT !.recvp = b, !.recvq = qq, !.pc = "receive"]
  BY <1>3, <1>4, <1>11, <1>12, Zenon DEF Taken
<1>15. z.stage = c.stage /\ z.recvq = qq /\ z.sendq = c.sendq BY <1>14 DEF Clients
<1>16. /\ client' = [client EXCEPT ![e] = z]
       /\ pipe' = [pipe EXCEPT ![e] = rest] /\ mem' = [mem EXCEPT ![e] = mm]
  BY <1>3, <1>5, <1>6, <1>8, <1>9, <1>10, Zenon DEF Taken
<1>17. held' = held /\ got' = got /\ sent' = sent BY DEF ReadSome, history
<1>18. /\ held' = [held EXCEPT ![e] = h]
       /\ got' = [got EXCEPT ![e] = got[e]] /\ sent' = [sent EXCEPT ![e] = sent[e]]
  BY <1>7, <1>17 DEF MemInv, RestOK
<1>19. rest = pipe'[e] /\ pipe[p] = pipe'[p] BY <1>2, <1>16 DEF MemInv, RestOK
<1>20. bs \in Seq(Nat) /\ Len(bs) = n /\ rest \in Seq(Nat) /\ P = bs \o rest
  <2>1. n <= Len(P) BY <1>13
  <2>2. Parts(P, n, bs, rest) BY <1>8, <1>9, <2>1, CutSeq
  <2> QED BY <2>2, Zenon DEF Parts
<1>22. Len(bs) <= Len(Cells(rv)) BY <1>13, <1>20, CellsType
<1>23. Untouched(m, mm, c, h) BY <1>10, <1>13, <1>20, <1>22, FillElsewhere
<1>24. mm \in Memories /\ BytesOf(mm, q) = BytesOf(m, q) /\ BytesOf(mm, c.sendq) = BytesOf(m, c.sendq)
  BY <1>11, <1>23 DEF Untouched
<1>25. Cells(rv) = Cells(a) \o Cells(b) /\ Len(Cells(a)) = Len(bs) BY <1>13, <1>20 DEF SplitParts
<1>26. BytesOf(mm, a) = bs
  <2>1. Fills(m, rv, bs, mm, a, b) BY <1>10, <1>13, <1>22, <1>25, Zenon DEF Fills
  <2> QED BY <1>20, <2>1, FillRead
<1>27. qq \in Seq(Slices) /\ Cells(qq) = Cells(q) \o Cells(a) BY <1>12, CellsConcat
<1>28. BytesOf(mm, qq) = BytesOf(mm, q) \o BytesOf(mm, a) BY <1>24, <1>27, BytesOfConcat, ZenonT(90)
<1>29. PICK R : R = BytesOf(m, q) OBVIOUS
<1>30. PICK RR : RR = BytesOf(mm, qq) OBVIOUS
<1>31. RR = R \o bs BY <1>24, <1>26, <1>28, <1>29, <1>30, Zenon
<1>32. ASSUME Fits PROVE Streams(e, p, z, mm, h, got[e], sent[e], rest, pipe[p])
  <2>1. Streams(e, p, c, m, h, got[e], sent[e], P, pipe[p])
    BY <1>1, <1>4, <1>5, <1>6, <1>7, <1>32, StreamHas, Zenon
  <2>2. PICK l : l = lengths[p] /\ Ruled(l) BY <1>2, StreamTypes
  <2>3. PICK S : S = BytesOf(mem[p], client[p].sendq) OBVIOUS
  <2>4. PICK v : v = (~Over(c) /\ ~Over(client[p])) OBVIOUS
  <2>5. v = (~Over(z) /\ ~Over(client[p])) BY <1>15, <2>4, Zenon DEF Over
  <2>6. (c.stage = "gone") = FALSE /\ (z.stage = "gone") = FALSE BY <1>13, <1>15
  <2>7. Flows(l, R, P, S, Len(got[e]), sent[p], FALSE, v)
    BY <1>11, <1>29, <2>1, <2>2, <2>3, <2>4, <2>6, Zenon DEF Streams, Carries
  <2>8. Flows(l, RR, rest, S, Len(got[e]), sent[p], FALSE, v)
    BY <1>20, <1>31, <2>2, <2>7, FlowsRead
  <2>9. Carries(lengths[p], mm, z, rest, mem[p], client[p], Len(got[e]), sent[p])
    BY <1>15, <1>30, <2>2, <2>3, <2>5, <2>6, <2>8, Zenon DEF Carries
  <2>10. Carries(lengths[e], mem[p], client[p], pipe[p], mm, z, Len(got[p]), sent[e])
    BY <1>15, <1>24, <2>1, Zenon DEF Streams, Carries, Over
  <2>11. Intact(lengths[p], mm, h) BY <1>23, <2>1, IntactStays, Zenon DEF Streams
  <2> QED BY <2>1, <2>9, <2>10, <2>11, Zenon DEF Streams
<1> QED BY <1>1, <1>16, <1>18, <1>19, <1>32, StreamStep

\* A packet is written into fresh chunks and queued.
LEMMA StreamPushSend ==
    ASSUME MemInv, StreamInv, lengths' = lengths, NEW e \in Ends, PushSend(e)
    PROVE  StreamInv'
<1>1. PICK p : p = Peer(e) OBVIOUS
<1>2. p \in Ends /\ p # e /\ Peer(p) = e BY <1>1, PeerFacts
<1>3. PICK k \in Nat, z \in Clients, ck \in Seq(Slices), g \in Seq(Chunks), mm \in Memories :
        Pushed(e, k, z, ck, g, mm)
  BY PushSendIs
<1>4. PICK c \in Clients : c = client[e] BY StreamTypes
<1>5. PICK m \in Memories : m = mem[e] BY StreamTypes
<1>6. PICK h \in Seq(Kept) : h = held[e] BY StreamTypes
<1>7. PICK l : l = lengths[e] /\ Ruled(l) BY StreamTypes
<1>8. PICK q \in Seq(Slices) : q = c.sendq BY ClientFacts
<1>9. PICK qq : qq = q \o ck OBVIOUS
<1>10. PICK bs : bs = Packet(l, k) OBVIOUS
<1>11. /\ k = sent[e] + 1 /\ k \in 1 .. Len(l) /\ DistinctCells(ck) /\ Len(Cells(ck)) = l[k]
       /\ \A x \in ChunksIn(ck) : x \notin Referenced(c, h)
  BY <1>3, <1>4, <1>6, <1>7 DEF Pushed
<1>12. mm = Fill(m, ck, bs) BY <1>3, <1>5, <1>7, <1>10, PacketBytesOf, Zenon DEF Pushed
<1>13. z = [c EXCEPT !.sendq = qq, !.ret = c.pc, !.pc = "send"]
  BY <1>3, <1>4, <1>8, <1>9, Zenon DEF Pushed
<1>14. z.stage = c.stage /\ z.recvq = c.recvq /\ z.sendq = qq BY <1>13 DEF Clients
<1>15. /\ client' = [client EXCEPT ![e] = z] /\ mem' = [mem EXCEPT ![e] = mm]
       /\ sent' = [sent EXCEPT ![e] = k]
  BY <1>3, Zenon DEF Pushed
<1>16. held' = held /\ got' = got /\ pipe' = pipe BY DEF PushSend, kernel
<1>17. held' = [held EXCEPT ![e] = h] /\ got' = [got EXCEPT ![e] = got[e]]
  BY <1>6, <1>16 DEF MemInv, RestOK
<1>18. pipe[e] = pipe'[e] /\ pipe[p] = pipe'[p] BY <1>16
<1>19. bs \in Seq(Nat) /\ Len(bs) = l[k] BY <1>7, <1>10, <1>11, PacketRuns
<1>20. Len(bs) <= Len(Cells(ck)) /\ Len(Cells(ck)) = Len(bs)
  <2>1. PICK x \in Nat : x = Len(bs) BY <1>19
  <2> QED BY <1>11, <1>19, <2>1
<1>21. NotIn(ck, c, h)
  <2>1. ChunksIn(ck) \cap Referenced(c, h) = {} BY <1>11
  <2> QED BY <2>1, FreshCells
<1>22. Untouched(m, mm, c, h) BY <1>11, <1>12, <1>19, <1>20, <1>21, FillElsewhere
<1>23. BytesOf(mm, q) = BytesOf(m, q) /\ BytesOf(mm, c.recvq) = BytesOf(m, c.recvq)
  BY <1>8, <1>22 DEF Untouched
<1>24. BytesOf(mm, ck) = bs
  <2>1. PICK N : N = <<>> OBVIOUS
  <2>2. N \in Seq(Slices) BY <2>1
  <2>3. PICK cs \in Seq(Spots) : cs = Cells(ck) BY CellsType
  <2>4. cs \o <<>> = cs BY ConcatEmptySeq
  <2>5. Cells(N) = <<>> BY <2>1, CellsEmpty, Zenon
  <2>6. Cells(ck) = Cells(ck) \o Cells(N) BY <2>3, <2>4, <2>5, Zenon
  <2>7. Fills(m, ck, bs, mm, ck, N) BY <1>11, <1>12, <1>20, <2>6, Zenon DEF Fills
  <2> QED BY <1>19, <2>2, <2>7, FillRead
<1>25. qq \in Seq(Slices) /\ Cells(qq) = Cells(q) \o Cells(ck) BY <1>9, CellsConcat
<1>26. BytesOf(mm, qq) = BytesOf(mm, q) \o BytesOf(mm, ck) BY <1>25, BytesOfConcat
<1>27. PICK S : S = BytesOf(m, q) OBVIOUS
<1>28. PICK SS : SS = BytesOf(mm, qq) OBVIOUS
<1>29. SS = S \o bs BY <1>23, <1>24, <1>26, <1>27, <1>28, Zenon
<1>30. ASSUME Fits PROVE Streams(e, p, z, mm, h, got[e], k, pipe[e], pipe[p])
  <2>1. Streams(e, p, c, m, h, got[e], sent[e], pipe[e], pipe[p])
    BY <1>1, <1>4, <1>5, <1>6, <1>30, StreamHas, Zenon
  <2>2. Carries(lengths[p], mm, z, pipe[e], mem[p], client[p], Len(got[e]), sent[p])
    BY <1>14, <1>23, <2>1, Zenon DEF Streams, Carries, Over
  <2>3. PICK R : R = BytesOf(mem[p], client[p].recvq) OBVIOUS
  <2>4. PICK w : w = (client[p].stage = "gone") OBVIOUS
  <2>5. PICK v : v = (~Over(client[p]) /\ ~Over(c)) OBVIOUS
  <2>6. v = (~Over(client[p]) /\ ~Over(z)) BY <1>14, <2>5, Zenon DEF Over
  <2>7. PICK s : s = sent[e] OBVIOUS
  <2>8. Flows(l, R, pipe[p], S, Len(got[p]), s, w, v)
    BY <1>7, <1>8, <1>27, <2>1, <2>3, <2>4, <2>5, <2>7, Zenon DEF Streams, Carries
  <2>9. Flows(l, R, pipe[p], SS, Len(got[p]), k, w, v)
    BY <1>7, <1>10, <1>11, <1>29, <2>7, <2>8, FlowsPush
  <2>10. Carries(lengths[e], mem[p], client[p], pipe[p], mm, z, Len(got[p]), k)
    BY <1>7, <1>14, <1>28, <2>3, <2>4, <2>6, <2>9, Zenon DEF Carries
  <2>11. Intact(lengths[p], mm, h) BY <1>22, <2>1, IntactStays, Zenon DEF Streams
  <2> QED BY <2>1, <2>2, <2>10, <2>11, Zenon DEF Streams
<1> QED BY <1>1, <1>15, <1>17, <1>18, <1>30, StreamStep

LEMMA FirstOfJoin ==
    ASSUME NEW A \in Seq(Nat), NEW B \in Seq(Nat), Len(A) > 0 PROVE (A \o B)[1] = A[1]
OBVIOUS

LEMMA FirstByte ==
    ASSUME NEW A \in Seq(Nat), NEW B \in Seq(Nat), NEW C \in Seq(Nat), NEW D \in Seq(Nat), NEW R,
           R = A \o B, R = C \o D, Len(A) > 0, Len(C) > 0
    PROVE  A[1] = C[1]
<1>1. (A \o B)[1] = A[1] BY FirstOfJoin, Zenon
<1>2. (C \o D)[1] = C[1] BY FirstOfJoin, Zenon
<1>3. (A \o B)[1] = (C \o D)[1] BY Zenon
<1> QED BY <1>1, <1>2, <1>3, Zenon

\* The bytes in front begin with the first byte of the packet whose header they are.
LEMMA HeaderByte ==
    ASSUME MemInv, NEW e \in Ends, NEW k \in Header(e), NEW q \in Seq(Slices), q = client[e].recvq,
           Size(q) >= HEAD_SIZE, NEW a \in Seq(Slices), NEW b \in Seq(Slices),
           Cells(q) = Cells(a) \o Cells(b), Len(Cells(a)) >= HEAD_SIZE
    PROVE  BytesOf(mem[e], a)[1] = LastOf(lengths[Peer(e)], k - 1) + 1
<1>1. PICK p \in Ends : p = Peer(e) BY PeerFacts
<1>2. PICK m \in Memories : m = mem[e] BY StreamTypes
<1>3. HEAD_SIZE \in Nat /\ HEAD_SIZE > 0 BY SocketAssumption
<1>4. PICK H \in Nat : H = HEAD_SIZE /\ H > 0 BY <1>3
<1>5. PICK s : s = Split(q, H) OBVIOUS
<1>6. PICK c : c = s.taken OBVIOUS
<1>7. PICK d : d = s.left OBVIOUS
<1>8. H <= Size(q)
  <2>1. Size(q) \in Nat BY CellsType
  <2> QED BY <1>4, <2>1
<1>9. SplitParts(q, H, c, d) BY <1>5, <1>6, <1>7, <1>8, SplitCells
<1>10. c \in Seq(Slices) /\ d \in Seq(Slices) /\ Cells(q) = Cells(c) \o Cells(d) /\ Len(Cells(c)) = H
  BY <1>9 DEF SplitParts
<1>11. PICK R : R = BytesOf(m, q) OBVIOUS
<1>12. PICK A : A = BytesOf(m, a) OBVIOUS
<1>13. PICK B : B = BytesOf(m, b) OBVIOUS
<1>14. PICK C : C = BytesOf(m, c) OBVIOUS
<1>15. PICK D : D = BytesOf(m, d) OBVIOUS
<1>16. R = A \o B BY <1>11, <1>12, <1>13, BytesOfConcat
<1>17. R = C \o D BY <1>10, <1>11, <1>14, <1>15, BytesOfConcat, ZenonT(30)
<1>18. A \in Seq(Nat) /\ B \in Seq(Nat) /\ Len(A) > 0
  <2>1. A \in Seq(Nat) /\ Len(A) = Len(Cells(a)) BY <1>12, BytesOfFacts
  <2>2. B \in Seq(Nat) BY <1>13, BytesOfFacts
  <2>3. PICK x \in Nat : x = Len(A) BY <2>1
  <2>4. x >= H BY <1>4, <2>1, <2>3
  <2> QED BY <1>4, <2>1, <2>2, <2>3, <2>4
<1>19. C \in Seq(Nat) /\ D \in Seq(Nat) /\ Len(C) = H
  <2>1. C \in Seq(Nat) /\ Len(C) = H BY <1>10, <1>14, BytesOfFacts
  <2>2. D \in Seq(Nat) BY <1>10, <1>15, BytesOfFacts
  <2> QED BY <2>1, <2>2
<1>20. A[1] = C[1]
  <2>1. Len(C) > 0 BY <1>4, <1>19
  <2> QED BY <1>16, <1>17, <1>18, <1>19, <2>1, FirstByte, Zenon
<1>21. PICK l : l = lengths[p] /\ Ruled(l) BY StreamTypes
<1>22. PICK K : K = Packet(l, k) OBVIOUS
<1>23. C = SubSeq(K, 1, H)
  BY <1>1, <1>2, <1>4, <1>5, <1>6, <1>14, <1>21, <1>22, HeaderFacts, PacketBytesOf, Zenon
<1>24. k \in 1 .. Len(l) BY <1>1, <1>21, HeaderFacts
<1>25. K \in Seq(Nat) /\ Len(K) >= H /\ Run(K, LastOf(l, k - 1)) BY <1>4, <1>21, <1>22, <1>24, PacketRuns
<1>26. PICK L \in Nat : L = Len(K) BY <1>25
<1>27. L >= H BY <1>25, <1>26
<1>28. K[1] = LastOf(l, k - 1) + 1
  <2>1. 1 \in 1 .. Len(K) BY <1>4, <1>26, <1>27
  <2> QED BY <1>25, <2>1 DEF Run
<1>29. SubSeq(K, 1, H)[1] = K[1] BY <1>4, <1>25, <1>26, <1>27
<1>30. A[1] = LastOf(l, k - 1) + 1 BY <1>20, <1>23, <1>28, <1>29, Zenon
<1> QED BY <1>1, <1>2, <1>12, <1>21, <1>30, Zenon

LEMMA SmallRemainder ==
    ASSUME NEW x \in Nat, NEW M \in Nat, x < M PROVE x % M = x
OBVIOUS

\* The packet in front is popped: the next one, whole.
LEMMA StreamReceivePacket ==
    ASSUME MemInv, ControlInv, StreamInv, lengths' = lengths, NEW e \in Ends, ReceivePacket(e)
    PROVE  StreamInv'
<1>1. PICK p : p = Peer(e) OBVIOUS
<1>2. p \in Ends /\ p # e /\ Peer(p) = e BY <1>1, PeerFacts
<1>3. PICK k \in Header(e), z \in Clients, a \in Seq(Slices), b \in Seq(Slices), h \in Seq(Kept) :
        Popped(e, k, z, a, b, h)
  BY ReceivePacketIs
<1>4. PICK c \in Clients : c = client[e] BY StreamTypes
<1>5. PICK m \in Memories : m = mem[e] BY StreamTypes
<1>6. PICK o \in Seq(Kept) : o = held[e] BY StreamTypes
<1>7. PICK g \in Seq(Nat) : g = got[e] BY StreamTypes
<1>8. PICK l : l = lengths[p] /\ Ruled(l) BY <1>2, StreamTypes
<1>9. PICK q \in Seq(Slices) : q = c.recvq BY ClientFacts
<1>10. /\ c.pc = "receive" /\ Size(q) >= HEAD_SIZE /\ SplitParts(q, Declared(p, k), a, b)
       /\ h = Append(o, [packet |-> k, data |-> a]) /\ z = [c EXCEPT !.recvq = b, !.pc = "handle"]
  BY <1>1, <1>3, <1>4, <1>6, <1>9, Zenon DEF Popped
<1>11. z.stage = c.stage /\ z.recvq = b /\ z.sendq = c.sendq BY <1>10 DEF Clients
<1>12. PICK gg : gg = Append(g, k) OBVIOUS
<1>13. /\ client' = [client EXCEPT ![e] = z] /\ held' = [held EXCEPT ![e] = h]
       /\ got' = [got EXCEPT ![e] = gg]
  BY <1>3, <1>7, <1>12, Zenon DEF Popped
<1>14. mem' = mem /\ sent' = sent /\ pipe' = pipe BY DEF ReceivePacket, kernel
<1>15. mem' = [mem EXCEPT ![e] = m] /\ sent' = [sent EXCEPT ![e] = sent[e]]
  BY <1>5, <1>14 DEF MemInv, RestOK
<1>16. pipe[e] = pipe'[e] /\ pipe[p] = pipe'[p] BY <1>14
<1>17. k \in 1 .. Len(l) /\ k \in Nat /\ Declared(p, k) \in Nat /\ Declared(p, k) >= HEAD_SIZE
  BY <1>1, <1>8, HeaderFacts
<1>18. c.stage # "gone"
  <2>1. Placed(c) BY <1>4 DEF ControlInv, Control, Fine
  <2> QED BY <1>10, <2>1 DEF Placed
<1>19. Cells(q) = Cells(a) \o Cells(b) /\ Len(Cells(a)) = Declared(p, k) BY <1>10 DEF SplitParts
<1>20. PICK R : R = BytesOf(m, q) OBVIOUS
<1>21. PICK A \in Seq(Nat) : A = BytesOf(m, a) BY BytesOfFacts
<1>22. PICK B \in Seq(Nat) : B = BytesOf(m, b) BY BytesOfFacts
<1>23. R = A \o B BY <1>19, <1>20, <1>21, <1>22, BytesOfConcat
<1>24. A[1] = LastOf(l, k - 1) + 1
  <2>1. Len(Cells(a)) >= HEAD_SIZE BY <1>17, <1>19
  <2>2. q = client[e].recvq BY <1>4, <1>9
  <2>3. BytesOf(mem[e], a)[1] = LastOf(lengths[Peer(e)], k - 1) + 1
    BY <1>10, <1>19, <2>1, <2>2, HeaderByte, Zenon
  <2> QED BY <1>1, <1>5, <1>8, <1>21, <2>3, Zenon
<1>25. ASSUME Fits PROVE Streams(e, p, z, m, h, gg, sent[e], pipe[e], pipe[p])
  <2>1. Streams(e, p, c, m, o, g, sent[e], pipe[e], pipe[p])
    BY <1>1, <1>4, <1>5, <1>6, <1>7, <1>25, StreamHas, Zenon
  <2>2. Len(A) = l[k]
    <3>1. PICK x \in Nat : x = l[k] BY <1>8, <1>17, PacketRuns
    <3>2. x < LengthMod
      <4>1. k \in DOMAIN l BY <1>8, <1>17 DEF Ruled
      <4> QED BY <1>2, <1>8, <1>25, <3>1, <4>1 DEF Fits
    <3>3. LengthMod \in Nat BY SocketAssumption
    <3>4. x % LengthMod = x BY <3>2, <3>3, SmallRemainder
    <3>5. Declared(p, k) = x BY <1>8, <3>1, <3>4 DEF Declared
    <3>6. Len(A) = Len(Cells(a)) BY <1>21, BytesOfFacts
    <3> QED BY <1>19, <3>1, <3>5, <3>6
  <2>3. PICK S : S = BytesOf(mem[p], client[p].sendq) OBVIOUS
  <2>4. PICK v : v = (~Over(c) /\ ~Over(client[p])) OBVIOUS
  <2>5. v = (~Over(z) /\ ~Over(client[p])) BY <1>11, <2>4, Zenon DEF Over
  <2>6. (c.stage = "gone") = FALSE /\ (z.stage = "gone") = FALSE BY <1>11, <1>18
  <2>7. PICK n : n = Len(g) OBVIOUS
  <2>8. Flows(l, R, pipe[e], S, n, sent[p], FALSE, v)
    BY <1>8, <1>9, <1>20, <2>1, <2>3, <2>4, <2>6, <2>7, Zenon DEF Streams, Carries
  <2>9. k = n + 1 /\ A = Packet(l, k) /\ Flows(l, B, pipe[e], S, k, sent[p], FALSE, v)
    <3>1. PICK P : P = pipe[e] OBVIOUS
    <3>2. PICK s : s = sent[p] OBVIOUS
    <3>3. Pops(l, R, P, S, n, s, v, k, A, B) BY <1>23, <1>24, <2>2, <2>8, <3>1, <3>2, Zenon DEF Pops
    <3>4. Ruled(l) /\ k \in 1 .. Len(l) BY <1>8, <1>17
    <3>5. After(l, P, S, n, s, v, k, A, B) BY <3>3, <3>4, FlowsPop
    <3> QED BY <3>1, <3>2, <3>5, Zenon DEF After
  <2>10. Len(gg) = k BY <1>12, <1>17, <2>7, <2>9
  <2>11. Carries(lengths[p], m, z, pipe[e], mem[p], client[p], Len(gg), sent[p])
    BY <1>8, <1>11, <1>22, <2>3, <2>5, <2>6, <2>9, <2>10, Zenon DEF Carries
  <2>12. Carries(lengths[e], mem[p], client[p], pipe[p], m, z, Len(got[p]), sent[e])
    BY <1>11, <2>1, Zenon DEF Streams, Carries, Over
  <2>13. InOrder(gg)
    <3>1. InOrder(g) BY <2>1 DEF Streams
    <3> QED BY <1>12, <1>17, <2>7, <2>9, <3>1 DEF InOrder
  <2>14. Intact(l, m, h)
    <3>1. Intact(l, m, o) BY <1>8, <2>1, Zenon DEF Streams
    <3> SUFFICES ASSUME NEW i \in 1 .. Len(h)
                 PROVE  h[i].packet \in 1 .. Len(l) /\ BytesOf(m, h[i].data) = Packet(l, h[i].packet)
      BY DEF Intact
    <3>2. PICK r : r = [packet |-> k, data |-> a] OBVIOUS
    <3>3. h = Append(o, r) /\ r \in Kept BY <1>10, <1>17, <3>2 DEF Kept
    <3>4. PICK N \in Nat : N = Len(o) OBVIOUS
    <3>5. Len(h) = N + 1 /\ h[N + 1] = r /\ \A j \in 1 .. N : h[j] = o[j] BY <3>3, <3>4
    <3>6. CASE i = N + 1
      <4>1. h[i] = r /\ r.packet = k /\ r.data = a BY <3>2, <3>5, <3>6
      <4> QED BY <1>17, <1>21, <2>9, <4>1, Zenon
    <3>7. CASE i # N + 1
      <4>1. i \in 1 .. N BY <3>5, <3>7
      <4>2. h[i] = o[i] BY <3>5, <4>1
      <4>3. o[i].packet \in 1 .. Len(l) /\ BytesOf(m, o[i].data) = Packet(l, o[i].packet)
        BY <3>1, <3>4, <4>1, Zenon DEF Intact
      <4> QED BY <4>2, <4>3, Zenon
    <3> QED BY <3>6, <3>7
  <2> QED BY <1>8, <2>11, <2>12, <2>13, <2>14, Zenon DEF Streams
<1> QED BY <1>1, <1>13, <1>15, <1>16, <1>25, StreamStep

LEMMA StreamInit == Init => StreamInv
<1> SUFFICES ASSUME Init, Fits, NEW e \in Ends PROVE StreamOf(e) BY DEF StreamInv
<1>1. MemInv BY MemInit
<1>2. PICK p : p = Peer(e) /\ p \in Ends BY PeerFacts
<1>3. /\ client[e].stage = "new" /\ client[e].recvq = <<>> /\ client[p].sendq = <<>>
      /\ pipe[e] = <<>> /\ held[e] = <<>> /\ got[e] = <<>> /\ sent[p] = 0
  BY <1>2 DEF Init, NewClient
<1>4. PICK l : l = lengths[p] /\ Ruled(l) BY <1>1, <1>2, StreamTypes
<1>5. PICK N : N = <<>> /\ N \in Seq(Nat)
  <2>1. <<>> \in Seq(Nat) OBVIOUS
  <2> QED BY <2>1, Zenon
<1>6. ASSUME NEW d \in Ends PROVE BytesOf(mem[d], N) = N
  <2>1. PICK m \in Memories : m = mem[d] BY <1>1, StreamTypes
  <2>2. N \in Seq(Slices) BY <1>5
  <2>3. BytesOf(m, N) \in Seq(Nat) /\ Len(BytesOf(m, N)) = Len(Cells(N)) BY <2>2, BytesOfFacts
  <2>4. Cells(N) = <<>> BY <1>5, CellsEmpty, Zenon
  <2>5. PICK x \in Seq(Nat) : x = BytesOf(m, N) BY <2>3
  <2>6. Len(x) = 0 BY <2>3, <2>4, <2>5
  <2>7. x = <<>> BY <2>6
  <2> QED BY <1>5, <2>1, <2>5, <2>7
<1>7. \A w, v : Flows(l, N, N, N, 0, 0, w, v)
  <2>1. Len(N) = 0 /\ Len(l) \in Nat /\ LastOf(l, 0) = 0 BY <1>4, <1>5 DEF Ruled
  <2>2. \A g : Run(N, g) BY <2>1 DEF Run
  <2>3. 0 \in 0 .. Len(l) BY <2>1
  <2> QED BY <2>1, <2>2, <2>3 DEF Flows
<1>8. Direction(e)
  <2>1. BytesOf(mem[e], client[e].recvq) = N /\ BytesOf(mem[p], client[p].sendq) = N /\ pipe[e] = N
    BY <1>2, <1>3, <1>5, <1>6, Zenon
  <2>2. Len(got[e]) = 0 /\ sent[p] = 0 BY <1>3
  <2> QED BY <1>2, <1>4, <1>7, <2>1, <2>2, Zenon DEF Direction
<1>9. Len(held[e]) = 0 /\ Len(got[e]) = 0 BY <1>3
<1>10. Intact(lengths[p], mem[e], held[e]) BY <1>9 DEF Intact
<1>11. InOrder(got[e]) BY <1>9 DEF InOrder
<1> QED BY <1>2, <1>8, <1>10, <1>11, Zenon DEF StreamOf

LEMMA StreamNext ==
    MemInv /\ ControlInv /\ LinkInv /\ StreamInv /\ [Next]_vars => StreamInv'
<1> SUFFICES ASSUME MemInv, ControlInv, LinkInv, StreamInv, [Next]_vars PROVE StreamInv' OBVIOUS
<1>0. lengths' = lengths BY LengthsStay
<1>1. CASE UNCHANGED vars
  <2>1. /\ client' = client /\ mem' = mem /\ pipe' = pipe /\ got' = got /\ sent' = sent
        /\ held' = held
    BY <1>1 DEF vars
  <2> QED BY <1>0, <2>1, StreamStill
<1>2. CASE Handshake
  <2>1. /\ client' = client /\ mem' = mem /\ pipe' = pipe /\ got' = got /\ sent' = sent
        /\ held' = held
    BY <1>2 DEF Handshake, buffers, history
  <2> QED BY <1>0, <2>1, StreamStill
<1>3. CASE \E e \in Ends :
             \/ Loop(e) \/ Connect(e) \/ Accept(e) \/ Close(e) \/ PushSend(e)
             \/ HandlerThrows(e) \/ ReleasePacket(e) \/ Reset(e)
  <2>1. PICK e \in Ends :
             \/ Loop(e) \/ Connect(e) \/ Accept(e) \/ Close(e) \/ PushSend(e)
             \/ HandlerThrows(e) \/ ReleasePacket(e) \/ Reset(e)
    BY <1>3
  <2>2. CASE \/ Poll(e) \/ ReadStops(e) \/ ReadNothing(e) \/ ReadEnd(e) \/ ReceiveMore(e)
             \/ SendDone(e) \/ SendBlocked(e) \/ SendFails(e) \/ ConnectCompleted(e) \/ Writeable(e)
             \/ Connect(e) \/ Accept(e) \/ Close(e) \/ ReceiveBroken(e)
    BY <1>0, <2>2, StreamRests, Zenon
  <2>3. CASE Handled(e) \/ HandlerThrows(e) \/ ReleasePacket(e) BY <1>0, <2>3, StreamReleases, Zenon
  <2>4. CASE ReadSome(e) BY <1>0, <2>4, StreamReadSome, Zenon
  <2>5. CASE SendSome(e) BY <1>0, <2>5, StreamSendSome, Zenon
  <2>6. CASE PushSend(e) BY <1>0, <2>6, StreamPushSend, Zenon
  <2>7. CASE ReceivePacket(e) BY <1>0, <2>7, StreamReceivePacket, Zenon
  <2>8. CASE Drain(e) BY <1>0, <2>8, StreamDrain, Zenon
  <2>9. CASE Reset(e) BY <1>0, <2>9, StreamReset, Zenon
  <2> QED BY <2>1, <2>2, <2>3, <2>4, <2>5, <2>6, <2>7, <2>8, <2>9, Zenon DEF Loop
<1> QED BY <1>1, <1>2, <1>3, Zenon DEF Next

\* The whole invariant.
SocketInv == MemInv /\ ControlInv /\ LinkInv /\ StreamInv

LEMMA SocketInductive == Spec => []SocketInv
<1>1. Init => SocketInv BY MemInit, ControlInit, LinkInit, StreamInit DEF SocketInv
<1>2. SocketInv /\ [Next]_vars => SocketInv'
  BY MemNext, ControlNext, LinkNext, StreamNext, Zenon DEF SocketInv
<1> QED BY <1>1, <1>2, PTL DEF Spec

\* Runs one after the other, as the sequence they are together.
LEMMA RunIs ==
    ASSUME NEW g \in Nat, NEW n \in Nat, NEW y, Run(y, g), Len(y) = n
    PROVE  y = [i \in 1 .. n |-> g + i]
<1>1. PICK w : w = [i \in 1 .. n |-> g + i] OBVIOUS
<1>2. w \in Seq(Nat) /\ Len(w) = n BY <1>1
<1>3. Run(w, g) BY <1>1, <1>2 DEF Run
<1>4. y = w BY <1>2, <1>3, RunsEqual
<1> QED BY <1>1, <1>4

Together(g, t, R, P, S) ==
    /\ R \in Seq(Nat) /\ P \in Seq(Nat) /\ S \in Seq(Nat)
    /\ Run(R, g) /\ Run(P, g + Len(R)) /\ Run(S, g + Len(R) + Len(P))
    /\ g + Len(R) + Len(P) + Len(S) = t

LEMMA RunsTogether ==
    ASSUME NEW g \in Nat, NEW t \in Nat, NEW R, NEW P, NEW S, Together(g, t, R, P, S)
    PROVE  R \o P \o S = [i \in 1 .. t - g |-> g + i]
<1>1. PICK r \in Nat : r = Len(R) BY DEF Together
<1>2. PICK p \in Nat : p = Len(P) BY DEF Together
<1>3. PICK s \in Nat : s = Len(S) BY DEF Together
<1>4. R \in Seq(Nat) /\ P \in Seq(Nat) /\ S \in Seq(Nat) BY DEF Together
<1>5. PICK x : x = R \o P OBVIOUS
<1>6. PICK y : y = x \o S OBVIOUS
<1>7. x \in Seq(Nat) /\ Len(x) = Len(R) + Len(P) /\ Run(x, g)
  <2>1. Run(R, g) /\ Run(P, g + Len(R)) BY DEF Together
  <2> QED BY <1>4, <1>5, <2>1, RunJoin
<1>8. Len(x) = r + p BY <1>1, <1>2, <1>7
<1>9. Run(S, g + Len(x))
  <2>1. Run(S, g + Len(R) + Len(P)) BY DEF Together
  <2>2. g + Len(R) + Len(P) = g + Len(x) BY <1>1, <1>2, <1>8
  <2> QED BY <2>1, <2>2, Zenon
<1>10. y \in Seq(Nat) /\ Len(y) = Len(x) + Len(S) /\ Run(y, g) BY <1>4, <1>6, <1>7, <1>9, RunJoin, ZenonT(90)
<1>11. g + r + p + s = t BY <1>1, <1>2, <1>3 DEF Together
<1>12. PICK n \in Nat : n = t - g /\ n = r + p + s
  <2>1. t - g = r + p + s /\ r + p + s \in Nat BY <1>11
  <2> QED BY <2>1
<1>13. Len(y) = n BY <1>3, <1>8, <1>10, <1>12
<1>14. y = [i \in 1 .. n |-> g + i] BY <1>10, <1>13, RunIs
<1> QED BY <1>5, <1>6, <1>12, <1>14, Zenon

LEMMA StreamIs == MemInv /\ StreamInv => StreamConserved
<1> SUFFICES ASSUME MemInv, StreamInv, Fits, NEW e \in Ends, NEW p, p = Peer(e),
                    {client[e].stage, client[p].stage} \subseteq {"new", "open"}
             PROVE  BytesOf(mem[e], client[e].recvq) \o pipe[e] \o BytesOf(mem[p], client[p].sendq)
                      = [i \in 1 .. LastByte(p, sent[p]) - LastByte(p, Len(got[e])) |->
                            LastByte(p, Len(got[e])) + i]
  BY Zenon DEF StreamConserved
<1>1. p \in Ends BY PeerFacts
<1>2. (~Over(client[e]) /\ ~Over(client[p])) = TRUE /\ (client[e].stage = "gone") = FALSE BY DEF Over
<1>3. PICK l : l = lengths[p] /\ Ruled(l) BY <1>1, StreamTypes
<1>4. PICK R : R = BytesOf(mem[e], client[e].recvq) OBVIOUS
<1>5. PICK S : S = BytesOf(mem[p], client[p].sendq) OBVIOUS
<1>6. PICK P : P = pipe[e] OBVIOUS
<1>7. PICK n : n = Len(got[e]) OBVIOUS
<1>8. PICK m : m = sent[p] OBVIOUS
<1>9. Flows(l, R, P, S, n, m, FALSE, TRUE)
  BY <1>2, <1>3, <1>4, <1>5, <1>6, <1>7, <1>8, Zenon DEF StreamInv, StreamOf, Direction
<1>10. PICK g \in Nat : g = LastOf(l, n) BY <1>3, <1>9, FlowsNat
<1>11. PICK t \in Nat : t = LastOf(l, m) BY <1>3, <1>9, FlowsNat
<1>12. Together(g, t, R, P, S) BY <1>9, <1>10, <1>11 DEF Flows, Together
<1>13. R \o P \o S = [i \in 1 .. t - g |-> g + i] BY <1>12, RunsTogether
<1>14. LastByte(p, sent[p]) = t /\ LastByte(p, Len(got[e])) = g
  BY <1>3, <1>7, <1>8, <1>10, <1>11, LastByteOf, Zenon
<1> QED BY <1>4, <1>5, <1>6, <1>13, <1>14, Zenon

LEMMA HeldAre == MemInv /\ StreamInv => HeldIntact
<1> SUFFICES ASSUME MemInv, StreamInv, Fits, NEW e \in Ends, NEW i \in DOMAIN held[e]
             PROVE  BytesOf(mem[e], held[e][i].data) = PacketBytes(Peer(e), held[e][i].packet)
  BY Zenon DEF HeldIntact
<1>1. held[e] \in Seq(Kept) BY StreamTypes
<1>2. i \in 1 .. Len(held[e]) BY <1>1
<1>3. Intact(lengths[Peer(e)], mem[e], held[e]) BY Zenon DEF StreamInv, StreamOf
<1> QED BY <1>2, <1>3, PacketBytesOf, Zenon DEF Intact

\* No byte is lost, doubled or out of place between PushSend at one end and
\* PopReceive at the other while both are open, for every chunk size, every
\* partial write and read and every capacity of the kernel (client.cpp:57-120,
\* 173-193, 216-254), as long as each packet fits its length field.
THEOREM StreamIsConserved == Spec => []StreamConserved
<1>1. SocketInv => StreamConserved BY StreamIs DEF SocketInv
<1> QED BY <1>1, SocketInductive, PTL

\* A packet that the code above keeps is never overwritten, although its chunks
\* are shared with the receive queues and come back from the pool: readv and
\* PushSend write only to cells that nobody else refers to.
THEOREM PacketsStayIntact == Spec => []HeldIntact
<1>1. SocketInv => HeldIntact BY HeldAre DEF SocketInv
<1> QED BY <1>1, SocketInductive, PTL

-----------------------------------------------------------------------------
(* The packet channel *)

\* The three variables of PacketChannel.
Sents == IF Fits THEN sent ELSE [e \in Ends |-> 0]
Gots == IF Fits THEN got ELSE [e \in Ends |-> <<>>]
IsClosed == \E e \in Ends : client[e].stage \in {"closed", "gone"}

\* A step that neither pushes nor pops a packet is a close or is not noticed.
LEMMA ChannelQuiet ==
    ASSUME lengths' = lengths, sent' = sent, got' = got, IsClosed => IsClosed'
    PROVE  [Channel!Next]_(Channel!vars)
<1>1. Sents' = Sents /\ Gots' = Gots BY FitsStays, Zenon DEF Sents, Gots
<1>2. CASE IsClosed' = IsClosed BY <1>1, <1>2, Zenon DEF Channel!vars, Sents, Gots, IsClosed
<1>3. CASE IsClosed' # IsClosed
  <2>1. IsClosed' = TRUE BY <1>3, Zenon DEF IsClosed
  <2>2. Channel!Close BY <1>1, <2>1, Zenon DEF Channel!Close, Sents, Gots, IsClosed
  <2> QED BY <2>2, Zenon DEF Channel!Next
<1> QED BY <1>2, <1>3

LEMMA ClosedStays ==
    ASSUME \A d \in Ends : Over(client[d]) => Over(client'[d]) PROVE IsClosed => IsClosed'
BY Zenon DEF IsClosed, Over

LEMMA GoesOpen ==
    ASSUME MemInv, NEW e \in Ends, \E z : Goes(e, z)
    PROVE  IsClosed' = IsClosed /\ (IsClosed => IsClosed')
<1>1. PICK z : Goes(e, z) OBVIOUS
<1>2. \A d \in Ends : client'[d].stage = client[d].stage BY <1>1 DEF Goes, MemInv
<1>3. IsClosed' <=> IsClosed BY <1>2, Zenon DEF IsClosed
<1>4. IsClosed' \in BOOLEAN /\ IsClosed \in BOOLEAN BY DEF IsClosed
<1> QED BY <1>3, <1>4

LEMMA ChannelPush ==
    ASSUME MemInv, lengths' = lengths, NEW e \in Ends, PushSend(e)
    PROVE  [Channel!Next]_(Channel!vars)
<1>1. IsClosed' = IsClosed BY GoesPushSend, GoesOpen
<1>2. sent' = [sent EXCEPT ![e] = sent[e] + 1] /\ got' = got BY DEF PushSend
<1>3. CASE ~Fits
  <2>1. Sents' = Sents /\ Gots' = Gots BY <1>3, FitsStays, Zenon DEF Sents, Gots
  <2> QED BY <1>1, <2>1, Zenon DEF Channel!vars, Sents, Gots, IsClosed
<1>4. CASE Fits
  <2>1. Sents = sent /\ Gots = got /\ Sents' = sent' /\ Gots' = got'
    BY <1>4, FitsStays, Zenon DEF Sents, Gots
  <2>2. Sents' = [Sents EXCEPT ![e] = Sents[e] + 1] /\ Gots' = Gots BY <1>2, <2>1, Zenon
  <2>3. Channel!Push(e) BY <1>1, <2>2, Zenon DEF Channel!Push, Sents, Gots, IsClosed
  <2> QED BY <2>3, Zenon DEF Channel!Next
<1> QED BY <1>3, <1>4

LEMMA ChannelDeliver ==
    ASSUME MemInv, MemInv', StreamInv', lengths' = lengths, NEW e \in Ends, ReceivePacket(e)
    PROVE  [Channel!Next]_(Channel!vars)
<1>1. IsClosed' = IsClosed BY GoesReceivePacket, GoesOpen
<1>2. PICK k \in Header(e) : got' = [got EXCEPT ![e] = Append(got[e], k)] BY DEF ReceivePacket
<1>3. sent' = sent BY DEF ReceivePacket
<1>4. CASE ~Fits
  <2>1. Sents' = Sents /\ Gots' = Gots BY <1>4, FitsStays, Zenon DEF Sents, Gots
  <2> QED BY <1>1, <2>1, Zenon DEF Channel!vars, Sents, Gots, IsClosed
<1>5. CASE Fits
  <2>1. Sents = sent /\ Gots = got /\ Sents' = sent' /\ Gots' = got'
    BY <1>5, FitsStays, Zenon DEF Sents, Gots
  <2>2. PICK p : p = Peer(e) /\ p \in Ends BY PeerFacts
  <2>3. StreamOf(e)'
    <3>1. Fits' BY <1>5, FitsStays
    <3> QED BY <3>1, Zenon DEF StreamInv
  <2>4. PICK g \in Seq(Nat) : g = got[e] BY StreamTypes
  <2>5. PICK gg : gg = Append(g, k) OBVIOUS
  <2>6. got'[e] = gg BY <1>2, <2>4, <2>5 DEF MemInv, RestOK
  <2>7. InOrder(gg) BY <2>3, <2>6, Zenon DEF StreamOf
  <2>8. k \in Nat BY HeaderFacts
  <2>9. PICK n \in Nat : n = Len(g) OBVIOUS
  <2>10. Len(gg) = n + 1 /\ gg[n + 1] = k BY <2>5, <2>8, <2>9
  <2>11. k = n + 1 BY <2>7, <2>9, <2>10 DEF InOrder
  <2>12. PICK s \in Nat : s = sent[p] BY <2>2, StreamTypes
  <2>13. Len(gg) \in 0 .. s
    <3>1. Direction(e)' BY <2>3, Zenon DEF StreamOf
    <3>2. Len(got'[e]) \in 0 .. sent'[p] BY <2>2, <3>1, Zenon DEF Direction, Flows
    <3> QED BY <1>3, <2>6, <2>12, <3>2
  <2>14. Len(g) < s BY <2>9, <2>10, <2>12, <2>13
  <2>15. Channel!Other(e) = p BY <2>2, Zenon DEF Channel!Other, Peer
  <2>16. Len(Gots[e]) < Sents[Channel!Other(e)] BY <2>1, <2>4, <2>12, <2>14, <2>15, Zenon
  <2>17. Gots' = [Gots EXCEPT ![e] = Append(Gots[e], Len(Gots[e]) + 1)]
    BY <1>2, <2>1, <2>4, <2>9, <2>11, Zenon
  <2>18. Sents' = Sents BY <1>3, <2>1, Zenon
  <2>19. Channel!Deliver(e)
    BY <1>1, <2>16, <2>17, <2>18, Zenon DEF Channel!Deliver, Sents, Gots, IsClosed
  <2> QED BY <2>19, Zenon DEF Channel!Next
<1> QED BY <1>4, <1>5

\* Every step is a step of PacketChannel, or one that the code above does not notice.
LEMMA ChannelStep ==
    ASSUME MemInv, ControlInv, MemInv', StreamInv', [Next]_vars
    PROVE  [Channel!Next]_(Channel!vars)
<1>0. lengths' = lengths BY LengthsStay
<1>1. CASE UNCHANGED vars
  <2>1. client' = client /\ got' = got /\ sent' = sent BY <1>1 DEF vars
  <2>2. IsClosed => IsClosed' BY <2>1, Zenon DEF IsClosed
  <2> QED BY <1>0, <2>1, <2>2, ChannelQuiet
<1>2. CASE Handshake
  <2>1. client' = client /\ got' = got /\ sent' = sent BY <1>2 DEF Handshake, history
  <2>2. IsClosed => IsClosed' BY <2>1, Zenon DEF IsClosed
  <2> QED BY <1>0, <2>1, <2>2, ChannelQuiet
<1>3. CASE \E e \in Ends :
             \/ Loop(e) \/ Connect(e) \/ Accept(e) \/ Close(e) \/ PushSend(e)
             \/ HandlerThrows(e) \/ ReleasePacket(e) \/ Reset(e)
  <2>1. PICK e \in Ends :
             \/ Loop(e) \/ Connect(e) \/ Accept(e) \/ Close(e) \/ PushSend(e)
             \/ HandlerThrows(e) \/ ReleasePacket(e) \/ Reset(e)
    BY <1>3
  <2>2. ASSUME QuietClients, sent' = sent, got' = got PROVE [Channel!Next]_(Channel!vars)
    <3>1. IsClosed => IsClosed'
      <4>1. \A d \in Ends : Over(client[d]) => Over(client'[d]) BY <2>2, Zenon DEF QuietClients
      <4> QED BY <4>1, ClosedStays
    <3> QED BY <1>0, <2>2, <3>1, ChannelQuiet
  <2>3. CASE \/ Poll(e) \/ ReadStops(e) \/ ReadNothing(e) \/ ReadEnd(e) \/ ReceiveMore(e)
             \/ SendDone(e) \/ SendBlocked(e) \/ SendFails(e) \/ ConnectCompleted(e) \/ Writeable(e)
             \/ Connect(e) \/ Accept(e) \/ Close(e) \/ ReceiveBroken(e)
    <3>1. QuietClients /\ sent' = sent /\ got' = got BY <2>3, StepRests, Zenon
    <3> QED BY <2>2, <3>1
  <2>4. CASE Handled(e) \/ HandlerThrows(e) \/ ReleasePacket(e)
    <3>1. QuietClients /\ sent' = sent /\ got' = got BY <2>4, StepReleases, Zenon
    <3> QED BY <2>2, <3>1
  <2>5. CASE ReadSome(e) \/ SendSome(e)
    <3>1. sent' = sent /\ got' = got BY <2>5 DEF ReadSome, SendSome, history
    <3>2. IsClosed => IsClosed' BY <2>5, GoesReadSome, GoesSendSome, GoesOpen
    <3> QED BY <1>0, <3>1, <3>2, ChannelQuiet
  <2>6. CASE Reset(e)
    <3>1. sent' = sent /\ got' = got /\ client' = client BY <2>6 DEF Reset, history
    <3>2. IsClosed => IsClosed' BY <3>1, Zenon DEF IsClosed
    <3> QED BY <1>0, <3>1, <3>2, ChannelQuiet
  <2>7. CASE Drain(e)
    <3>1. sent' = sent /\ got' = got BY <2>7 DEF Drain, history
    <3>2. PICK c \in Clients : c = client[e] BY StreamTypes
    <3>3. PICK z : z = [c EXCEPT !.stage = "gone", !.connect = FALSE, !.pending = FALSE,
                                 !.sendq = <<>>, !.recvp = <<>>, !.recvq = <<>>]
      OBVIOUS
    <3>4. z.stage = "gone" BY <3>2, <3>3 DEF Clients
    <3>5. client' = [client EXCEPT ![e] = z] BY <2>7, <3>2, <3>3, Zenon DEF Drain
    <3>6. client'[e].stage = "gone" BY <3>4, <3>5 DEF MemInv
    <3>7. IsClosed' BY <3>6, Zenon DEF IsClosed
    <3> QED BY <1>0, <3>1, <3>7, ChannelQuiet
  <2>8. CASE PushSend(e) BY <1>0, <2>8, ChannelPush
  <2>9. CASE ReceivePacket(e) BY <1>0, <2>9, ChannelDeliver
  <2> QED BY <2>1, <2>3, <2>4, <2>5, <2>6, <2>7, <2>8, <2>9, Zenon DEF Loop
<1> QED BY <1>1, <1>2, <1>3, Zenon DEF Next

\* Everything that PacketChannel says but its fairness: packets that fit their
\* length field reach the handler one by one, in the order in which they were
\* pushed, none twice, none skipped and none before it was pushed, for any
\* workload; and a connection that somebody closed stays closed.
THEOREM PacketsInOrder == Spec => Channel!Init /\ [][Channel!Next]_(Channel!vars)
<1>1. Init => Channel!Init
  <2> SUFFICES ASSUME Init PROVE Channel!Init OBVIOUS
  <2>1. Sents = [e \in Ends |-> 0] /\ Gots = [e \in Ends |-> <<>>] BY Zenon DEF Init, Sents, Gots
  <2>2. \A e \in Ends : client[e].stage = "new" BY DEF Init, NewClient
  <2>3. IsClosed = FALSE BY <2>2 DEF IsClosed
  <2> QED BY <2>1, <2>3, Zenon DEF Channel!Init, Sents, Gots, IsClosed
<1>2. SocketInv /\ SocketInv' /\ [Next]_vars => [Channel!Next]_(Channel!vars)
  BY ChannelStep DEF SocketInv
<1> QED BY <1>1, <1>2, SocketInductive, PTL DEF Spec

=============================================================================
