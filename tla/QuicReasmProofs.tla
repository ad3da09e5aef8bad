-------------------------- MODULE QuicReasmProofs ---------------------------
(***************************************************************************)
(* For every set of datagrams, in every order and number, and any size of  *)
(* the buffer: Initials are delayed and nothing else, no longer than the   *)
(* buffer allows; what is replayed as a whole hello is one; and a hello    *)
(* that has come once in all its parts does not wait.                      *)
(***************************************************************************)
EXTENDS QuicReasm, Lemmas, FiniteSetTheorems

LEMMA Constants ==
    /\ reasm_payload_disable \in BOOLEAN
    /\ Size \in Nat /\ Size > 0 /\ UDP_MAX_REASM \in Nat /\ Size <= UDP_MAX_REASM
    /\ HelloLen \in Nat /\ HelloLen > 0 /\ MaxPackets \in Nat
  BY QuicReasmAssumption

-----------------------------------------------------------------------------
(* Chunks put behind each other.                                           *)

Chunk == [off : Nat, len : Nat]

LEMMA ChunkSeq ==
    ASSUME NEW c \in Seq(Chunk)
    PROVE  /\ Len(c) \in Nat /\ DOMAIN c = 1 .. Len(c)
           /\ \A i \in 1 .. Len(c) : c[i].off \in Nat /\ c[i].len \in Nat
  <1>1. Len(c) \in Nat /\ DOMAIN c = 1 .. Len(c)
    BY LenProperties
  <1>2. \A i \in 1 .. Len(c) : c[i] \in Chunk
    BY ElementOfSeq
  <1> QED
    BY <1>1, <1>2 DEF Chunk

LEMMA Flattened ==
    ASSUME NEW S, NEW q \in Seq(Seq(S))
    PROVE  FlattenSeq(q) \in Seq(S)
  <1> DEFINE N == Len(q)
             V == Seq(S)
             v == <<>>
             step == [x \in Nat \X V |-> IF x[1] = 1 THEN q[1]
                                         ELSE IF x[1] \in 1 .. N THEN x[2] \o q[x[1]] ELSE x[2]]
             Equation(g) == g = [i \in 1 .. N |-> IF i = 1 THEN q[i] ELSE g[i - 1] \o q[i]]
             g0 == CHOOSE g : Equation(g)
  <1>1. N \in Nat /\ \A i \in 1 .. N : q[i] \in V
    BY LenProperties, ElementOfSeq
  <1>2. CASE N = 0
    <2>1. q = <<>>
      BY <1>2, EmptySeq
    <2>2. FlattenSeq(q) = q
      BY <1>2 DEF FlattenSeq
    <2> QED
      BY <2>1, <2>2, EmptySeq
  <1>3. CASE N # 0
    <2>a. 1 \in 1 .. N /\ N \in 1 .. N
      BY <1>1, <1>3
    <2>1. v \in V
      BY EmptySeq
    <2>2. step \in [Nat \X V -> V]
      <3>1. ASSUME NEW x \in Nat \X V
            PROVE  (IF x[1] = 1 THEN q[1] ELSE IF x[1] \in 1 .. N THEN x[2] \o q[x[1]] ELSE x[2]) \in V
        <4>1. x[2] \in Seq(S) /\ q[1] \in Seq(S)
          BY <1>1, <2>a
        <4>2. ASSUME x[1] \in 1 .. N PROVE x[2] \o q[x[1]] \in Seq(S)
          <5>1. q[x[1]] \in Seq(S)
            BY <1>1, <4>2
          <5> QED
            BY <4>1, <5>1, ConcatProperties
        <4> QED
          BY <4>1, <4>2
      <3> QED
        BY <3>1
    <2>3. \A i \in Nat, x \in V :
             step[<<i, x>>] = IF i = 1 THEN q[1] ELSE IF i \in 1 .. N THEN x \o q[i] ELSE x
      OBVIOUS
    <2> HIDE DEF v, step, V
    <2>4. PICK f : /\ f \in [Nat -> V]
                   /\ \A n \in Nat : f[n] = IF n = 0 THEN v ELSE step[<<n, f[n - 1]>>]
      <3>1. Steps(V, v, step)
        BY <2>1, <2>2 DEF Steps
      <3>2. \E f : Solves(V, v, step, f)
        BY <3>1, Recursion
      <3> QED
        BY <3>2 DEF Solves
    <2> DEFINE e == [i \in 1 .. N |-> f[i]]
    <2>5. Equation(e)
      <3>1. ASSUME NEW i \in 1 .. N PROVE e[i] = IF i = 1 THEN q[i] ELSE e[i - 1] \o q[i]
        <4>1. i \in Nat /\ i # 0 /\ i - 1 \in Nat /\ f[i - 1] \in V
          BY <1>1, <2>4
        <4>2. e[i] = step[<<i, f[i - 1]>>]
          BY <2>4, <4>1
        <4>3. CASE i = 1
          BY <2>3, <4>1, <4>2, <4>3
        <4>4. CASE i # 1
          <5>1. e[i - 1] = f[i - 1]
            BY <1>1, <4>4
          <5> QED
            BY <2>3, <4>1, <4>2, <4>4, <5>1
        <4> QED
          BY <4>3, <4>4
      <3> QED
        BY <3>1
    <2> HIDE DEF e
    <2>6. Equation(g0)
      BY <2>5
    <2>7. FlattenSeq(q) = g0[N]
      BY <1>3 DEF FlattenSeq
    <2> HIDE DEF g0
    <2> DEFINE T == {n \in Nat : n \in 1 .. N => g0[n] \in V}
    <2>8. 0 \in T
      OBVIOUS
    <2>9. ASSUME NEW n \in T PROVE n + 1 \in T
      <3>1. CASE n + 1 \in 1 .. N
        <4>1. g0[n + 1] = IF n + 1 = 1 THEN q[n + 1] ELSE g0[(n + 1) - 1] \o q[n + 1]
          BY <2>6, <3>1
        <4>2. CASE n = 0
          <5>1. g0[n + 1] = q[n + 1] /\ q[n + 1] \in V /\ n + 1 \in Nat
            BY <1>1, <3>1, <4>1, <4>2 DEF V
          <5> QED
            BY <5>1
        <4>3. CASE n # 0
          <5>1. n \in 1 .. N /\ (n + 1) - 1 = n /\ n + 1 # 1
            BY <1>1, <3>1, <4>3
          <5>2. g0[n] \in Seq(S) /\ q[n + 1] \in Seq(S)
            BY <1>1, <3>1, <5>1 DEF V
          <5>3. g0[n] \o q[n + 1] \in Seq(S)
            BY <5>2, ConcatProperties
          <5>4. g0[n + 1] \in V /\ n + 1 \in Nat
            BY <4>1, <5>1, <5>3 DEF V
          <5> QED
            BY <5>4
        <4> QED
          BY <4>2, <4>3
      <3>2. n + 1 \in Nat
        OBVIOUS
      <3>3. CASE n + 1 \notin 1 .. N
        BY <3>2, <3>3
      <3> QED
        BY <3>1, <3>3
    <2> HIDE DEF T
    <2>10. T \in SUBSET Nat
      BY DEF T
    <2>11. N \in T
      BY <1>1, <2>8, <2>9, <2>10, Induction
    <2>12. g0[N] \in V
      BY <2>11, <2>a DEF T
    <2> QED
      BY <2>7, <2>12 DEF V
  <1> QED
    BY <1>2, <1>3

LEMMA ChunksAre ==
    ASSUME NEW ds \in Seq(Datagrams)
    PROVE  Chunks(ds) \in Seq(Chunk)
  <1>1. Len(ds) \in Nat /\ DOMAIN ds = 1 .. Len(ds) /\ \A i \in 1 .. Len(ds) : ds[i] \in Datagrams
    BY LenProperties, ElementOfSeq
  <1>2. \A i \in DOMAIN ds : ds[i].chunks \in Seq(Chunk)
    BY <1>1, QuicReasmAssumption DEF Chunk
  <1>3. [i \in DOMAIN ds |-> ds[i].chunks] \in Seq(Seq(Chunk))
    BY <1>1, <1>2
  <1> QED
    BY <1>3, Flattened DEF Chunks

-----------------------------------------------------------------------------
(* The chunks in the order of their offsets.                               *)

\* p puts the chunks c in order.
Sorts(p, c) ==
    LET n == Len(c)
        s == ByOffset(c)
    IN  /\ p \in [1 .. n -> 1 .. n]
        /\ \A i \in 1 .. n : \E r \in 1 .. n : p[r] = i
        /\ \A r, t \in 1 .. n : r # t => p[r] # p[t]
        /\ DOMAIN s = 1 .. n
        /\ \A r \in 1 .. n : s[r] = c[p[r]]
        /\ \A r, t \in 1 .. n : r < t => s[r].off <= s[t].off

\* No two chunks have the same number not behind them.
LEMMA Ranks ==
    ASSUME NEW c \in Seq(Chunk)
    PROVE  LET n == Len(c)
               f == [i \in 1 .. n |-> Cardinality(NotBehind(c, i))]
           IN  /\ f \in [1 .. n -> 1 .. n]
               /\ \A i, j \in 1 .. n : i # j => f[i] # f[j]
               /\ \A i, j \in 1 .. n : c[i].off < c[j].off => f[i] < f[j]
  <1> DEFINE n == Len(c)
             B(i) == NotBehind(c, i)
  <1>1. n \in Nat /\ DOMAIN c = 1 .. n /\ \A i \in 1 .. n : c[i].off \in Nat
    BY ChunkSeq
  <1>2. IsFiniteSet(1 .. n) /\ Cardinality(1 .. n) = n
    BY <1>1, FS_Interval
  <1>3. ASSUME NEW i \in 1 .. n
        PROVE  /\ B(i) \in SUBSET (1 .. n) /\ i \in B(i)
               /\ IsFiniteSet(B(i)) /\ Cardinality(B(i)) \in 1 .. n
    <2>1. B(i) \in SUBSET (1 .. n) /\ i \in B(i)
      BY <1>1 DEF NotBehind
    <2>2. IsFiniteSet(B(i)) /\ Cardinality(B(i)) <= n
      BY <1>2, <2>1, FS_Subset
    <2>3. Cardinality(B(i)) \in Nat /\ Cardinality(B(i)) # 0
      BY <2>1, <2>2, FS_CardinalityType, FS_EmptySet
    <2> QED
      BY <1>1, <2>1, <2>2, <2>3
  <1>4. ASSUME NEW i \in 1 .. n, NEW j \in 1 .. n, i # j,
               c[i].off < c[j].off \/ (c[i].off = c[j].off /\ i < j)
        PROVE  Cardinality(B(i)) < Cardinality(B(j))
    <2>1. B(i) \in SUBSET B(j) /\ j \notin B(i)
      BY <1>1, <1>4 DEF NotBehind
    <2>2. Cardinality(B(i)) <= Cardinality(B(j)) /\ Cardinality(B(i)) # Cardinality(B(j))
      BY <1>3, <2>1, FS_Subset
    <2> QED
      BY <1>3, <2>2
  <1> DEFINE f == [i \in 1 .. n |-> Cardinality(B(i))]
  <1>5. \A i \in 1 .. n : f[i] = Cardinality(B(i))
    OBVIOUS
  <1>6. f \in [1 .. n -> 1 .. n]
    BY <1>3
  <1> HIDE DEF B, f
  <1>7. \A i, j \in 1 .. n : i # j => f[i] # f[j]
    <2> SUFFICES ASSUME NEW i \in 1 .. n, NEW j \in 1 .. n, i # j PROVE f[i] # f[j]
      OBVIOUS
    <2>1. CASE c[i].off < c[j].off \/ (c[i].off = c[j].off /\ i < j)
      <3>1. f[i] < f[j] /\ f[i] \in Nat /\ f[j] \in Nat
        BY <1>1, <1>3, <1>4, <1>5, <2>1
      <3> QED
        BY <3>1
    <2>2. CASE c[j].off < c[i].off \/ (c[i].off = c[j].off /\ j < i)
      <3>1. f[j] < f[i] /\ f[i] \in Nat /\ f[j] \in Nat
        BY <1>1, <1>3, <1>4, <1>5, <2>2
      <3> QED
        BY <3>1
    <2> QED
      BY <1>1, <2>1, <2>2
  <1>8. \A i, j \in 1 .. n : c[i].off < c[j].off => f[i] < f[j]
    <2> SUFFICES ASSUME NEW i \in 1 .. n, NEW j \in 1 .. n, c[i].off < c[j].off PROVE f[i] < f[j]
      OBVIOUS
    <2>1. i # j
      BY <1>1
    <2> QED
      BY <1>4, <1>5, <2>1
  <1> QED
    BY <1>6, <1>7, <1>8 DEF f, B

LEMMA ByOffsetSorts ==
    ASSUME NEW c \in Seq(Chunk)
    PROVE  \E p : Sorts(p, c)
  <1> DEFINE n == Len(c)
             f == [i \in 1 .. n |-> Cardinality(NotBehind(c, i))]
             s == ByOffset(c)
  <1>1. n \in Nat /\ DOMAIN c = 1 .. n /\ \A i \in 1 .. n : c[i].off \in Nat
    BY ChunkSeq
  <1>2. /\ f \in [1 .. n -> 1 .. n]
        /\ \A i, j \in 1 .. n : i # j => f[i] # f[j]
        /\ \A i, j \in 1 .. n : c[i].off < c[j].off => f[i] < f[j]
    BY Ranks
  <1>3. \A i \in 1 .. n : f[i] = Cardinality(NotBehind(c, i))
    OBVIOUS
  <1> DEFINE p == [r \in 1 .. n |-> CHOOSE i \in 1 .. n : Cardinality(NotBehind(c, i)) = r]
  <1>4. DOMAIN s = 1 .. n /\ \A r \in 1 .. n : s[r] = c[p[r]]
    BY <1>1 DEF ByOffset
  <1> HIDE DEF f, s
  <1>5. \A r \in 1 .. n : \E i \in 1 .. n : f[i] = r
    <2>1. f \in Injection(1 .. n, 1 .. n)
      BY <1>2 DEF Injection, IsInjective
    <2>2. IsFiniteSet(1 .. n)
      BY <1>1, FS_Interval
    <2>3. f \in Surjection(1 .. n, 1 .. n)
      BY <2>1, <2>2, FS_Injection
    <2> QED
      BY <2>3 DEF Surjection
  <1>6. \A r \in 1 .. n : p[r] \in 1 .. n /\ f[p[r]] = r
    <2> SUFFICES ASSUME NEW r \in 1 .. n PROVE p[r] \in 1 .. n /\ f[p[r]] = r
      OBVIOUS
    <2>1. \E i \in 1 .. n : Cardinality(NotBehind(c, i)) = r
      BY <1>3, <1>5
    <2>2. p[r] \in 1 .. n /\ Cardinality(NotBehind(c, p[r])) = r
      BY <2>1
    <2> QED
      BY <1>3, <2>2
  <1>7. p \in [1 .. n -> 1 .. n]
    BY <1>6
  <1> HIDE DEF p
  <1>8. \A i \in 1 .. n : f[i] \in 1 .. n /\ p[f[i]] = i
    BY <1>2, <1>6
  <1>9. \A r, t \in 1 .. n : r # t => p[r] # p[t]
    BY <1>6
  <1>10. ASSUME NEW r \in 1 .. n, NEW t \in 1 .. n, r < t PROVE s[r].off <= s[t].off
    <2>1. PICK i \in 1 .. n : i = p[r] /\ f[i] = r
      BY <1>6
    <2>2. PICK j \in 1 .. n : j = p[t] /\ f[j] = t
      BY <1>6
    <2>3. ~ (c[j].off < c[i].off)
      <3>1. f[j] < f[i] => FALSE
        BY <1>1, <1>10, <2>1, <2>2
      <3> QED
        BY <1>2, <3>1
    <2> QED
      BY <1>1, <1>4, <2>1, <2>2, <2>3
  <1>11. \A i \in 1 .. n : \E r \in 1 .. n : p[r] = i
    BY <1>8
  <1> QED
    BY <1>4, <1>7, <1>9, <1>10, <1>11 DEF Sorts, s

-----------------------------------------------------------------------------
(* What full coverage says of the bytes, and the bytes of the coverage.    *)

Covered(c, k) == \E i \in 1 .. Len(c) : k >= c[i].off /\ k < End(c[i])

\* Up to where some chunk reaches nothing is missing.
LEMMA FullCovers ==
    ASSUME NEW c \in Seq(Chunk), Full(c), NEW i \in 1 .. Len(c), NEW k \in Nat, k < End(c[i])
    PROVE  Covered(c, k)
  <1> DEFINE n == Len(c)
             s == ByOffset(c)
             T == {r \in 1 .. n : k < End(s[r])}
  <1>1. /\ n \in Nat /\ DOMAIN c = 1 .. n
        /\ \A j \in 1 .. n : c[j].off \in Nat /\ c[j].len \in Nat
    BY ChunkSeq
  <1>2. PICK p : Sorts(p, c)
    BY ByOffsetSorts
  <1>3. /\ p \in [1 .. n -> 1 .. n]
        /\ \A j \in 1 .. n : \E r \in 1 .. n : p[r] = j
        /\ DOMAIN s = 1 .. n
        /\ \A r \in 1 .. n : s[r] = c[p[r]]
    BY <1>2 DEF Sorts
  <1>4. \A r \in 1 .. n : s[r].off = (IF r = 1 THEN 0 ELSE End(s[r - 1]))
    BY <1>3 DEF Full
  <1> HIDE DEF s
  <1>5. T \in SUBSET Nat /\ T # {}
    <2>1. PICK r \in 1 .. n : p[r] = i
      BY <1>3
    <2>2. r \in T
      BY <1>3, <2>1
    <2> QED
      BY <1>1, <2>2
  <1>6. PICK r \in T : \A t \in T : r <= t
    BY <1>5, Least
  <1>7. r \in 1 .. n /\ k < End(s[r])
    OBVIOUS
  <1>8. k >= s[r].off
    <2>1. CASE r = 1
      BY <1>4, <1>7, <2>1
    <2>2. CASE r # 1
      <3>1. r - 1 \in 1 .. n /\ r - 1 \notin T
        BY <1>1, <1>6, <1>7, <2>2
      <3>2. PICK j \in 1 .. n : j = p[r - 1] /\ s[r - 1] = c[j]
        BY <1>3, <3>1
      <3>3. s[r].off = End(c[j]) /\ End(c[j]) \in Nat
        BY <1>1, <1>4, <1>7, <2>2, <3>2 DEF End
      <3>4. ~ (k < End(c[j]))
        BY <3>1, <3>2
      <3> QED
        BY <3>3, <3>4
    <2> QED
      BY <2>1, <2>2
  <1> QED
    BY <1>3, <1>7, <1>8 DEF Covered

\* The chunks have bytes, all of the hello.
OfHello(c) == \A i \in 1 .. Len(c) : c[i].len > 0 /\ End(c[i]) <= HelloLen

Once(c) == \A k \in 0 .. HelloLen - 1 :
               /\ Covered(c, k)
               /\ \A i, j \in 1 .. Len(c) :
                      k >= c[i].off /\ k < End(c[i]) /\ k >= c[j].off /\ k < End(c[j]) => i = j

\* Intervals in order that have every number up to H once follow each other.
Has(o, e, k, r) == k >= o[r] /\ k < e[r]

LEMMA Tiling ==
    ASSUME NEW n \in Nat, NEW H \in Nat, H > 0, NEW o \in [1 .. n -> Nat], NEW e \in [1 .. n -> Nat],
           \A r \in 1 .. n : o[r] < e[r] /\ e[r] <= H,
           \A r, t \in 1 .. n : r < t => o[r] <= o[t],
           \A k \in 0 .. H - 1 : \E r \in 1 .. n : Has(o, e, k, r),
           \A k \in 0 .. H - 1 : \A r, t \in 1 .. n : Has(o, e, k, r) /\ Has(o, e, k, t) => r = t,
           NEW r \in 1 .. n
    PROVE  o[r] = IF r = 1 THEN 0 ELSE e[r - 1]
  <1>1. CASE r = 1
    <2>1. 0 \in 0 .. H - 1
      OBVIOUS
    <2>2. PICK t \in 1 .. n : Has(o, e, 0, t)
      BY <2>1
    <2>3. o[t] = 0
      BY <2>2 DEF Has
    <2>4. t = r \/ r < t
      BY <1>1
    <2>5. o[r] <= o[t]
      BY <2>4
    <2> QED
      BY <1>1, <2>3, <2>5
  <1>2. CASE r # 1
    <2>1. PICK q \in 1 .. n : q = r - 1
      BY <1>2
    <2>2. /\ q < r /\ o[q] <= o[r] /\ o[r] \in Nat /\ e[r] \in Nat /\ o[q] \in Nat /\ e[q] \in Nat
          /\ o[q] < e[q] /\ e[q] <= H /\ o[r] < e[r] /\ e[r] <= H
      BY <2>1
    <2>3. ~ (o[r] < e[q])
      <3> SUFFICES ASSUME o[r] < e[q] PROVE FALSE
        OBVIOUS
      <3>1. PICK k \in 0 .. H - 1 : k = o[r]
        BY <2>2
      <3>2. Has(o, e, k, r) /\ Has(o, e, k, q)
        BY <2>2, <3>1 DEF Has
      <3> QED
        BY <2>2, <3>2
    <2>4. ~ (e[q] < o[r])
      <3> SUFFICES ASSUME e[q] < o[r] PROVE FALSE
        OBVIOUS
      <3>1. PICK k \in 0 .. H - 1 : k = e[q]
        BY <2>2
      <3>2. PICK t \in 1 .. n : Has(o, e, k, t)
        BY <3>1
      <3>3. o[t] <= e[q] /\ e[q] < e[t] /\ o[t] \in Nat /\ e[t] \in Nat
        BY <3>1, <3>2 DEF Has
      <3>4. CASE t > r
        <4>1. o[r] <= o[t]
          BY <3>4
        <4> QED
          BY <2>2, <3>3, <4>1
      <3>5. CASE t = r
        BY <2>2, <3>3, <3>5
      <3>6. CASE t = q
        BY <3>3, <3>6
      <3>7. CASE t < q
        <4>1. o[t] <= o[q]
          BY <3>7
        <4>2. PICK j \in 0 .. H - 1 : j = o[q]
          BY <2>2
        <4>a. j \in Nat /\ j = o[q] /\ o[t] <= j
          BY <2>2, <4>1, <4>2
        <4>b. j < e[q] /\ e[q] < e[t] /\ e[q] \in Nat /\ e[t] \in Nat
          BY <2>2, <3>3, <4>a
        <4>3. j < e[t]
          BY <4>a, <4>b
        <4>c. j >= o[q] /\ j >= o[t]
          BY <4>a
        <4>4. Has(o, e, j, q) /\ Has(o, e, j, t)
          BY <4>3, <4>b, <4>c DEF Has
        <4> QED
          BY <3>7, <4>4
      <3> QED
        BY <2>1, <3>4, <3>5, <3>6, <3>7
    <2> QED
      BY <1>2, <2>1, <2>2, <2>3, <2>4
  <1> QED
    BY <1>1, <1>2

LEMMA FullOfOnce ==
    ASSUME NEW c \in Seq(Chunk), OfHello(c), Once(c)
    PROVE  Full(c)
  <1> DEFINE n == Len(c)
             s == ByOffset(c)
             o == [r \in 1 .. n |-> s[r].off]
             e == [r \in 1 .. n |-> End(s[r])]
  <1>1. /\ n \in Nat
        /\ \A j \in 1 .. n : /\ c[j].off \in Nat /\ c[j].len \in Nat /\ c[j].len > 0
                             /\ End(c[j]) <= HelloLen
    BY ChunkSeq DEF OfHello
  <1>2. PICK p : Sorts(p, c)
    BY ByOffsetSorts
  <1>3. /\ p \in [1 .. n -> 1 .. n]
        /\ \A j \in 1 .. n : \E r \in 1 .. n : p[r] = j
        /\ \A r, t \in 1 .. n : r # t => p[r] # p[t]
        /\ DOMAIN s = 1 .. n
        /\ \A r \in 1 .. n : s[r] = c[p[r]]
        /\ \A r, t \in 1 .. n : r < t => s[r].off <= s[t].off
    BY <1>2 DEF Sorts
  <1> HIDE DEF s
  <1>4. \A r \in 1 .. n : o[r] = s[r].off /\ e[r] = End(s[r])
    OBVIOUS
  <1>5. DOMAIN o = 1 .. n /\ DOMAIN e = 1 .. n /\ o = [r \in 1 .. n |-> o[r]] /\ e = [r \in 1 .. n |-> e[r]]
    OBVIOUS
  <1> HIDE DEF n, o, e
  <1>6. ASSUME NEW r \in 1 .. n
        PROVE  \E i \in 1 .. n : i = p[r] /\ o[r] = c[i].off /\ e[r] = End(c[i])
    BY <1>3, <1>4
  <1>7. ASSUME NEW r \in 1 .. n
        PROVE  o[r] \in Nat /\ e[r] \in Nat /\ o[r] < e[r] /\ e[r] <= HelloLen
    <2>1. PICK i \in 1 .. n : o[r] = c[i].off /\ e[r] = End(c[i])
      BY <1>6
    <2> QED
      BY <1>1, <2>1 DEF End
  <1>8. o \in [1 .. n -> Nat] /\ e \in [1 .. n -> Nat]
    BY <1>5, <1>7
  <1>9. \A r, t \in 1 .. n : r < t => o[r] <= o[t]
    BY <1>3, <1>4
  <1>10. ASSUME NEW k \in 0 .. HelloLen - 1 PROVE \E r \in 1 .. n : Has(o, e, k, r)
    <2>1. PICK i \in 1 .. n : k >= c[i].off /\ k < End(c[i])
      BY DEF Once, Covered, n
    <2>2. PICK r \in 1 .. n : p[r] = i
      BY <1>3
    <2> QED
      BY <1>6, <2>1, <2>2 DEF Has
  <1>12. ASSUME NEW k \in 0 .. HelloLen - 1, NEW r \in 1 .. n, NEW t \in 1 .. n,
                Has(o, e, k, r), Has(o, e, k, t)
         PROVE  r = t
    <2>1. PICK i \in 1 .. n : i = p[r] /\ o[r] = c[i].off /\ e[r] = End(c[i])
      BY <1>6
    <2>2. PICK j \in 1 .. n : j = p[t] /\ o[t] = c[j].off /\ e[t] = End(c[j])
      BY <1>6
    <2>3. i = j
      BY <1>12, <2>1, <2>2 DEF Once, Has, n
    <2> QED
      BY <1>3, <2>1, <2>2, <2>3
  <1>13. ASSUME NEW r \in 1 .. n PROVE o[r] = IF r = 1 THEN 0 ELSE e[r - 1]
    <2>1. HelloLen \in Nat /\ HelloLen > 0
      BY Constants
    <2>2. \A k \in 1 .. n : o[k] < e[k] /\ e[k] <= HelloLen
      BY <1>7
    <2> QED
      BY <1>1, <1>8, <1>9, <1>10, <1>12, <2>1, <2>2, Tiling
  <1>11. ASSUME NEW r \in 1 .. n
         PROVE  s[r].off = (IF r = 1 THEN 0 ELSE End(s[r - 1]))
    <2>1. r # 1 => r - 1 \in 1 .. n
      BY <1>1
    <2> QED
      BY <1>4, <1>13, <2>1
  <1> QED
    BY <1>3, <1>11 DEF Full, s

-----------------------------------------------------------------------------
(* How far chunks reach.                                                   *)

\* The greatest of a bounded set.
LEMMA Greatest ==
    ASSUME NEW T \in SUBSET Nat, NEW b \in Nat, \A x \in T : x <= b, NEW z \in T
    PROVE  Max(T) \in T /\ \A x \in T : x <= Max(T)
  <1> DEFINE U == {u \in Nat : \A x \in T : x <= u}
  <1>1. U \in SUBSET Nat /\ U # {}
    OBVIOUS
  <1>2. PICK u \in U : \A y \in U : u <= y
    BY <1>1, Least
  <1>3. u \in Nat /\ \A x \in T : x <= u
    OBVIOUS
  <1>4. u \in T
    <2> SUFFICES ASSUME u \notin T PROVE FALSE
      OBVIOUS
    <2>1. \A x \in T : x <= u - 1
      BY <1>3
    <2>2. u - 1 \in Nat
      BY <1>3, <2>1
    <2>3. u - 1 \in U
      BY <2>1, <2>2
    <2> QED
      BY <1>2, <1>3, <2>3
  <1>5. \E x \in T : \A y \in T : x >= y
    BY <1>3, <1>4
  <1>6. Max(T) \in T /\ \A y \in T : Max(T) >= y
    BY <1>5 DEF Max
  <1> QED
    BY <1>6

LEMMA ReachIs ==
    ASSUME NEW c \in Seq(Chunk), NEW m \in Nat, m > 0
    PROVE  Reach(c) >= m <=> \E i \in 1 .. Len(c) : End(c[i]) >= m
  <1> DEFINE n == Len(c)
             T == {0} \cup {End(c[i]) : i \in DOMAIN c}
             P == {k \in Nat : k <= n => \E b \in Nat : \A i \in 1 .. k : End(c[i]) <= b}
  <1>1. n \in Nat /\ DOMAIN c = 1 .. n /\ \A i \in 1 .. n : End(c[i]) \in Nat
    BY ChunkSeq DEF End
  <1>2. 0 \in P
    BY <1>1
  <1>3. ASSUME NEW k \in P PROVE k + 1 \in P
    <2>1. CASE k + 1 <= n
      <3>1. PICK b \in Nat : \A i \in 1 .. k : End(c[i]) <= b
        BY <1>1, <2>1
      <3>2. PICK d \in Nat : d = End(c[k + 1])
        BY <1>1, <2>1
      <3>3. \A i \in 1 .. k + 1 : End(c[i]) <= b + d
        <4> SUFFICES ASSUME NEW i \in 1 .. k + 1 PROVE End(c[i]) <= b + d
          OBVIOUS
        <4>1. CASE i = k + 1
          BY <3>2, <4>1
        <4>2. CASE i \in 1 .. k
          <5>1. End(c[i]) \in Nat /\ End(c[i]) <= b
            BY <1>1, <2>1, <3>1, <4>2
          <5> QED
            BY <5>1
        <4> QED
          BY <4>1, <4>2
      <3>4. b + d \in Nat /\ k + 1 \in Nat
        OBVIOUS
      <3> QED
        BY <3>3, <3>4
    <2>2. k + 1 \in Nat
      OBVIOUS
    <2>3. CASE ~ (k + 1 <= n)
      BY <2>2, <2>3
    <2> QED
      BY <2>1, <2>3
  <1> HIDE DEF P
  <1>4. P \in SUBSET Nat
    BY DEF P
  <1>5. n \in P
    BY <1>1, <1>2, <1>3, <1>4, Induction
  <1>6. PICK b \in Nat : \A i \in 1 .. n : End(c[i]) <= b
    BY <1>1, <1>5 DEF P
  <1>7. T \in SUBSET Nat /\ 0 \in T /\ \A x \in T : x <= b
    BY <1>1, <1>6
  <1>8. Max(T) \in T /\ \A x \in T : x <= Max(T)
    BY <1>7, Greatest
  <1>9. Reach(c) = Max(T)
    BY DEF Reach
  <1>10. ASSUME Reach(c) >= m PROVE \E i \in 1 .. n : End(c[i]) >= m
    BY <1>1, <1>8, <1>9, <1>10
  <1>11. ASSUME NEW i \in 1 .. n, End(c[i]) >= m PROVE Reach(c) >= m
    <2>1. End(c[i]) \in T /\ Max(T) \in Nat
      BY <1>1, <1>7, <1>8
    <2> HIDE DEF T
    <2>2. PICK x \in Nat : x = End(c[i])
      BY <1>1
    <2> QED
      BY <1>8, <1>9, <1>11, <2>1, <2>2
  <1> QED
    BY <1>10, <1>11

-----------------------------------------------------------------------------
(* The invariant: every packet held has its datagram among the content,    *)
(* they are the last that came, and the content is not a whole hello yet.  *)

Queued(n, h, ds) ==
    /\ ds \in Seq(Datagrams) /\ h \in Seq(1 .. n) /\ Len(h) = Len(ds)
    /\ \A i \in 1 .. Len(h) : h[i] = (n - Len(h)) + i
    /\ Len(ds) * Size <= UDP_MAX_REASM

Waiting(ds) == ds # <<>> => ~ (Full(Chunks(ds)) /\ ReqFull(ds))

Played == replayed \in Seq(Chunk) /\ ReplayedIsWhole

Numbers == arrived \in 0 .. MaxPackets /\ out \in Seq(1 .. arrived) /\ gone \subseteq 1 .. arrived

IInv ==
    /\ hello \in BOOLEAN /\ Numbers
    /\ InLine(arrived, delayed, out, gone)
    /\ Queued(arrived, delayed, content)
    /\ Waiting(content)
    /\ Played

-----------------------------------------------------------------------------
(* What a packet does.                                                     *)
Grown(ds) == ds \in Seq(Datagrams) /\ Len(ds) = Len(content) + 1 /\ Len(ds) * Size <= UDP_MAX_REASM

LEMMA PacketCases ==
    ASSUME IInv, Packet
    PROVE  \/ Cancel
           \/ \E ds : Grown(ds) /\ Waiting(ds) /\ Hold(ds)
           \/ \E ds : ds \in Seq(Datagrams) /\ Full(Chunks(ds)) /\ ReqFull(ds) /\ Complete(ds)
  <1>1. CASE OtherPayload
    BY <1>1 DEF OtherPayload
  <1>2. ASSUME NEW d \in Datagrams, Assemble(Append(content, d))
        PROVE  \/ Cancel
               \/ \E ds : Grown(ds) /\ Waiting(ds) /\ Hold(ds)
               \/ \E ds : ds \in Seq(Datagrams) /\ Full(Chunks(ds)) /\ ReqFull(ds) /\ Complete(ds)
    <2> DEFINE ds == Append(content, d)
    <2>1. content \in Seq(Datagrams) /\ Len(content) \in Nat
      BY LenProperties DEF IInv, Queued
    <2>2. ds \in Seq(Datagrams) /\ Len(ds) = Len(content) + 1
      BY <2>1, AppendProperties
    <2>3. ~ Open \/ HasSpace(Len(ds)) => Len(ds) * Size <= UDP_MAX_REASM
      <3>1. ~ Open => Len(ds) = 1
        BY <2>1, <2>2, EmptySeq DEF Open
      <3> QED
        BY <3>1, Constants DEF HasSpace
    <2> HIDE DEF ds
    <2>4. \/ Cancel
          \/ Full(Chunks(ds)) /\ ReqFull(ds) /\ Complete(ds)
          \/ (~ Open \/ HasSpace(Len(ds))) /\ ~ (Full(Chunks(ds)) /\ ReqFull(ds)) /\ Hold(ds)
      BY <1>2 DEF Assemble, ds
    <2> QED
      BY <2>2, <2>3, <2>4 DEF Grown, Waiting
  <1> QED
    BY <1>1, <1>2 DEF Packet, Initial

-----------------------------------------------------------------------------
(* The parts of the invariant after each step.                             *)

LEMMA SeqWidens ==
    ASSUME NEW n \in Nat, NEW s \in Seq(1 .. n)
    PROVE  s \in Seq(1 .. n + 1) /\ s \in Seq(Nat)
  OBVIOUS

LEMMA QueueGrows ==
    ASSUME NEW n \in Nat, NEW h, NEW ds, Queued(n, h, ds), NEW es \in Seq(Datagrams),
           Len(es) = Len(ds) + 1, Len(es) * Size <= UDP_MAX_REASM
    PROVE  Queued(n + 1, Append(h, n + 1), es)
  <1> DEFINE g == Append(h, n + 1)
  <1>1. h \in Seq(1 .. n) /\ h \in Seq(1 .. n + 1) /\ Len(h) \in Nat /\ n + 1 \in 1 .. n + 1
    BY SeqWidens, LenProperties DEF Queued
  <1>2. /\ g \in Seq(1 .. n + 1) /\ Len(g) = Len(h) + 1
        /\ \A i \in 1 .. Len(h) : g[i] = h[i]
        /\ g[Len(h) + 1] = n + 1
    BY <1>1, AppendProperties
  <1> HIDE DEF g
  <1>3. ASSUME NEW i \in 1 .. Len(g) PROVE g[i] = ((n + 1) - Len(g)) + i
    <2>1. CASE i = Len(h) + 1
      BY <1>1, <1>2, <2>1
    <2>2. CASE i # Len(h) + 1
      <3>1. i \in 1 .. Len(h)
        BY <1>1, <1>2, <2>2
      <3>2. g[i] = (n - Len(h)) + i
        BY <1>2, <3>1 DEF Queued
      <3> QED
        BY <1>1, <1>2, <3>1, <3>2
    <2> QED
      BY <2>1, <2>2
  <1>4. Len(g) = Len(es)
    BY <1>2 DEF Queued
  <1>5. Queued(n + 1, g, es)
    BY <1>2, <1>3, <1>4 DEF Queued
  <1> QED
    BY <1>5 DEF g

LEMMA QueueEmpty ==
    ASSUME NEW n \in Nat
    PROVE  Queued(n, <<>>, <<>>) /\ Waiting(<<>>)
  <1>1. <<>> \in Seq(Datagrams) /\ <<>> \in Seq(1 .. n) /\ Len(<<>>) = 0
    BY EmptySeq
  <1>2. 0 * Size <= UDP_MAX_REASM
    BY Constants
  <1> QED
    BY <1>1, <1>2 DEF Queued, Waiting

LEMMA OutGrows ==
    ASSUME NEW n \in Nat, NEW o \in Seq(1 .. n), NEW h \in Seq(1 .. n)
    PROVE  o \o Append(h, n + 1) \in Seq(1 .. n + 1)
  <1>1. h \in Seq(1 .. n + 1) /\ o \in Seq(1 .. n + 1) /\ n + 1 \in 1 .. n + 1
    BY SeqWidens
  <1>2. Append(h, n + 1) \in Seq(1 .. n + 1)
    BY <1>1, AppendProperties
  <1> QED
    BY <1>1, <1>2, ConcatProperties

LEMMA WholeIsPlayed ==
    ASSUME NEW ds \in Seq(Datagrams), Full(Chunks(ds)), ReqFull(ds), replayed' = Chunks(ds)
    PROVE  Played'
  <1> DEFINE c == Chunks(ds)
  <1>1. c \in Seq(Chunk)
    BY ChunksAre
  <1> HIDE DEF c
  <1>2. Full(c) /\ Reach(c) >= HelloLen /\ replayed' = c
    BY DEF ReqFull, c
  <1>3. PICK i \in 1 .. Len(c) : End(c[i]) >= HelloLen
    BY <1>1, <1>2, ReachIs, Constants
  <1>4. ASSUME NEW k \in 0 .. HelloLen - 1
        PROVE  \E j \in DOMAIN c : k >= c[j].off /\ k < End(c[j])
    <2>1. End(c[i]) \in Nat
      BY <1>1, ChunkSeq DEF End
    <2>2. k \in Nat /\ k < End(c[i])
      BY <1>3, <2>1, Constants
    <2>3. Covered(c, k)
      BY <1>1, <1>2, <2>2, FullCovers
    <2> QED
      BY <1>1, <2>3, ChunkSeq DEF Covered
  <1> QED
    BY <1>1, <1>2, <1>4 DEF Played, ReplayedIsWhole

LEMMA IInvInit == Init => IInv
  <1> SUFFICES ASSUME Init PROVE IInv
    OBVIOUS
  <1>1. InLine(arrived, delayed, out, gone)
    BY LineEmpty DEF Init
  <1>2. Queued(arrived, delayed, content) /\ Waiting(content)
    BY QueueEmpty DEF Init
  <1>3. Numbers
    BY EmptySeq, Constants DEF Init, Numbers
  <1>4. Played
    BY EmptySeq DEF Init, Played, ReplayedIsWhole
  <1> QED
    BY <1>1, <1>2, <1>3, <1>4 DEF IInv, Init

LEMMA PlayedStays ==
    ASSUME Played, UNCHANGED replayed
    PROVE  Played'
  BY DEF Played, ReplayedIsWhole

LEMMA WaitingSame ==
    ASSUME NEW ds, Waiting(ds), UNCHANGED hello, content' = ds
    PROVE  (Waiting(content))'
  BY DEF Waiting, ReqFull

LEMMA IInvStep == IInv /\ [Next]_vars => IInv'
  <1> SUFFICES ASSUME IInv, [Next]_vars PROVE IInv'
    OBVIOUS
  <1>1. /\ hello \in BOOLEAN /\ Numbers /\ InLine(arrived, delayed, out, gone)
        /\ Queued(arrived, delayed, content) /\ Waiting(content) /\ Played
        /\ arrived \in Nat /\ delayed \in Seq(1 .. arrived)
    BY Constants DEF IInv, Numbers, Queued
  <1>2. CASE UNCHANGED vars
    <2>1. Played' /\ (Waiting(content))'
      BY <1>1, <1>2, PlayedStays, WaitingSame DEF vars
    <2> QED
      BY <1>1, <1>2, <2>1 DEF vars, IInv, Numbers
  <1>3. CASE Drop
    <2>1. DOMAIN delayed = 1 .. Len(delayed)
      BY <1>1, LenProperties
    <2>2. /\ gone' = gone \cup {delayed[i] : i \in 1 .. Len(delayed)}
          /\ content' = <<>> /\ delayed' = <<>> /\ UNCHANGED <<hello, arrived, out, replayed>>
      BY <1>3, <2>1 DEF Drop
    <2>3. InLine(arrived, <<>>, out, gone \cup {delayed[i] : i \in 1 .. Len(delayed)})
      BY <1>1, LineForgets
    <2>4. (InLine(arrived, delayed, out, gone))'
      BY <2>2, <2>3
    <2>5. Queued(arrived, <<>>, <<>>) /\ Waiting(<<>>)
      BY <1>1, QueueEmpty
    <2>6. (Queued(arrived, delayed, content))' /\ (Waiting(content))'
      BY <2>2, <2>5, WaitingSame
    <2>7. Numbers'
      <3>1. \A i \in 1 .. Len(delayed) : delayed[i] \in 1 .. arrived
        BY <1>1, ElementOfSeq
      <3> QED
        BY <1>1, <2>2, <3>1 DEF Numbers
    <2> QED
      BY <1>1, <2>2, <2>4, <2>6, <2>7, PlayedStays DEF IInv
  <1>4. CASE Packet
    <2>1. arrived' = arrived + 1 /\ arrived' \in 0 .. MaxPackets /\ arrived + 1 \in Nat
      BY <1>1, <1>4, Constants DEF Packet, Numbers
    <2>2. /\ out \in Seq(1 .. arrived') /\ gone \subseteq 1 .. arrived'
          /\ out \o Append(delayed, arrived + 1) \in Seq(1 .. arrived')
      BY <1>1, <2>1, SeqWidens, OutGrows DEF Numbers
    <2>3. /\ InLine(arrived', <<>>, out \o Append(delayed, arrived + 1), gone)
          /\ InLine(arrived', Append(delayed, arrived + 1), out, gone)
      BY <1>1, <2>1, LineReleases, LineKeeps
    <2>4. Queued(arrived', <<>>, <<>>) /\ Waiting(<<>>)
      BY <2>1, QueueEmpty
    <2>5. CASE Cancel
      <3>1. /\ content' = <<>> /\ delayed' = <<>> /\ out' = out \o Append(delayed, arrived + 1)
            /\ UNCHANGED <<hello, gone, replayed>>
        BY <2>5 DEF Cancel
      <3>2. (InLine(arrived, delayed, out, gone))' /\ Numbers'
        BY <2>1, <2>2, <2>3, <3>1 DEF Numbers
      <3>3. (Queued(arrived, delayed, content))' /\ (Waiting(content))'
        BY <2>4, <3>1, WaitingSame
      <3> QED
        BY <1>1, <3>1, <3>2, <3>3, PlayedStays DEF IInv
    <2>6. ASSUME NEW ds, Grown(ds), Waiting(ds), Hold(ds)
          PROVE  IInv'
      <3>1. /\ content' = ds /\ delayed' = Append(delayed, arrived + 1)
            /\ UNCHANGED <<hello, out, gone, replayed>>
        BY <2>6 DEF Hold
      <3>2. (InLine(arrived, delayed, out, gone))' /\ Numbers'
        BY <2>1, <2>2, <2>3, <3>1 DEF Numbers
      <3>3. Queued(arrived + 1, Append(delayed, arrived + 1), ds)
        BY <1>1, <2>6, QueueGrows DEF Grown
      <3>4. (Queued(arrived, delayed, content))' /\ (Waiting(content))'
        BY <2>1, <2>6, <3>1, <3>3, WaitingSame
      <3> QED
        BY <1>1, <3>1, <3>2, <3>4, PlayedStays DEF IInv
    <2>7. ASSUME NEW ds \in Seq(Datagrams), Full(Chunks(ds)), ReqFull(ds), Complete(ds)
          PROVE  IInv'
      <3>1. /\ content' = <<>> /\ delayed' = <<>> /\ out' = out \o Append(delayed, arrived + 1)
            /\ replayed' = Chunks(ds) /\ UNCHANGED <<hello, gone>>
        BY <2>7 DEF Complete
      <3>2. (InLine(arrived, delayed, out, gone))' /\ Numbers'
        BY <2>1, <2>2, <2>3, <3>1 DEF Numbers
      <3>3. (Queued(arrived, delayed, content))' /\ (Waiting(content))'
        BY <2>4, <3>1, WaitingSame
      <3>4. Played'
        BY <2>7, <3>1, WholeIsPlayed
      <3> QED
        BY <1>1, <3>1, <3>2, <3>3, <3>4 DEF IInv
    <2> QED
      BY <1>4, <2>5, <2>6, <2>7, PacketCases
  <1> QED
    BY <1>2, <1>3, <1>4 DEF Next

LEMMA Invariant == Spec => []IInv
  BY IInvInit, IInvStep, PTL DEF Spec

-----------------------------------------------------------------------------
(* Theorems.                                                               *)

\* Packet numbers, chunks and datagrams are what the code takes them for:
\* nothing waits, went on or is lost that has not come.
THEOREM TypeCorrect == Spec => []TypeOK
  <1>1. IInv => TypeOK
    BY DEF IInv, Numbers, Queued, Played, Chunk, TypeOK
  <1> QED
    BY <1>1, Invariant, PTL

\* What goes through the desync functions again as a whole hello has every
\* byte of it: no bytes that never came are taken for the client's.
THEOREM ReplayIsWhole == Spec => []ReplayedIsWhole
  <1>1. IInv => ReplayedIsWhole
    BY DEF IInv, Played
  <1> QED
    BY <1>1, Invariant, PTL

\* However a client sends, it is heard before more has come than the buffer
\* takes.
THEOREM ClientIsHeard == Spec => []HeardInTheEnd
  <1>1. IInv => HeardInTheEnd
    <2> SUFFICES ASSUME IInv, NEW i \in DOMAIN delayed
                 PROVE  (arrived - delayed[i] + 1) * Size <= UDP_MAX_REASM
      BY DEF HeardInTheEnd
    <2>1. /\ arrived \in Nat /\ Queued(arrived, delayed, content)
      BY Constants DEF IInv, Numbers
    <2>2. Len(delayed) \in Nat /\ i \in 1 .. Len(delayed)
      BY <2>1, LenProperties DEF Queued
    <2>3. arrived - delayed[i] + 1 = Len(delayed) - i + 1
      BY <2>1, <2>2 DEF Queued
    <2>4. Len(delayed) * Size <= UDP_MAX_REASM
      BY <2>1 DEF Queued
    <2>5. PICK d \in Nat : d = i - 1
      BY <2>2
    <2>6. d * Size \in Nat /\ Len(delayed) * Size \in Nat
      BY <2>2, Constants
    <2>7. (Len(delayed) - i + 1) * Size = Len(delayed) * Size - d * Size
      BY <2>2, <2>5, Constants
    <2> QED
      BY <2>3, <2>4, <2>6, <2>7, Constants
  <1> QED
    BY <1>1, Invariant, PTL

\* What the client sends as a hello is one: no chunk of it is empty or goes
\* past its end.
HelloChunk == {c \in Chunk : c.len > 0 /\ End(c) <= HelloLen}
AllOfHello == \A d \in Datagrams : d.chunks \in Seq(HelloChunk)

LEMMA ChunksOfHello ==
    ASSUME AllOfHello, NEW ds \in Seq(Datagrams)
    PROVE  Chunks(ds) \in Seq(Chunk) /\ OfHello(Chunks(ds))
  <1>1. Len(ds) \in Nat /\ DOMAIN ds = 1 .. Len(ds) /\ \A i \in 1 .. Len(ds) : ds[i] \in Datagrams
    BY LenProperties, ElementOfSeq
  <1>2. \A i \in DOMAIN ds : ds[i].chunks \in Seq(HelloChunk)
    BY <1>1 DEF AllOfHello
  <1>3. [i \in DOMAIN ds |-> ds[i].chunks] \in Seq(Seq(HelloChunk))
    BY <1>1, <1>2
  <1>4. Chunks(ds) \in Seq(HelloChunk)
    BY <1>3, Flattened DEF Chunks
  <1>5. \A i \in 1 .. Len(Chunks(ds)) : Chunks(ds)[i] \in HelloChunk
    BY <1>4, ElementOfSeq
  <1> QED
    BY <1>5, ChunksAre DEF OfHello, HelloChunk

LEMMA OnceOfTile ==
    ASSUME NEW ds \in Seq(Datagrams), Tile(ds)
    PROVE  Once(Chunks(ds))
  <1> DEFINE c == Chunks(ds)
             On(k) == {i \in DOMAIN c : k >= c[i].off /\ k < End(c[i])}
  <1>1. Len(c) \in Nat /\ DOMAIN c = 1 .. Len(c)
    BY ChunksAre, ChunkSeq
  <1>2. \A k \in 0 .. HelloLen - 1 : Cardinality(On(k)) = 1
    BY DEF Tile
  <1> HIDE DEF c
  <1>3. ASSUME NEW k \in 0 .. HelloLen - 1
        PROVE  /\ Covered(c, k)
               /\ \A i, j \in 1 .. Len(c) :
                      k >= c[i].off /\ k < End(c[i]) /\ k >= c[j].off /\ k < End(c[j]) => i = j
    <2>1. IsFiniteSet(1 .. Len(c)) /\ On(k) \in SUBSET (1 .. Len(c))
      BY <1>1, FS_Interval
    <2>2. IsFiniteSet(On(k))
      BY <2>1, FS_Subset
    <2>3. PICK x : On(k) = {x}
      BY <1>2, <2>2, FS_Singleton
    <2>4. \A i \in 1 .. Len(c) : k >= c[i].off /\ k < End(c[i]) <=> i \in On(k)
      BY <1>1
    <2> HIDE DEF On
    <2>5. x \in 1 .. Len(c) /\ x \in On(k) /\ \A i \in On(k) : i = x
      BY <2>1, <2>3
    <2>6. Covered(c, k)
      BY <2>4, <2>5 DEF Covered
    <2> QED
      BY <2>4, <2>5, <2>6
  <1> QED
    BY <1>3 DEF Once, c

\* A hello that has come in all its parts, each once, does not wait, in
\* whatever order the datagrams came and the chunks are in them.
THEOREM WholeFlightIsSeen == ASSUME AllOfHello PROVE Spec => []FlightIsSeen
  <1>1. IInv => FlightIsSeen
    <2> SUFFICES ASSUME IInv, hello, Open, Tile(content) PROVE FALSE
      BY DEF FlightIsSeen
    <2> DEFINE c == Chunks(content)
    <2>1. content \in Seq(Datagrams) /\ ~ (Full(c) /\ ReqFull(content))
      BY DEF IInv, Queued, Waiting, Open
    <2>2. c \in Seq(Chunk) /\ OfHello(c) /\ Once(c)
      BY <2>1, ChunksOfHello, OnceOfTile
    <2>3. Full(c)
      BY <2>2, FullOfOnce
    <2>4. Reach(c) >= HelloLen
      <3> HIDE DEF c
      <3>1. HelloLen - 1 \in 0 .. HelloLen - 1
        BY Constants
      <3>2. PICK i \in 1 .. Len(c) : HelloLen - 1 < End(c[i])
        BY <2>2, <3>1 DEF Once, Covered
      <3>3. End(c[i]) \in Nat
        BY <2>2, ChunkSeq DEF End
      <3>4. End(c[i]) >= HelloLen
        BY <3>2, <3>3, Constants
      <3> QED
        BY <2>2, <3>4, ReachIs, Constants
    <2> QED
      BY <2>1, <2>3, <2>4 DEF ReqFull
  <1> QED
    BY <1>1, Invariant, PTL

LEMMA LineStepwise == IInv /\ [Next]_vars => [Line!LineNext]_(Line!lineVars)
  <1> SUFFICES ASSUME IInv, [Next]_vars PROVE [Line!LineNext]_(Line!lineVars)
    OBVIOUS
  <1>1. DOMAIN delayed = 1 .. Len(delayed)
    BY LenProperties DEF IInv, Queued
  <1>2. CASE UNCHANGED vars
    BY <1>2 DEF vars, Line!lineVars
  <1>3. CASE Drop
    BY <1>1, <1>3 DEF Drop, Line!LineNext, Line!Forget
  <1>4. CASE Packet
    <2>1. arrived' = arrived + 1
      BY <1>4 DEF Packet
    <2>2. CASE Cancel
      BY <2>1, <2>2 DEF Cancel, Line!LineNext, Line!Release
    <2>3. ASSUME NEW ds, Hold(ds) PROVE Line!LineNext
      BY <2>1, <2>3 DEF Hold, Line!LineNext, Line!Keep
    <2>4. ASSUME NEW ds, Complete(ds) PROVE Line!LineNext
      BY <2>1, <2>4 DEF Complete, Line!LineNext, Line!Release
    <2> QED
      BY <1>4, <2>2, <2>3, <2>4, PacketCases
  <1> QED
    BY <1>2, <1>3, <1>4 DEF Next

\* Holding Initials implements DelayLine: a packet that comes is kept behind
\* those held or lets all of them go before it.
THEOREM DelayIsLine == Spec => IsDelayLine
  <1>1. Init => Line!LineInit
    BY DEF Init, Line!LineInit
  <1> QED
    BY <1>1, Invariant, LineStepwise, PTL DEF Spec, IsDelayLine, Line!LineSpec

\* Packets of the connection go on, and wait, in the order in which they
\* came, and each of them went on, waits or went with the connection.
THEOREM OrderKeptNoneLost == Spec => [](Line!InOrder /\ Line!NoneLost)
  <1>1. IInv => Line!InOrder /\ Line!NoneLost
    BY DEF IInv, InLine, Ascending, Line!InOrder, Line!NoneLost, Line!Increasing
  <1> QED
    BY <1>1, Invariant, PTL

=============================================================================
