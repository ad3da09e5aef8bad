------------------------------- MODULE Lemmas -------------------------------
(***************************************************************************)
(* What the proofs of several components need and no component says:       *)
(* induction over the naturals with a set in place of a predicate, a       *)
(* recursive definition's equation, differences of words of any width, and *)
(* packets that wait in a line.                                             *)
(***************************************************************************)
EXTENDS Integers, Sequences, SequenceTheorems, WellFoundedInduction, TLAPS

-----------------------------------------------------------------------------
(* Induction.                                                              *)

LEMMA Least ==
    ASSUME NEW T \in SUBSET Nat, T # {}
    PROVE  \E x \in T : \A y \in T : x <= y
  <1>1. PICK x \in T : \A y \in T : ~ (<<y, x>> \in OpToRel(<, Nat))
    BY NatLessThanWellFounded, WFMin
  <1>2. ASSUME NEW y \in T PROVE x <= y
    <2>1. ~ (<<y, x>> \in OpToRel(<, Nat))
      BY <1>1
    <2>2. ~ (y < x)
      BY <2>1 DEF OpToRel
    <2> QED
      BY <2>2
  <1> QED
    BY <1>2

\* A set that holds 0 and with every number the next one holds all.
LEMMA Induction ==
    ASSUME NEW T \in SUBSET Nat, 0 \in T, \A n \in T : n + 1 \in T
    PROVE  \A n \in Nat : n \in T
  <1> SUFFICES ASSUME Nat \ T # {} PROVE FALSE
    OBVIOUS
  <1>1. PICK x \in Nat \ T : \A y \in Nat \ T : x <= y
    BY Least
  <1>2. x # 0
    OBVIOUS
  <1>3. x - 1 \in Nat /\ x - 1 \notin Nat \ T
    BY <1>1, <1>2
  <1> QED
    BY <1>1, <1>3

\* g is the recursive function with the start v and the step up to n.
Upto(V, v, step, n, g) ==
    /\ g \in [0 .. n -> V] /\ g[0] = v
    /\ \A k \in 1 .. n : g[k] = step[<<k, g[k - 1]>>]

LEMMA UptoNext ==
    ASSUME NEW V, NEW v \in V, NEW step \in [Nat \X V -> V],
           NEW m \in Nat, NEW g, Upto(V, v, step, m, g)
    PROVE  \E h : Upto(V, v, step, m + 1, h)
  <1> DEFINE h == [k \in 0 .. m + 1 |-> IF k = m + 1 THEN step[<<m + 1, g[m]>>] ELSE g[k]]
  <1>1. /\ g \in [0 .. m -> V] /\ g[0] = v
        /\ \A k \in 1 .. m : g[k] = step[<<k, g[k - 1]>>]
    BY DEF Upto
  <1>2. step[<<m + 1, g[m]>>] \in V
    BY <1>1
  <1>3. h \in [0 .. m + 1 -> V] /\ h[0] = v
    BY <1>1, <1>2
  <1>4. \A k \in 0 .. m : h[k] = g[k]
    OBVIOUS
  <1>5. h[m + 1] = step[<<m + 1, g[m]>>]
    OBVIOUS
  <1> HIDE DEF h
  <1>6. ASSUME NEW k \in 1 .. m + 1 PROVE h[k] = step[<<k, h[k - 1]>>]
    <2>1. k - 1 \in 0 .. m /\ h[k - 1] = g[k - 1]
      BY <1>4
    <2>2. CASE k = m + 1
      BY <1>5, <2>1, <2>2
    <2>3. CASE k # m + 1
      <3>1. k \in 1 .. m /\ k \in 0 .. m
        BY <2>3
      <3> QED
        BY <1>1, <1>4, <2>1, <3>1
    <2> QED
      BY <2>2, <2>3
  <1> QED
    BY <1>3, <1>6 DEF Upto

LEMMA UptoSome ==
    ASSUME NEW V, NEW v \in V, NEW step \in [Nat \X V -> V]
    PROVE  \A n \in Nat : \E g : Upto(V, v, step, n, g)
  <1> DEFINE T == {m \in Nat : \E g : Upto(V, v, step, m, g)}
  <1>1. 0 \in T
    <2>1. Upto(V, v, step, 0, [k \in 0 .. 0 |-> v])
      BY DEF Upto
    <2> QED
      BY <2>1
  <1>2. ASSUME NEW m \in T PROVE m + 1 \in T
    <2>1. PICK g : Upto(V, v, step, m, g)
      OBVIOUS
    <2>2. \E h : Upto(V, v, step, m + 1, h)
      BY <2>1, UptoNext
    <2> QED
      BY <2>2
  <1> HIDE DEF T
  <1>3. T \in SUBSET Nat
    BY DEF T
  <1>4. \A n \in Nat : n \in T
    BY <1>1, <1>2, <1>3, Induction
  <1> QED
    BY <1>4 DEF T

LEMMA UptoSame ==
    ASSUME NEW V, NEW v, NEW step, NEW n \in Nat, NEW m \in Nat, NEW g, NEW h,
           Upto(V, v, step, n, g), Upto(V, v, step, m, h), m <= n
    PROVE  g[m] = h[m]
  <1> DEFINE T == {k \in Nat : k <= n /\ k <= m => g[k] = h[k]}
  <1>1. 0 \in T
    BY DEF Upto
  <1>2. ASSUME NEW k \in T PROVE k + 1 \in T
    <2>1. CASE k + 1 <= n /\ k + 1 <= m
      <3>1. k + 1 \in 1 .. n /\ k + 1 \in 1 .. m /\ (k + 1) - 1 = k /\ g[k] = h[k]
        BY <2>1
      <3>2. g[k + 1] = step[<<k + 1, g[k]>>] /\ h[k + 1] = step[<<k + 1, h[k]>>]
        BY <3>1 DEF Upto
      <3> QED
        BY <3>1, <3>2
    <2> QED
      BY <2>1
  <1> HIDE DEF T
  <1>3. T \in SUBSET Nat
    BY DEF T
  <1>4. \A k \in Nat : k \in T
    BY <1>1, <1>2, <1>3, Induction
  <1> QED
    BY <1>4 DEF T

\* A recursive function's equation has a solution.
Steps(V, v, step) == v \in V /\ step \in [Nat \X V -> V]

Solves(V, v, step, f) ==
    /\ f \in [Nat -> V]
    /\ \A n \in Nat : f[n] = IF n = 0 THEN v ELSE step[<<n, f[n - 1]>>]

LEMMA Recursion ==
    ASSUME NEW V, NEW v, NEW step, Steps(V, v, step)
    PROVE  \E f : Solves(V, v, step, f)
  <1> v \in V /\ step \in [Nat \X V -> V]
    BY DEF Steps
  <1>1. PICK G : \A n \in Nat : Upto(V, v, step, n, G[n])
    <2>1. \A n \in Nat : \E g : Upto(V, v, step, n, g)
      BY UptoSome
    <2> DEFINE H == [n \in Nat |-> CHOOSE g : Upto(V, v, step, n, g)]
    <2>2. \A n \in Nat : Upto(V, v, step, n, H[n])
      BY <2>1
    <2> QED
      BY <2>2
  <1> DEFINE f == [n \in Nat |-> G[n][n]]
  <1>2. \A n \in Nat : f[n] = G[n][n]
    OBVIOUS
  <1>3. f \in [Nat -> V]
    <2>1. \A n \in Nat : G[n][n] \in V
      BY <1>1 DEF Upto
    <2> QED
      BY <2>1
  <1> HIDE DEF f
  <1>4. ASSUME NEW n \in Nat
        PROVE  f[n] = IF n = 0 THEN v ELSE step[<<n, f[n - 1]>>]
    <2>1. CASE n = 0
      BY <1>1, <1>2, <2>1 DEF Upto
    <2>2. CASE n # 0
      <3>1. PICK m \in Nat : m = n - 1
        BY <2>2
      <3>2. PICK g : g = G[n] /\ Upto(V, v, step, n, g)
        BY <1>1
      <3>3. PICK h : h = G[m] /\ Upto(V, v, step, m, h)
        BY <1>1
      <3>4. m <= n /\ n \in 1 .. n
        BY <2>2, <3>1
      <3>5. g[m] = h[m]
        BY <3>2, <3>3, <3>4, UptoSame
      <3>6. g[n] = step[<<n, g[m]>>]
        BY <3>1, <3>2, <3>4 DEF Upto
      <3> QED
        BY <1>2, <2>2, <3>1, <3>2, <3>3, <3>5, <3>6
    <2> QED
      BY <2>1, <2>2
  <1> QED
    BY <1>3, <1>4 DEF Solves

\* The same for a function on the numbers up to N, such as one over the
\* elements of a sequence.
SolvesTo(N, V, v, step, f) ==
    /\ f \in [0 .. N -> V]
    /\ \A n \in 0 .. N : f[n] = IF n = 0 THEN v ELSE step[<<n, f[n - 1]>>]

LEMMA RecursionTo ==
    ASSUME NEW N \in Nat, NEW V, NEW v, NEW step, Steps(V, v, step)
    PROVE  \E f : SolvesTo(N, V, v, step, f)
  <1>1. PICK f : Solves(V, v, step, f)
    BY Recursion
  <1> DEFINE g == [n \in 0 .. N |-> f[n]]
  <1>2. \A n \in 0 .. N : n \in Nat /\ g[n] = f[n] /\ (n # 0 => n - 1 \in 0 .. N)
    OBVIOUS
  <1>3. g \in [0 .. N -> V]
    BY <1>1, <1>2 DEF Solves
  <1> HIDE DEF g
  <1>4. ASSUME NEW n \in 0 .. N PROVE g[n] = IF n = 0 THEN v ELSE step[<<n, g[n - 1]>>]
    BY <1>1, <1>2 DEF Solves
  <1> QED
    BY <1>3, <1>4 DEF SolvesTo

-----------------------------------------------------------------------------
(* Words: what a difference taken modulo the size M of the word says about *)
(* offsets in the stream.  SMT knows % by constants only.                   *)

LEMMA Division ==
    ASSUME NEW M \in Nat, M > 1, NEW x \in Int
    PROVE  /\ x % M \in 0 .. M - 1
           /\ x \div M \in Int
           /\ x = M * (x \div M) + (x % M)
  OBVIOUS

\* Quotient and remainder are unique.
LEMMA RemainderUnique ==
    ASSUME NEW M \in Nat, M > 1, NEW q \in Int, NEW p \in Int,
           NEW r \in 0 .. M - 1, NEW s \in 0 .. M - 1,
           M * q + r = M * p + s
    PROVE  r = s
  <1>a. M \in Nat /\ M > 1
    OBVIOUS
  <1>1. CASE q >= p + 1
    <2>1. q - p - 1 \in Nat
      BY <1>1
    <2>2. M * (q - p - 1) >= 0
      BY <2>1, <1>a
    <2>3. M * (q - p - 1) = M * q - M * p - M
      BY <1>a
    <2> QED
      BY <2>2, <2>3, <1>a
  <1>2. CASE p >= q + 1
    <2>1. p - q - 1 \in Nat
      BY <1>2
    <2>2. M * (p - q - 1) >= 0
      BY <2>1, <1>a
    <2>3. M * (p - q - 1) = M * p - M * q - M
      BY <1>a
    <2> QED
      BY <2>2, <2>3, <1>a
  <1>3. CASE p = q
    BY <1>3, <1>a
  <1> QED
    BY <1>1, <1>2, <1>3

\* A number known up to a multiple of M.
LEMMA RemainderOf ==
    ASSUME NEW M \in Nat, M > 1, NEW x \in Int, NEW q \in Int, NEW r \in 0 .. M - 1, x = M * q + r
    PROVE  x % M = r
  BY Division, RemainderUnique

\* Reducing the operands first changes no sum and no difference.
LEMMA ModOfDiff ==
    ASSUME NEW M \in Nat, M > 1, NEW x \in Int, NEW y \in Int
    PROVE  ((x % M) - (y % M)) % M = (x - y) % M
  <1> DEFINE qx == x \div M  rx == x % M
             qy == y \div M  ry == y % M
             q == (rx - ry) \div M  r == (rx - ry) % M
  <1>1. M \in Nat
    OBVIOUS
  <1>2. qx \in Int /\ rx \in Int /\ x = M * qx + rx
    BY Division
  <1>3. qy \in Int /\ ry \in Int /\ y = M * qy + ry
    BY Division
  <1>4. q \in Int /\ r \in 0 .. M - 1 /\ rx - ry = M * q + r
    BY <1>2, <1>3, Division
  <1>5. r = ((x % M) - (y % M)) % M
    OBVIOUS
  <1> HIDE DEF qx, rx, qy, ry, q, r
  <1>6. M * (qx - qy + q) = M * qx - M * qy + M * q
    BY <1>1, <1>2, <1>3, <1>4
  <1>7. x - y = M * (qx - qy + q) + r
    BY <1>1, <1>2, <1>3, <1>4, <1>6
  <1>8. (x - y) % M = r
    BY <1>2, <1>3, <1>4, <1>7, RemainderOf
  <1> QED
    BY <1>5, <1>8

LEMMA ModOfSum ==
    ASSUME NEW M \in Nat, M > 1, NEW x \in Int, NEW n \in Int
    PROVE  ((x % M) + n) % M = (x + n) % M
  <1> DEFINE qx == x \div M  rx == x % M
             q == (rx + n) \div M  r == (rx + n) % M
  <1>1. M \in Nat
    OBVIOUS
  <1>2. qx \in Int /\ rx \in Int /\ x = M * qx + rx
    BY Division
  <1>3. q \in Int /\ r \in 0 .. M - 1 /\ rx + n = M * q + r
    BY <1>2, Division
  <1>4. r = ((x % M) + n) % M
    OBVIOUS
  <1> HIDE DEF qx, rx, q, r
  <1>5. M * (qx + q) = M * qx + M * q
    BY <1>1, <1>2, <1>3
  <1>6. x + n = M * (qx + q) + r
    BY <1>1, <1>2, <1>3, <1>5
  <1>7. qx + q \in Int /\ x + n \in Int
    BY <1>2, <1>3
  <1>8. (x + n) % M = r
    BY <1>3, <1>6, <1>7, RemainderOf
  <1> QED
    BY <1>4, <1>8

\* Less than one turn forward, or back.
LEMMA SmallMod ==
    ASSUME NEW M \in Nat, M > 1, NEW d \in Int
    PROVE  /\ 0 <= d /\ d < M => d % M = d
           /\ d < 0 /\ -M <= d => d % M = d + M
  <1>1. M \in Nat /\ M > 1
    OBVIOUS
  <1>2. ASSUME 0 <= d, d < M PROVE d % M = d
    <2>1. d = M * 0 + d /\ d \in 0 .. M - 1
      BY <1>1, <1>2
    <2> QED
      BY <2>1, RemainderOf
  <1>3. ASSUME d < 0, -M <= d PROVE d % M = d + M
    <2>1. d = M * (-1) + (d + M) /\ d + M \in 0 .. M - 1
      BY <1>1, <1>3
    <2> QED
      BY <2>1, RemainderOf
  <1> QED
    BY <1>2, <1>3

-----------------------------------------------------------------------------
(* Packets in a line.                                                      *)

Ascending(s) == \A i, j \in 1 .. Len(s) : i < j => s[i] < s[j]

\* What is known of two sequences put one after the other.
LEMMA Joined ==
    ASSUME NEW s \in Seq(Nat), NEW t \in Seq(Nat)
    PROVE  /\ s \o t \in Seq(Nat)
           /\ Len(s \o t) = Len(s) + Len(t)
           /\ Len(s) \in Nat /\ Len(t) \in Nat
           /\ \A i \in 1 .. Len(s) : (s \o t)[i] = s[i]
           /\ \A i \in 1 .. Len(t) : (s \o t)[Len(s) + i] = t[i]
           /\ \A i \in 1 .. Len(s \o t) :
                 (s \o t)[i] = IF i <= Len(s) THEN s[i] ELSE t[i - Len(s)]
  <1>1. Len(s) \in Nat /\ Len(t) \in Nat
    BY LenProperties
  <1>2. /\ s \o t \in Seq(Nat)
        /\ Len(s \o t) = Len(s) + Len(t)
        /\ \A i \in 1 .. Len(s) + Len(t) :
              (s \o t)[i] = IF i <= Len(s) THEN s[i] ELSE t[i - Len(s)]
    BY ConcatProperties
  <1> QED
    BY <1>1, <1>2

\* Two ordered sequences, all of the first before all of the second.
LEMMA JoinedInOrder ==
    ASSUME NEW s \in Seq(Nat), NEW t \in Seq(Nat), Ascending(s), Ascending(t),
           \A i \in 1 .. Len(s), j \in 1 .. Len(t) : s[i] < t[j]
    PROVE  Ascending(s \o t)
  <1> DEFINE u == s \o t
  <1>1. /\ Len(u) = Len(s) + Len(t) /\ Len(s) \in Nat /\ Len(t) \in Nat
        /\ \A i \in 1 .. Len(u) : u[i] = IF i <= Len(s) THEN s[i] ELSE t[i - Len(s)]
    BY Joined
  <1> SUFFICES ASSUME NEW i \in 1 .. Len(u), NEW j \in 1 .. Len(u), i < j
               PROVE  u[i] < u[j]
    BY DEF Ascending
  <1> HIDE DEF u
  <1>2. CASE j <= Len(s)
    BY <1>1, <1>2 DEF Ascending
  <1>3. CASE i <= Len(s) /\ ~ (j <= Len(s))
    <2>1. j - Len(s) \in 1 .. Len(t) /\ i \in 1 .. Len(s)
      BY <1>1, <1>3
    <2> QED
      BY <1>1, <1>3, <2>1
  <1>4. CASE ~ (i <= Len(s))
    <2>1. i - Len(s) \in 1 .. Len(t) /\ j - Len(s) \in 1 .. Len(t) /\ i - Len(s) < j - Len(s)
      BY <1>1, <1>4
    <2>2. u[i] = t[i - Len(s)] /\ u[j] = t[j - Len(s)]
      BY <1>1, <1>4
    <2> QED
      BY <2>1, <2>2 DEF Ascending
  <1> QED
    BY <1>1, <1>2, <1>3, <1>4

\* A bound of both parts bounds the whole.
LEMMA JoinedBounded ==
    ASSUME NEW s \in Seq(Nat), NEW t \in Seq(Nat), NEW n \in Nat,
           \A i \in 1 .. Len(s) : s[i] <= n, \A i \in 1 .. Len(t) : t[i] <= n
    PROVE  \A i \in 1 .. Len(s \o t) : (s \o t)[i] <= n
  <1> DEFINE u == s \o t
  <1>1. /\ Len(u) = Len(s) + Len(t) /\ Len(s) \in Nat /\ Len(t) \in Nat
        /\ \A i \in 1 .. Len(u) : u[i] = IF i <= Len(s) THEN s[i] ELSE t[i - Len(s)]
    BY Joined
  <1> HIDE DEF u
  <1> SUFFICES ASSUME NEW i \in 1 .. Len(u) PROVE u[i] <= n
    BY DEF u
  <1>2. CASE i <= Len(s)
    BY <1>1, <1>2
  <1>3. CASE ~ (i <= Len(s))
    BY <1>1, <1>3
  <1> QED
    BY <1>2, <1>3

\* Nothing disappears when two sequences are put together.
LEMMA JoinedKeeps ==
    ASSUME NEW s \in Seq(Nat), NEW t \in Seq(Nat)
    PROVE  /\ \A i \in 1 .. Len(s) : \E k \in 1 .. Len(s \o t) : (s \o t)[k] = s[i]
           /\ \A i \in 1 .. Len(t) : \E k \in 1 .. Len(s \o t) : (s \o t)[k] = t[i]
  <1>1. /\ Len(s \o t) = Len(s) + Len(t) /\ Len(s) \in Nat /\ Len(t) \in Nat
        /\ \A i \in 1 .. Len(s) : (s \o t)[i] = s[i]
        /\ \A i \in 1 .. Len(t) : (s \o t)[Len(s) + i] = t[i]
    BY Joined
  <1>2. \A i \in 1 .. Len(s) : i \in 1 .. Len(s \o t)
    BY <1>1
  <1>3. \A i \in 1 .. Len(t) : Len(s) + i \in 1 .. Len(s \o t)
    BY <1>1
  <1> QED
    BY <1>1, <1>2, <1>3

\* n packets have come; those of h wait, those of l went on, both in order and
\* the waiting ones after the others; those of f were forgotten; no other is.
InLine(n, h, l, f) ==
    /\ n \in Nat /\ h \in Seq(Nat) /\ l \in Seq(Nat)
    /\ \A i \in 1 .. Len(h) : h[i] <= n
    /\ \A i \in 1 .. Len(l) : l[i] <= n
    /\ Ascending(l) /\ Ascending(h)
    /\ \A i \in 1 .. Len(l), j \in 1 .. Len(h) : l[i] < h[j]
    /\ \A k \in 1 .. n : \/ \E i \in 1 .. Len(l) : l[i] = k
                         \/ \E i \in 1 .. Len(h) : h[i] = k
                         \/ k \in f

LEMMA LineEmpty == InLine(0, <<>>, <<>>, {})
  BY DEF InLine, Ascending

\* What the next packet makes of those that wait.
LEMMA LineNextBehind ==
    ASSUME NEW n, NEW h, NEW l, NEW f, InLine(n, h, l, f)
    PROVE  LET g == Append(h, n + 1) IN
           /\ n + 1 \in Nat /\ g \in Seq(Nat) /\ Ascending(g)
           /\ \A i \in 1 .. Len(g) : g[i] <= n + 1
           /\ \A i \in 1 .. Len(l), j \in 1 .. Len(g) : l[i] < g[j]
           /\ \A k : (\E i \in 1 .. Len(h) : h[i] = k) \/ k = n + 1
                       => \E i \in 1 .. Len(g) : g[i] = k
  <1> DEFINE g == Append(h, n + 1)
  <1>1. n \in Nat /\ n + 1 \in Nat /\ h \in Seq(Nat) /\ Len(h) \in Nat
    BY LenProperties DEF InLine
  <1>2. /\ g \in Seq(Nat) /\ Len(g) = Len(h) + 1
        /\ \A i \in 1 .. Len(h) : g[i] = h[i]
        /\ g[Len(h) + 1] = n + 1
    BY <1>1, AppendProperties
  <1>3. /\ \A i \in 1 .. Len(h) : h[i] \in Nat /\ h[i] <= n
        /\ \A i \in 1 .. Len(l) : l[i] \in Nat /\ l[i] <= n
    BY ElementOfSeq DEF InLine
  <1> HIDE DEF g
  <1>4. \A i \in 1 .. Len(g) : \/ i \in 1 .. Len(h) /\ g[i] = h[i] /\ g[i] \in Nat /\ g[i] <= n
                               \/ i = Len(h) + 1 /\ g[i] = n + 1
    <2> SUFFICES ASSUME NEW i \in 1 .. Len(g), i # Len(h) + 1
                 PROVE  i \in 1 .. Len(h) /\ g[i] = h[i] /\ g[i] \in Nat /\ g[i] <= n
      BY <1>2
    <2>1. i \in 1 .. Len(h)
      BY <1>1, <1>2
    <2> QED
      BY <2>1, <1>2, <1>3
  <1>5. Ascending(g)
    <2> SUFFICES ASSUME NEW i \in 1 .. Len(g), NEW j \in 1 .. Len(g), i < j
                 PROVE  g[i] < g[j]
      BY DEF Ascending
    <2>1. i \in 1 .. Len(h)
      BY <1>1, <1>2
    <2>2. CASE j \in 1 .. Len(h)
      BY <1>2, <2>1, <2>2 DEF InLine, Ascending
    <2>3. CASE j = Len(h) + 1
      <3>1. g[i] \in Nat /\ g[i] <= n
        BY <1>2, <1>3, <2>1
      <3> QED
        BY <1>1, <1>2, <2>3, <3>1
    <2> QED
      BY <1>4, <2>2, <2>3
  <1>6. \A i \in 1 .. Len(g) : g[i] <= n + 1
    BY <1>1, <1>4
  <1>7. \A i \in 1 .. Len(l), j \in 1 .. Len(g) : l[i] < g[j]
    <2> SUFFICES ASSUME NEW i \in 1 .. Len(l), NEW j \in 1 .. Len(g)
                 PROVE  l[i] < g[j]
      OBVIOUS
    <2>1. l[i] \in Nat /\ l[i] <= n
      BY <1>3
    <2>2. CASE j \in 1 .. Len(h) /\ g[j] = h[j]
      BY <2>2 DEF InLine
    <2>3. CASE g[j] = n + 1
      BY <1>1, <2>1, <2>3
    <2> QED
      BY <1>4, <2>2, <2>3
  <1>8. \A k : (\E i \in 1 .. Len(h) : h[i] = k) \/ k = n + 1
                 => \E i \in 1 .. Len(g) : g[i] = k
    BY <1>1, <1>2
  <1> QED
    BY <1>1, <1>2, <1>5, <1>6, <1>7, <1>8 DEF g

LEMMA LineKeeps ==
    ASSUME NEW n, NEW h, NEW l, NEW f, InLine(n, h, l, f)
    PROVE  InLine(n + 1, Append(h, n + 1), l, f)
  <1> DEFINE g == Append(h, n + 1)
  <1>1. /\ n + 1 \in Nat /\ g \in Seq(Nat) /\ Ascending(g)
        /\ \A i \in 1 .. Len(g) : g[i] <= n + 1
        /\ \A i \in 1 .. Len(l), j \in 1 .. Len(g) : l[i] < g[j]
        /\ \A k : (\E i \in 1 .. Len(h) : h[i] = k) \/ k = n + 1
                    => \E i \in 1 .. Len(g) : g[i] = k
    BY LineNextBehind
  <1> HIDE DEF g
  <1>2. n \in Nat /\ l \in Seq(Nat) /\ \A i \in 1 .. Len(l) : l[i] \in Nat /\ l[i] <= n
    BY ElementOfSeq DEF InLine
  <1>3. \A k \in 1 .. n + 1 : \/ \E i \in 1 .. Len(l) : l[i] = k
                              \/ (\E i \in 1 .. Len(h) : h[i] = k) \/ k = n + 1
                              \/ k \in f
    BY <1>2 DEF InLine
  <1>4. \A k \in 1 .. n + 1 : \/ \E i \in 1 .. Len(l) : l[i] = k
                              \/ \E i \in 1 .. Len(g) : g[i] = k
                              \/ k \in f
    BY <1>1, <1>3
  <1>5. \A i \in 1 .. Len(l) : l[i] <= n + 1
    BY <1>2
  <1>6. InLine(n + 1, g, l, f)
    BY <1>1, <1>2, <1>4, <1>5 DEF InLine
  <1> QED
    BY <1>6 DEF g

LEMMA LineReleases ==
    ASSUME NEW n, NEW h, NEW l, NEW f, InLine(n, h, l, f)
    PROVE  InLine(n + 1, <<>>, l \o Append(h, n + 1), f)
  <1> DEFINE g == Append(h, n + 1)
             m == l \o g
  <1>1. /\ n + 1 \in Nat /\ g \in Seq(Nat) /\ Ascending(g)
        /\ \A i \in 1 .. Len(g) : g[i] <= n + 1
        /\ \A i \in 1 .. Len(l), j \in 1 .. Len(g) : l[i] < g[j]
        /\ \A k : (\E i \in 1 .. Len(h) : h[i] = k) \/ k = n + 1
                    => \E i \in 1 .. Len(g) : g[i] = k
    BY LineNextBehind
  <1> HIDE DEF g
  <1>2. /\ n \in Nat /\ l \in Seq(Nat) /\ Ascending(l)
        /\ \A i \in 1 .. Len(l) : l[i] \in Nat /\ l[i] <= n
    BY ElementOfSeq DEF InLine
  <1>3. m \in Seq(Nat) /\ Ascending(m)
    BY <1>1, <1>2, Joined, JoinedInOrder
  <1>4. \A i \in 1 .. Len(l) : l[i] <= n + 1
    BY <1>2
  <1>5. \A i \in 1 .. Len(m) : m[i] <= n + 1
    BY <1>1, <1>2, <1>4, JoinedBounded
  <1>6. \A k \in 1 .. n + 1 : \/ \E i \in 1 .. Len(l) : l[i] = k
                              \/ (\E i \in 1 .. Len(h) : h[i] = k) \/ k = n + 1
                              \/ k \in f
    BY <1>2 DEF InLine
  <1>7. /\ \A i \in 1 .. Len(l) : \E k \in 1 .. Len(m) : m[k] = l[i]
        /\ \A i \in 1 .. Len(g) : \E k \in 1 .. Len(m) : m[k] = g[i]
    BY <1>1, <1>2, JoinedKeeps
  <1> HIDE DEF m
  <1>8. \A k \in 1 .. n + 1 : (\E i \in 1 .. Len(m) : m[i] = k) \/ k \in f
    BY <1>1, <1>6, <1>7
  <1>9. InLine(n + 1, <<>>, m, f)
    <2>1. <<>> \in Seq(Nat) /\ Len(<<>>) = 0
      OBVIOUS
    <2> QED
      BY <1>1, <1>3, <1>5, <1>8, <2>1 DEF InLine, Ascending
  <1> QED
    BY <1>9 DEF m, g

LEMMA LineRenews ==
    ASSUME NEW n, NEW h, NEW l, NEW f, InLine(n, h, l, f)
    PROVE  InLine(n + 1, <<n + 1>>, l \o h, f)
  <1> DEFINE m == l \o h
             g == <<n + 1>>
  <1>1. /\ n \in Nat /\ l \in Seq(Nat) /\ h \in Seq(Nat)
        /\ Ascending(l) /\ Ascending(h)
        /\ \A i \in 1 .. Len(l), j \in 1 .. Len(h) : l[i] < h[j]
        /\ \A i \in 1 .. Len(l) : l[i] \in Nat /\ l[i] <= n
        /\ \A i \in 1 .. Len(h) : h[i] \in Nat /\ h[i] <= n
    BY ElementOfSeq DEF InLine
  <1>2. n + 1 \in Nat /\ g \in Seq(Nat) /\ Len(g) = 1 /\ g[1] = n + 1
    BY <1>1
  <1>3. m \in Seq(Nat) /\ Ascending(m)
    BY <1>1, Joined, JoinedInOrder
  <1>4. \A i \in 1 .. Len(m) : m[i] <= n
    BY <1>1, JoinedBounded
  <1>5. \A i \in 1 .. Len(m) : m[i] \in Nat
    BY <1>3, ElementOfSeq
  <1>6. /\ \A i \in 1 .. Len(l) : \E k \in 1 .. Len(m) : m[k] = l[i]
        /\ \A i \in 1 .. Len(h) : \E k \in 1 .. Len(m) : m[k] = h[i]
    BY <1>1, JoinedKeeps
  <1> HIDE DEF m, g
  <1>7. \A k \in 1 .. n : (\E i \in 1 .. Len(m) : m[i] = k) \/ k \in f
    BY <1>6 DEF InLine
  <1>8. \A k \in 1 .. n + 1 : \/ \E i \in 1 .. Len(m) : m[i] = k
                              \/ \E i \in 1 .. Len(g) : g[i] = k
                              \/ k \in f
    <2>1. \A k \in 1 .. n + 1 : k \in 1 .. n \/ k = n + 1
      BY <1>1
    <2>2. \E i \in 1 .. Len(g) : g[i] = n + 1
      BY <1>2
    <2> QED
      BY <1>7, <2>1, <2>2
  <1>9. \A i \in 1 .. Len(m), j \in 1 .. Len(g) : m[i] < g[j]
    BY <1>1, <1>2, <1>4, <1>5
  <1>10. /\ \A i \in 1 .. Len(m) : m[i] <= n + 1
         /\ \A i \in 1 .. Len(g) : g[i] <= n + 1
         /\ Ascending(g)
    BY <1>1, <1>2, <1>4, <1>5 DEF Ascending
  <1>11. InLine(n + 1, g, m, f)
    BY <1>2, <1>3, <1>8, <1>9, <1>10 DEF InLine
  <1> QED
    BY <1>11 DEF m, g

LEMMA LineForgets ==
    ASSUME NEW n, NEW h, NEW l, NEW f, InLine(n, h, l, f)
    PROVE  InLine(n, <<>>, l, f \cup {h[i] : i \in 1 .. Len(h)})
  <1>1. <<>> \in Seq(Nat) /\ Len(<<>>) = 0 /\ Ascending(<<>>)
    BY DEF Ascending
  <1>2. \A k \in 1 .. n : (\E i \in 1 .. Len(l) : l[i] = k) \/ k \in f \cup {h[i] : i \in 1 .. Len(h)}
    BY DEF InLine
  <1> QED
    BY <1>1, <1>2 DEF InLine
=============================================================================
