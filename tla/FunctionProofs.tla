--------------------------- MODULE FunctionProofs ---------------------------
(***************************************************************************)
(* The functions that scripts count with, for words, bytes and sums of any  *)
(* size; the address lists, for any number of lists and lines; and the      *)
(* command line, for any number of options.  A word is followed bit by bit: *)
(* what a mask, a shift or an operator does is said of one place of it, by  *)
(* quotients of powers of two.                                              *)
(***************************************************************************)
EXTENDS MCFunctions, Lemmas

-----------------------------------------------------------------------------
(* Quotients and remainders.                                               *)

LEMMA Quotient ==
    ASSUME NEW M \in Nat, M >= 1, NEW x \in Int
    PROVE  /\ x % M \in 0 .. M - 1
           /\ x \div M \in Int
           /\ x = M * (x \div M) + (x % M)
  OBVIOUS

LEMMA Product ==
    ASSUME NEW a \in Nat, NEW b \in Nat
    PROVE  a * b \in Nat /\ (a >= 1 /\ b >= 1 => a * b >= 1 /\ a * b >= a /\ a * b >= b)
  <1>1. a * b \in Nat
    OBVIOUS
  <1>2. ASSUME a >= 1, b >= 1 PROVE a * b >= 1 /\ a * b >= a /\ a * b >= b
    <2>1. PICK c \in Nat, d \in Nat : a = c + 1 /\ b = d + 1
      <3>1. a - 1 \in Nat /\ b - 1 \in Nat /\ a = (a - 1) + 1 /\ b = (b - 1) + 1
        BY <1>2
      <3> QED
        BY <3>1
    <2>2. a * b = c * d + c + d + 1 /\ c * d >= 0
      BY <2>1
    <2> QED
      BY <2>1, <2>2
  <1> QED
    BY <1>1, <1>2

LEMMA QuotientUnique ==
    ASSUME NEW M \in Nat, M >= 1, NEW x \in Int, NEW q \in Int, NEW r \in Int,
           0 <= r, r < M, x = M * q + r
    PROVE  x \div M = q /\ x % M = r
  <1>1. PICK p \in Int, s \in Int : p = x \div M /\ s = x % M /\ 0 <= s /\ s < M /\ x = M * p + s
    BY Quotient
  <1>2. CASE p >= q + 1
    <2>1. PICK d \in Nat : p = q + 1 + d
      <3>1. p - q - 1 \in Nat /\ p = q + 1 + (p - q - 1)
        BY <1>2
      <3> QED
        BY <3>1
    <2>2. M * p = M * q + M + M * d /\ M * d >= 0
      BY <2>1
    <2> QED
      BY <1>1, <2>2
  <1>3. CASE q >= p + 1
    <2>1. PICK d \in Nat : q = p + 1 + d
      <3>1. q - p - 1 \in Nat /\ q = p + 1 + (q - p - 1)
        BY <1>3
      <3> QED
        BY <3>1
    <2>2. M * q = M * p + M + M * d /\ M * d >= 0
      BY <2>1
    <2> QED
      BY <1>1, <2>2
  <1>4. CASE p = q
    BY <1>1, <1>4
  <1> QED
    BY <1>2, <1>3, <1>4

\* A quotient by a product: two quotients, one after the other.
LEMMA ByProduct ==
    ASSUME NEW a \in Nat, a >= 1, NEW b \in Nat, b >= 1, NEW x \in Int
    PROVE  /\ (x \div a) \div b = x \div (a * b)
           /\ (x % (a * b)) \div a = (x \div a) % b
           /\ (x % (a * b)) % a = x % a
           /\ x % (a * b) = a * ((x \div a) % b) + (x % a)
  <1>1. PICK q \in Int, r \in Int : q = x \div a /\ r = x % a /\ 0 <= r /\ r < a /\ x = a * q + r
    BY Quotient
  <1>2. PICK p \in Int, s \in Nat : p = q \div b /\ s = q % b /\ 0 <= s /\ s < b /\ q = b * p + s
    BY Quotient
  <1>3. a * b \in Nat /\ a * b >= 1
    BY Product
  <1>4. a * q = (a * b) * p + a * s
    <2>1. a * q = a * (b * p) + a * s
      BY <1>2
    <2>2. a * (b * p) = (a * b) * p
      OBVIOUS
    <2> QED
      BY <2>1, <2>2
  <1>5. a * s \in Int /\ 0 <= a * s /\ a * s + a <= a * b
    <2>1. PICK d \in Nat : b = s + 1 + d
      <3>1. b - s - 1 \in Nat /\ b = s + 1 + (b - s - 1)
        BY <1>2
      <3> QED
        BY <3>1
    <2>2. a * (s + 1 + d) = a * s + a + a * d
      BY <1>2, <2>1
    <2>3. a * d \in Nat /\ a * s \in Nat
      BY Product
    <2> QED
      BY <2>1, <2>2, <2>3
  <1>6. x = (a * b) * p + (a * s + r) /\ 0 <= a * s + r /\ a * s + r < a * b
    BY <1>1, <1>4, <1>5
  <1>7. x \div (a * b) = p /\ x % (a * b) = a * s + r
    <2>1. PICK m \in Nat : m = a * b /\ m >= 1
      BY <1>3
    <2>2. a * s + r \in Int
      BY <1>1, <1>5
    <2> QED
      BY <1>6, <2>1, <2>2, QuotientUnique
  <1>8. (a * s + r) \div a = s /\ (a * s + r) % a = r
    <2>1. PICK y \in Int : y = a * s + r /\ 0 <= r /\ r < a
      BY <1>1, <1>5
    <2>2. y \div a = s /\ y % a = r
      BY <2>1, QuotientUnique
    <2> QED
      BY <2>1, <2>2
  <1> QED
    BY <1>1, <1>2, <1>7, <1>8

\* The same, one by one.
LEMMA InTurn ==
    ASSUME NEW a \in Nat, a >= 1, NEW b \in Nat, b >= 1, NEW x \in Int
    PROVE  (x \div a) \div b = x \div (a * b)
  BY ByProduct

LEMMA HighOfLow ==
    ASSUME NEW a \in Nat, a >= 1, NEW b \in Nat, b >= 1, NEW x \in Int
    PROVE  (x % (a * b)) \div a = (x \div a) % b
  BY ByProduct

LEMMA LowOfLow ==
    ASSUME NEW a \in Nat, a >= 1, NEW b \in Nat, b >= 1, NEW x \in Int
    PROVE  (x % (a * b)) % a = x % a
  BY ByProduct

LEMMA HighAndLow ==
    ASSUME NEW a \in Nat, a >= 1, NEW b \in Nat, b >= 1, NEW x \in Int
    PROVE  x % (a * b) = a * ((x \div a) % b) + (x % a)
  BY ByProduct

\* What is added in whole turns does not count.
LEMMA WholeTurns ==
    ASSUME NEW M \in Nat, M >= 1, NEW x \in Int, NEW k \in Int
    PROVE  (M * k + x) \div M = k + (x \div M) /\ (M * k + x) % M = x % M
  <1>1. PICK q \in Int, r \in Int : q = x \div M /\ r = x % M /\ 0 <= r /\ r < M /\ x = M * q + r
    BY Quotient
  <1>2. M * (k + q) = M * k + M * q
    BY <1>1
  <1>3. M * k + x = M * (k + q) + r /\ k + q \in Int /\ M * k + x \in Int
    BY <1>1, <1>2
  <1>4. (M * k + x) \div M = k + q /\ (M * k + x) % M = r
    <2>1. PICK y \in Int : y = M * k + x
      BY <1>3
    <2>2. PICK t \in Int : t = k + q
      BY <1>3
    <2>3. y = M * t + r
      BY <1>3, <2>1, <2>2
    <2>4. y \div M = t /\ y % M = r
      BY <1>1, <2>3, QuotientUnique
    <2> QED
      BY <2>1, <2>2, <2>4
  <1> QED
    BY <1>1, <1>4

-----------------------------------------------------------------------------
(* Powers of two.                                                          *)

LEMMA TwoEquation ==
    /\ Two[0] = 1
    /\ \A n \in Nat : Two[n] \in Nat /\ Two[n] >= 1 /\ Two[n + 1] = 2 * Two[n]
  <1> DEFINE Equation(f) == f = [n \in Nat |-> IF n = 0 THEN 1 ELSE 2 * f[n - 1]]
             step == [x \in Nat \X Nat |-> 2 * x[2]]
  <1>1. step \in [Nat \X Nat -> Nat] /\ \A n \in Nat, x \in Nat : step[<<n, x>>] = 2 * x
    OBVIOUS
  <1> HIDE DEF step
  <1>2. PICK e : Solves(Nat, 1, step, e)
    BY <1>1, Recursion DEF Steps
  <1>3. e \in [Nat -> Nat] /\ \A n \in Nat : e[n] = IF n = 0 THEN 1 ELSE 2 * e[n - 1]
    <2>1. e \in [Nat -> Nat] /\ \A n \in Nat : e[n] = IF n = 0 THEN 1 ELSE step[<<n, e[n - 1]>>]
      BY <1>2 DEF Solves
    <2>2. ASSUME NEW n \in Nat, n # 0 PROVE step[<<n, e[n - 1]>>] = 2 * e[n - 1]
      <3>1. n - 1 \in Nat
        BY <2>2
      <3>2. e[n - 1] \in Nat
        BY <2>1, <3>1
      <3> QED
        BY <1>1, <3>2
    <2> QED
      BY <2>1, <2>2
  <1>4. Equation(e)
    BY <1>3
  <1>5. Equation(Two)
    BY <1>4 DEF Two
  <1> HIDE DEF Equation
  <1>6. \A n \in Nat : Two[n] = IF n = 0 THEN 1 ELSE 2 * Two[n - 1]
    BY <1>5 DEF Equation
  <1>7. Two[0] = 1 /\ \A n \in Nat : Two[n + 1] = 2 * Two[n]
    <2>1. Two[0] = 1
      BY <1>6
    <2>2. ASSUME NEW n \in Nat PROVE Two[n + 1] = 2 * Two[n]
      <3>1. n + 1 \in Nat /\ n + 1 # 0 /\ (n + 1) - 1 = n
        OBVIOUS
      <3> QED
        BY <1>6, <3>1
    <2> QED
      BY <2>1, <2>2
  <1> DEFINE T == {n \in Nat : Two[n] \in Nat /\ Two[n] >= 1}
  <1>8. 0 \in T
    BY <1>7
  <1>9. \A n \in T : n + 1 \in T
    BY <1>7
  <1> HIDE DEF T
  <1>10. T \in SUBSET Nat
    BY DEF T
  <1>11. \A n \in Nat : n \in T
    BY <1>8, <1>9, <1>10, Induction
  <1> QED
    BY <1>7, <1>11 DEF T

LEMMA TwoSum ==
    ASSUME NEW a \in Nat, NEW b \in Nat
    PROVE  Two[a + b] = Two[a] * Two[b]
  <1> DEFINE T == {n \in Nat : Two[a + n] = Two[a] * Two[n]}
  <1>1. 0 \in T
    BY TwoEquation
  <1>2. ASSUME NEW n \in T PROVE n + 1 \in T
    <2>1. PICK c \in Nat, p \in Nat, q \in Nat : c = a + n /\ p = Two[a] /\ q = Two[n] /\ Two[c] = p * q
      <3>1. n \in Nat /\ a + n \in Nat /\ Two[a + n] = Two[a] * Two[n]
        OBVIOUS
      <3>2. Two[a] \in Nat /\ Two[n] \in Nat
        BY <3>1, TwoEquation
      <3> QED
        BY <3>1, <3>2
    <2>2. Two[n + 1] = 2 * q /\ Two[c + 1] = 2 * (p * q) /\ a + (n + 1) = c + 1
      BY TwoEquation, <2>1
    <2>3. p * (2 * q) = 2 * (p * q)
      OBVIOUS
    <2> QED
      BY <2>1, <2>2, <2>3
  <1> HIDE DEF T
  <1>3. T \in SUBSET Nat
    BY DEF T
  <1>4. b \in T
    BY <1>1, <1>2, <1>3, Induction
  <1> QED
    BY <1>4 DEF T

\* What stands between two powers.
LEMMA TwoApart ==
    ASSUME NEW a \in Nat, NEW b \in Nat, a <= b
    PROVE  /\ b - a \in Nat /\ Two[b] = Two[a] * Two[b - a] /\ Two[a] <= Two[b]
           /\ a < b => /\ b - a - 1 \in Nat /\ Two[b - a] = 2 * Two[b - a - 1]
                       /\ 2 * Two[a] <= Two[b]
  <1>1. PICK c \in Nat : c = b - a /\ b = a + c
    OBVIOUS
  <1>2. PICK p \in Nat, q \in Nat : p = Two[a] /\ q = Two[c] /\ p >= 1 /\ q >= 1 /\ Two[b] = p * q
    <2>1. Two[b] = Two[a] * Two[c]
      BY <1>1, TwoSum
    <2>2. Two[a] \in Nat /\ Two[c] \in Nat /\ Two[a] >= 1 /\ Two[c] >= 1
      BY TwoEquation
    <2> QED
      BY <2>1, <2>2
  <1>3. p * q >= p
    BY <1>2, Product
  <1>4. ASSUME a < b
        PROVE  /\ b - a - 1 \in Nat /\ Two[b - a] = 2 * Two[b - a - 1]
               /\ 2 * Two[a] <= Two[b]
    <2>1. PICK d \in Nat : d = b - a - 1 /\ c = d + 1
      BY <1>1, <1>4
    <2>2. PICK r \in Nat : r = Two[d] /\ r >= 1 /\ q = 2 * r
      BY <1>2, <2>1, TwoEquation
    <2>3. p * r >= p /\ p * r \in Nat /\ p * (2 * r) = 2 * (p * r)
      BY <1>2, <2>2, Product
    <2> QED
      BY <1>1, <1>2, <2>1, <2>2, <2>3
  <1> QED
    BY <1>1, <1>2, <1>3, <1>4

-----------------------------------------------------------------------------
(* Bits.                                                                   *)

LEMMA BitType ==
    ASSUME NEW w \in Int, NEW i \in Nat
    PROVE  /\ Bit(w, i) \in {0, 1}
           /\ w \div Two[i] \in Int
  <1>1. PICK p \in Nat : p = Two[i] /\ p >= 1
    BY TwoEquation
  <1>2. PICK q \in Int : q = w \div p
    BY <1>1, Quotient
  <1>3. q % 2 \in {0, 1}
    BY <1>2
  <1> QED
    BY <1>1, <1>2, <1>3 DEF Bit

\* The low bits of a word.
LEMMA BitOfLow ==
    ASSUME NEW w \in Int, NEW n \in Nat, NEW i \in Nat
    PROVE  Bit(w % Two[n], i) = IF i < n THEN Bit(w, i) ELSE 0
  <1>1. CASE i < n
    <2>1. PICK p \in Nat, r \in Nat : /\ p = Two[i] /\ r = Two[n - i - 1] /\ p >= 1 /\ r >= 1
                                      /\ Two[n] = p * (2 * r)
      <3>1. n - i - 1 \in Nat /\ Two[n - i] = 2 * Two[n - i - 1] /\ Two[n] = Two[i] * Two[n - i]
        BY <1>1, TwoApart
      <3>2. /\ Two[i] \in Nat /\ Two[i] >= 1
            /\ Two[n - i - 1] \in Nat /\ Two[n - i - 1] >= 1
        BY <3>1, TwoEquation
      <3> QED
        BY <3>1, <3>2
    <2>2. PICK t \in Nat : t = 2 * r /\ t >= 1
      BY <2>1
    <2>3. (w % (p * t)) \div p = (w \div p) % t
      <3>1. p >= 1 /\ t >= 1
        BY <2>1, <2>2
      <3> QED
        BY <3>1, HighOfLow
    <2>4. PICK q \in Int : q = w \div p
      BY <2>1, Quotient
    <2>5. (q % t) % 2 = q % 2
      <3>1. (q % (2 * r)) % 2 = q % 2
        <4>1. r >= 1 /\ 2 >= 1 /\ 2 \in Nat
          BY <2>1
        <4> QED
          BY <4>1, LowOfLow
      <3> QED
        BY <2>2, <3>1
    <2> QED
      BY <1>1, <2>1, <2>2, <2>3, <2>4, <2>5 DEF Bit
  <1>2. CASE n <= i
    <2>1. PICK p \in Nat, m \in Nat : p = Two[i] /\ m = Two[n] /\ m >= 1 /\ m <= p
      <3>1. Two[i] \in Nat /\ Two[n] \in Nat /\ Two[n] >= 1
        BY TwoEquation
      <3>2. Two[n] <= Two[i]
        BY <1>2, TwoApart
      <3> QED
        BY <3>1, <3>2
    <2>2. PICK l \in Nat : l = w % m /\ l < m
      <3>1. m >= 1
        BY <2>1
      <3>2. w % m \in 0 .. m - 1
        BY <3>1, Quotient
      <3> QED
        BY <3>2
    <2>3. l = p * 0 + l /\ p >= 1 /\ l < p /\ 0 <= l
      BY <2>1, <2>2
    <2>4. l \div p = 0
      BY <2>3, QuotientUnique
    <2> QED
      BY <1>2, <2>1, <2>2, <2>4 DEF Bit
  <1> QED
    BY <1>1, <1>2

LEMMA BitOfRight ==
    ASSUME NEW w \in Int, NEW n \in Nat, NEW i \in Nat
    PROVE  Bit(ShiftRight(w, n), i) = Bit(w, i + n)
  <1>1. PICK p \in Nat, q \in Nat : p = Two[n] /\ q = Two[i] /\ p >= 1 /\ q >= 1 /\ Two[n + i] = p * q
    <2>1. Two[n + i] = Two[n] * Two[i]
      BY TwoSum
    <2>2. Two[n] \in Nat /\ Two[i] \in Nat /\ Two[n] >= 1 /\ Two[i] >= 1
      BY TwoEquation
    <2> QED
      BY <2>1, <2>2
  <1>2. (w \div p) \div q = w \div (p * q)
    <2>1. p >= 1 /\ q >= 1
      BY <1>1
    <2> QED
      BY <2>1, InTurn
  <1>3. n + i = i + n
    OBVIOUS
  <1> QED
    BY <1>1, <1>2, <1>3 DEF Bit, ShiftRight

LEMMA BitOfTimes ==
    ASSUME NEW w \in Int, NEW n \in Nat, NEW i \in Nat
    PROVE  Bit(w * Two[n], i) = IF i < n THEN 0 ELSE Bit(w, i - n)
  <1>1. CASE i < n
    <2>1. PICK p \in Nat, r \in Nat : /\ p = Two[i] /\ r = Two[n - i - 1] /\ p >= 1 /\ r >= 1
                                      /\ Two[n] = p * (2 * r)
      <3>1. n - i - 1 \in Nat /\ Two[n - i] = 2 * Two[n - i - 1] /\ Two[n] = Two[i] * Two[n - i]
        BY <1>1, TwoApart
      <3>2. /\ Two[i] \in Nat /\ Two[i] >= 1
            /\ Two[n - i - 1] \in Nat /\ Two[n - i - 1] >= 1
        BY <3>1, TwoEquation
      <3> QED
        BY <3>1, <3>2
    <2>2. PICK k \in Int : k = w * r
      BY <2>1
    <2>3. w * (p * (2 * r)) = p * (2 * (w * r)) + 0
      OBVIOUS
    <2>4. PICK t \in Int : t = 2 * k
      OBVIOUS
    <2>5. PICK y \in Int : y = w * Two[n] /\ y = p * t + 0
      BY <2>1, <2>2, <2>3, <2>4
    <2>6. y \div p = t
      <3>1. p >= 1 /\ 0 < p /\ y = p * t + 0
        BY <2>1, <2>5
      <3> QED
        BY <3>1, QuotientUnique
    <2>7. t % 2 = 0
      BY <2>4
    <2> QED
      BY <1>1, <2>1, <2>5, <2>6, <2>7 DEF Bit
  <1>2. CASE n <= i
    <2>1. PICK p \in Nat, q \in Nat : p = Two[n] /\ q = Two[i - n] /\ p >= 1 /\ q >= 1 /\ Two[i] = p * q
      <3>1. i - n \in Nat /\ Two[i] = Two[n] * Two[i - n]
        BY <1>2, TwoApart
      <3>2. Two[n] \in Nat /\ Two[i - n] \in Nat /\ Two[n] >= 1 /\ Two[i - n] >= 1
        BY <3>1, TwoEquation
      <3> QED
        BY <3>1, <3>2
    <2>2. PICK y \in Int : y = w * p /\ y = p * w + 0
      BY <2>1
    <2>3. y \div p = w
      BY <2>1, <2>2, QuotientUnique
    <2>4. (y \div p) \div q = y \div (p * q)
      <3>1. p >= 1 /\ q >= 1
        BY <2>1
      <3> QED
        BY <3>1, InTurn
    <2> QED
      BY <1>2, <2>1, <2>2, <2>3, <2>4 DEF Bit
  <1> QED
    BY <1>1, <1>2

\* A word and the complement of it.
LEMMA BitOfComplement ==
    ASSUME NEW n \in Nat, NEW w \in 0 .. AllOnes(n), NEW i \in Nat, i < n
    PROVE  Bit(AllOnes(n) - w, i) = 1 - Bit(w, i)
  <1>1. PICK p \in Nat, r \in Nat : /\ p = Two[i] /\ r = Two[n - i - 1] /\ p >= 1 /\ r >= 1
                                    /\ Two[n] = p * (2 * r)
    <2>1. n - i - 1 \in Nat /\ Two[n - i] = 2 * Two[n - i - 1] /\ Two[n] = Two[i] * Two[n - i]
      BY TwoApart
    <2>2. /\ Two[i] \in Nat /\ Two[i] >= 1
          /\ Two[n - i - 1] \in Nat /\ Two[n - i - 1] >= 1
      BY <2>1, TwoEquation
    <2> QED
      BY <2>1, <2>2
  <1>2. w \in Int
    BY TwoEquation DEF AllOnes
  <1>3. PICK q \in Int, s \in Nat : q = w \div p /\ s < p /\ w = p * q + s
    <2>1. p >= 1
      BY <1>1
    <2>2. /\ w % p \in 0 .. p - 1 /\ w \div p \in Int
          /\ w = p * (w \div p) + (w % p)
      BY <1>2, <2>1, Quotient
    <2> QED
      BY <2>2
  <1>4. PICK u \in Int : u = AllOnes(n) - w /\ u = p * (2 * r) - 1 - (p * q + s)
    BY <1>1, <1>2, <1>3, TwoEquation DEF AllOnes
  <1>5. PICK t \in Int : t = 2 * r - 1 - q
    BY <1>1, <1>3
  <1>6. PICK z \in Int : z = p - 1 - s /\ 0 <= z /\ z < p
    BY <1>1, <1>3
  <1>7. p * (2 * r - 1 - q) = p * (2 * r) - p - p * q
    BY <1>1, <1>3
  <1>8. u = p * t + z
    BY <1>1, <1>3, <1>4, <1>5, <1>6, <1>7
  <1>9. u \div p = t
    BY <1>1, <1>6, <1>8, QuotientUnique
  <1>10. t % 2 = 1 - (q % 2)
    <2>1. \A x \in Int, y \in Int : (2 * x - 1 - y) % 2 = 1 - (y % 2)
      OBVIOUS
    <2> QED
      BY <1>5, <2>1
  <1> QED
    BY <1>1, <1>3, <1>4, <1>9, <1>10 DEF Bit

LEMMA BitOfAllOnes ==
    ASSUME NEW n \in Nat, NEW i \in Nat
    PROVE  /\ Bit(AllOnes(n), i) = IF i < n THEN 1 ELSE 0
           /\ Bit(0, i) = 0
           /\ AllOnes(n) \in Nat
  <1>1. Two[n] \in Nat /\ Two[n] >= 1 /\ Two[i] \in Nat /\ Two[i] >= 1
    BY TwoEquation
  <1>2. Bit(0, i) = 0
    <2>1. PICK p \in Nat : p = Two[i] /\ p >= 1 /\ 0 = p * 0 + 0
      BY <1>1
    <2>2. 0 \div p = 0
      BY <2>1, QuotientUnique
    <2> QED
      BY <2>1, <2>2 DEF Bit
  <1>3. CASE i < n
    <2>1. 0 \in 0 .. AllOnes(n) /\ AllOnes(n) - 0 = AllOnes(n)
      BY <1>1 DEF AllOnes
    <2> QED
      BY <1>1, <1>2, <1>3, <2>1, BitOfComplement DEF AllOnes
  <1>4. CASE n <= i
    <2>1. PICK m \in Nat : m = Two[n] /\ m >= 1
      BY <1>1
    <2>2. m - 1 = m * 0 + (m - 1)
      BY <2>1
    <2>3. (m - 1) % m = m - 1
      BY <2>1, <2>2, QuotientUnique
    <2>4. AllOnes(n) = AllOnes(n) % Two[n] /\ AllOnes(n) \in Int
      BY <2>1, <2>3 DEF AllOnes
    <2>5. Bit(AllOnes(n) % Two[n], i) = 0
      BY <1>4, <2>4, BitOfLow
    <2> QED
      BY <1>1, <1>2, <1>4, <2>4, <2>5 DEF AllOnes
  <1> QED
    BY <1>3, <1>4

-----------------------------------------------------------------------------
(* Running sums: what a function that is defined by its own last value is.  *)

Adds(N, m, term, e) == e[0] = 0 /\ \A i \in 1 .. N : e[i] = (e[i - 1] * m) + term[i]
Running(N, m, term, e) == e \in [0 .. N -> Int] /\ Adds(N, m, term, e)

LEMMA RunningSame ==
    ASSUME NEW N \in Nat, NEW m, NEW term, NEW e, NEW f, Adds(N, m, term, e), Adds(N, m, term, f)
    PROVE  \A i \in 0 .. N : e[i] = f[i]
  <1> DEFINE T == {i \in Nat : i <= N => e[i] = f[i]}
  <1>1. 0 \in T
    BY DEF Adds
  <1>2. ASSUME NEW i \in T PROVE i + 1 \in T
    <2> SUFFICES ASSUME i + 1 <= N PROVE e[i + 1] = f[i + 1]
      OBVIOUS
    <2>1. i + 1 \in 1 .. N /\ (i + 1) - 1 = i /\ e[i] = f[i]
      OBVIOUS
    <2> QED
      BY <2>1 DEF Adds
  <1> HIDE DEF T
  <1>3. T \in SUBSET Nat
    BY DEF T
  <1>4. \A i \in Nat : i \in T
    BY <1>1, <1>2, <1>3, Induction
  <1> QED
    BY <1>4 DEF T

LEMMA WeighedIs ==
    ASSUME NEW N \in Nat, NEW m \in Nat, NEW term \in [1 .. N -> Int]
    PROVE  \E e : Running(N, m, term, e) /\ Weighed(N, m, term) = e[N]
  <1> DEFINE step == [x \in Nat \X Int |-> IF x[1] \in 1 .. N THEN (x[2] * m) + term[x[1]] ELSE 0]
  <1>1. \A n \in Nat, x \in Int : step[<<n, x>>] = IF n \in 1 .. N THEN (x * m) + term[n] ELSE 0
    OBVIOUS
  <1>2. step \in [Nat \X Int -> Int]
    <2>1. ASSUME NEW x \in Nat \X Int
          PROVE  (IF x[1] \in 1 .. N THEN (x[2] * m) + term[x[1]] ELSE 0) \in Int
      <3>1. x[2] \in Int
        OBVIOUS
      <3>2. x[2] * m \in Int
        BY <3>1
      <3>3. x[1] \in 1 .. N => term[x[1]] \in Int
        OBVIOUS
      <3> QED
        BY <3>2, <3>3
    <2> QED
      BY <2>1
  <1> HIDE DEF step
  <1>3. PICK e : SolvesTo(N, Int, 0, step, e)
    <2>1. Steps(Int, 0, step)
      BY <1>2 DEF Steps
    <2> QED
      BY <2>1, RecursionTo
  <1>4. ASSUME NEW i \in 1 .. N PROVE e[i] = (e[i - 1] * m) + term[i]
    <2>1. i \in Nat /\ i \in 0 .. N /\ i # 0 /\ i - 1 \in 0 .. N
      OBVIOUS
    <2>2. e[i] = step[<<i, e[i - 1]>>] /\ e[i - 1] \in Int
      BY <1>3, <2>1 DEF SolvesTo
    <2> QED
      BY <1>1, <2>1, <2>2
  <1>5. e \in [0 .. N -> Int] /\ e[0] = 0
    <2>1. 0 \in 0 .. N
      OBVIOUS
    <2> QED
      BY <1>3, <2>1 DEF SolvesTo
  <1>6. ASSUME NEW i \in 0 .. N PROVE e[i] = IF i = 0 THEN 0 ELSE (e[i - 1] * m) + term[i]
    BY <1>4, <1>5
  <1> DEFINE Equation(f) == f = [i \in 0 .. N |-> IF i = 0 THEN 0 ELSE (f[i - 1] * m) + term[i]]
             sum == CHOOSE f : Equation(f)
  <1>7. Equation(e)
    BY <1>5, <1>6
  <1>8. Equation(sum)
    BY <1>7
  <1>9. Weighed(N, m, term) = sum[N]
    BY DEF Weighed
  <1> HIDE DEF sum
  <1>10. sum[0] = 0 /\ \A i \in 1 .. N : sum[i] = (sum[i - 1] * m) + term[i]
    <2>1. \A i \in 0 .. N : sum[i] = IF i = 0 THEN 0 ELSE (sum[i - 1] * m) + term[i]
      BY <1>8
    <2>2. \A i \in 1 .. N : i \in 0 .. N /\ i # 0
      OBVIOUS
    <2> QED
      BY <2>1, <2>2
  <1> HIDE DEF Equation
  <1>11. \A i \in 0 .. N : e[i] = sum[i]
    <2>1. Adds(N, m, term, e) /\ Adds(N, m, term, sum)
      BY <1>4, <1>5, <1>10 DEF Adds
    <2> QED
      BY <2>1, RunningSame
  <1>12. Running(N, m, term, e)
    BY <1>4, <1>5 DEF Running, Adds
  <1>13. Weighed(N, m, term) = e[N]
    BY <1>9, <1>11
  <1> QED
    BY <1>12, <1>13

-----------------------------------------------------------------------------
(* A word that is put together bit by bit.                                 *)

WordOf(w) == w \in 0 .. AllOnes(WordBits)

\* The word of the first k bits.
OfFirst(bits, sum, k) ==
    /\ sum[k] \in 0 .. AllOnes(k)
    /\ \A i \in 0 .. k - 1 : Bit(sum[k], i) = bits[i]

LEMMA OneBitMore ==
    ASSUME NEW k \in Nat, NEW s \in 0 .. AllOnes(k), NEW b \in {0, 1}
    PROVE  /\ s + b * Two[k] \in 0 .. AllOnes(k + 1)
           /\ Bit(s + b * Two[k], k) = b
           /\ \A i \in 0 .. k - 1 : Bit(s + b * Two[k], i) = Bit(s, i)
  <1>1. PICK p \in Nat : p = Two[k] /\ p >= 1 /\ Two[k + 1] = 2 * p
    BY TwoEquation
  <1>2. s \in Int /\ 0 <= s /\ s < p
    BY <1>1 DEF AllOnes
  <1>3. PICK y \in Int : y = s + b * Two[k] /\ y = p * b + s /\ y \in 0 .. 2 * p - 1
    <2>1. CASE b = 0
      BY <1>1, <1>2, <2>1
    <2>2. CASE b = 1
      BY <1>1, <1>2, <2>2
    <2> QED
      BY <2>1, <2>2
  <1>4. y \div p = b /\ y % p = s
    <2>1. b \in Int /\ p >= 1
      BY <1>1
    <2> QED
      BY <1>2, <1>3, <2>1, QuotientUnique
  <1>5. Bit(y, k) = b
    BY <1>1, <1>4 DEF Bit
  <1>6. ASSUME NEW i \in 0 .. k - 1 PROVE Bit(y, i) = Bit(s, i)
    <2>1. i \in Nat /\ i < k
      OBVIOUS
    <2>2. Bit(y % Two[k], i) = Bit(y, i)
      BY <2>1, BitOfLow
    <2> QED
      BY <1>1, <1>4, <2>2
  <1> QED
    BY <1>1, <1>3, <1>5, <1>6 DEF AllOnes

LEMMA OfBitsIs ==
    ASSUME NEW bits \in [BitPlace -> {0, 1}]
    PROVE  WordOf(OfBits(bits)) /\ \A i \in BitPlace : Bit(OfBits(bits), i) = bits[i]
  <1> DEFINE N == WordBits
             term == [i \in 1 .. N |-> bits[i - 1] * Two[i - 1]]
  <1>1. N \in Nat /\ \A i \in 1 .. N : i - 1 \in Nat /\ bits[i - 1] \in {0, 1}
    BY LuaNumbersAssumption DEF BitPlace
  <1>2. OfBits(bits) = Weighed(N, 1, term)
    BY DEF OfBits
  <1> HIDE DEF N
  <1>3. ASSUME NEW i \in 1 .. N PROVE term[i] = bits[i - 1] * Two[i - 1] /\ term[i] \in Int
    <2>1. Two[i - 1] \in Nat /\ bits[i - 1] \in {0, 1}
      BY <1>1, TwoEquation
    <2>2. bits[i - 1] * Two[i - 1] \in Int
      BY <2>1
    <2> QED
      BY <2>2
  <1>4. term \in [1 .. N -> Int]
    <2>1. \A i \in 1 .. N : bits[i - 1] * Two[i - 1] \in Int
      BY <1>3
    <2> QED
      BY <2>1
  <1> HIDE DEF term
  <1>5. PICK sum : Running(N, 1, term, sum) /\ Weighed(N, 1, term) = sum[N]
    BY <1>1, <1>4, WeighedIs
  <1>9. OfBits(bits) = sum[N]
    BY <1>2, <1>5
  <1>10. \A i \in 0 .. N : sum[i] = IF i = 0 THEN 0 ELSE sum[i - 1] + bits[i - 1] * Two[i - 1]
    <2>1. ASSUME NEW i \in 0 .. N, i # 0 PROVE sum[i] = sum[i - 1] + bits[i - 1] * Two[i - 1]
      <3>1. i \in 1 .. N /\ i - 1 \in 0 .. N
        BY <1>1, <2>1
      <3>2. sum[i - 1] \in Int /\ sum[i] = (sum[i - 1] * 1) + term[i]
        BY <1>5, <3>1 DEF Running, Adds
      <3> QED
        BY <1>3, <3>1, <3>2
    <2> QED
      BY <1>5, <2>1 DEF Running, Adds
  <1> DEFINE T == {k \in Nat : k <= N => OfFirst(bits, sum, k)}
  <1>11. 0 \in T
    <2>1. sum[0] = 0 /\ 0 \in 0 .. AllOnes(0)
      BY <1>1, <1>10, TwoEquation DEF AllOnes
    <2> QED
      BY <2>1 DEF OfFirst
  <1>12. ASSUME NEW k \in T PROVE k + 1 \in T
    <2> SUFFICES ASSUME k + 1 <= N PROVE OfFirst(bits, sum, k + 1)
      OBVIOUS
    <2>1. k \in Nat /\ OfFirst(bits, sum, k) /\ k + 1 \in 0 .. N /\ k + 1 \in 1 .. N
          /\ (k + 1) - 1 = k /\ k + 1 # 0
      BY <1>1
    <2>2. sum[k + 1] = sum[k] + bits[k] * Two[k] /\ bits[k] \in {0, 1}
      BY <1>1, <1>10, <2>1
    <2>3. sum[k] \in 0 .. AllOnes(k) /\ \A i \in 0 .. k - 1 : Bit(sum[k], i) = bits[i]
      BY <2>1 DEF OfFirst
    <2>4. /\ sum[k + 1] \in 0 .. AllOnes(k + 1)
          /\ Bit(sum[k + 1], k) = bits[k]
          /\ \A i \in 0 .. k - 1 : Bit(sum[k + 1], i) = Bit(sum[k], i)
      BY <2>1, <2>2, <2>3, OneBitMore
    <2>5. ASSUME NEW i \in 0 .. (k + 1) - 1 PROVE Bit(sum[k + 1], i) = bits[i]
      <3>1. i = k \/ i \in 0 .. k - 1
        BY <2>1
      <3> QED
        BY <2>3, <2>4, <3>1
    <2> QED
      BY <2>4, <2>5 DEF OfFirst
  <1> HIDE DEF T
  <1>13. T \in SUBSET Nat
    BY DEF T
  <1>14. N \in T
    BY <1>1, <1>11, <1>12, <1>13, Induction
  <1> QED
    BY <1>1, <1>9, <1>14 DEF T, OfFirst, WordOf, BitPlace, N

-----------------------------------------------------------------------------
(* Words as sets of places.                                                *)

LEMMA WordType ==
    /\ WordBits \in Nat /\ WideBits \in Nat /\ WideBits < WordBits /\ WideBits >= 1
    /\ Half \in Nat /\ Half < WideBits
    /\ Two[WordBits] \in Nat /\ Two[WordBits] >= 1
    /\ \A w : WordOf(w) <=> w \in Int /\ 0 <= w /\ w < Two[WordBits]
    /\ \A size \in IntegerSizes : size \in Nat /\ size <= WordBits
  <1>1. WordBits \in Nat /\ WideBits \in Nat /\ WideBits < WordBits /\ WideBits >= 1
    BY LuaNumbersAssumption
  <1>2. Half \in Nat /\ Half < WideBits
    BY <1>1 DEF Half
  <1>3. Two[WordBits] \in Nat /\ Two[WordBits] >= 1
    BY <1>1, TwoEquation
  <1>4. \A w : WordOf(w) <=> w \in Int /\ 0 <= w /\ w < Two[WordBits]
    BY <1>3 DEF WordOf, AllOnes
  <1>5. \A size \in IntegerSizes : size \in Nat /\ size <= WordBits
    BY LuaNumbersAssumption
  <1> QED
    BY <1>1, <1>2, <1>3, <1>4, <1>5

LEMMA U64Word ==
    ASSUME NEW v \in Int
    PROVE  WordOf(U64(v)) /\ U64(v) \in Int
  <1>1. PICK m \in Nat : m = Two[WordBits] /\ m >= 1
    BY WordType
  <1>2. v % m \in 0 .. m - 1
    BY <1>1, Quotient
  <1> QED
    BY <1>1, <1>2, WordType DEF U64

\* A word has no bits behind its width.
LEMMA NoMoreBits ==
    ASSUME NEW w, WordOf(w), NEW i \in Nat, i >= WordBits
    PROVE  Bit(w, i) = 0
  <1>1. PICK m \in Nat : m = Two[WordBits] /\ m >= 1
    BY WordType
  <1>2. w \in Int /\ 0 <= w /\ w < m
    BY <1>1, WordType
  <1>3. w = m * 0 + w
    BY <1>1, <1>2
  <1>4. w % m = w
    BY <1>1, <1>2, <1>3, QuotientUnique
  <1>5. Bit(w % Two[WordBits], i) = 0
    BY <1>2, WordType, BitOfLow
  <1> QED
    BY <1>1, <1>4, <1>5

LEMMA PlaceBits ==
    ASSUME NEW w \in Int, NEW i \in BitPlace
    PROVE  i \in Nat /\ Bit(w, i) \in {0, 1}
  <1>1. i \in Nat
    BY WordType DEF BitPlace
  <1> QED
    BY <1>1, BitType

LEMMA OnesAnd ==
    ASSUME NEW a \in Int, NEW b \in Int
    PROVE  WordOf(And(a, b)) /\ Ones(And(a, b)) = Ones(a) \cap Ones(b)
  <1> DEFINE bits == [i \in BitPlace |-> Bit(a, i) * Bit(b, i)]
  <1>1. \A i \in BitPlace : i \in Nat /\ Bit(a, i) \in {0, 1} /\ Bit(b, i) \in {0, 1}
    BY PlaceBits
  <1>2. bits \in [BitPlace -> {0, 1}]
    BY <1>1
  <1>3. WordOf(And(a, b)) /\ \A i \in BitPlace : Bit(And(a, b), i) = bits[i]
    BY <1>2, OfBitsIs DEF And
  <1>4. \A i \in BitPlace : bits[i] = 1 <=> Bit(a, i) = 1 /\ Bit(b, i) = 1
    BY <1>1
  <1> HIDE DEF bits
  <1> QED
    BY <1>3, <1>4 DEF Ones, BitPlace

LEMMA OnesOr ==
    ASSUME NEW a \in Int, NEW b \in Int
    PROVE  WordOf(Or(a, b)) /\ Ones(Or(a, b)) = Ones(a) \cup Ones(b)
  <1> DEFINE bits == [i \in BitPlace |-> IF Bit(a, i) + Bit(b, i) = 0 THEN 0 ELSE 1]
  <1>1. \A i \in BitPlace : i \in Nat /\ Bit(a, i) \in {0, 1} /\ Bit(b, i) \in {0, 1}
    BY PlaceBits
  <1>2. bits \in [BitPlace -> {0, 1}]
    BY <1>1
  <1>3. WordOf(Or(a, b)) /\ \A i \in BitPlace : Bit(Or(a, b), i) = bits[i]
    BY <1>2, OfBitsIs DEF Or
  <1>4. \A i \in BitPlace : bits[i] = 1 <=> Bit(a, i) = 1 \/ Bit(b, i) = 1
    BY <1>1
  <1> HIDE DEF bits
  <1> QED
    BY <1>3, <1>4 DEF Ones, BitPlace

LEMMA OnesXor ==
    ASSUME NEW a \in Int, NEW b \in Int
    PROVE  /\ WordOf(Xor(a, b))
           /\ Ones(Xor(a, b)) = (Ones(a) \ Ones(b)) \cup (Ones(b) \ Ones(a))
  <1> DEFINE bits == [i \in BitPlace |-> (Bit(a, i) + Bit(b, i)) % 2]
  <1>1. \A i \in BitPlace : i \in Nat /\ Bit(a, i) \in {0, 1} /\ Bit(b, i) \in {0, 1}
    BY PlaceBits
  <1>2. \A x \in {0, 1}, y \in {0, 1} : (x + y) % 2 = IF x = y THEN 0 ELSE 1
    OBVIOUS
  <1>3. \A i \in BitPlace : (Bit(a, i) + Bit(b, i)) % 2 = IF Bit(a, i) = Bit(b, i) THEN 0 ELSE 1
    BY <1>1, <1>2
  <1>4. bits \in [BitPlace -> {0, 1}]
    BY <1>3
  <1>5. WordOf(Xor(a, b)) /\ \A i \in BitPlace : Bit(Xor(a, b), i) = bits[i]
    BY <1>4, OfBitsIs DEF Xor
  <1>6. \A i \in BitPlace : bits[i] = 1 <=> Bit(a, i) # Bit(b, i)
    BY <1>3
  <1> HIDE DEF bits
  <1> QED
    BY <1>1, <1>5, <1>6 DEF Ones, BitPlace

LEMMA OnesNot ==
    ASSUME NEW w, WordOf(w)
    PROVE  WordOf(Not(w)) /\ Ones(Not(w)) = BitPlace \ Ones(w)
  <1>1. w \in 0 .. AllOnes(WordBits) /\ AllOnes(WordBits) \in Int /\ w \in Int
    BY WordType DEF WordOf, AllOnes
  <1>2. WordOf(Not(w))
    BY <1>1 DEF WordOf, Not
  <1>3. ASSUME NEW i \in BitPlace PROVE Bit(Not(w), i) = 1 - Bit(w, i) /\ Bit(w, i) \in {0, 1}
    <2>1. i \in Nat /\ i < WordBits /\ WordBits \in Nat
      BY WordType DEF BitPlace
    <2>2. Bit(AllOnes(WordBits) - w, i) = 1 - Bit(w, i)
      BY <1>1, <2>1, BitOfComplement
    <2> QED
      BY <1>1, <2>1, <2>2, BitType DEF Not
  <1> QED
    BY <1>2, <1>3 DEF Ones, BitPlace

LEMMA OnesLeft ==
    ASSUME NEW w, WordOf(w), NEW n \in Nat
    PROVE  /\ WordOf(ShiftLeft(w, n))
           /\ Ones(ShiftLeft(w, n)) = {i \in BitPlace : i >= n /\ i - n \in Ones(w)}
  <1>1. w \in Int /\ Two[n] \in Nat /\ WordBits \in Nat
    BY WordType, TwoEquation
  <1>2. w * Two[n] \in Int
    BY <1>1
  <1>3. ASSUME NEW i \in BitPlace
        PROVE  Bit(ShiftLeft(w, n), i) = IF i < n THEN 0 ELSE Bit(w, i - n)
    <2>1. i \in Nat /\ i < WordBits
      BY <1>1 DEF BitPlace
    <2>2. PICK y \in Int : y = w * Two[n]
      BY <1>2
    <2>3. Bit(y % Two[WordBits], i) = Bit(y, i)
      BY <1>1, <2>1, BitOfLow
    <2>4. Bit(y, i) = IF i < n THEN 0 ELSE Bit(w, i - n)
      BY <1>1, <2>1, <2>2, BitOfTimes
    <2> QED
      BY <2>2, <2>3, <2>4 DEF ShiftLeft, U64
  <1>4. WordOf(ShiftLeft(w, n))
    BY <1>2, U64Word DEF ShiftLeft
  <1>5. \A i \in BitPlace : i \in Ones(ShiftLeft(w, n)) <=> i >= n /\ i - n \in Ones(w)
    BY <1>1, <1>3 DEF Ones, BitPlace
  <1>6. Ones(ShiftLeft(w, n)) \subseteq BitPlace
    BY DEF Ones, BitPlace
  <1> QED
    BY <1>4, <1>5, <1>6

LEMMA OnesRight ==
    ASSUME NEW w, WordOf(w), NEW n \in Nat
    PROVE  /\ WordOf(ShiftRight(w, n))
           /\ Ones(ShiftRight(w, n)) = {i \in BitPlace : i + n \in Ones(w)}
  <1>1. w \in Int /\ 0 <= w /\ w < Two[WordBits] /\ WordBits \in Nat
    BY WordType
  <1>2. WordOf(ShiftRight(w, n))
    <2>1. PICK m \in Nat : m = Two[n] /\ m >= 1
      BY TwoEquation
    <2>2. PICK q \in Int, r \in Nat : q = w \div m /\ r < m /\ w = m * q + r
      <3>1. m >= 1
        BY <2>1
      <3>2. w % m \in 0 .. m - 1 /\ w \div m \in Int /\ w = m * (w \div m) + (w % m)
        BY <1>1, <3>1, Quotient
      <3>3. w % m \in Nat /\ w % m < m
        BY <3>2
      <3> QED
        BY <3>2, <3>3
    <2>3. q \in Nat
      <3>1. CASE q <= -1
        <4>1. PICK d \in Nat : d = - q - 1
          BY <3>1
        <4>2. m * d \in Nat
          BY Product
        <4>3. m * (- d - 1) = - (m * d) - m
          OBVIOUS
        <4>4. q = - d - 1
          BY <4>1
        <4> QED
          BY <1>1, <2>2, <4>2, <4>3, <4>4
      <3> QED
        BY <3>1
    <2>4. m * q >= q
      <3>1. CASE q = 0
        BY <2>1, <3>1
      <3>2. CASE q >= 1
        BY <2>1, <2>3, <3>2, Product
      <3> QED
        BY <2>3, <3>1, <3>2
    <2>5. m * q \in Nat
      BY <2>3, Product
    <2> QED
      BY <1>1, <2>1, <2>2, <2>3, <2>4, <2>5, WordType DEF ShiftRight
  <1>3. ASSUME NEW i \in BitPlace
        PROVE  i \in Ones(ShiftRight(w, n)) <=> i + n \in Ones(w)
    <2>1. i \in Nat /\ i + n \in Nat
      BY <1>1 DEF BitPlace
    <2>2. Bit(ShiftRight(w, n), i) = Bit(w, i + n)
      BY <1>1, <2>1, BitOfRight
    <2>3. i + n \notin BitPlace => Bit(w, i + n) = 0
      BY <1>1, <2>1, NoMoreBits DEF BitPlace
    <2> QED
      BY <1>1, <2>2, <2>3 DEF Ones, BitPlace
  <1>4. Ones(ShiftRight(w, n)) \subseteq BitPlace
    BY DEF Ones, BitPlace
  <1> QED
    BY <1>2, <1>3, <1>4

LEMMA OnesAllOnes ==
    ASSUME NEW n \in Nat, n <= WordBits
    PROVE  WordOf(AllOnes(n)) /\ Ones(AllOnes(n)) = Below(n)
  <1>1. Two[n] \in Nat /\ Two[n] >= 1 /\ Two[n] <= Two[WordBits] /\ WordBits \in Nat
    BY WordType, TwoEquation, TwoApart
  <1>2. WordOf(AllOnes(n))
    BY <1>1, WordType DEF AllOnes
  <1>3. ASSUME NEW i \in BitPlace PROVE Bit(AllOnes(n), i) = IF i < n THEN 1 ELSE 0
    <2>1. i \in Nat
      BY <1>1 DEF BitPlace
    <2> QED
      BY <2>1, BitOfAllOnes
  <1> QED
    BY <1>1, <1>2, <1>3 DEF Ones, BitPlace, Below

LEMMA OnesMask ==
    ASSUME NEW from \in Nat, NEW to \in Nat, from <= to, to < WideBits
    PROVE  WordOf(FieldMask(from, to)) /\ Ones(FieldMask(from, to)) = Below(to - from + 1)
  <1> DEFINE n == to - from + 1
             all == AllOnes(WordBits)
             left == ShiftLeft(all, n)
  <1>1. n \in Nat /\ n <= WordBits /\ WordBits \in Nat
    BY WordType
  <1>2. WordOf(all) /\ Ones(all) = Below(WordBits)
    BY <1>1, OnesAllOnes
  <1>3. WordOf(left) /\ Ones(left) = {i \in BitPlace : i >= n /\ i - n \in Ones(all)}
    BY <1>1, <1>2, OnesLeft
  <1>4. WordOf(Not(left)) /\ Ones(Not(left)) = BitPlace \ Ones(left)
    BY <1>3, OnesNot
  <1>5. FieldMask(from, to) = Not(left)
    BY DEF FieldMask
  <1> HIDE DEF n, all, left
  <1>6. \A i \in BitPlace : i \in Ones(left) <=> i >= n
    BY <1>1, <1>2, <1>3 DEF BitPlace, Below
  <1>7. Below(n) = BitPlace \ Ones(left)
    BY <1>1, <1>6 DEF BitPlace, Below
  <1> QED
    BY <1>4, <1>5, <1>7 DEF n

-----------------------------------------------------------------------------
(* What scripts do with words.                                             *)

LEMMA WideIs ==
    ASSUME NEW v \in Wide
    PROVE  v \in Int /\ InRange(v, WideBits) /\ WordOf(U64(v)) /\ U64(v) \in Int
  <1>1. AllOnes(WideBits) \in Int
    BY WordType, TwoEquation DEF AllOnes
  <1>2. v \in Int /\ InRange(v, WideBits)
    BY <1>1 DEF Wide, InRange
  <1> QED
    BY <1>2, U64Word

LEMMA PlacesOf ==
    ASSUME NEW w
    PROVE  Ones(w) \subseteq BitPlace /\ BitPlace \subseteq Nat
  BY WordType DEF Ones, BitPlace

\* A mask of the wide range.
LEMMA Masking ==
    ASSUME NEW w \in Int
    PROVE  Ones(And(w, AllOnes(WideBits))) = Ones(w) \cap Below(WideBits)
  <1>1. WordOf(AllOnes(WideBits)) /\ Ones(AllOnes(WideBits)) = Below(WideBits)
    BY WordType, OnesAllOnes
  <1>2. AllOnes(WideBits) \in Int
    BY <1>1, WordType
  <1> QED
    BY <1>1, <1>2, OnesAnd

LEMMA OnesOf_bitlshift ==
    ASSUME NEW v \in Wide, NEW n \in Nat
    PROVE  \E w : /\ bitlshift(v, n) = {w}
                  /\ Ones(w) = {i + n : i \in Ones(U64(v))} \cap Below(WideBits)
  <1> DEFINE l == ShiftLeft(U64(v), n)
  <1>1. WordOf(l) /\ Ones(l) = {i \in BitPlace : i >= n /\ i - n \in Ones(U64(v))} /\ l \in Int
    BY WideIs, OnesLeft, WordType
  <1>2. bitlshift(v, n) = {And(l, AllOnes(WideBits))}
    BY WideIs DEF bitlshift
  <1> HIDE DEF l
  <1>3. Ones(And(l, AllOnes(WideBits))) = Ones(l) \cap Below(WideBits)
    BY <1>1, Masking
  <1>4. ASSUME NEW i \in Below(WideBits)
        PROVE  i \in Ones(l) <=> i \in {j + n : j \in Ones(U64(v))}
    <2>1. i \in BitPlace /\ i \in Nat
      BY WordType DEF Below, BitPlace
    <2>2. \A j \in Ones(U64(v)) : j \in Nat
      BY PlacesOf
    <2>3. ASSUME i >= n, i - n \in Ones(U64(v)) PROVE i \in {j + n : j \in Ones(U64(v))}
      <3>1. i = (i - n) + n
        BY <2>1
      <3> QED
        BY <2>3, <3>1
    <2>4. ASSUME NEW j \in Ones(U64(v)), i = j + n PROVE i >= n /\ i - n \in Ones(U64(v))
      <3>1. j \in Nat /\ i - n = j
        BY <2>2, <2>4
      <3> QED
        BY <2>4, <3>1
    <2> QED
      BY <1>1, <2>1, <2>3, <2>4
  <1> QED
    BY <1>2, <1>3, <1>4

LEMMA OnesOf_bitrshift ==
    ASSUME NEW v \in Wide, NEW n \in Nat
    PROVE  \E w : /\ bitrshift(v, n) = {w}
                  /\ Ones(w) = {i - n : i \in Ones(U64(v)) \ Below(n)}
  <1> DEFINE r == ShiftRight(U64(v), n)
  <1>1. WordOf(r) /\ Ones(r) = {i \in BitPlace : i + n \in Ones(U64(v))}
    BY WideIs, OnesRight
  <1>2. bitrshift(v, n) = {r}
    BY WideIs DEF bitrshift
  <1> HIDE DEF r
  <1>3. ASSUME NEW i \in BitPlace, i + n \in Ones(U64(v))
        PROVE  i \in {j - n : j \in Ones(U64(v)) \ Below(n)}
    <2>1. i \in Nat /\ i = (i + n) - n /\ i + n \notin Below(n)
      BY PlacesOf DEF Below
    <2> QED
      BY <1>3, <2>1
  <1>4. ASSUME NEW j \in Ones(U64(v)) \ Below(n)
        PROVE  j - n \in BitPlace /\ (j - n) + n \in Ones(U64(v))
    <2>1. j \in BitPlace /\ j \in Nat
      BY PlacesOf
    <2>2. j >= n
      BY <2>1 DEF Below
    <2> QED
      BY <2>1, <2>2, WordType DEF BitPlace
  <1> QED
    BY <1>1, <1>2, <1>3, <1>4

LEMMA OnesOf_bitget ==
    ASSUME NEW v \in Wide, NEW from \in Nat, NEW to \in Nat, from <= to, to < WideBits,
           NEW size \in IntegerSizes, to - from + 1 < size
    PROVE  \E w : /\ bitget(size, v, from, to) = {w}
                  /\ Ones(w) = {i - from : i \in Ones(U64(v)) \cap (from .. to)}
  <1> DEFINE r == ShiftRight(U64(v), from)
             mask == AllOnes(to - from + 1)
  <1>1. WordOf(r) /\ Ones(r) = {i \in BitPlace : i + from \in Ones(U64(v))} /\ r \in Int
    BY WideIs, OnesRight, WordType
  <1>2. WordOf(mask) /\ Ones(mask) = Below(to - from + 1) /\ mask \in Int
    <2>1. to - from + 1 \in Nat /\ to - from + 1 <= WordBits
      BY WordType
    <2> QED
      BY <2>1, OnesAllOnes, WordType
  <1>3. bitget(size, v, from, to) = {And(r, mask)}
    <2>1. GetMask(size, to - from + 1) = {mask}
      BY DEF GetMask
    <2> QED
      BY <2>1, WideIs DEF bitget, FieldOk
  <1> HIDE DEF r, mask
  <1>4. Ones(And(r, mask)) = Ones(r) \cap Below(to - from + 1)
    BY <1>1, <1>2, OnesAnd
  <1>5. ASSUME NEW i \in BitPlace, i + from \in Ones(U64(v)), i \in Below(to - from + 1)
        PROVE  i \in {j - from : j \in Ones(U64(v)) \cap (from .. to)}
    <2>1. i \in Nat /\ i = (i + from) - from /\ i + from \in from .. to
      BY <1>5, PlacesOf DEF Below
    <2> QED
      BY <1>5, <2>1
  <1>6. ASSUME NEW j \in Ones(U64(v)) \cap (from .. to)
        PROVE  j - from \in BitPlace /\ (j - from) + from \in Ones(U64(v)) /\ j - from \in Below(to - from + 1)
    <2>1. j \in BitPlace /\ j \in Nat /\ j >= from /\ j <= to
      BY PlacesOf
    <2>2. (j - from) + from = j /\ j - from \in BitPlace /\ j - from \in Below(to - from + 1)
      BY <2>1, WordType DEF BitPlace, Below
    <2> QED
      BY <2>2
  <1> QED
    BY <1>1, <1>3, <1>4, <1>5, <1>6

\* The places of a word with a field of another put into it.
BitsPut(v, from, to, set) ==
    (Ones(U64(v)) \ (from .. to)) \cup {i + from : i \in Ones(U64(set)) \cap Below(to - from + 1)}

LEMMA OnesOf_bitset ==
    ASSUME NEW v \in Wide, NEW set \in Wide, NEW from \in Nat, NEW to \in Nat, from <= to, to < WideBits
    PROVE  \E w : bitset(v, from, to, set) = {w} /\ Ones(w) = BitsPut(v, from, to, set)
  <1> DEFINE mask == FieldMask(from, to)
             hole == ShiftLeft(mask, from)
             kept == And(U64(v), Not(hole))
             low == And(U64(set), mask)
             put == ShiftLeft(low, from)
  <1>1. WordOf(mask) /\ Ones(mask) = Below(to - from + 1) /\ mask \in Int
    BY OnesMask, WordType
  <1>2. WordOf(hole) /\ Ones(hole) = {i \in BitPlace : i >= from /\ i - from \in Ones(mask)}
    BY <1>1, OnesLeft
  <1>3. WordOf(Not(hole)) /\ Ones(Not(hole)) = BitPlace \ Ones(hole) /\ Not(hole) \in Int
    BY <1>2, OnesNot, WordType
  <1>4. WordOf(kept) /\ Ones(kept) = Ones(U64(v)) \cap Ones(Not(hole)) /\ kept \in Int
    BY <1>3, WideIs, OnesAnd, WordType
  <1>5. WordOf(low) /\ Ones(low) = Ones(U64(set)) \cap Ones(mask)
    BY <1>1, WideIs, OnesAnd
  <1>6. WordOf(put) /\ Ones(put) = {i \in BitPlace : i >= from /\ i - from \in Ones(low)} /\ put \in Int
    BY <1>5, OnesLeft, WordType
  <1>7. Ones(Or(kept, put)) = Ones(kept) \cup Ones(put)
    BY <1>4, <1>6, OnesOr
  <1>8. bitset(v, from, to, set) = {Or(kept, put)}
    BY WideIs DEF bitset, FieldOk
  <1> HIDE DEF mask, hole, kept, low, put
  <1>9. Ones(kept) = Ones(U64(v)) \ (from .. to)
    <2>1. \A i \in BitPlace : i \in Ones(hole) <=> i \in from .. to
      BY <1>1, <1>2, PlacesOf DEF Below
    <2>2. Ones(U64(v)) \subseteq BitPlace
      BY PlacesOf
    <2> QED
      BY <1>3, <1>4, <2>1, <2>2
  <1>10. Ones(put) = {i + from : i \in Ones(U64(set)) \cap Below(to - from + 1)}
    <2>1. ASSUME NEW i \in BitPlace, i >= from, i - from \in Ones(low)
          PROVE  i \in {j + from : j \in Ones(U64(set)) \cap Below(to - from + 1)}
      <3>1. i = (i - from) + from
        BY PlacesOf
      <3> QED
        BY <1>1, <1>5, <2>1, <3>1
    <2>2. ASSUME NEW j \in Ones(U64(set)) \cap Below(to - from + 1)
          PROVE  j + from \in BitPlace /\ j + from >= from /\ (j + from) - from \in Ones(low)
      <3>1. j \in Nat /\ j < to - from + 1 /\ j \in Ones(low)
        BY <1>1, <1>5, PlacesOf DEF Below
      <3>2. (j + from) - from = j /\ j + from \in BitPlace
        BY <3>1, WordType DEF BitPlace
      <3> QED
        BY <3>1, <3>2
    <2> QED
      BY <1>6, <2>1, <2>2
  <1> QED
    BY <1>7, <1>8, <1>9, <1>10 DEF BitsPut

LEMMA OnesOf_bitnot ==
    ASSUME NEW v \in Wide
    PROVE  \E w : bitnot(v, WideBits) = {w} /\ Ones(w) = Below(WideBits) \ Ones(U64(v))
  <1> DEFINE n == Not(U64(v))
  <1>1. WordOf(n) /\ Ones(n) = BitPlace \ Ones(U64(v)) /\ n \in Int
    BY WideIs, OnesNot, WordType
  <1>2. bitnot(v, WideBits) = {And(n, AllOnes(WideBits))}
    BY WideIs DEF bitnot
  <1> HIDE DEF n
  <1>3. Ones(And(n, AllOnes(WideBits))) = Ones(n) \cap Below(WideBits)
    BY <1>1, Masking
  <1>4. Below(WideBits) \subseteq BitPlace
    BY WordType DEF Below, BitPlace
  <1> QED
    BY <1>1, <1>2, <1>3, <1>4

\* A field scene: what its action sets up.
FieldScene(s) ==
    s.kind = "field" => /\ s.v \in Wide /\ s.set \in Wide
                        /\ s.from \in 0 .. WideBits - 1 /\ s.to \in 0 .. WideBits - 1

LEMMA FieldsAreSets ==
    ASSUME FieldScene(scene)
    PROVE  FieldsHold
  <1> SUFFICES ASSUME scene.kind = "field" PROVE FieldsHold
    BY DEF FieldsHold
  <1> DEFINE v == scene.v  s == scene.set  f == scene.from  t == scene.to
             O(n) == Ones(U64(n))
             Is(result, places) == {Ones(w) : w \in result} = {places}
  <1>1. /\ v \in Wide /\ s \in Wide /\ f \in Nat /\ t \in Nat /\ f < WideBits /\ t < WideBits
    BY WordType DEF FieldScene
  <1>2. \A R, P : (\E w : R = {w} /\ Ones(w) = P) => Is(R, P)
    OBVIOUS
  <1> HIDE DEF v, s, f, t, Is
  <1>3. IF f > t THEN bitset(v, f, t, s) = {} /\ \A size \in IntegerSizes : bitget(size, v, f, t) = {}
        ELSE /\ \A size \in IntegerSizes :
                   t - f + 1 < size => Is(bitget(size, v, f, t), {i - f : i \in O(v) \cap (f .. t)})
             /\ Is(bitset(v, f, t, s), (O(v) \ (f .. t)) \cup {i + f : i \in O(s) \cap Below(t - f + 1)})
    <2>1. CASE f > t
      <3>1. ~ FieldOk(f, t)
        BY <1>1, <2>1 DEF FieldOk
      <3> QED
        BY <2>1, <3>1 DEF bitset, bitget
    <2>2. CASE f <= t
      <3>1. ASSUME NEW size \in IntegerSizes, t - f + 1 < size
            PROVE  Is(bitget(size, v, f, t), {i - f : i \in O(v) \cap (f .. t)})
        <4>1. \E w : bitget(size, v, f, t) = {w} /\ Ones(w) = {i - f : i \in O(v) \cap (f .. t)}
          BY <1>1, <2>2, <3>1, OnesOf_bitget
        <4> QED
          BY <1>2, <4>1
      <3>2. PICK u : /\ bitset(v, f, t, s) = {u}
                     /\ Ones(u) = (O(v) \ (f .. t)) \cup {i + f : i \in O(s) \cap Below(t - f + 1)}
        <4>1. \E u : bitset(v, f, t, s) = {u} /\ Ones(u) = BitsPut(v, f, t, s)
          BY <1>1, <2>2, OnesOf_bitset
        <4> QED
          BY <4>1 DEF BitsPut
      <3>3. ~ (f > t)
        BY <1>1, <2>2
      <3> QED
        BY <1>2, <3>1, <3>2, <3>3
    <2> QED
      BY <1>1, <2>1, <2>2
  <1>4. Is(bitlshift(v, f), {i + f : i \in O(v)} \cap Below(WideBits))
    <2>1. PICK w : bitlshift(v, f) = {w} /\ Ones(w) = {i + f : i \in O(v)} \cap Below(WideBits)
      BY <1>1, OnesOf_bitlshift
    <2> QED
      BY <1>2, <2>1
  <1>5. Is(bitrshift(v, f), {i - f : i \in O(v) \ Below(f)})
    <2>1. PICK w : bitrshift(v, f) = {w} /\ Ones(w) = {i - f : i \in O(v) \ Below(f)}
      BY <1>1, OnesOf_bitrshift
    <2> QED
      BY <1>2, <2>1
  <1>6. /\ Is(bitand(v, s), O(v) \cap O(s) \cap Below(WideBits)) /\ Is(bitor(v, s), O(v) \cup O(s))
        /\ Is(bitxor(v, s), (O(v) \ O(s)) \cup (O(s) \ O(v)))
    <2>1. /\ U64(v) \in Int /\ U64(s) \in Int
          /\ bitand(v, s) = {And(And(AllOnes(WideBits), U64(v)), U64(s))} /\ bitor(v, s) = {Or(U64(v), U64(s))}
          /\ bitxor(v, s) = {Xor(U64(v), U64(s))}
      BY <1>1, WideIs DEF bitand, bitor, bitxor
    <2>a. Ones(And(And(AllOnes(WideBits), U64(v)), U64(s))) = O(v) \cap O(s) \cap Below(WideBits)
      <3>1. WordOf(AllOnes(WideBits)) /\ Ones(AllOnes(WideBits)) = Below(WideBits) /\ AllOnes(WideBits) \in Int
        BY WordType, OnesAllOnes
      <3>2. /\ And(AllOnes(WideBits), U64(v)) \in Int
            /\ Ones(And(AllOnes(WideBits), U64(v))) = Below(WideBits) \cap O(v)
        BY <2>1, <3>1, OnesAnd, WordType
      <3>3. Ones(And(And(AllOnes(WideBits), U64(v)), U64(s))) = (Below(WideBits) \cap O(v)) \cap O(s)
        BY <2>1, <3>2, OnesAnd
      <3> QED
        BY <3>3
    <2>2. /\ Ones(Or(U64(v), U64(s))) = O(v) \cup O(s)
          /\ Ones(Xor(U64(v), U64(s))) = (O(v) \ O(s)) \cup (O(s) \ O(v))
      BY <2>1, OnesOr, OnesXor
    <2> QED
      BY <1>2, <2>1, <2>a, <2>2
  <1>7. Is(bitnot(v, WideBits), Below(WideBits) \ O(v))
    <2>1. PICK w : bitnot(v, WideBits) = {w} /\ Ones(w) = Below(WideBits) \ O(v)
      BY <1>1, OnesOf_bitnot
    <2> QED
      BY <1>2, <2>1
  <1> QED
    BY <1>3, <1>4, <1>5, <1>6, <1>7 DEF FieldsHold, v, s, f, t, Is

-----------------------------------------------------------------------------
(* Sums of numbers.                                                        *)

LEMMA Turns ==
    ASSUME NEW n \in Nat, NEW m \in Nat, n <= m, NEW x \in Int
    PROVE  /\ (x % Two[m]) % Two[n] = x % Two[n]
           /\ x % Two[n] \in 0 .. AllOnes(n)
           /\ x \in 0 .. AllOnes(n) => x % Two[n] = x
  <1>1. PICK p \in Nat, q \in Nat : p = Two[n] /\ q = Two[m - n] /\ p >= 1 /\ q >= 1 /\ Two[m] = p * q
    <2>1. m - n \in Nat /\ Two[m] = Two[n] * Two[m - n]
      BY TwoApart
    <2>2. Two[n] \in Nat /\ Two[n] >= 1 /\ Two[m - n] \in Nat /\ Two[m - n] >= 1
      BY <2>1, TwoEquation
    <2> QED
      BY <2>1, <2>2
  <1>2. p >= 1 /\ q >= 1
    BY <1>1
  <1>3. (x % (p * q)) % p = x % p
    BY <1>2, LowOfLow
  <1>4. x % p \in 0 .. p - 1
    BY <1>2, Quotient
  <1>5. ASSUME 0 <= x, x < p PROVE x % p = x
    <2>1. x = p * 0 + x
      BY <1>2
    <2> QED
      BY <1>2, <1>5, <2>1, QuotientUnique
  <1> QED
    BY <1>1, <1>3, <1>4, <1>5 DEF AllOnes

\* Words with the same bits are the same.
LEMMA SameOnes ==
    ASSUME NEW x, NEW y, WordOf(x), WordOf(y), Ones(x) = Ones(y)
    PROVE  x = y
  <1> DEFINE T == {k \in Nat : k <= WordBits => x % Two[k] = y % Two[k]}
  <1>1. x \in Int /\ y \in Int /\ WordBits \in Nat
    BY WordType
  <1>2. 0 \in T
    <2>1. x % 1 = 0 /\ y % 1 = 0
      BY <1>1
    <2> QED
      BY <2>1, TwoEquation
  <1>3. ASSUME NEW k \in T PROVE k + 1 \in T
    <2> SUFFICES ASSUME k + 1 <= WordBits PROVE x % Two[k + 1] = y % Two[k + 1]
      OBVIOUS
    <2>1. k \in Nat /\ k \in BitPlace /\ x % Two[k] = y % Two[k]
      BY <1>1 DEF BitPlace
    <2>2. PICK p \in Nat : p = Two[k] /\ p >= 1 /\ Two[k + 1] = p * 2
      BY <2>1, TwoEquation
    <2>3. Bit(x, k) = Bit(y, k)
      <3>1. Bit(x, k) \in {0, 1} /\ Bit(y, k) \in {0, 1}
        BY <1>1, <2>1, BitType
      <3>2. Bit(x, k) = 1 <=> Bit(y, k) = 1
        BY <2>1 DEF Ones, BitPlace
      <3> QED
        BY <3>1, <3>2
    <2>4. ASSUME NEW z \in Int PROVE z % (p * 2) = p * Bit(z, k) + (z % p)
      <3>1. p >= 1 /\ 2 >= 1 /\ 2 \in Nat
        BY <2>2
      <3>2. z % (p * 2) = p * ((z \div p) % 2) + (z % p)
        BY <3>1, HighAndLow
      <3> QED
        BY <2>2, <3>2 DEF Bit
    <2>5. x % (p * 2) = p * Bit(x, k) + (x % p) /\ y % (p * 2) = p * Bit(y, k) + (y % p)
      BY <1>1, <2>4
    <2> QED
      BY <2>1, <2>2, <2>3, <2>5
  <1> HIDE DEF T
  <1>4. T \in SUBSET Nat
    BY DEF T
  <1>5. WordBits \in T
    BY <1>1, <1>2, <1>3, <1>4, Induction
  <1>6. x % Two[WordBits] = x /\ y % Two[WordBits] = y
    BY <1>1, Turns DEF WordOf
  <1> QED
    BY <1>1, <1>5, <1>6 DEF T

LEMMA MaskIsRemainder ==
    ASSUME NEW x, WordOf(x), NEW n \in Nat, n <= WordBits
    PROVE  And(x, AllOnes(n)) = x % Two[n]
  <1>1. x \in Int /\ WordBits \in Nat
    BY WordType
  <1>2. WordOf(AllOnes(n)) /\ Ones(AllOnes(n)) = Below(n) /\ AllOnes(n) \in Int
    BY OnesAllOnes, WordType
  <1>3. WordOf(And(x, AllOnes(n))) /\ Ones(And(x, AllOnes(n))) = Ones(x) \cap Below(n)
    BY <1>1, <1>2, OnesAnd
  <1>4. PICK y \in Int : y = x % Two[n] /\ y \in 0 .. AllOnes(n)
    <2>1. x % Two[n] \in 0 .. AllOnes(n)
      BY <1>1, Turns
    <2>2. x % Two[n] \in Int
      BY <1>2, <2>1
    <2> QED
      BY <2>1, <2>2
  <1>5. WordOf(y)
    BY <1>2, <1>4, WordType
  <1>6. Ones(y) = Ones(x) \cap Below(n)
    <2>1. ASSUME NEW i \in BitPlace PROVE Bit(y, i) = IF i < n THEN Bit(x, i) ELSE 0
      <3>1. i \in Nat
        BY <1>1, PlacesOf
      <3> QED
        BY <1>1, <1>4, <3>1, BitOfLow
    <2>2. \A i \in BitPlace : i \in Ones(y) <=> i \in Ones(x) /\ i \in Below(n)
      BY <1>1, <2>1 DEF Ones, BitPlace, Below
    <2>3. Ones(y) \subseteq BitPlace /\ Ones(x) \subseteq BitPlace
      BY PlacesOf
    <2> QED
      BY <2>2, <2>3
  <1> QED
    BY <1>3, <1>4, <1>5, <1>6, SameOnes

NarrowOf(v) == v \in Int /\ InRange(v, Half)

LEMMA UxaddIs ==
    ASSUME NEW vs \in Seq(Int), \A i \in 1 .. Len(vs) : InRange(vs[i], Half)
    PROVE  /\ uxadd(vs, Half) = {Weighed(Len(vs), 1, vs) % Two[Half]}
           /\ Weighed(Len(vs), 1, vs) \in Int
  <1> DEFINE N == Len(vs)
             Equation(f) == f = [i \in 0 .. N |-> IF i = 0 THEN 0 ELSE U64(f[i - 1] + U64(vs[i]))]
             sum == CHOOSE f : Equation(f)
  <1>1. N \in Nat /\ DOMAIN vs = 1 .. N /\ vs \in [1 .. N -> Int]
    BY LenProperties
  <1>2. uxadd(vs, Half) = {And(sum[N], AllOnes(Half))}
    BY <1>1 DEF uxadd
  <1>3. Weighed(Len(vs), 1, vs) = Weighed(N, 1, vs)
    OBVIOUS
  <1> HIDE DEF N, sum
  <1>4. PICK e : Running(N, 1, vs, e) /\ Weighed(N, 1, vs) = e[N]
    BY <1>1, WeighedIs
  <1>5. /\ e \in [0 .. N -> Int] /\ e[0] = 0
        /\ \A i \in 1 .. N : e[i] = e[i - 1] + vs[i]
    <2>1. ASSUME NEW i \in 1 .. N PROVE e[i] = e[i - 1] + vs[i]
      <3>1. i - 1 \in 0 .. N
        BY <1>1
      <3>2. e[i - 1] \in Int /\ e[i] = (e[i - 1] * 1) + vs[i]
        BY <1>4, <3>1 DEF Running, Adds
      <3> QED
        BY <3>2
    <2> QED
      BY <1>4, <2>1 DEF Running, Adds
  <1>6. ASSUME NEW x \in Int, NEW y \in Int PROVE U64(U64(x) + U64(y)) = U64(x + y)
    <2>1. PICK M \in Nat : M = Two[WordBits] /\ M > 1
      <3>1. 2 * Two[0] <= Two[WordBits] /\ Two[0] = 1
        <4>1. 0 \in Nat /\ WordBits \in Nat /\ 0 <= WordBits /\ 0 < WordBits
          BY WordType
        <4> QED
          BY <4>1, TwoEquation, TwoApart
      <3>2. Two[WordBits] \in Nat /\ Two[WordBits] > 1
        BY <3>1, WordType
      <3> QED
        BY <3>2
    <2>2. M > 1
      BY <2>1
    <2>3. PICK r \in Int, s \in Int : r = x % M /\ s = y % M
      <3>1. x % M \in 0 .. M - 1 /\ y % M \in 0 .. M - 1
        BY <2>2, Division
      <3>2. x % M \in Int /\ y % M \in Int
        BY <3>1
      <3> QED
        BY <3>2
    <2>4. (r + s) % M = (x + s) % M
      BY <2>2, <2>3, ModOfSum
    <2>5. (s + x) % M = (y + x) % M
      BY <2>2, <2>3, ModOfSum
    <2>6. x + s = s + x /\ y + x = x + y
      BY <2>3
    <2> QED
      BY <2>1, <2>3, <2>4, <2>5, <2>6 DEF U64
  <1> DEFINE g == [i \in 0 .. N |-> U64(e[i])]
  <1>7. ASSUME NEW i \in 0 .. N, i # 0 PROVE U64(e[i]) = U64(U64(e[i - 1]) + U64(vs[i]))
    <2>1. i \in 1 .. N /\ i - 1 \in 0 .. N
      BY <1>1, <1>7
    <2>2. e[i - 1] \in Int /\ vs[i] \in Int /\ e[i] = e[i - 1] + vs[i]
      BY <1>1, <1>5, <2>1
    <2>3. PICK x \in Int, y \in Int : x = e[i - 1] /\ y = vs[i]
      BY <2>2
    <2>4. U64(U64(x) + U64(y)) = U64(x + y)
      BY <1>6
    <2> QED
      BY <2>2, <2>3, <2>4
  <1>8. U64(0) = 0
    <2>1. 0 \in 0 .. AllOnes(WordBits) /\ WordBits \in Nat /\ WordBits <= WordBits
      BY WordType DEF AllOnes
    <2> QED
      BY <2>1, Turns DEF U64
  <1>9. Equation(g)
    <2>1. ASSUME NEW i \in 0 .. N PROVE U64(e[i]) = IF i = 0 THEN 0 ELSE U64(g[i - 1] + U64(vs[i]))
      <3>1. CASE i = 0
        BY <1>5, <1>8, <3>1
      <3>2. CASE i # 0
        <4>1. i - 1 \in 0 .. N
          BY <1>1, <3>2
        <4>2. g[i - 1] = U64(e[i - 1])
          BY <4>1
        <4> QED
          BY <1>7, <3>2, <4>2
      <3> QED
        BY <3>1, <3>2
    <2> QED
      BY <2>1
  <1>10. Equation(sum)
    BY <1>9 DEF sum
  <1>11. \A i \in 0 .. N : sum[i] = IF i = 0 THEN 0 ELSE U64(sum[i - 1] + U64(vs[i]))
    BY <1>10
  <1> HIDE DEF Equation, g
  <1> DEFINE T == {i \in Nat : i <= N => sum[i] = U64(e[i])}
  <1>12. 0 \in T
    BY <1>1, <1>5, <1>8, <1>11
  <1>13. ASSUME NEW i \in T PROVE i + 1 \in T
    <2> SUFFICES ASSUME i + 1 <= N PROVE sum[i + 1] = U64(e[i + 1])
      OBVIOUS
    <2>1. i + 1 \in 0 .. N /\ i + 1 # 0 /\ (i + 1) - 1 = i /\ sum[i] = U64(e[i])
      BY <1>1
    <2>2. sum[i + 1] = U64(sum[i] + U64(vs[i + 1]))
      BY <1>11, <2>1
    <2>3. U64(e[i + 1]) = U64(U64(e[i]) + U64(vs[i + 1]))
      BY <1>7, <2>1
    <2> QED
      BY <2>1, <2>2, <2>3
  <1> HIDE DEF T
  <1>14. T \in SUBSET Nat
    BY DEF T
  <1>15. sum[N] = U64(e[N]) /\ e[N] \in Int
    <2>1. N \in T
      BY <1>1, <1>12, <1>13, <1>14, Induction
    <2> QED
      BY <1>1, <1>5, <2>1 DEF T
  <1>a. Half \in Nat /\ WordBits \in Nat /\ Half <= WordBits
    BY WordType
  <1>16. And(sum[N], AllOnes(Half)) = U64(e[N]) % Two[Half]
    <2>1. WordOf(sum[N])
      BY <1>15, U64Word
    <2> QED
      BY <1>15, <1>a, <2>1, MaskIsRemainder
  <1>17. U64(e[N]) % Two[Half] = e[N] % Two[Half]
    <2>1. \A x \in Int : (x % Two[WordBits]) % Two[Half] = x % Two[Half]
      BY <1>a, Turns
    <2> QED
      BY <1>15, <2>1 DEF U64
  <1> QED
    BY <1>2, <1>3, <1>4, <1>15, <1>16, <1>17

LEMMA AddedLater ==
    ASSUME NEW M \in Nat, M >= 1, NEW x \in Int, NEW a \in Int
    PROVE  ((x % M) + a) % M = (x + a) % M
  <1>1. PICK k \in Int, r \in Int : r = x % M /\ x = M * k + r
    <2>1. x % M \in 0 .. M - 1 /\ x \div M \in Int /\ x = M * (x \div M) + (x % M)
      BY Quotient
    <2>2. x % M \in Int
      BY <2>1
    <2> QED
      BY <2>1, <2>2
  <1>2. PICK y \in Int : y = r + a
    BY <1>1
  <1>3. (M * k + y) % M = y % M
    BY <1>1, WholeTurns
  <1>4. x + a = M * k + y
    BY <1>1, <1>2
  <1> QED
    BY <1>1, <1>2, <1>3, <1>4

LEMMA WeighedTail ==
    ASSUME NEW vs \in Seq(Int), vs # <<>>
    PROVE  /\ Weighed(Len(vs), 1, vs) = vs[1] + Weighed(Len(Tail(vs)), 1, Tail(vs))
           /\ Weighed(Len(Tail(vs)), 1, Tail(vs)) \in Int
  <1>1. PICK N \in Nat, ts \in Seq(Int) : /\ N = Len(ts) /\ ts = Tail(vs) /\ Len(vs) = N + 1
                                          /\ \A i \in 1 .. N : ts[i] = vs[i + 1]
    <2>1. /\ Tail(vs) \in Seq(Int) /\ Len(Tail(vs)) = Len(vs) - 1
          /\ \A i \in 1 .. Len(Tail(vs)) : Tail(vs)[i] = vs[i + 1]
      BY HeadTailProperties
    <2>2. Len(Tail(vs)) \in Nat /\ Len(vs) \in Nat
      BY <2>1, LenProperties
    <2>3. Len(vs) = Len(Tail(vs)) + 1
      BY <2>1, <2>2
    <2> QED
      BY <2>1, <2>2, <2>3
  <1>2. vs \in [1 .. N + 1 -> Int] /\ ts \in [1 .. N -> Int]
    BY <1>1, LenProperties
  <1>3. PICK e : Running(N + 1, 1, vs, e) /\ Weighed(N + 1, 1, vs) = e[N + 1]
    BY <1>1, <1>2, WeighedIs
  <1>4. PICK f : Running(N, 1, ts, f) /\ Weighed(N, 1, ts) = f[N]
    BY <1>2, WeighedIs
  <1>5. /\ e \in [0 .. N + 1 -> Int] /\ e[0] = 0
        /\ \A i \in 1 .. N + 1 : e[i] = e[i - 1] + vs[i]
    <2>1. ASSUME NEW i \in 1 .. N + 1 PROVE e[i] = e[i - 1] + vs[i]
      <3>1. i - 1 \in 0 .. N + 1
        BY <1>1
      <3>2. e[i - 1] \in Int /\ e[i] = (e[i - 1] * 1) + vs[i]
        BY <1>3, <3>1 DEF Running, Adds
      <3> QED
        BY <3>2
    <2> QED
      BY <1>3, <2>1 DEF Running, Adds
  <1>6. /\ f \in [0 .. N -> Int] /\ f[0] = 0
        /\ \A i \in 1 .. N : f[i] = f[i - 1] + ts[i]
    <2>1. ASSUME NEW i \in 1 .. N PROVE f[i] = f[i - 1] + ts[i]
      <3>1. i - 1 \in 0 .. N
        BY <1>1
      <3>2. f[i - 1] \in Int /\ f[i] = (f[i - 1] * 1) + ts[i]
        BY <1>4, <3>1 DEF Running, Adds
      <3> QED
        BY <3>2
    <2> QED
      BY <1>4, <2>1 DEF Running, Adds
  <1>7. vs[1] \in Int
    BY <1>1, <1>2
  <1> DEFINE T == {i \in Nat : i <= N => e[i + 1] = vs[1] + f[i]}
  <1>8. 0 \in T
    <2>1. 1 \in 1 .. N + 1 /\ e[1] = e[1 - 1] + vs[1]
      BY <1>1, <1>5
    <2> QED
      BY <1>5, <1>6, <1>7, <2>1
  <1>9. ASSUME NEW i \in T PROVE i + 1 \in T
    <2> SUFFICES ASSUME i + 1 <= N PROVE e[(i + 1) + 1] = vs[1] + f[i + 1]
      OBVIOUS
    <2>1. PICK j \in Nat : j = i + 1 /\ j \in 1 .. N /\ j + 1 \in 1 .. N + 1 /\ i \in 0 .. N
      BY <1>1
    <2>2. e[j + 1] = e[j] + vs[j + 1]
      <3>1. (j + 1) - 1 = j
        OBVIOUS
      <3> QED
        BY <1>5, <2>1, <3>1
    <2>3. f[j] = f[i] + ts[j] /\ f[i] \in Int
      <3>1. j - 1 = i
        BY <2>1
      <3> QED
        BY <1>6, <2>1, <3>1
    <2>4. e[j] = vs[1] + f[i] /\ ts[j] = vs[j + 1] /\ ts[j] \in Int
      BY <1>1, <1>2, <2>1
    <2> QED
      BY <1>7, <2>1, <2>2, <2>3, <2>4
  <1> HIDE DEF T
  <1>10. T \in SUBSET Nat
    BY DEF T
  <1>11. e[N + 1] = vs[1] + f[N] /\ f[N] \in Int
    <2>1. N \in T
      BY <1>1, <1>8, <1>9, <1>10, Induction
    <2> QED
      BY <1>1, <1>6, <2>1 DEF T
  <1> QED
    BY <1>1, <1>3, <1>4, <1>11

LEMMA WeighedPair ==
    ASSUME NEW a \in Int, NEW b \in Int
    PROVE  Weighed(Len(<<a, b>>), 1, <<a, b>>) = a + b
  <1>1. <<a, b>> \in [1 .. 2 -> Int] /\ Len(<<a, b>>) = 2 /\ <<a, b>>[1] = a /\ <<a, b>>[2] = b
    OBVIOUS
  <1>2. PICK e : Running(2, 1, <<a, b>>, e) /\ Weighed(2, 1, <<a, b>>) = e[2]
    BY <1>1, WeighedIs
  <1>3. e[1] = (e[1 - 1] * 1) + a /\ e[2] = (e[2 - 1] * 1) + b /\ e[0] = 0
    BY <1>1, <1>2 DEF Running, Adds
  <1> QED
    BY <1>1, <1>2, <1>3

-----------------------------------------------------------------------------
(* Numbers and their wire form.                                            *)

LEMMA TwoTimes ==
    ASSUME NEW b \in Nat, NEW k \in Nat
    PROVE  /\ b * k \in Nat /\ b * (k + 1) \in Nat
           /\ Two[b] \in Nat /\ Two[b] >= 1 /\ Two[b * k] \in Nat /\ Two[b * k] >= 1
           /\ Two[b * (k + 1)] = Two[b * k] * Two[b] /\ Two[b * (k + 1)] = Two[b] * Two[b * k]
           /\ Two[b * 0] = 1
  <1>1. PICK c \in Nat : c = b * k /\ b * (k + 1) = c + b
    <2>1. b * k \in Nat /\ b * (k + 1) = b * k + b
      BY Product
    <2> QED
      BY <2>1
  <1>2. Two[c + b] = Two[c] * Two[b]
    BY TwoSum
  <1>3. Two[b] \in Nat /\ Two[b] >= 1 /\ Two[c] \in Nat /\ Two[c] >= 1
    BY TwoEquation
  <1>4. Two[c] * Two[b] = Two[b] * Two[c]
    BY <1>3
  <1>5. b * 0 = 0 /\ Two[0] = 1
    BY TwoEquation
  <1> QED
    BY <1>1, <1>2, <1>3, <1>4, <1>5

LEMMA DigitsRead ==
    ASSUME NEW v \in Int, NEW n \in Nat, NEW b \in Nat
    PROVE  /\ BigEndian(v, n, b) \in [1 .. n -> 0 .. AllOnes(b)]
           /\ Weighed(n, Two[b], BigEndian(v, n, b)) = v % Two[b * n]
  <1> DEFINE d == BigEndian(v, n, b)
             Radix == Two[b]
  <1>1. Radix \in Nat /\ Radix >= 1 /\ AllOnes(b) = Radix - 1
    BY TwoEquation DEF AllOnes
  <1>a. ASSUME NEW x \in Nat, NEW y \in Nat, x >= 1, y >= 1
        PROVE  (v \div y) \div x = v \div (y * x)
    BY <1>a, InTurn
  <1>b. ASSUME NEW u \in Int, NEW S \in Nat, S >= 1
        PROVE  u % (Radix * S) = Radix * ((u \div Radix) % S) + (u % Radix)
    BY <1>1, <1>b, HighAndLow
  <1>2. ASSUME NEW i \in Nat, i <= n
        PROVE  v \div Two[b * (n - i)] \in Int
    <2>1. n - i \in Nat
      BY <1>2
    <2>2. Two[b * (n - i)] \in Nat /\ Two[b * (n - i)] >= 1
      BY <2>1, TwoTimes
    <2> QED
      BY <2>2, Quotient
  <1>3. \A i \in 1 .. n : d[i] = (v \div Two[b * (n - i)]) % Radix
    BY DEF BigEndian
  <1>4. d \in [1 .. n -> 0 .. AllOnes(b)]
    <2>1. ASSUME NEW i \in 1 .. n PROVE (v \div Two[b * (n - i)]) % Radix \in 0 .. AllOnes(b)
      <3>1. PICK q \in Int : q = v \div Two[b * (n - i)]
        BY <1>2
      <3>2. q % Radix \in 0 .. Radix - 1
        BY <1>1, Quotient
      <3> QED
        BY <1>1, <3>1, <3>2
    <2> QED
      BY <2>1 DEF BigEndian
  <1> HIDE DEF d, Radix
  <1>5. d \in [1 .. n -> Int]
    BY <1>1, <1>4
  <1>6. PICK e : Running(n, Radix, d, e) /\ Weighed(n, Radix, d) = e[n]
    BY <1>1, <1>5, WeighedIs
  <1> DEFINE T == {i \in Nat : i <= n => e[i] = (v \div Two[b * (n - i)]) % Two[b * i]}
  <1>7. 0 \in T
    <2>1. PICK q \in Int : q = v \div Two[b * (n - 0)]
      <3>1. 0 \in Nat /\ 0 <= n
        OBVIOUS
      <3>2. v \div Two[b * (n - 0)] \in Int
        BY <1>2, <3>1
      <3> QED
        BY <3>2
    <2>2. q % 1 = 0
      OBVIOUS
    <2>3. Two[b * 0] = 1 /\ e[0] = 0
      BY <1>6, TwoTimes DEF Running, Adds
    <2> QED
      BY <2>1, <2>2, <2>3
  <1>8. ASSUME NEW i \in T PROVE i + 1 \in T
    <2> SUFFICES ASSUME i + 1 <= n PROVE e[i + 1] = (v \div Two[b * (n - (i + 1))]) % Two[b * (i + 1)]
      OBVIOUS
    <2>1. PICK k \in Nat : /\ k = n - (i + 1) /\ k + 1 = n - i
                           /\ i + 1 \in 1 .. n /\ (i + 1) - 1 = i /\ i \in Nat /\ i <= n
      <3>1. n - (i + 1) \in Nat
        OBVIOUS
      <3> QED
        BY <3>1
    <2>2. PICK K \in Nat, S \in Nat : K = Two[b * k] /\ S = Two[b * i] /\ K >= 1 /\ S >= 1
      BY <2>1, TwoTimes
    <2>3. PICK u \in Int : u = v \div K
      BY <2>2, Quotient
    <2>4. d[i + 1] = u % Radix
      BY <1>3, <2>1, <2>2, <2>3
    <2>5. Two[b * (k + 1)] = K * Radix /\ Two[b * (i + 1)] = Radix * S
      <3>1. Two[b * (k + 1)] = Two[b * k] * Two[b] /\ Two[b * (i + 1)] = Two[b] * Two[b * i]
        BY <2>1, TwoTimes
      <3> QED
        BY <2>2, <3>1 DEF Radix
    <2>6. (v \div K) \div Radix = v \div (K * Radix)
      BY <1>1, <1>a, <2>2
    <2>7. e[i] = (u \div Radix) % S
      <3>1. e[i] = (v \div Two[b * (k + 1)]) % Two[b * i]
        BY <2>1
      <3> QED
        BY <2>2, <2>3, <2>5, <2>6, <3>1
    <2>8. u % (Radix * S) = Radix * ((u \div Radix) % S) + (u % Radix)
      <3>1. S >= 1
        BY <2>2
      <3> QED
        BY <1>b, <3>1
    <2>9. e[i + 1] = (e[i] * Radix) + d[i + 1]
      BY <1>6, <2>1 DEF Running, Adds
    <2>10. (u \div Radix) % S \in Int
      <3>1. u \div Radix \in Int
        BY <1>1, Quotient
      <3>2. (u \div Radix) % S \in 0 .. S - 1
        BY <2>2, <3>1, Quotient
      <3> QED
        BY <2>2, <3>2
    <2>11. PICK y \in Int : y = (u \div Radix) % S
      BY <2>10
    <2>12. y * Radix = Radix * y
      BY <1>1
    <2>13. e[i + 1] = u % (Radix * S)
      BY <2>4, <2>7, <2>8, <2>9, <2>11, <2>12
    <2> QED
      BY <2>1, <2>2, <2>3, <2>5, <2>13
  <1> HIDE DEF T
  <1>9. T \in SUBSET Nat
    BY DEF T
  <1>10. n \in T
    BY <1>7, <1>8, <1>9, Induction
  <1>11. e[n] = (v \div Two[b * (n - n)]) % Two[b * n]
    BY <1>10 DEF T
  <1>12. v \div Two[b * (n - n)] = v
    <2>1. n - n = 0 /\ Two[b * 0] = 1 /\ v \div 1 = v
      <3>1. \A x \in Nat : x - x = 0
        OBVIOUS
      <3>2. \A x \in Int : x \div 1 = x
        OBVIOUS
      <3>3. 0 \in Nat /\ Two[b * 0] = 1
        BY TwoTimes
      <3> QED
        BY <3>1, <3>2, <3>3
    <2> QED
      BY <2>1
  <1> QED
    BY <1>4, <1>6, <1>11, <1>12 DEF d, Radix

\* What digits that are written one after the other are read as, one by one.
DigitsOf(d, e, Radix, b, k) ==
    /\ e[k] \in 0 .. AllOnes(b * k)
    /\ \A i \in 1 .. k : (e[k] \div Two[b * (k - i)]) % Radix = d[i]

\* y is what s is with one digit more, c.
Longer(y, s, m, c) == y = (s * m) + c
DigitApart(y, s, b, k, c) ==
    /\ y \in 0 .. AllOnes(b * (k + 1))
    /\ y \div Two[b] = s /\ y % Two[b] = c

LEMMA DigitOff ==
    ASSUME NEW m \in Nat, m >= 1, NEW y \in Int, NEW s \in Int, NEW c \in Int,
           0 <= c, c < m, Longer(y, s, m, c)
    PROVE  y \div m = s /\ y % m = c
  <1>1. y = m * s + c
    BY DEF Longer
  <1> QED
    BY <1>1, QuotientUnique

LEMMA DigitMore ==
    ASSUME NEW b \in Nat, NEW k \in Nat, NEW s \in 0 .. AllOnes(b * k), NEW c \in 0 .. AllOnes(b),
           NEW y, Longer(y, s, Two[b], c)
    PROVE  DigitApart(y, s, b, k, c)
  <1>1. PICK Radix \in Nat, S \in Nat : /\ Radix = Two[b] /\ Radix >= 1 /\ S = Two[b * k] /\ S >= 1
                                    /\ Two[b * (k + 1)] = Radix * S
    <2>1. /\ Two[b] \in Nat /\ Two[b] >= 1 /\ Two[b * k] \in Nat /\ Two[b * k] >= 1
          /\ Two[b * (k + 1)] = Two[b] * Two[b * k]
      BY TwoTimes
    <2> QED
      BY <2>1
  <1>2. s \in Nat /\ s < S /\ c \in Nat /\ c < Radix
    BY <1>1 DEF AllOnes
  <1>3. s * Radix = Radix * s
    BY <1>2
  <1>4. PICK z \in Nat : z = Radix * s
    BY <1>2, Product
  <1>5. y = Radix * s + c /\ y \in Int /\ Radix >= 1
    BY <1>1, <1>2, <1>3, <1>4 DEF Longer
  <1>6. y \div Radix = s /\ y % Radix = c
    <2>1. Longer(y, s, Radix, c) /\ 0 <= c /\ c \in Int /\ s \in Int
      BY <1>1, <1>2
    <2> QED
      BY <1>2, <1>5, <2>1, DigitOff
  <1>7. Radix * s + Radix <= Radix * S
    <2>1. PICK t \in Nat : S = s + 1 + t
      <3>1. S - s - 1 \in Nat /\ S = s + 1 + (S - s - 1)
        BY <1>2
      <3> QED
        BY <3>1
    <2>2. Radix * (s + 1 + t) = Radix * s + Radix + Radix * t
      BY <1>2
    <2>3. Radix * t \in Nat
      BY Product
    <2> QED
      BY <1>4, <2>1, <2>2, <2>3
  <1>8. PICK Z \in Nat : Z = Radix * S
    BY Product
  <1>9. y \in 0 .. AllOnes(b * (k + 1))
    BY <1>1, <1>2, <1>4, <1>5, <1>7, <1>8 DEF AllOnes
  <1> QED
    BY <1>1, <1>6, <1>9 DEF DigitApart

LEMMA DigitsKept ==
    ASSUME NEW n \in Nat, NEW b \in Nat, NEW d \in [1 .. n -> 0 .. AllOnes(b)]
    PROVE  /\ Weighed(n, Two[b], d) \in 0 .. AllOnes(b * n)
           /\ BigEndian(Weighed(n, Two[b], d), n, b) = d
  <1> DEFINE Radix == Two[b]
  <1>1. Radix \in Nat /\ Radix >= 1
    BY TwoEquation
  <1>2. d \in [1 .. n -> Int]
    BY TwoEquation DEF AllOnes
  <1>3. PICK e : Running(n, Radix, d, e) /\ Weighed(n, Radix, d) = e[n]
    BY <1>1, <1>2, WeighedIs
  <1>a. ASSUME NEW x \in Nat, NEW y \in Nat, NEW v \in Int, x >= 1, y >= 1
        PROVE  (v \div y) \div x = v \div (y * x)
    BY <1>a, InTurn
  <1> DEFINE T == {k \in Nat : k <= n => DigitsOf(d, e, Radix, b, k)}
  <1>4. 0 \in T
    <2>1. e[0] = 0 /\ 0 \in 0 .. AllOnes(b * 0)
      <3>1. 0 \in Nat /\ Two[b * 0] = 1
        BY TwoTimes
      <3>2. 0 \in 0 .. AllOnes(b * 0)
        BY <3>1 DEF AllOnes
      <3> QED
        BY <1>3, <3>2 DEF Running, Adds
    <2>2. \A i \in 1 .. 0 : FALSE
      OBVIOUS
    <2> QED
      BY <2>1, <2>2 DEF DigitsOf
  <1>5. ASSUME NEW k \in Nat, DigitsOf(d, e, Radix, b, k), k + 1 <= n PROVE DigitsOf(d, e, Radix, b, k + 1)
    <2>1. k + 1 \in 1 .. n /\ (k + 1) - 1 = k
      BY <1>5
    <2>2. e[k + 1] = (e[k] * Radix) + d[k + 1] /\ d[k + 1] \in 0 .. AllOnes(b)
      BY <1>3, <2>1 DEF Running, Adds
    <2>3. e[k] \in 0 .. AllOnes(b * k)
      BY <1>5 DEF DigitsOf
    <2>4. /\ e[k + 1] \in 0 .. AllOnes(b * (k + 1))
          /\ e[k + 1] \div Radix = e[k] /\ e[k + 1] % Radix = d[k + 1]
      <3>1. Longer(e[k + 1], e[k], Two[b], d[k + 1])
        BY <2>2 DEF Longer
      <3>2. d[k + 1] \in 0 .. AllOnes(b)
        BY <2>2
      <3> HIDE DEF Radix, T
      <3>3. DigitApart(e[k + 1], e[k], b, k, d[k + 1])
        BY <2>3, <3>1, <3>2, DigitMore
      <3> QED
        BY <3>3 DEF DigitApart, Radix
    <2>5. PICK y \in Int : y = e[k + 1]
      <3>1. e[k + 1] \in Int
        BY <2>4
      <3> QED
        BY <3>1
    <2>6. ASSUME NEW i \in 1 .. k + 1 PROVE (y \div Two[b * ((k + 1) - i)]) % Radix = d[i]
      <3>1. CASE i = k + 1
        <4>1. (k + 1) - i = 0 /\ Two[b * 0] = 1
          BY <3>1, TwoTimes
        <4>2. y \div 1 = y
          OBVIOUS
        <4> QED
          BY <2>4, <2>5, <3>1, <4>1, <4>2
      <3>2. CASE i # k + 1
        <4>1. PICK j \in Nat : j = k - i /\ (k + 1) - i = j + 1 /\ i \in 1 .. k
          <5>1. i \in 1 .. k
            BY <3>2
          <5>2. k - i \in Nat /\ (k + 1) - i = (k - i) + 1
            BY <5>1
          <5> QED
            BY <5>1, <5>2
        <4>2. PICK J \in Nat : J = Two[b * j] /\ J >= 1 /\ Two[b * (j + 1)] = Radix * J
          BY TwoTimes
        <4>3. (y \div Radix) \div J = y \div (Radix * J)
          BY <1>1, <1>a, <4>2
        <4>4. (e[k] \div Two[b * (k - i)]) % Radix = d[i]
          BY <1>5, <4>1 DEF DigitsOf
        <4> QED
          BY <2>4, <2>5, <4>1, <4>2, <4>3, <4>4
      <3> QED
        BY <3>1, <3>2
    <2> QED
      BY <2>4, <2>5, <2>6 DEF DigitsOf
  <1>6. \A k \in T : k + 1 \in T
    BY <1>5
  <1> HIDE DEF T
  <1>7. T \in SUBSET Nat
    BY DEF T
  <1>8. n \in T
    BY <1>4, <1>6, <1>7, Induction
  <1>9. DigitsOf(d, e, Radix, b, n)
    BY <1>8 DEF T
  <1>10. e[n] \in 0 .. AllOnes(b * n) /\ \A i \in 1 .. n : (e[n] \div Two[b * (n - i)]) % Radix = d[i]
    BY <1>9 DEF DigitsOf
  <1>11. BigEndian(e[n], n, b) = d
    BY <1>10 DEF BigEndian
  <1> QED
    BY <1>3, <1>10, <1>11

\* A string of bytes at an offset in another is read as what it is.
Stands(d, n, into, at) == \A i \in 1 .. n : into[at - 1 + i] = d[i]

LEMMA ReadAt ==
    ASSUME NEW n \in Nat, NEW b \in Nat, NEW d \in [1 .. n -> Int], NEW into, NEW at \in Nat,
           at >= 1, Len(into) \in Int, at - 1 + n <= Len(into), Stands(d, n, into, at)
    PROVE  Unpack(into, at, n, b) = {Weighed(n, Two[b], d)}
  <1>1. \A i \in 1 .. n : At(into, at - 1 + i - 1) = d[i]
    <2>1. \A i \in 1 .. n : (at - 1 + i - 1) + 1 = at - 1 + i
      OBVIOUS
    <2> QED
      BY <2>1 DEF At, Stands
  <1>2. [i \in 1 .. n |-> At(into, at - 1 + i - 1)] = d
    BY <1>1
  <1>3. ~ (at < 1 \/ at - 1 + n > Len(into))
    OBVIOUS
  <1> QED
    BY <1>2, <1>3 DEF Unpack

LEMMA AsSequence ==
    ASSUME NEW S, NEW n \in Nat, NEW d \in [1 .. n -> S]
    PROVE  d \in Seq(S) /\ Len(d) = n
  <1>1. d \in Seq(S)
    BY SeqDef
  <1>2. DOMAIN d = 1 .. Len(d) /\ Len(d) \in Nat /\ DOMAIN d = 1 .. n
    BY <1>1, LenProperties
  <1> QED
    BY <1>1, <1>2

LEMMA ScenesType ==
    /\ WireBytes \in Nat /\ WireBytes >= 1 /\ ByteBits \in Nat /\ ByteBits >= 1
    /\ WireBits \in Nat /\ Half <= WireBits /\ WireBits <= WordBits
    /\ ByteBits * WireBytes = WireBits /\ WireBytes * ByteBits = WireBits
    /\ \A v \in Narrow : v \in Int /\ InRange(v, Half) /\ InRange(v, WireBytes * ByteBits)
    /\ \A v \in 0 .. AllOnes(WireBits) : v \in Int /\ InRange(v, WireBytes * ByteBits)
  <1>1. /\ WireBytes \in Nat /\ WireBytes >= 1 /\ ByteBits \in Nat /\ ByteBits >= 1
        /\ Half <= WireBits /\ WireBits <= WordBits
    BY ScenesAssumption, WordType
  <1>2. WireBits \in Nat
    BY <1>1, Product DEF WireBits
  <1>3. ByteBits * WireBytes = WireBits /\ WireBytes * ByteBits = WireBits
    BY <1>1 DEF WireBits
  <1>4. /\ AllOnes(Half) \in Nat /\ AllOnes(WireBits) \in Nat /\ AllOnes(Half) <= AllOnes(WireBits)
    <2>1. /\ Two[Half] \in Nat /\ Two[WireBits] \in Nat /\ Two[Half] <= Two[WireBits]
          /\ Two[Half] >= 1 /\ Two[WireBits] >= 1
      BY <1>1, <1>2, WordType, TwoEquation, TwoApart
    <2> QED
      BY <2>1 DEF AllOnes
  <1>5. \A v \in Narrow : v \in Int /\ InRange(v, Half) /\ InRange(v, WireBytes * ByteBits)
    BY <1>3, <1>4 DEF Narrow, InRange
  <1>6. \A v \in 0 .. AllOnes(WireBits) : v \in Int /\ InRange(v, WireBytes * ByteBits)
    BY <1>3, <1>4 DEF InRange
  <1> QED
    BY <1>1, <1>2, <1>3, <1>5, <1>6

\* A number of words, cut to its wire form.
LEMMA WordCut ==
    ASSUME NEW v \in Int
    PROVE  U64(v) \in Int /\ U64(v) % Two[WireBits] = v % Two[WireBits]
  <1>1. WireBits \in Nat /\ WordBits \in Nat /\ WireBits <= WordBits
    BY ScenesType, WordType
  <1>2. \A x \in Int : (x % Two[WordBits]) % Two[WireBits] = x % Two[WireBits]
    BY <1>1, Turns
  <1>3. U64(v) \in Int
    BY U64Word
  <1> QED
    BY <1>2, <1>3 DEF U64

LEMMA WireForm ==
    ASSUME NEW v \in Narrow
    PROVE  \E d \in [1 .. WireBytes -> Int] :
              /\ d = BigEndian(U64(v), WireBytes, ByteBits)
              /\ Pack(v, WireBytes, ByteBits) = {d}
              /\ Weighed(WireBytes, Two[ByteBits], d) = v % Two[WireBits]
  <1> DEFINE d == BigEndian(U64(v), WireBytes, ByteBits)
  <1>1. v \in Int /\ InRange(v, WireBytes * ByteBits)
    BY ScenesType
  <1>2. U64(v) \in Int /\ U64(v) % Two[WireBits] = v % Two[WireBits]
    BY <1>1, WordCut
  <1>3. /\ d \in [1 .. WireBytes -> 0 .. AllOnes(ByteBits)]
        /\ Weighed(WireBytes, Two[ByteBits], d) = U64(v) % Two[WireBits]
    BY <1>2, ScenesType, DigitsRead
  <1>4. d \in [1 .. WireBytes -> Int]
    <2>1. 0 .. AllOnes(ByteBits) \subseteq Int
      BY ScenesType, TwoEquation DEF AllOnes
    <2> QED
      BY <1>3, <2>1
  <1>5. Pack(v, WireBytes, ByteBits) = {d}
    BY <1>1 DEF Pack
  <1> QED
    BY <1>2, <1>3, <1>4, <1>5

LEMMA WireRead ==
    ASSUME NEW d \in [1 .. WireBytes -> Int]
    PROVE  Unpack(d, 1, WireBytes, ByteBits) = {Weighed(WireBytes, Two[ByteBits], d)}
  <1>1. Len(d) = WireBytes /\ WireBytes \in Nat /\ ByteBits \in Nat
    BY ScenesType, AsSequence
  <1>2. Stands(d, WireBytes, d, 1)
    <2>1. \A i \in 1 .. WireBytes : 1 - 1 + i = i
      OBVIOUS
    <2> QED
      BY <2>1 DEF Stands
  <1>3. 1 \in Nat /\ 1 >= 1 /\ Len(d) \in Int /\ 1 - 1 + WireBytes <= Len(d)
    BY <1>1
  <1> QED
    BY <1>1, <1>2, <1>3, ReadAt

\* Bytes the other way round.
Reversed(d) == [i \in 1 .. WireBytes |-> d[WireBytes + 1 - i]]

LEMMA SwapIs ==
    ASSUME NEW v \in Int, InRange(v, WireBytes * ByteBits)
    PROVE  LET d == BigEndian(U64(v), WireBytes, ByteBits)
           IN  /\ Swap(v, WireBytes, ByteBits) = {Weighed(WireBytes, Two[ByteBits], Reversed(d))}
               /\ d \in [1 .. WireBytes -> 0 .. AllOnes(ByteBits)]
               /\ Reversed(d) \in [1 .. WireBytes -> 0 .. AllOnes(ByteBits)]
               /\ Reversed(Reversed(d)) = d
               /\ Weighed(WireBytes, Two[ByteBits], d) = v % Two[WireBits]
  <1> DEFINE d == BigEndian(U64(v), WireBytes, ByteBits)
             r == Reversed(d)
  <1>1. U64(v) \in Int /\ U64(v) % Two[WireBits] = v % Two[WireBits] /\ WireBytes \in Nat
    BY WordCut, ScenesType
  <1>2. /\ d \in [1 .. WireBytes -> 0 .. AllOnes(ByteBits)]
        /\ Weighed(WireBytes, Two[ByteBits], d) = v % Two[WireBits]
    <2>1. WireBytes \in Nat /\ ByteBits \in Nat /\ ByteBits * WireBytes = WireBits
      BY ScenesType
    <2>2. /\ d \in [1 .. WireBytes -> 0 .. AllOnes(ByteBits)]
          /\ Weighed(WireBytes, Two[ByteBits], d) = U64(v) % Two[ByteBits * WireBytes]
      BY <1>1, <2>1, DigitsRead
    <2> QED
      BY <1>1, <2>1, <2>2
  <1>3. Swap(v, WireBytes, ByteBits) = Unpack([i \in 1 .. WireBytes |-> d[WireBytes + 1 - i]], 1, WireBytes, ByteBits)
    BY DEF Swap
  <1>4. Swap(v, WireBytes, ByteBits) = Unpack(r, 1, WireBytes, ByteBits)
    BY <1>3 DEF Reversed
  <1> HIDE DEF d
  <1>5. \A i \in 1 .. WireBytes : WireBytes + 1 - i \in 1 .. WireBytes /\ WireBytes + 1 - (WireBytes + 1 - i) = i
    BY <1>1
  <1>6. r \in [1 .. WireBytes -> 0 .. AllOnes(ByteBits)]
    BY <1>2, <1>5 DEF Reversed
  <1>7. Reversed(r) = d
    <2>1. \A i \in 1 .. WireBytes : r[WireBytes + 1 - i] = d[i]
      BY <1>5 DEF Reversed
    <2>2. Reversed(r) = [i \in 1 .. WireBytes |-> d[i]]
      BY <2>1 DEF Reversed
    <2> QED
      BY <1>2, <2>2
  <1> HIDE DEF r
  <1>8. r \in [1 .. WireBytes -> Int]
    <2>1. 0 .. AllOnes(ByteBits) \subseteq Int
      BY ScenesType, TwoEquation DEF AllOnes
    <2> QED
      BY <1>6, <2>1
  <1>9. Swap(v, WireBytes, ByteBits) = {Weighed(WireBytes, Two[ByteBits], r)}
    BY <1>4, <1>8, WireRead
  <1> QED
    BY <1>2, <1>6, <1>7, <1>9 DEF d, r

LEMMA SwapTwice ==
    ASSUME NEW v \in Narrow
    PROVE  \E s : /\ Swap(v, WireBytes, ByteBits) = {s}
                  /\ Swap(s, WireBytes, ByteBits) = {v % Two[WireBits]}
  <1> DEFINE d == BigEndian(U64(v), WireBytes, ByteBits)
             s == Weighed(WireBytes, Two[ByteBits], Reversed(d))
             c == BigEndian(U64(s), WireBytes, ByteBits)
  <1>1. v \in Int /\ InRange(v, WireBytes * ByteBits)
    BY ScenesType
  <1>2. /\ Swap(v, WireBytes, ByteBits) = {s}
        /\ Reversed(d) \in [1 .. WireBytes -> 0 .. AllOnes(ByteBits)]
        /\ Reversed(Reversed(d)) = d
        /\ Weighed(WireBytes, Two[ByteBits], d) = v % Two[WireBits]
    BY <1>1, SwapIs
  <1> HIDE DEF d
  <1>3. s \in 0 .. AllOnes(WireBits) /\ BigEndian(s, WireBytes, ByteBits) = Reversed(d)
    BY <1>2, ScenesType, DigitsKept
  <1> HIDE DEF s
  <1>4. s \in Int /\ InRange(s, WireBytes * ByteBits)
    BY <1>3, ScenesType
  <1>5. U64(s) = s
    <2>1. s % Two[WireBits] = s
      BY <1>3, <1>4, ScenesType, Turns
    <2>2. (s % Two[WireBits]) \in 0 .. AllOnes(WordBits)
      <3>1. Two[WireBits] \in Nat /\ Two[WordBits] \in Nat /\ Two[WireBits] <= Two[WordBits]
        BY ScenesType, WordType, TwoEquation, TwoApart
      <3> QED
        BY <1>3, <2>1, <3>1 DEF AllOnes
    <2>3. s \in 0 .. AllOnes(WordBits)
      BY <2>1, <2>2
    <2> QED
      BY <1>4, <2>3, WordType, Turns DEF U64
  <1>6. Swap(s, WireBytes, ByteBits) = {Weighed(WireBytes, Two[ByteBits], Reversed(c))}
    BY <1>4, SwapIs
  <1>7. Reversed(c) = d
    BY <1>2, <1>3, <1>5
  <1> QED
    BY <1>2, <1>6, <1>7

\* Copies of a number's wire form into a buffer: at the places that have room.
LEMMA CopyIsRead ==
    ASSUME NEW d \in [1 .. WireBytes -> Int], NEW at \in 1 .. 4
    PROVE  LET buffer == Zeros(WireBytes + 2)
               copies == memcpy(buffer, at, d, 1, WireBytes)
           IN  /\ copies = {} <=> at = 4
               /\ \A c \in copies : Unpack(c, at, WireBytes, ByteBits) = {Weighed(WireBytes, Two[ByteBits], d)}
  <1> DEFINE buffer == Zeros(WireBytes + 2)
             copies == memcpy(buffer, at, d, 1, WireBytes)
             c == Write(buffer, at - 1, Cut(d, 1 - 1, WireBytes))
  <1>1. WireBytes \in Nat /\ WireBytes >= 1 /\ ByteBits \in Nat /\ d \in Seq(Int) /\ Len(d) = WireBytes
    BY ScenesType, AsSequence
  <1>2. Len(buffer) = WireBytes + 2 /\ DOMAIN buffer = 1 .. WireBytes + 2
    <2>1. buffer \in [1 .. WireBytes + 2 -> Int]
      BY DEF Zeros
    <2>2. WireBytes + 2 \in Nat
      BY <1>1
    <2> QED
      BY <2>1, <2>2, AsSequence
  <1>3. Cut(d, 1 - 1, WireBytes) = d
    <2>1. SubSeq(d, 1, Len(d)) = d
      BY <1>1, SubSeqFull
    <2>2. (1 - 1) + 1 = 1 /\ (1 - 1) + WireBytes = WireBytes
      BY <1>1
    <2> QED
      BY <1>1, <2>1, <2>2 DEF Cut
  <1>4. copies = IF at = 4 THEN {} ELSE {c}
    BY <1>1, <1>2 DEF memcpy
  <1>5. c = [i \in 1 .. WireBytes + 2 |-> IF i \in at .. at - 1 + WireBytes THEN d[i - (at - 1)] ELSE buffer[i]]
    <2>1. (at - 1) + 1 = at /\ (at - 1) + Len(d) = at - 1 + WireBytes
      BY <1>1
    <2> QED
      BY <1>2, <1>3, <2>1 DEF Write
  <1> HIDE DEF buffer, c
  <1>6. ASSUME at # 4 PROVE Unpack(c, at, WireBytes, ByteBits) = {Weighed(WireBytes, Two[ByteBits], d)}
    <2>1. Len(c) = WireBytes + 2
      <3>1. c \in [1 .. WireBytes + 2 -> {c[i] : i \in 1 .. WireBytes + 2}] /\ WireBytes + 2 \in Nat
        BY <1>1, <1>5
      <3> QED
        BY <3>1, AsSequence
    <2>2. ASSUME NEW i \in 1 .. WireBytes PROVE c[at - 1 + i] = d[i]
      <3>1. /\ at - 1 + i \in 1 .. WireBytes + 2 /\ at - 1 + i \in at .. at - 1 + WireBytes
            /\ (at - 1 + i) - (at - 1) = i
        BY <1>1, <1>6
      <3> QED
        BY <1>5, <3>1
    <2>3. at \in Nat /\ at >= 1 /\ Len(c) \in Int /\ at - 1 + WireBytes <= Len(c)
      BY <1>1, <1>6, <2>1
    <2>4. Stands(d, WireBytes, c, at)
      BY <2>2 DEF Stands
    <2> QED
      BY <1>1, <2>3, <2>4, ReadAt
  <1> QED
    BY <1>4, <1>6 DEF buffer

\* Quotients are cut towards zero.
LEMMA QuotientsCut ==
    ASSUME NEW v \in Int, NEW u \in Int
    PROVE  \A d \in divint(v, u) :
              \/ u = 0 /\ d = [is |-> "nil"]
              \/ v = Lowest /\ u = -1
              \/ LET rest == v - (d.n * u)
                 IN  d.is = "number" /\ Size(rest) < Size(u) /\ rest * v >= 0
  <1>1. CASE u = 0 \/ (v = Lowest /\ u = -1)
    BY <1>1 DEF divint
  <1>2. CASE u # 0 /\ ~ (v = Lowest /\ u = -1)
    <2> DEFINE Abs(x) == IF x < 0 THEN - x ELSE x
               p == Abs(v) \div Abs(u)
               q == IF (v < 0) = (u < 0) THEN p ELSE - p
    <2>1. divint(v, u) = {[is |-> "number", n |-> q]}
      BY <1>2 DEF divint, Towards0
    <2>2. PICK a \in Nat, b \in Nat : a = Abs(v) /\ b = Abs(u) /\ b >= 1
      BY <1>2
    <2>3. PICK k \in Int, r \in Nat : k = p /\ r < b /\ a = b * k + r
      <3>1. b >= 1
        BY <2>2
      <3>2. a % b \in 0 .. b - 1 /\ a \div b \in Int /\ a = b * (a \div b) + (a % b)
        BY <3>1, Quotient
      <3>3. a % b \in Nat /\ a % b < b
        BY <3>2
      <3> QED
        BY <2>2, <3>2, <3>3
    <2>4. PICK x \in Int : x = b * k
      BY <2>3
    <2>5. q * u = IF v < 0 THEN - x ELSE x
      <3>1. CASE v < 0 /\ u < 0
        <4>1. q = k /\ u = - b
          BY <2>2, <2>3, <3>1
        <4>2. k * (- b) = - (b * k)
          BY <2>3
        <4> QED
          BY <2>4, <3>1, <4>1, <4>2
      <3>2. CASE v < 0 /\ ~ (u < 0)
        <4>1. q = - k /\ u = b
          BY <2>2, <2>3, <3>2
        <4>2. (- k) * b = - (b * k)
          BY <2>3
        <4> QED
          BY <2>4, <3>2, <4>1, <4>2
      <3>3. CASE ~ (v < 0) /\ u < 0
        <4>1. q = - k /\ u = - b
          BY <2>2, <2>3, <3>3
        <4>2. (- k) * (- b) = b * k
          BY <2>3
        <4> QED
          BY <2>4, <3>3, <4>1, <4>2
      <3>4. CASE ~ (v < 0) /\ ~ (u < 0)
        <4>1. q = k /\ u = b
          BY <2>2, <2>3, <3>4
        <4>2. k * b = b * k
          BY <2>3
        <4> QED
          BY <2>4, <3>4, <4>1, <4>2
      <3> QED
        BY <3>1, <3>2, <3>3, <3>4
    <2> DEFINE rest == v - (q * u)
    <2>a. v = IF v < 0 THEN - a ELSE a
      BY <2>2
    <2> HIDE DEF q
    <2>6. rest = IF v < 0 THEN - r ELSE r
      BY <2>3, <2>4, <2>5, <2>a
    <2> HIDE DEF rest
    <2>7. Size(rest) < Size(u)
      BY <2>2, <2>3, <2>6 DEF Size
    <2>8. rest * v >= 0
      <3>1. rest * v = r * a
        <4>1. CASE v < 0
          <5>1. rest = - r /\ v = - a
            BY <2>2, <2>6, <4>1
          <5>2. (- r) * (- a) = r * a
            OBVIOUS
          <5> QED
            BY <5>1, <5>2
        <4>2. CASE ~ (v < 0)
          BY <2>2, <2>6, <4>2
        <4> QED
          BY <4>1, <4>2
      <3>2. r * a \in Nat
        BY Product
      <3> QED
        BY <3>1, <3>2
    <2> QED
      BY <1>2, <2>1, <2>7, <2>8 DEF rest
  <1> QED
    BY <1>1, <1>2

\* A sum scene: what its action sets up.
SumScene(s) == s.kind = "sum" => \E n \in 1 .. MaxTerms : s.vs \in [1 .. n -> Narrow]

LEMMA Regrouped ==
    ASSUME NEW vs \in Seq(Int), vs # <<>>, \A i \in 1 .. Len(vs) : InRange(vs[i], Half)
    PROVE  uxadd(<<Only(uxadd(Tail(vs), Half)), vs[1]>>, Half) = uxadd(vs, Half)
  <1> DEFINE M == Two[Half]
             rest == Weighed(Len(Tail(vs)), 1, Tail(vs))
             x == rest % M
  <1>1. M \in Nat /\ M >= 1 /\ AllOnes(Half) = M - 1
    BY WordType, TwoEquation DEF AllOnes
  <1>2. Weighed(Len(vs), 1, vs) = vs[1] + rest /\ rest \in Int
    BY WeighedTail
  <1>3. Tail(vs) \in Seq(Int) /\ \A i \in 1 .. Len(Tail(vs)) : InRange(Tail(vs)[i], Half)
    <2>1. /\ Tail(vs) \in Seq(Int) /\ Len(Tail(vs)) = Len(vs) - 1
          /\ \A i \in 1 .. Len(Tail(vs)) : Tail(vs)[i] = vs[i + 1]
      BY HeadTailProperties
    <2>2. Len(Tail(vs)) \in Nat /\ Len(vs) \in Nat
      BY <2>1, LenProperties
    <2>3. \A i \in 1 .. Len(Tail(vs)) : i + 1 \in 1 .. Len(vs)
      BY <2>1, <2>2
    <2> QED
      BY <2>1, <2>3
  <1>4. uxadd(Tail(vs), Half) = {x}
    BY <1>3, UxaddIs
  <1>5. vs[1] \in Int /\ InRange(vs[1], Half)
    <2>1. Len(vs) \in Nat /\ Len(vs) # 0
      BY EmptySeq, LenProperties
    <2>2. 1 \in 1 .. Len(vs)
      BY <2>1
    <2> QED
      BY <2>2, ElementOfSeq
  <1> HIDE DEF rest
  <1>6. x \in 0 .. M - 1
    BY <1>1, <1>2, Quotient
  <1> HIDE DEF x
  <1>7. x \in Int /\ InRange(x, Half)
    BY <1>1, <1>6 DEF InRange
  <1>8. Only({x}) = x
    BY DEF Only
  <1> DEFINE both == <<x, vs[1]>>
  <1>9. /\ both \in Seq(Int) /\ Len(both) = 2
        /\ both[1] = x /\ both[2] = vs[1]
    BY <1>5, <1>7
  <1>10. \A i \in 1 .. Len(both) : InRange(both[i], Half)
    BY <1>5, <1>7, <1>9
  <1>11. Weighed(Len(both), 1, both) = x + vs[1]
    BY <1>5, <1>7, WeighedPair
  <1> HIDE DEF both
  <1>12. uxadd(both, Half) = {(x + vs[1]) % M}
    BY <1>9, <1>10, <1>11, UxaddIs
  <1>13. (x + vs[1]) % M = (rest + vs[1]) % M
    BY <1>1, <1>2, <1>5, AddedLater DEF x
  <1>14. uxadd(vs, Half) = {(vs[1] + rest) % M}
    BY <1>2, UxaddIs
  <1>15. vs[1] + rest = rest + vs[1]
    BY <1>2, <1>5
  <1> QED
    BY <1>4, <1>8, <1>12, <1>13, <1>14, <1>15 DEF both

LEMMA OneByOne ==
    ASSUME NEW v \in Narrow
    PROVE  LET wire == Only(Pack(v, WireBytes, ByteBits))
               kept == v % Two[WireBits]
               buffer == Zeros(WireBytes + 2)
           IN  /\ Unpack(wire, 1, WireBytes, ByteBits) = {kept}
               /\ Swap(Only(Swap(v, WireBytes, ByteBits)), WireBytes, ByteBits) = {kept}
               /\ \A at \in 1 .. 4 :
                     /\ \A d \in memcpy(buffer, at, wire, 1, WireBytes) :
                           Unpack(d, at, WireBytes, ByteBits) = {kept}
                     /\ memcpy(buffer, at, wire, 1, WireBytes) = {} <=> at = 4
  <1>1. PICK d \in [1 .. WireBytes -> Int] :
              /\ Pack(v, WireBytes, ByteBits) = {d}
              /\ Weighed(WireBytes, Two[ByteBits], d) = v % Two[WireBits]
    BY WireForm
  <1>2. \A x : Only({x}) = x
    BY DEF Only
  <1>3. Only(Pack(v, WireBytes, ByteBits)) = d
    BY <1>1, <1>2
  <1>4. Unpack(d, 1, WireBytes, ByteBits) = {v % Two[WireBits]}
    BY <1>1, WireRead
  <1>5. Swap(Only(Swap(v, WireBytes, ByteBits)), WireBytes, ByteBits) = {v % Two[WireBits]}
    <2>1. PICK s : /\ Swap(v, WireBytes, ByteBits) = {s}
                   /\ Swap(s, WireBytes, ByteBits) = {v % Two[WireBits]}
      BY SwapTwice
    <2> QED
      BY <1>2, <2>1
  <1>6. ASSUME NEW at \in 1 .. 4
        PROVE  /\ \A c \in memcpy(Zeros(WireBytes + 2), at, d, 1, WireBytes) :
                     Unpack(c, at, WireBytes, ByteBits) = {v % Two[WireBits]}
               /\ memcpy(Zeros(WireBytes + 2), at, d, 1, WireBytes) = {} <=> at = 4
    BY <1>1, CopyIsRead
  <1> QED
    BY <1>3, <1>4, <1>5, <1>6

LEMMA SumsAreWrapped ==
    ASSUME SumScene(scene)
    PROVE  SumsWrap
  <1> SUFFICES ASSUME scene.kind = "sum" PROVE SumsWrap
    BY DEF SumsWrap
  <1>1. PICK n \in 1 .. MaxTerms : scene.vs \in [1 .. n -> Narrow]
    BY DEF SumScene
  <1> DEFINE vs == scene.vs
  <1>2. n \in Nat /\ n # 0
    BY ScenesAssumption
  <1>3. vs \in [1 .. n -> Int] /\ vs \in Seq(Int) /\ Len(vs) = n /\ DOMAIN vs = 1 .. n /\ vs # <<>>
    <2>1. Narrow \subseteq Int
      BY ScenesType
    <2>2. vs \in [1 .. n -> Int]
      BY <1>1, <2>1
    <2>3. vs \in Seq(Int) /\ Len(vs) = n
      BY <1>2, <2>2, AsSequence
    <2> QED
      BY <1>2, <2>2, <2>3
  <1>4. \A i \in 1 .. n : vs[i] \in Narrow /\ vs[i] \in Int /\ InRange(vs[i], Half)
    BY <1>1, ScenesType
  <1> HIDE DEF vs
  <1>5. uxadd(vs, Half) = {Weighed(Len(vs), 1, vs) % Two[Half]}
    BY <1>3, <1>4, UxaddIs
  <1>6. uxadd(<<Only(uxadd(Tail(vs), Half)), vs[1]>>, Half) = uxadd(vs, Half)
    BY <1>3, <1>4, Regrouped
  <1>7. ASSUME NEW i \in DOMAIN vs
        PROVE  LET wire == Only(Pack(vs[i], WireBytes, ByteBits))
                   kept == vs[i] % Two[WireBits]
                   buffer == Zeros(WireBytes + 2)
               IN  /\ Unpack(wire, 1, WireBytes, ByteBits) = {kept}
                   /\ Swap(Only(Swap(vs[i], WireBytes, ByteBits)), WireBytes, ByteBits) = {kept}
                   /\ \A at \in 1 .. 4 :
                         /\ \A d \in memcpy(buffer, at, wire, 1, WireBytes) :
                               Unpack(d, at, WireBytes, ByteBits) = {kept}
                         /\ memcpy(buffer, at, wire, 1, WireBytes) = {} <=> at = 4
    BY <1>3, <1>4, OneByOne
  <1>8. ASSUME NEW i \in DOMAIN vs, NEW j \in DOMAIN vs
        PROVE  \A v \in {vs[i], Lowest} : \A d \in divint(v, vs[j]) :
                  \/ vs[j] = 0 /\ d = [is |-> "nil"]
                  \/ v = Lowest /\ vs[j] = -1
                  \/ LET rest == v - (d.n * vs[j])
                     IN  d.is = "number" /\ Size(rest) < Size(vs[j]) /\ rest * v >= 0
    <2>1. vs[i] \in Int /\ vs[j] \in Int
      BY <1>3, <1>4
    <2>2. WordBits - 1 \in Nat
      BY WordType
    <2>3. Lowest \in Int
      BY <2>2, TwoEquation DEF Lowest
    <2> QED
      BY <2>1, <2>3, QuotientsCut
  <1> QED
    BY <1>5, <1>6, <1>7, <1>8 DEF SumsWrap, vs

-----------------------------------------------------------------------------
(* The scenes.                                                             *)

OtherScene ==
    scene.kind \in {"hello", "request", "reply", "fake", "initial", "frames", "probe", "dns", "packet", "fragments",
                    "sort", "group"}

\* A step sets up a scene of one kind.
LEMMA NextScene ==
    ASSUME [Next]_scene
    PROVE  \/ Fields \/ Sums \/ Load \/ Reload \/ UNCHANGED scene
           \/ (CommandLine \/ More) /\ scene'.kind = "options"
           \/ OtherScene'
  <1>1. CASE HelloCut \/ RequestCut \/ ReplyTo \/ Fake
    <2>1. CASE HelloCut
      <3>1. scene'.kind = "hello"
        BY <2>1 DEF HelloCut
      <3> QED
        BY <3>1 DEF OtherScene
    <2>2. CASE RequestCut
      <3>1. scene'.kind = "request"
        BY <2>2 DEF RequestCut
      <3> QED
        BY <3>1 DEF OtherScene
    <2>3. CASE ReplyTo
      <3>1. scene'.kind = "reply"
        BY <2>3 DEF ReplyTo
      <3> QED
        BY <3>1 DEF OtherScene
    <2>4. CASE Fake
      <3>1. scene'.kind = "fake"
        BY <2>4 DEF Fake
      <3> QED
        BY <3>1 DEF OtherScene
    <2> QED
      BY <1>1, <2>1, <2>2, <2>3, <2>4
  <1>2. CASE Sealing \/ Cutting \/ Probing \/ DnsReply
    <2>1. CASE Sealing
      <3>1. scene'.kind = "initial"
        BY <2>1 DEF Sealing
      <3> QED
        BY <3>1 DEF OtherScene
    <2>2. CASE Cutting
      <3>1. scene'.kind = "frames"
        BY <2>2 DEF Cutting
      <3> QED
        BY <3>1 DEF OtherScene
    <2>3. CASE Probing
      <3>1. scene'.kind = "probe"
        BY <2>3 DEF Probing
      <3> QED
        BY <3>1 DEF OtherScene
    <2>4. CASE DnsReply
      <3>1. scene'.kind = "dns"
        BY <2>4 DEF DnsReply
      <3> QED
        BY <3>1 DEF OtherScene
    <2> QED
      BY <1>2, <2>1, <2>2, <2>3, <2>4
  <1>3. CASE Rebuild \/ Fragment
    <2>1. CASE Rebuild
      <3>1. scene'.kind = "packet"
        BY <2>1 DEF Rebuild
      <3> QED
        BY <3>1 DEF OtherScene
    <2>2. CASE Fragment
      <3>1. scene'.kind = "fragments"
        BY <2>2 DEF Fragment
      <3> QED
        BY <3>1 DEF OtherScene
    <2> QED
      BY <1>3, <2>1, <2>2
  <1>4. CASE Sort \/ Group
    <2>1. CASE Sort
      <3>1. scene'.kind = "sort"
        BY <2>1 DEF Sort
      <3> QED
        BY <3>1 DEF OtherScene
    <2>2. CASE Group
      <3>1. scene'.kind = "group"
        BY <2>2 DEF Group
      <3> QED
        BY <3>1 DEF OtherScene
    <2> QED
      BY <1>4, <2>1, <2>2
  <1>5. CASE CommandLine \/ More
    <2>1. CASE CommandLine
      <3>1. scene'.kind = "options"
        BY <2>1 DEF CommandLine
      <3> QED
        BY <2>1, <3>1
    <2>2. CASE More
      <3>1. scene.kind = "options" /\ scene'.kind = scene.kind
        BY <2>2 DEF More
      <3> QED
        BY <2>2, <3>1
    <2> QED
      BY <1>5, <2>1, <2>2
  <1> QED
    BY <1>1, <1>2, <1>3, <1>4, <1>5 DEF Next

NumberScenes == FieldScene(scene) /\ SumScene(scene)

\* Words of any width, fields of them that are narrower than an integer of the
\* build's Lua, sums of any number of terms, numbers of any wire form and
\* quotients, except that of the least number by -1, behave as scripts expect
\* (nfq2/lua.c).
THEOREM NumbersAlwaysHold == Spec => []NumbersHold
  <1>1. Init => NumberScenes
    BY DEF Init, NumberScenes, FieldScene, SumScene
  <1>2. NumberScenes /\ [Next]_scene => NumberScenes'
    <2> SUFFICES ASSUME NumberScenes, [Next]_scene PROVE NumberScenes'
      OBVIOUS
    <2>1. CASE Fields
      <3>1. PICK v \in Wide, set \in Wide, from \in 0 .. WideBits - 1, to \in 0 .. WideBits - 1 :
                   scene' = [kind |-> "field", v |-> v, set |-> set, from |-> from, to |-> to]
        BY <2>1 DEF Fields
      <3> QED
        BY <3>1 DEF NumberScenes, FieldScene, SumScene
    <2>2. CASE Sums
      <3>1. PICK n \in 1 .. MaxTerms : \E vs \in [1 .. n -> Narrow] : scene' = [kind |-> "sum", vs |-> vs]
        BY <2>2 DEF Sums
      <3> QED
        BY <3>1 DEF NumberScenes, FieldScene, SumScene
    <2>3. CASE Load \/ Reload
      <3>1. scene'.kind = "load"
        BY <2>3 DEF Load, Reload
      <3> QED
        BY <3>1 DEF NumberScenes, FieldScene, SumScene
    <2>4. CASE UNCHANGED scene
      BY <2>4 DEF NumberScenes, FieldScene, SumScene
    <2>5. CASE scene'.kind = "options" \/ OtherScene'
      BY <2>5 DEF NumberScenes, FieldScene, SumScene, OtherScene
    <2> QED
      BY <2>1, <2>2, <2>3, <2>4, <2>5, NextScene
  <1>3. NumberScenes => NumbersHold
    BY FieldsAreSets, SumsAreWrapped DEF NumberScenes, NumbersHold
  <1> QED
    BY <1>1, <1>2, <1>3, PTL DEF Spec

-----------------------------------------------------------------------------
(* Lists of addresses: trees of bits, of any width, and what loads them.    *)

Bits(w) == {e \in Seq({0, 1}) : Len(e) <= w}
StartOf(e, a) == \A i \in 1 .. Len(e) : e[i] = a[i]

LEMMA AddrIsBits ==
    ASSUME NEW w \in Nat, NEW a \in [1 .. w -> {0, 1}]
    PROVE  a \in Bits(w) /\ Len(a) = w
  <1>1. a \in Seq({0, 1}) /\ Len(a) = w
    OBVIOUS
  <1> QED
    BY <1>1 DEF Bits

LEMMA PrefixIs ==
    ASSUME NEW w \in Nat, NEW s \in Bits(w), NEW t \in Bits(w)
    PROVE  IsPrefix(s, t) <=> Len(s) <= Len(t) /\ StartOf(s, t)
  <1>1. s \in Seq({0, 1}) /\ t \in Seq({0, 1}) /\ Len(s) \in Nat /\ Len(t) \in Nat
    BY DEF Bits
  <1>2. CASE ~ (Len(s) <= Len(t))
    BY <1>2 DEF IsPrefix
  <1>3. CASE Len(s) <= Len(t)
    <2>1. /\ SubSeq(s, 1, Len(s)) \in Seq({0, 1}) /\ Len(SubSeq(s, 1, Len(s))) = Len(s)
          /\ \A i \in 1 .. Len(s) : SubSeq(s, 1, Len(s))[i] = s[i]
      BY <1>1
    <2>2. /\ SubSeq(t, 1, Len(s)) \in Seq({0, 1}) /\ Len(SubSeq(t, 1, Len(s))) = Len(s)
          /\ \A i \in 1 .. Len(s) : SubSeq(t, 1, Len(s))[i] = t[i]
      BY <1>1, <1>3
    <2>3. SubSeq(s, 1, Len(s)) = SubSeq(t, 1, Len(s)) <=> StartOf(s, t)
      <3>1. ASSUME StartOf(s, t) PROVE SubSeq(s, 1, Len(s)) = SubSeq(t, 1, Len(s))
        BY <2>1, <2>2, <3>1, SeqEqual DEF StartOf
      <3>2. ASSUME SubSeq(s, 1, Len(s)) = SubSeq(t, 1, Len(s)) PROVE StartOf(s, t)
        BY <2>1, <2>2, <3>2 DEF StartOf
      <3> QED
        BY <3>1, <3>2
    <2> QED
      BY <1>3, <2>3 DEF IsPrefix
  <1> QED
    BY <1>2, <1>3

\* An element is the same as an address if it is how the address starts.
LEMMA SameIs ==
    ASSUME NEW w \in Nat, NEW e \in Bits(w), NEW a \in [1 .. w -> {0, 1}]
    PROVE  SameBits(e, a) <=> StartOf(e, a)
  <1>1. a \in Bits(w) /\ Len(a) = w /\ Len(e) \in Nat /\ Len(e) <= w
    BY AddrIsBits DEF Bits
  <1>2. IsPrefix(e, a) <=> StartOf(e, a)
    BY <1>1, PrefixIs
  <1>3. ASSUME IsPrefix(a, e) PROVE StartOf(e, a)
    <2>1. Len(a) <= Len(e) /\ StartOf(a, e)
      BY <1>1, <1>3, PrefixIs
    <2>2. Len(e) = w
      BY <1>1, <2>1
    <2> QED
      BY <1>1, <2>1, <2>2 DEF StartOf
  <1> QED
    BY <1>2, <1>3 DEF SameBits

\* What is added is found, and what was found still is.
LEMMA AddIs ==
    ASSUME NEW w \in Nat, NEW tree \in SUBSET Bits(w), NEW e \in Bits(w)
    PROVE  /\ kavl_bit_add(tree, e) \in SUBSET Bits(w)
           /\ kavl_bit_add(tree, e) # {}
           /\ \A a \in [1 .. w -> {0, 1}] :
                 kavl_bit_get(kavl_bit_add(tree, e), a) <=> kavl_bit_get(tree, a) \/ StartOf(e, a)
  <1>1. \A v \in Bits(w) : Len(v) \in Nat
    BY DEF Bits
  <1>2. CASE \E v \in tree : SameBits(v, e) /\ Len(v) <= Len(e)
    <2>1. kavl_bit_add(tree, e) = tree
      BY <1>2 DEF kavl_bit_add
    <2>2. PICK v \in tree : SameBits(v, e) /\ Len(v) <= Len(e)
      BY <1>2
    <2>3. StartOf(v, e)
      <3>1. CASE IsPrefix(v, e)
        BY <3>1, PrefixIs
      <3>2. CASE IsPrefix(e, v)
        <4>1. Len(e) <= Len(v) /\ StartOf(e, v)
          BY <3>2, PrefixIs
        <4>2. Len(e) = Len(v)
          BY <1>1, <2>2, <4>1
        <4> QED
          BY <4>1, <4>2 DEF StartOf
      <3> QED
        BY <2>2, <3>1, <3>2 DEF SameBits
    <2>4. ASSUME NEW a \in [1 .. w -> {0, 1}], StartOf(e, a) PROVE kavl_bit_get(tree, a)
      <3>1. StartOf(v, a)
        <4>1. \A i \in 1 .. Len(v) : i \in 1 .. Len(e)
          BY <1>1, <2>2
        <4> QED
          BY <2>3, <2>4, <4>1 DEF StartOf
      <3> QED
        BY <3>1, SameIs DEF kavl_bit_get
    <2> QED
      BY <2>1, <2>2, <2>4
  <1>3. CASE ~ \E v \in tree : SameBits(v, e) /\ Len(v) <= Len(e)
    <2>1. kavl_bit_add(tree, e) = {v \in tree : ~ SameBits(v, e)} \cup {e}
      BY <1>3 DEF kavl_bit_add
    <2>2. ASSUME NEW a \in [1 .. w -> {0, 1}], NEW v \in tree, SameBits(v, e), SameBits(v, a) PROVE StartOf(e, a)
      <3>1. StartOf(v, a)
        BY <2>2, SameIs
      <3>2. Len(e) <= Len(v)
        BY <1>1, <1>3, <2>2
      <3>3. StartOf(e, v)
        <4>1. CASE IsPrefix(e, v)
          BY <4>1, PrefixIs
        <4>2. CASE IsPrefix(v, e)
          <5>1. Len(v) <= Len(e) /\ StartOf(v, e)
            BY <4>2, PrefixIs
          <5>2. Len(e) = Len(v)
            BY <1>1, <3>2, <5>1
          <5> QED
            BY <5>1, <5>2 DEF StartOf
        <4> QED
          BY <2>2, <4>1, <4>2 DEF SameBits
      <3>4. \A i \in 1 .. Len(e) : i \in 1 .. Len(v)
        BY <1>1, <3>2
      <3> QED
        BY <3>1, <3>3, <3>4 DEF StartOf
    <2>3. ASSUME NEW a \in [1 .. w -> {0, 1}]
          PROVE  kavl_bit_get(kavl_bit_add(tree, e), a) <=> kavl_bit_get(tree, a) \/ StartOf(e, a)
      <3>1. ASSUME kavl_bit_get(kavl_bit_add(tree, e), a) PROVE kavl_bit_get(tree, a) \/ StartOf(e, a)
        BY <2>1, <3>1, SameIs DEF kavl_bit_get
      <3>2. ASSUME StartOf(e, a) PROVE kavl_bit_get(kavl_bit_add(tree, e), a)
        BY <2>1, <3>2, SameIs DEF kavl_bit_get
      <3>3. ASSUME kavl_bit_get(tree, a) PROVE kavl_bit_get(kavl_bit_add(tree, e), a)
        <4>1. PICK v \in tree : SameBits(v, a)
          BY <3>3 DEF kavl_bit_get
        <4>2. CASE SameBits(v, e)
          BY <2>2, <3>2, <4>1, <4>2
        <4>3. CASE ~ SameBits(v, e)
          BY <2>1, <4>1, <4>3 DEF kavl_bit_get
        <4> QED
          BY <4>2, <4>3
      <3> QED
        BY <3>1, <3>2, <3>3
    <2> QED
      BY <2>1, <2>3
  <1> QED
    BY <1>2, <1>3

\* A line that can be read is an address or a subnet of its family.
Readable(line) == line.is \in Families /\ (line.len = NoLen \/ line.len <= Width[line.is])
ElementOf(line) == SubSeq(line.addr, 1, IF line.len = NoLen THEN Width[line.is] ELSE line.len)

LEMMA LineIs ==
    ASSUME NEW line \in Lines, Readable(line)
    PROVE  /\ ElementOf(line) \in Bits(Width[line.is])
           /\ \A a \in FamilyAddrs(line.is) : StartOf(ElementOf(line), a) <=> SaysLine(line, line.is, a)
           /\ \E a \in FamilyAddrs(line.is) : SaysLine(line, line.is, a)
  <1> DEFINE w == Width[line.is]
             len == IF line.len = NoLen THEN w ELSE line.len
  <1>1. w \in Nat /\ line.addr \in [1 .. w -> {0, 1}] /\ line.len \in Nat \cup {NoLen}
    BY WidthAssumption, ListScenesAssumption DEF Readable, Families, FamilyAddrs
  <1>2. len \in 0 .. w
    BY <1>1 DEF Readable, NoLen
  <1>3. line.addr \in Seq({0, 1}) /\ Len(line.addr) = w
    BY <1>1
  <1>4. /\ ElementOf(line) \in Seq({0, 1}) /\ Len(ElementOf(line)) = len
        /\ \A i \in 1 .. len : ElementOf(line)[i] = line.addr[i]
    BY <1>2, <1>3 DEF ElementOf
  <1>5. ElementOf(line) \in Bits(w)
    BY <1>2, <1>4 DEF Bits
  <1>6. ASSUME NEW a \in [1 .. w -> {0, 1}] PROVE StartOf(ElementOf(line), a) <=> SaysLine(line, line.is, a)
    <2>1. a \in Seq({0, 1}) /\ Len(a) = w
      BY <1>1, <1>6, AddrIsBits DEF Bits
    <2>2. StartOf(ElementOf(line), a) <=> \A i \in 1 .. len : line.addr[i] = a[i]
      BY <1>4 DEF StartOf
    <2>3. CASE line.len = NoLen
      <3>1. len = w /\ NoLen \notin 0 .. w
        BY <1>1, <2>3 DEF NoLen
      <3>2. SaysLine(line, line.is, a) <=> line.addr = a
        BY <2>3, <3>1 DEF SaysLine
      <3>3. line.addr = a <=> \A i \in 1 .. w : line.addr[i] = a[i]
        BY <1>1
      <3> QED
        BY <2>2, <3>1, <3>2, <3>3
    <2>4. CASE line.len # NoLen
      <3>1. len = line.len
        BY <2>4
      <3>2. SaysLine(line, line.is, a) <=> SubSeq(line.addr, 1, len) = SubSeq(a, 1, len)
        BY <1>2, <2>4, <3>1 DEF SaysLine
      <3>3. /\ SubSeq(line.addr, 1, len) \in Seq({0, 1}) /\ Len(SubSeq(line.addr, 1, len)) = len
            /\ \A i \in 1 .. len : SubSeq(line.addr, 1, len)[i] = line.addr[i]
        BY <1>2, <1>3
      <3>4. /\ SubSeq(a, 1, len) \in Seq({0, 1}) /\ Len(SubSeq(a, 1, len)) = len
            /\ \A i \in 1 .. len : SubSeq(a, 1, len)[i] = a[i]
        BY <1>2, <2>1
      <3> HIDE DEF len
      <3>5. SubSeq(line.addr, 1, len) = SubSeq(a, 1, len) <=> \A i \in 1 .. len : line.addr[i] = a[i]
        <4>1. ASSUME \A i \in 1 .. len : line.addr[i] = a[i] PROVE SubSeq(line.addr, 1, len) = SubSeq(a, 1, len)
          BY <3>3, <3>4, <4>1, SeqEqual
        <4>2. ASSUME SubSeq(line.addr, 1, len) = SubSeq(a, 1, len) PROVE \A i \in 1 .. len : line.addr[i] = a[i]
          BY <3>3, <3>4, <4>2
        <4> QED
          BY <4>1, <4>2
      <3> QED
        BY <2>2, <3>2, <3>5
    <2> QED
      BY <2>3, <2>4
  <1>7. SaysLine(line, line.is, line.addr)
    <2>1. StartOf(ElementOf(line), line.addr)
      BY <1>4 DEF StartOf
    <2> QED
      BY <1>1, <1>6, <2>1
  <1> QED
    BY <1>1, <1>5, <1>6, <1>7 DEF FamilyAddrs

\* A line that cannot be read says nothing.
LEMMA UnreadableSaysNothing ==
    ASSUME NEW line \in Lines, ~ Readable(line), NEW f \in Families, NEW a
    PROVE  ~ SaysLine(line, f, a)
  <1> SUFFICES ASSUME line.is = f, line.len \in 0 .. Width[f] PROVE FALSE
    BY DEF SaysLine, Readable
  <1> QED
    BY WidthAssumption DEF Readable, Families

\* The trees of all families, and what they are after the first k lines.
Trees == {t \in [Families -> SUBSET Seq({0, 1})] : \A f \in Families : t[f] \in SUBSET Bits(Width[f])}

Loaded(lines, t, k) ==
    /\ t \in Trees
    /\ \A f \in Families :
          /\ \A a \in FamilyAddrs(f) : kavl_bit_get(t[f], a) <=> \E i \in 1 .. k : SaysLine(lines[i], f, a)
          /\ t[f] # {} <=> \E i \in 1 .. k : \E a \in FamilyAddrs(f) : SaysLine(lines[i], f, a)

LEMMA AddpoolIs ==
    ASSUME NEW ips \in Trees, NEW line \in Lines
    PROVE  /\ addpool(ips, line) \in Trees
           /\ \A f \in Families :
                 addpool(ips, line)[f] = IF Readable(line) /\ line.is = f THEN kavl_bit_add(ips[f], ElementOf(line))
                                         ELSE ips[f]
  <1> DEFINE cidrs == IF line.is = "comment" THEN {} ELSE parse_cidr(line)
             mine(f) == {c.bits : c \in {c \in cidrs : c.family = f}}
             new == addpool(ips, line)
  <1>1. new = [f \in Families |-> IF mine(f) = {} THEN ips[f] ELSE kavl_bit_add(ips[f], CHOOSE b \in mine(f) : TRUE)]
    BY DEF addpool
  <1>2. ASSUME Readable(line) PROVE cidrs = {[family |-> line.is, bits |-> ElementOf(line)]}
    <2>1. line.is \in Families /\ line.is # "comment"
      BY <1>2, WidthAssumption DEF Readable, Families
    <2>2. Width[line.is] \in Nat
      BY <2>1, WidthAssumption DEF Families
    <2>3. ~ ((IF line.len = NoLen THEN Width[line.is] ELSE line.len) > Width[line.is])
      BY <1>2, <2>1, <2>2, ListScenesAssumption DEF Readable, NoLen
    <2> QED
      BY <2>1, <2>3 DEF parse_cidr, ElementOf
  <1>3. ASSUME ~ Readable(line) PROVE cidrs = {}
    <2>1. CASE line.is \notin Families
      BY <2>1 DEF parse_cidr
    <2>2. CASE line.is \in Families
      <3>1. line.len # NoLen /\ ~ (line.len <= Width[line.is])
        BY <1>3, <2>2 DEF Readable
      <3>2. line.len \in Nat /\ Width[line.is] \in Nat
        BY <2>2, <3>1, WidthAssumption, ListScenesAssumption DEF Families
      <3>3. line.len > Width[line.is]
        BY <3>1, <3>2
      <3> QED
        BY <2>2, <3>1, <3>3 DEF parse_cidr
    <2> QED
      BY <2>1, <2>2
  <1> HIDE DEF cidrs, new
  <1>4. ASSUME NEW f \in Families
        PROVE  new[f] = IF Readable(line) /\ line.is = f THEN kavl_bit_add(ips[f], ElementOf(line)) ELSE ips[f]
    <2>1. new[f] = IF mine(f) = {} THEN ips[f] ELSE kavl_bit_add(ips[f], CHOOSE b \in mine(f) : TRUE)
      BY <1>1
    <2>2. CASE Readable(line) /\ line.is = f
      <3>1. mine(f) = {ElementOf(line)}
        <4>1. PICK c : c = [family |-> line.is, bits |-> ElementOf(line)]
          OBVIOUS
        <4>2. cidrs = {c} /\ c.family = f /\ c.bits = ElementOf(line)
          BY <1>2, <2>2, <4>1
        <4> QED
          BY <4>2
      <3> QED
        BY <2>1, <2>2, <3>1
    <2>3. CASE Readable(line) /\ line.is # f
      <3>1. mine(f) = {}
        BY <1>2, <2>3
      <3> QED
        BY <2>1, <2>3, <3>1
    <2>4. CASE ~ Readable(line)
      <3>1. mine(f) = {}
        BY <1>3, <2>4
      <3> QED
        BY <2>1, <2>4, <3>1
    <2> QED
      BY <2>2, <2>3, <2>4
  <1>5. ASSUME NEW f \in Families PROVE new[f] \in SUBSET Bits(Width[f])
    <2>1. ips[f] \in SUBSET Bits(Width[f]) /\ Width[f] \in Nat
      BY WidthAssumption DEF Trees, Families
    <2>2. CASE Readable(line) /\ line.is = f
      <3>1. ElementOf(line) \in Bits(Width[f])
        BY <2>2, LineIs
      <3>2. new[f] = kavl_bit_add(ips[f], ElementOf(line))
        BY <1>4, <2>2
      <3> QED
        BY <2>1, <3>1, <3>2, AddIs
    <2>3. CASE ~ (Readable(line) /\ line.is = f)
      BY <1>4, <2>1, <2>3
    <2> QED
      BY <2>2, <2>3
  <1>6. new \in Trees
    <2>1. new \in [Families -> SUBSET Seq({0, 1})]
      <3>1. \A f \in Families : new[f] \in SUBSET Seq({0, 1})
        BY <1>5 DEF Bits
      <3>2. DOMAIN new = Families /\ new = [f \in Families |-> new[f]]
        BY <1>1
      <3> QED
        BY <3>1, <3>2
    <2> QED
      BY <1>5, <2>1 DEF Trees
  <1> QED
    BY <1>4, <1>6 DEF new

\* One line more.
LEMMA LoadedMore ==
    ASSUME NEW lines \in Seq(Lines), NEW k \in Nat, k + 1 <= Len(lines), NEW t, Loaded(lines, t, k)
    PROVE  Loaded(lines, addpool(t, lines[k + 1]), k + 1)
  <1>1. PICK line \in Lines : line = lines[k + 1]
    <2>1. k + 1 \in 1 .. Len(lines)
      OBVIOUS
    <2> QED
      BY <2>1
  <1>2. PICK s : s = addpool(t, line)
    OBVIOUS
  <1>3. t \in Trees
    BY DEF Loaded
  <1>4. /\ s \in Trees
        /\ \A f \in Families : s[f] = IF Readable(line) /\ line.is = f THEN kavl_bit_add(t[f], ElementOf(line)) ELSE t[f]
    BY <1>2, <1>3, AddpoolIs
  <1>5. \A i : i \in 1 .. k + 1 <=> i \in 1 .. k \/ i = k + 1
    OBVIOUS
  <1>6. ASSUME NEW f \in Families
        PROVE  /\ \A a \in FamilyAddrs(f) : kavl_bit_get(s[f], a) <=> \E i \in 1 .. k + 1 : SaysLine(lines[i], f, a)
               /\ s[f] # {} <=> \E i \in 1 .. k + 1 : \E a \in FamilyAddrs(f) : SaysLine(lines[i], f, a)
    <2>1. /\ \A a \in FamilyAddrs(f) : kavl_bit_get(t[f], a) <=> \E i \in 1 .. k : SaysLine(lines[i], f, a)
          /\ t[f] # {} <=> \E i \in 1 .. k : \E a \in FamilyAddrs(f) : SaysLine(lines[i], f, a)
      BY DEF Loaded
    <2>2. CASE Readable(line) /\ line.is = f
      <3>1. Width[f] \in Nat /\ t[f] \in SUBSET Bits(Width[f]) /\ ElementOf(line) \in Bits(Width[f])
        <4>1. Width[f] \in Nat
          BY WidthAssumption DEF Families
        <4>2. t[f] \in SUBSET Bits(Width[f])
          BY <1>3 DEF Trees
        <4>3. ElementOf(line) \in Bits(Width[f])
          BY <2>2, LineIs
        <4> QED
          BY <4>1, <4>2, <4>3
      <3>2. s[f] = kavl_bit_add(t[f], ElementOf(line))
        BY <1>4, <2>2
      <3>3. \A a \in FamilyAddrs(f) : kavl_bit_get(s[f], a) <=> kavl_bit_get(t[f], a) \/ StartOf(ElementOf(line), a)
        <4>0. PICK w \in Nat : w = Width[f] /\ t[f] \in SUBSET Bits(w) /\ ElementOf(line) \in Bits(w)
          BY <3>1
        <4>1. PICK tree \in SUBSET Bits(w), e \in Bits(w) : tree = t[f] /\ e = ElementOf(line)
          BY <4>0
        <4>2. \A a \in [1 .. w -> {0, 1}] :
                 kavl_bit_get(kavl_bit_add(tree, e), a) <=> kavl_bit_get(tree, a) \/ StartOf(e, a)
          BY AddIs
        <4> QED
          BY <3>2, <4>0, <4>1, <4>2 DEF FamilyAddrs
      <3>4. \A a \in FamilyAddrs(f) : StartOf(ElementOf(line), a) <=> SaysLine(lines[k + 1], f, a)
        BY <1>1, <2>2, LineIs
      <3>5. s[f] # {}
        BY <3>1, <3>2, AddIs
      <3>6. \E a \in FamilyAddrs(f) : SaysLine(lines[k + 1], f, a)
        BY <1>1, <2>2, LineIs
      <3> QED
        BY <1>5, <2>1, <3>3, <3>4, <3>5, <3>6
    <2>3. CASE ~ (Readable(line) /\ line.is = f)
      <3>1. s[f] = t[f]
        BY <1>4, <2>3
      <3>2. \A a : ~ SaysLine(lines[k + 1], f, a)
        <4>1. CASE line.is # f
          BY <1>1, <4>1 DEF SaysLine
        <4>2. CASE ~ Readable(line)
          BY <1>1, <4>2, UnreadableSaysNothing
        <4> QED
          BY <2>3, <4>1, <4>2
      <3> QED
        BY <1>5, <2>1, <3>1, <3>2
    <2> QED
      BY <2>2, <2>3
  <1> QED
    BY <1>1, <1>2, <1>4, <1>6 DEF Loaded

LEMMA LoadedNone ==
    ASSUME NEW lines
    PROVE  Loaded(lines, Empty, 0)
  <1>1. Empty \in Trees
    BY DEF Empty, Trees
  <1>2. \A i \in 1 .. 0 : FALSE
    OBVIOUS
  <1>3. \A f \in Families : Empty[f] = {}
    BY DEF Empty
  <1> QED
    BY <1>1, <1>2, <1>3 DEF Loaded, kavl_bit_get

\* What is loaded from a list is what the list says.
LEMMA AppendIs ==
    ASSUME NEW lines \in Seq(Lines)
    PROVE  Loaded(lines, AppendIpset(Empty, lines), Len(lines))
  <1> DEFINE N == Len(lines)
             step == [x \in Nat \X Trees |-> IF x[1] \in 1 .. N THEN addpool(x[2], lines[x[1]]) ELSE x[2]]
  <1>1. N \in Nat /\ \A i \in 1 .. N : lines[i] \in Lines
    OBVIOUS
  <1>2. \A n \in Nat, t \in Trees : step[<<n, t>>] = IF n \in 1 .. N THEN addpool(t, lines[n]) ELSE t
    OBVIOUS
  <1>3. step \in [Nat \X Trees -> Trees]
    <2>1. ASSUME NEW x \in Nat \X Trees PROVE (IF x[1] \in 1 .. N THEN addpool(x[2], lines[x[1]]) ELSE x[2]) \in Trees
      <3>1. x[2] \in Trees
        OBVIOUS
      <3> QED
        BY <1>1, <3>1, AddpoolIs
    <2> QED
      BY <2>1
  <1>4. Empty \in Trees
    BY LoadedNone DEF Loaded
  <1> HIDE DEF step
  <1>5. PICK e : SolvesTo(N, Trees, Empty, step, e)
    <2>1. Steps(Trees, Empty, step)
      BY <1>3, <1>4 DEF Steps
    <2> QED
      BY <1>1, <2>1, RecursionTo
  <1>6. ASSUME NEW i \in 0 .. N PROVE e[i] = IF i = 0 THEN Empty ELSE addpool(e[i - 1], lines[i])
    <2>1. CASE i = 0
      BY <1>5, <2>1 DEF SolvesTo
    <2>2. CASE i # 0
      <3>1. i \in 1 .. N /\ i \in Nat /\ i - 1 \in 0 .. N
        BY <1>1, <2>2
      <3>2. e[i] = step[<<i, e[i - 1]>>] /\ e[i - 1] \in Trees
        BY <1>5, <2>2, <3>1 DEF SolvesTo
      <3> QED
        BY <1>2, <2>2, <3>1, <3>2
    <2> QED
      BY <2>1, <2>2
  <1> DEFINE Equation(g) == g = [k \in 0 .. N |-> IF k = 0 THEN Empty ELSE addpool(g[k - 1], lines[k])]
             added == CHOOSE g : Equation(g)
  <1>7. Equation(e)
    <2>1. e = [k \in 0 .. N |-> e[k]]
      BY <1>5 DEF SolvesTo
    <2> QED
      BY <1>6, <2>1
  <1>8. Equation(added)
    BY <1>7
  <1>9. AppendIpset(Empty, lines) = added[N]
    BY DEF AppendIpset
  <1> HIDE DEF added
  <1>10. added[0] = Empty /\ \A i \in 1 .. N : added[i] = addpool(added[i - 1], lines[i])
    <2>1. \A i \in 0 .. N : added[i] = IF i = 0 THEN Empty ELSE addpool(added[i - 1], lines[i])
      BY <1>8
    <2>2. 0 \in 0 .. N /\ \A i \in 1 .. N : i \in 0 .. N /\ i # 0
      BY <1>1
    <2> QED
      BY <2>1, <2>2
  <1> HIDE DEF Equation
  <1> DEFINE T == {k \in Nat : k <= N => Loaded(lines, added[k], k)}
  <1>11. 0 \in T
    BY <1>10, LoadedNone
  <1>12. ASSUME NEW k \in T PROVE k + 1 \in T
    <2> SUFFICES ASSUME k + 1 <= N PROVE Loaded(lines, added[k + 1], k + 1)
      OBVIOUS
    <2>1. k \in Nat /\ Loaded(lines, added[k], k)
      BY <1>1
    <2>2. k + 1 \in 1 .. N /\ (k + 1) - 1 = k
      BY <1>1, <2>1
    <2>3. added[k + 1] = addpool(added[k], lines[k + 1])
      BY <1>10, <2>2
    <2> QED
      BY <2>1, <2>3, LoadedMore
  <1> HIDE DEF T
  <1>13. T \in SUBSET Nat
    BY DEF T
  <1>14. N \in T
    BY <1>1, <1>11, <1>12, <1>13, Induction
  <1> QED
    BY <1>1, <1>9, <1>14 DEF T

-----------------------------------------------------------------------------
(* Lists in files, as they are now.                                        *)

ChangeIs(c) ==
    /\ c.old \in Seq(Lines) /\ c.now \in Seq(Lines)
    /\ c.how \in {"same", "gone", "unreadable", "new"} /\ (c.how # "new" => c.now = c.old)

ListScene(s) == s.kind = "load" => DOMAIN s.lists \subseteq Nat /\ \A i \in DOMAIN s.lists : ChangeIs(s.lists[i])

LEMMA LoadIs ==
    ASSUME NEW c, ChangeIs(c)
    PROVE  LET m == LoadIpset(Mem(c), File(c))
           IN  /\ m.ok <=> c.how # "unreadable"
               /\ m.ok => m.ips = AppendIpset(Empty, c.now)
  <1>1. PICK mem, file, l : mem = Mem(c) /\ file = File(c) /\ l = LoadIpset(mem, file)
    OBVIOUS
  <1>2. /\ file.seen <=> c.how # "gone"
        /\ file.readable <=> c.how # "unreadable"
        /\ file.sig = (IF c.how = "same" THEN 1 ELSE 2) /\ file.lines = c.now
    BY <1>1 DEF File
  <1>3. mem = [ips |-> AppendIpset(Empty, c.old), sig |-> 1, ok |-> TRUE]
    BY <1>1 DEF Mem
  <1>4. CASE c.how = "same" \/ c.how = "gone"
    <2>1. l = [mem EXCEPT !.ok = TRUE]
      BY <1>1, <1>2, <1>3, <1>4 DEF LoadIpset
    <2>2. c.now = c.old
      BY <1>4 DEF ChangeIs
    <2>3. l.ok = TRUE /\ l.ips = AppendIpset(Empty, c.now)
      BY <1>3, <2>1, <2>2
    <2> QED
      BY <1>1, <1>4, <2>3
  <1>5. CASE c.how \in {"unreadable", "new"}
    <2>1. file.seen /\ mem.sig # file.sig
      BY <1>2, <1>3, <1>5
    <2>2. l = IF ~ file.readable THEN [mem EXCEPT !.ips = Empty, !.ok = FALSE]
              ELSE [ips |-> AppendIpset(Empty, file.lines), sig |-> file.sig, ok |-> TRUE]
      BY <1>1, <2>1 DEF LoadIpset
    <2>3. CASE c.how = "unreadable"
      <3>1. l = [mem EXCEPT !.ips = Empty, !.ok = FALSE]
        BY <1>2, <2>2, <2>3
      <3> QED
        BY <1>1, <1>3, <2>3, <3>1
    <2>4. CASE c.how = "new"
      <3>1. l = [ips |-> AppendIpset(Empty, c.now), sig |-> file.sig, ok |-> TRUE]
        BY <1>2, <2>2, <2>4
      <3> QED
        BY <1>1, <2>4, <3>1
    <2> QED
      BY <1>5, <2>3, <2>4
  <1> QED
    BY <1>4, <1>5 DEF ChangeIs

\* Lists that are read again are as their files are, or one of them has failed.
LEMMA ReloadIs ==
    ASSUME NEW lists, DOMAIN lists \subseteq Nat, \A i \in DOMAIN lists : ChangeIs(lists[i])
    PROVE  LET all == DOMAIN lists
               m   == Reloaded([i \in all |-> Mem(lists[i])], [i \in all |-> File(lists[i])])
           IN  /\ (\A i \in all : m[i].ok) <=> \A i \in all : lists[i].how # "unreadable"
               /\ (\A i \in all : m[i].ok) => \A i \in all : m[i].ips = AppendIpset(Empty, lists[i].now)
  <1> DEFINE all == DOMAIN lists
             mems == [i \in all |-> Mem(lists[i])]
             files == [i \in all |-> File(lists[i])]
             m == Reloaded(mems, files)
             l == [i \in all |-> LoadIpset(Mem(lists[i]), File(lists[i]))]
             failed == {i \in all : ~ l[i].ok}
  <1>1. m = [i \in all |-> IF \E j \in failed : j < i THEN mems[i] ELSE l[i]]
    <2>1. [i \in DOMAIN mems |-> LoadIpset(mems[i], files[i])] = l
      OBVIOUS
    <2>2. {i \in DOMAIN l : ~ l[i].ok} = failed
      OBVIOUS
    <2> HIDE DEF mems, files, l, failed
    <2>3. m = [i \in DOMAIN l |-> IF \E j \in {k \in DOMAIN l : ~ l[k].ok} : j < i THEN mems[i] ELSE l[i]]
      BY <2>1 DEF Reloaded
    <2>4. DOMAIN l = all
      BY DEF l
    <2> QED
      BY <2>2, <2>3, <2>4
  <1>2. \A i \in all : /\ l[i].ok <=> lists[i].how # "unreadable"
                       /\ l[i].ok => l[i].ips = AppendIpset(Empty, lists[i].now)
    BY LoadIs
  <1>3. failed = {i \in all : lists[i].how = "unreadable"}
    BY <1>2
  <1> HIDE DEF mems, files, l, m
  <1>4. CASE failed = {}
    <2>1. \A i \in all : m[i] = l[i]
      BY <1>1, <1>4
    <2>2. \A i \in all : l[i].ok
      BY <1>4
    <2>3. \A i \in all : lists[i].how # "unreadable"
      BY <1>3, <1>4
    <2> QED
      BY <1>2, <2>1, <2>2, <2>3 DEF m, mems, files
  <1>5. CASE failed # {}
    <2>1. PICK i \in failed : \A j \in failed : i <= j
      <3>1. failed \in SUBSET Nat
        OBVIOUS
      <3> QED
        BY <1>5, <3>1, Least
    <2>2. ~ \E j \in failed : j < i
      <3>1. \A j \in failed : j \in Nat /\ i \in Nat
        OBVIOUS
      <3> QED
        BY <2>1, <3>1
    <2>3. m[i] = l[i] /\ i \in all /\ ~ l[i].ok
      BY <1>1, <2>2
    <2>4. lists[i].how = "unreadable"
      BY <1>2, <2>3
    <2> QED
      BY <2>3, <2>4 DEF m, mems, files
  <1> QED
    BY <1>4, <1>5

\* What lists say of an address decides.
LEMMA ListsAreAsked ==
    ASSUME ListScene(scene)
    PROVE  ListsDecide
  <1> SUFFICES ASSUME scene.kind = "load" PROVE ListsDecide
    BY DEF ListsDecide
  <1> DEFINE lists == scene.lists
             all == DOMAIN lists
             inc == {i \in all : i <= scene.includes}
             m == Reloaded([i \in all |-> Mem(lists[i])], [i \in all |-> File(lists[i])])
             included == [i \in inc |-> m[i]]
             excluded == [i \in all \ inc |-> m[i]]
             Fine == \A i \in all : lists[i].how # "unreadable"
  <1>1. all \subseteq Nat /\ \A i \in all : ChangeIs(lists[i])
    BY DEF ListScene
  <1>2. /\ (\A i \in all : m[i].ok) <=> Fine
        /\ (\A i \in all : m[i].ok) => \A i \in all : m[i].ips = AppendIpset(Empty, lists[i].now)
    BY <1>1, ReloadIs
  <1>3. inc \subseteq all
    OBVIOUS
  <1> HIDE DEF m, lists, all, inc
  <1>4. AllOk(included) /\ AllOk(excluded) <=> Fine
    BY <1>2, <1>3 DEF AllOk
  <1>5. ASSUME NEW i \in all, Fine
        PROVE  /\ \A f \in Families : \A a \in FamilyAddrs(f) :
                     SearchIpset(m[i].ips, f, a) <=> Says(lists[i].now, f, a)
               /\ m[i].ips = Empty <=> ~ SaysAnything(lists[i].now)
    <2>1. lists[i].now \in Seq(Lines)
      BY <1>1 DEF ChangeIs
    <2>2. PICK now \in Seq(Lines) : now = lists[i].now /\ \E t : t = m[i].ips /\ Loaded(now, t, Len(now))
      <3>1. m[i].ips = AppendIpset(Empty, lists[i].now)
        BY <1>2, <1>5
      <3> QED
        BY <2>1, <3>1, AppendIs
    <2>3. PICK t : t = m[i].ips /\ Loaded(now, t, Len(now))
      BY <2>2
    <2>4. DOMAIN now = 1 .. Len(now)
      OBVIOUS
    <2>5. \A f \in Families : /\ \A a \in FamilyAddrs(f) : kavl_bit_get(t[f], a) <=> Says(now, f, a)
                              /\ t[f] # {} <=> \E a \in FamilyAddrs(f) : Says(now, f, a)
      BY <2>3, <2>4 DEF Loaded, Says
    <2>6. t = Empty <=> \A f \in Families : t[f] = {}
      <3>1. t \in [Families -> SUBSET Seq({0, 1})]
        BY <2>3 DEF Loaded, Trees
      <3> QED
        BY <3>1 DEF Empty
    <2> QED
      BY <2>2, <2>3, <2>5, <2>6 DEF SearchIpset, SaysAnything
  <1>6. ASSUME NEW f \in Families, NEW a \in FamilyAddrs(f)
        PROVE  IpsetCheck(included, excluded, f, a) <=>
                  /\ Fine
                  /\ \A i \in all \ inc : ~ Says(lists[i].now, f, a)
                  /\ \/ \A i \in inc : ~ SaysAnything(lists[i].now)
                     \/ \E i \in inc : Says(lists[i].now, f, a)
    <2>1. CASE ~ Fine
      BY <1>4, <2>1 DEF IpsetCheck
    <2>2. CASE Fine
      <3>1. \A i \in all \ inc : SearchIpset(excluded[i].ips, f, a) <=> Says(lists[i].now, f, a)
        BY <1>5, <2>2
      <3>2. \A i \in inc : /\ SearchIpset(included[i].ips, f, a) <=> Says(lists[i].now, f, a)
                           /\ included[i].ips = Empty <=> ~ SaysAnything(lists[i].now)
        BY <1>3, <1>5, <2>2
      <3>3. DOMAIN included = inc /\ DOMAIN excluded = all \ inc
        OBVIOUS
      <3> HIDE DEF included, excluded, Fine
      <3> QED
        BY <1>4, <2>2, <3>1, <3>2, <3>3 DEF IpsetCheck
    <2> QED
      BY <2>1, <2>2
  <1> QED
    BY <1>6 DEF ListsDecide, m, lists, all, inc

\* Whatever the widths of addresses, whatever lines lists have and however many
\* lists there are: an address passes exactly if the lists say so
\* (IpsetCheck, IpsetsReloadCheck of nfq2/ipset.c, the bit trees of pools.c).
THEOREM ListsAlwaysDecide == Spec => []ListsDecide
  <1>1. Init => ListScene(scene)
    BY DEF Init, ListScene
  <1>2. ListScene(scene) /\ [Next]_scene => ListScene(scene)'
    <2> SUFFICES ASSUME ListScene(scene), [Next]_scene PROVE ListScene(scene)'
      OBVIOUS
    <2>1. CASE Load
      <3>0. PICK n \in 0 .. MaxLines : \E lines \in [1 .. n -> Lines] :
                   scene' = [kind |-> "load", lists |-> <<[old |-> <<>>, now |-> lines, how |-> "new"]>>, includes |-> 1]
        BY <2>1 DEF Load
      <3>1. PICK lines \in [1 .. n -> Lines] :
                   scene' = [kind |-> "load", lists |-> <<[old |-> <<>>, now |-> lines, how |-> "new"]>>, includes |-> 1]
        BY <3>0
      <3>2. lines \in Seq(Lines)
        BY ListScenesAssumption
      <3>3. PICK c : c = [old |-> <<>>, now |-> lines, how |-> "new"]
        OBVIOUS
      <3>4. ChangeIs(c)
        BY <3>2, <3>3 DEF ChangeIs
      <3>5. scene'.lists = <<c>>
        BY <3>1, <3>3
      <3> QED
        BY <3>4, <3>5 DEF ListScene
    <2>2. CASE Reload
      <3>1. PICK lists \in [1 .. Includes + Excludes -> Change] :
                   scene' = [kind |-> "load", lists |-> lists, includes |-> Includes]
        BY <2>2 DEF Reload
      <3>2. \A c \in Change : ChangeIs(c)
        BY ListScenesAssumption DEF Change, ChangeIs
      <3>3. 1 .. Includes + Excludes \subseteq Nat
        BY ListScenesAssumption
      <3> QED
        BY <3>1, <3>2, <3>3 DEF ListScene
    <2>3. CASE Fields \/ Sums
      <3>1. scene'.kind \in {"field", "sum"}
        BY <2>3 DEF Fields, Sums
      <3> QED
        BY <3>1 DEF ListScene
    <2>4. CASE UNCHANGED scene
      BY <2>4 DEF ListScene
    <2>5. CASE scene'.kind = "options" \/ OtherScene'
      BY <2>5 DEF ListScene, OtherScene
    <2> QED
      BY <2>1, <2>2, <2>3, <2>4, <2>5, NextScene
  <1>3. ListScene(scene) => ListsDecide
    BY ListsAreAsked
  <1> QED
    BY <1>1, <1>2, <1>3, PTL DEF Spec

-----------------------------------------------------------------------------
(* Command lines of any length: whose lists an option touches.              *)

IsSeq(s) == \E S : s \in Seq(S)

\* All of a sequence but the last.
Early(s) == {s[i] : i \in 1 .. Len(s) - 1}

LEMMA SeqMore ==
    ASSUME NEW s, IsSeq(s), NEW e
    PROVE  /\ Len(s) \in Nat /\ DOMAIN s = 1 .. Len(s)
           /\ IsSeq(Append(s, e)) /\ Len(Append(s, e)) = Len(s) + 1
           /\ \A i \in 1 .. Len(s) : Append(s, e)[i] = s[i]
           /\ ToSet(Append(s, e)) = ToSet(s) \cup {e} /\ Early(Append(s, e)) = ToSet(s)
           /\ Last(Append(s, e)) = e
  <1>1. PICK S : s \in Seq(S)
    BY DEF IsSeq
  <1>2. s \in Seq(S \cup {e})
    BY <1>1, SeqDef
  <1> DEFINE t == Append(s, e)
  <1>3. /\ Len(s) \in Nat /\ DOMAIN s = 1 .. Len(s)
        /\ t \in Seq(S \cup {e}) /\ Len(t) = Len(s) + 1 /\ DOMAIN t = 1 .. Len(s) + 1
        /\ \A i \in 1 .. Len(s) : t[i] = s[i]
        /\ t[Len(s) + 1] = e
    BY <1>2, AppendProperties, LenProperties
  <1>4. IsSeq(t)
    BY <1>3 DEF IsSeq
  <1> HIDE DEF t
  <1>5. ToSet(t) = ToSet(s) \cup {e}
    <2>1. ASSUME NEW x \in ToSet(s) PROVE x \in ToSet(t)
      <3>1. PICK i \in 1 .. Len(s) : x = s[i]
        BY <1>3, <2>1 DEF ToSet
      <3>2. i \in DOMAIN t /\ t[i] = x
        BY <1>3, <3>1
      <3> QED
        BY <3>2 DEF ToSet
    <2>2. e \in ToSet(t)
      <3>1. Len(s) + 1 \in DOMAIN t
        BY <1>3
      <3> QED
        BY <1>3, <3>1 DEF ToSet
    <2>3. ASSUME NEW x \in ToSet(t) PROVE x \in ToSet(s) \cup {e}
      <3>1. PICK i \in 1 .. Len(s) + 1 : x = t[i]
        BY <1>3, <2>3 DEF ToSet
      <3>2. i = Len(s) + 1 \/ (i \in 1 .. Len(s) /\ x = s[i])
        BY <1>3, <3>1
      <3> QED
        BY <1>3, <3>1, <3>2 DEF ToSet
    <2> QED
      BY <2>1, <2>2, <2>3
  <1>6. Early(t) = ToSet(s)
    <2>1. Len(t) - 1 = Len(s)
      BY <1>3
    <2> QED
      BY <1>3, <2>1 DEF Early, ToSet
  <1> QED
    BY <1>3, <1>4, <1>5, <1>6 DEF t, Last

LEMMA SeqFront ==
    ASSUME NEW s, IsSeq(s), Len(s) >= 1
    PROVE  /\ IsSeq(Front(s)) /\ Len(Front(s)) = Len(s) - 1 /\ ToSet(Front(s)) = Early(s)
           /\ \A i \in 1 .. Len(s) - 1 : Front(s)[i] = s[i]
           /\ ToSet(s) = Early(s) \cup {Last(s)}
  <1>1. PICK S : s \in Seq(S)
    BY DEF IsSeq
  <1> DEFINE t == Front(s)
             n == Len(s) - 1
  <1>2. Len(s) \in Nat /\ n \in Nat /\ DOMAIN s = 1 .. n + 1 /\ Len(s) = n + 1
    BY <1>1, LenProperties
  <1>3. t \in Seq(S) /\ Len(t) = n /\ \A i \in 1 .. n : t[i] = s[i]
    BY <1>1, <1>2 DEF Front
  <1>4. IsSeq(t) /\ DOMAIN t = 1 .. n
    BY <1>2, <1>3, LenProperties DEF IsSeq
  <1> HIDE DEF t, n
  <1>5. ToSet(t) = Early(s)
    <2>1. Len(s) - 1 = n
      BY DEF n
    <2> QED
      BY <1>3, <1>4, <2>1 DEF Early, ToSet
  <1>6. ToSet(s) = Early(s) \cup {Last(s)}
    <2>1. Len(s) - 1 = n
      BY DEF n
    <2>2. ASSUME NEW i \in 1 .. n + 1 PROVE i \in 1 .. n \/ i = n + 1
      BY <1>2
    <2>3. 1 .. n \subseteq 1 .. n + 1 /\ n + 1 \in 1 .. n + 1
      BY <1>2
    <2> QED
      BY <1>2, <2>1, <2>2, <2>3 DEF Early, ToSet, Last
  <1> QED
    BY <1>3, <1>4, <1>5, <1>6 DEF t, n

LEMMA SeqReplaced ==
    ASSUME NEW s, IsSeq(s), Len(s) >= 1, NEW e
    PROVE  /\ IsSeq(Append(Front(s), e)) /\ Len(Append(Front(s), e)) = Len(s) /\ Len(s) \in Nat
           /\ \A i \in 1 .. Len(s) - 1 : Append(Front(s), e)[i] = s[i]
           /\ Early(Append(Front(s), e)) = Early(s)
           /\ Last(Append(Front(s), e)) = e
  <1> DEFINE t == Front(s)
  <1>1. /\ IsSeq(t) /\ Len(t) = Len(s) - 1 /\ ToSet(t) = Early(s)
        /\ \A i \in 1 .. Len(s) - 1 : t[i] = s[i]
    BY SeqFront
  <1>2. Len(s) \in Nat
    BY SeqMore
  <1> HIDE DEF t
  <1>3. /\ IsSeq(Append(t, e)) /\ Len(Append(t, e)) = Len(t) + 1
        /\ \A i \in 1 .. Len(t) : Append(t, e)[i] = t[i]
        /\ Early(Append(t, e)) = ToSet(t) /\ Last(Append(t, e)) = e
    BY <1>1, SeqMore
  <1> QED
    BY <1>1, <1>2, <1>3 DEF t

LEMMA Prefixed ==
    ASSUME NEW items \in Seq(Nat), NEW id \in Nat
    PROVE  /\ collection_add(items, id) \in Seq(Nat)
           /\ ToSet(collection_add(items, id)) = ToSet(items) \cup {id}
  <1> DEFINE n == Len(items)
             t == <<id>> \o items
  <1>1. /\ n \in Nat /\ DOMAIN items = 1 .. n
        /\ t \in Seq(Nat) /\ Len(t) = n + 1 /\ DOMAIN t = 1 .. n + 1
        /\ t[1] = id /\ \A i \in 1 .. n : t[i + 1] = items[i]
    <2>1. <<id>> \in Seq(Nat) /\ Len(<<id>>) = 1 /\ <<id>>[1] = id
      OBVIOUS
    <2>2. n \in Nat /\ DOMAIN items = 1 .. n
      BY LenProperties
    <2>3. t \in Seq(Nat) /\ Len(t) = n + 1
      BY <2>1, <2>2
    <2>4. t[1] = id /\ \A i \in 1 .. n : t[i + 1] = items[i]
      BY <2>1, <2>2, ConcatProperties
    <2> QED
      BY <2>2, <2>3, <2>4, LenProperties
  <1> HIDE DEF t, n
  <1>2. ASSUME NEW i \in 1 .. n + 1, i # 1 PROVE i - 1 \in 1 .. n /\ (i - 1) + 1 = i
    BY <1>1, <1>2
  <1>3. \A i \in 1 .. n : i + 1 \in 1 .. n + 1
    BY <1>1
  <1>4. 1 \in 1 .. n + 1
    BY <1>1
  <1>5. ToSet(t) = ToSet(items) \cup {id}
    <2>1. ASSUME NEW x \in ToSet(t) PROVE x \in ToSet(items) \cup {id}
      <3>1. PICK i \in 1 .. n + 1 : x = t[i]
        BY <1>1, <2>1 DEF ToSet
      <3>2. CASE i = 1
        BY <1>1, <3>1, <3>2
      <3>3. CASE i # 1
        <4>1. i - 1 \in 1 .. n /\ t[i] = items[i - 1]
          BY <1>1, <1>2, <3>3
        <4> QED
          BY <1>1, <3>1, <4>1 DEF ToSet
      <3> QED
        BY <3>2, <3>3
    <2>2. ASSUME NEW x \in ToSet(items) PROVE x \in ToSet(t)
      <3>1. PICK i \in 1 .. n : x = items[i]
        BY <1>1, <2>2 DEF ToSet
      <3> QED
        BY <1>1, <1>3, <3>1 DEF ToSet
    <2>3. id \in ToSet(t)
      BY <1>1, <1>4 DEF ToSet
    <2> QED
      BY <2>1, <2>2, <2>3
  <1> QED
    BY <1>1, <1>5 DEF t, collection_add

-----------------------------------------------------------------------------
(* What configurations are, and options that leave the lists alone.        *)

ProfileShape(dp) ==
    /\ {"lists", "auto"} \subseteq DOMAIN dp
    /\ dp.lists \in [Kind -> Seq(Nat)] /\ dp.auto \in Nat

FilesShape(files) == IsSeq(files) /\ \A i \in DOMAIN files : {"filename", "entries"} \subseteq DOMAIN files[i]

ConfigShape(c) ==
    /\ {"profiles", "templates", "anon", "hostlists", "ipsets"} \subseteq DOMAIN c
    /\ IsSeq(c.profiles) /\ Len(c.profiles) >= 1 /\ IsSeq(c.templates)
    /\ FilesShape(c.hostlists) /\ FilesShape(c.ipsets)
    /\ c.anon \in [Kind -> Nat]

ProfilesFit(c) == \A dp \in Finished(c) \cup {Dp(c)} : ProfileShape(dp) /\ Held(c, dp)
FilesFit(c) == LoadedOnce(c.hostlists) /\ LoadedOnce(c.ipsets)
TakersFit(c) == \A k \in Kind : c.anon[k] # 0 => TakesForOne(c, k)

\* What an option finds.
Sound(c) == ConfigShape(c) /\ ProfilesFit(c) /\ FilesFit(c) /\ TakersFit(c)

\* d has the files of c and more, and what was in the profiles' files is the same.
SameEntries(c, d) ==
    \A dp \in Finished(c) : \A k \in Kind : \A x \in ToSet(dp.lists[k]) :
        d[SortOf(k)][x].entries = c[SortOf(k)][x].entries

LEMMA FinishedIs ==
    ASSUME NEW c
    PROVE  Finished(c) = Early(c.profiles) \cup ToSet(c.templates)
  BY DEF Finished, Early

LEMMA SoundIsOwn ==
    ASSUME NEW c, Sound(c)
    PROVE  OwnLists(c)
  <1>1. ToSet(c.profiles) = Early(c.profiles) \cup {Dp(c)}
    BY SeqFront DEF Sound, ConfigShape, Dp
  <1>2. ToSet(c.profiles) \cup ToSet(c.templates) = Finished(c) \cup {Dp(c)}
    BY <1>1, FinishedIs
  <1> QED
    BY <1>2 DEF Sound, OwnLists, ProfilesFit, FilesFit, TakersFit

LEMMA Sorts == \A k \in Kind : SortOf(k) \in {"hostlists", "ipsets"}
  BY DEF SortOf

LEMMA SameStay ==
    ASSUME NEW c, NEW d, SameEntries(c, d), ConfigShape(c),
           \A dp \in Finished(c) : ProfileShape(dp)
    PROVE  \A dp \in Finished(c) : EntriesOf(d, dp) = EntriesOf(c, dp)
  <1> SUFFICES ASSUME NEW dp \in Finished(c) PROVE EntriesOf(d, dp) = EntriesOf(c, dp)
    OBVIOUS
  <1>1. \A k \in Kind : \A i \in DOMAIN dp.lists[k] :
           d[SortOf(k)][dp.lists[k][i]].entries = c[SortOf(k)][dp.lists[k][i]].entries
    BY DEF SameEntries, ToSet
  <1> QED
    BY <1>1 DEF EntriesOf

\* A sort's files are those there were and maybe more.
Grown(files, more) ==
    /\ FilesShape(more) /\ LoadedOnce(more)
    /\ DOMAIN files \subseteq DOMAIN more /\ \A i \in DOMAIN files : more[i] = files[i]

\* The profile at the end is replaced, with lists that there are.
Replaced(c, d, dp) ==
    /\ DOMAIN d = DOMAIN c
    /\ d.profiles = Append(Front(c.profiles), dp) /\ d.templates = c.templates /\ d.anon = c.anon
    /\ Grown(c.hostlists, d.hostlists) /\ Grown(c.ipsets, d.ipsets)

LEMMA ReplacedIs ==
    ASSUME NEW c, NEW d, NEW dp, Sound(c), Replaced(c, d, dp), ProfileShape(dp), Held(d, dp)
    PROVE  /\ Sound(d) /\ StayAsTheyWere(c, d)
           /\ Dp(d) = dp /\ Finished(d) = Finished(c) /\ Len(d.profiles) = Len(c.profiles)
  <1>1. /\ IsSeq(d.profiles) /\ Len(d.profiles) = Len(c.profiles) /\ Len(c.profiles) \in Nat
        /\ \A i \in 1 .. Len(c.profiles) - 1 : d.profiles[i] = c.profiles[i]
        /\ Early(d.profiles) = Early(c.profiles) /\ Dp(d) = dp
    <2>1. IsSeq(c.profiles) /\ Len(c.profiles) >= 1 /\ d.profiles = Append(Front(c.profiles), dp)
      BY DEF Sound, ConfigShape, Replaced
    <2> DEFINE t == Append(Front(c.profiles), dp)
    <2>2. /\ IsSeq(t) /\ Len(t) = Len(c.profiles) /\ Len(c.profiles) \in Nat
          /\ \A i \in 1 .. Len(c.profiles) - 1 : t[i] = c.profiles[i]
          /\ Early(t) = Early(c.profiles) /\ Last(t) = dp
      BY <2>1, SeqReplaced
    <2> HIDE DEF t
    <2>3. d.profiles = t
      BY <2>1 DEF t
    <2> QED
      BY <2>2, <2>3 DEF Dp
  <1>2. Finished(d) = Finished(c)
    BY <1>1, FinishedIs DEF Replaced
  <1>3. \A k \in Kind : /\ DOMAIN c[SortOf(k)] \subseteq DOMAIN d[SortOf(k)]
                        /\ \A i \in DOMAIN c[SortOf(k)] : d[SortOf(k)][i] = c[SortOf(k)][i]
    BY DEF Replaced, Grown, SortOf
  <1>4. \A x : Held(c, x) => Held(d, x)
    BY <1>3 DEF Held
  <1>5. ConfigShape(d)
    BY <1>1 DEF Sound, ConfigShape, Replaced, Grown
  <1>6. ProfilesFit(d)
    BY <1>1, <1>2, <1>4 DEF Sound, ProfilesFit
  <1>7. FilesFit(d)
    BY DEF FilesFit, Replaced, Grown
  <1>8. TakersFit(d)
    <2>1. d.anon = c.anon
      BY DEF Replaced
    <2>2. ASSUME NEW k \in Kind, d.anon[k] # 0 PROVE TakesForOne(d, k)
      <3>1. TakesForOne(c, k)
        BY <2>1, <2>2 DEF Sound, TakersFit
      <3>2. d.anon[k] \in DOMAIN d[SortOf(k)] /\ d[SortOf(k)][d.anon[k]].filename = ""
        BY <1>3, <2>1, <3>1 DEF TakesForOne
      <3> QED
        BY <1>2, <2>1, <3>1, <3>2 DEF TakesForOne
    <2> QED
      BY <2>2 DEF TakersFit
  <1>9. SameEntries(c, d)
    <2>1. \A dp_1 \in Finished(c) : \A k \in Kind : ToSet(dp_1.lists[k]) \subseteq DOMAIN c[SortOf(k)]
      BY DEF Sound, ProfilesFit, Held
    <2> QED
      BY <1>3, <2>1 DEF SameEntries
  <1>10. \A x \in Finished(c) : EntriesOf(d, x) = EntriesOf(c, x)
    BY <1>9, SameStay DEF Sound, ProfilesFit
  <1>11. DOMAIN d.profiles = 1 .. Len(d.profiles)
    BY <1>1, SeqMore
  <1>12. \A i \in 1 .. Len(c.profiles) - 1 : i \in DOMAIN d.profiles
    BY <1>1, <1>11
  <1> QED
    BY <1>1, <1>2, <1>5, <1>6, <1>7, <1>8, <1>10, <1>12 DEF Sound, StayAsTheyWere, Replaced

LEMMA PutIs ==
    ASSUME NEW c, NEW dp, Sound(c), ProfileShape(dp), Held(c, dp)
    PROVE  LET d == Put(c, dp) IN
           /\ Sound(d) /\ StayAsTheyWere(c, d)
           /\ Dp(d) = dp /\ Finished(d) = Finished(c) /\ Len(d.profiles) = Len(c.profiles)
  <1>1. PICK d : d = Put(c, dp)
    OBVIOUS
  <1>2. /\ DOMAIN d = DOMAIN c /\ d.profiles = Append(Front(c.profiles), dp)
        /\ \A f \in {"templates", "hostlists", "ipsets", "anon"} : d[f] = c[f]
    BY <1>1 DEF Put, Sound, ConfigShape
  <1>3. Replaced(c, d, dp)
    BY <1>2 DEF Replaced, Grown, Sound, ConfigShape, FilesFit
  <1>4. Held(d, dp)
    BY <1>2 DEF Held, SortOf
  <1> QED
    BY <1>1, <1>3, <1>4, ReplacedIs

\* Nothing of profiles and lists is changed.
Apart(c, d) ==
    /\ DOMAIN d = DOMAIN c
    /\ \A f \in {"profiles", "templates", "hostlists", "ipsets", "anon"} : d[f] = c[f]

LEMMA ApartIs ==
    ASSUME NEW c, NEW d, Sound(c), Apart(c, d)
    PROVE  Sound(d) /\ StayAsTheyWere(c, d)
  <1>1. /\ d.profiles = c.profiles /\ d.templates = c.templates /\ d.hostlists = c.hostlists
        /\ d.ipsets = c.ipsets /\ d.anon = c.anon /\ DOMAIN d = DOMAIN c
    BY DEF Apart
  <1>2. Finished(d) = Finished(c) /\ Dp(d) = Dp(c)
    BY <1>1 DEF Finished, Dp
  <1>3. \A x : Held(c, x) => Held(d, x)
    BY <1>1 DEF Held, SortOf
  <1>4. Sound(d)
    <2>1. TakersFit(d)
      <3>1. TakersFit(c)
        BY DEF Sound
      <3>2. \A k \in Kind : TakesForOne(c, k) => TakesForOne(d, k)
        BY <1>1, <1>2 DEF TakesForOne, SortOf
      <3> QED
        BY <1>1, <3>1, <3>2 DEF TakersFit
    <2>2. ProfilesFit(d)
      BY <1>2, <1>3 DEF Sound, ProfilesFit
    <2>3. ConfigShape(d) /\ FilesFit(d)
      BY <1>1 DEF Sound, ConfigShape, FilesFit
    <2> QED
      BY <2>1, <2>2, <2>3 DEF Sound
  <1>5. \A x \in Finished(c) : EntriesOf(d, x) = EntriesOf(c, x)
    <2>1. SameEntries(c, d)
      BY <1>1 DEF SameEntries, SortOf
    <2> QED
      BY <2>1, SameStay DEF Sound, ProfilesFit
  <1>6. DOMAIN c.profiles = 1 .. Len(c.profiles) /\ Len(c.profiles) \in Nat
    BY SeqMore DEF Sound, ConfigShape
  <1>7. \A i \in 1 .. Len(c.profiles) - 1 : i \in DOMAIN d.profiles
    BY <1>1, <1>6
  <1> QED
    BY <1>1, <1>4, <1>5, <1>7 DEF StayAsTheyWere

-----------------------------------------------------------------------------
(* Lists that are named or made.                                           *)

\* A file may take entries of this kind.
Takes(c, kind, id) ==
    /\ id \in DOMAIN c[SortOf(kind)] /\ c[SortOf(kind)][id].filename = ""
    /\ \A l \in Kind : SortOf(l) = SortOf(kind) =>
          /\ l # kind => c.anon[l] # id
          /\ \A dp \in Finished(c) : id \notin ToSet(dp.lists[l])

LEMMA FilesMore ==
    ASSUME NEW files, FilesShape(files), LoadedOnce(files), NEW name, files_search(files, name) = {}
    PROVE  /\ FilesShape(files_add(files, name)) /\ LoadedOnce(files_add(files, name))
           /\ Len(files) \in Nat /\ DOMAIN files = 1 .. Len(files)
           /\ Len(files_add(files, name)) = Len(files) + 1
           /\ DOMAIN files_add(files, name) = 1 .. Len(files) + 1
           /\ \A i \in DOMAIN files : files_add(files, name)[i] = files[i]
           /\ files_add(files, name)[Len(files) + 1].filename = name
  <1> DEFINE f == [filename |-> name, entries |-> {}]
             t == Append(files, f)
             n == Len(files)
  <1>1. /\ n \in Nat /\ DOMAIN files = 1 .. n /\ IsSeq(t) /\ Len(t) = n + 1
        /\ \A i \in 1 .. n : t[i] = files[i]
    BY SeqMore DEF FilesShape
  <1>2. t[n + 1] = f /\ DOMAIN t = 1 .. n + 1
    <2>1. DOMAIN t = 1 .. Len(t)
      BY <1>1, SeqMore
    <2>2. Last(t) = f
      BY SeqMore DEF FilesShape
    <2> QED
      BY <1>1, <2>1, <2>2 DEF Last
  <1>3. f.filename = name /\ {"filename", "entries"} \subseteq DOMAIN f
    OBVIOUS
  <1> HIDE DEF f, t, n
  <1>4. \A i \in 1 .. n + 1 : i \in 1 .. n \/ i = n + 1
    BY <1>1
  <1>5. FilesShape(t)
    BY <1>1, <1>2, <1>3, <1>4 DEF FilesShape
  <1>6. \A i \in 1 .. n : name # "" => files[i].filename # name
    BY <1>1 DEF files_search
  <1>7. LoadedOnce(t)
    BY <1>1, <1>2, <1>3, <1>4, <1>6 DEF LoadedOnce
  <1> QED
    BY <1>1, <1>2, <1>3, <1>5, <1>7 DEF t, f, n, files_add

\* A name is searched for among the files, and added where it is not found.
Sought(files, name, more, id) ==
    LET found == files_search(files, name)
    IN  IF found = {} THEN more = files_add(files, name) /\ id = Len(more)
        ELSE more = files /\ id \in found

LEMMA FilesAre ==
    ASSUME NEW files, FilesShape(files), LoadedOnce(files), NEW name, NEW more, NEW id, Sought(files, name, more, id)
    PROVE  /\ Grown(files, more) /\ id \in Nat \ {0} /\ id \in DOMAIN more
           /\ more[id].filename = name /\ (name = "" => id \notin DOMAIN files)
  <1> DEFINE found == files_search(files, name)
  <1>1. CASE found = {}
    <2> DEFINE t == files_add(files, name)
    <2>1. more = t /\ id = Len(t)
      BY <1>1 DEF Sought
    <2>2. /\ FilesShape(t) /\ LoadedOnce(t) /\ Len(files) \in Nat /\ DOMAIN files = 1 .. Len(files)
          /\ Len(t) = Len(files) + 1 /\ DOMAIN t = 1 .. Len(files) + 1
          /\ \A i \in DOMAIN files : t[i] = files[i]
          /\ t[Len(files) + 1].filename = name
      BY <1>1, FilesMore
    <2> HIDE DEF t
    <2>3. DOMAIN files \subseteq DOMAIN t
      BY <2>2
    <2>4. Grown(files, more)
      BY <2>1, <2>2, <2>3 DEF Grown
    <2>5. id \in Nat \ {0} /\ id \in DOMAIN more /\ id \notin DOMAIN files /\ id = Len(files) + 1
      <3>1. PICK n \in Nat : n = Len(files)
        BY <2>2
      <3>2. id = n + 1 /\ DOMAIN files = 1 .. n /\ DOMAIN more = 1 .. n + 1
        BY <2>1, <2>2, <3>1
      <3> QED
        BY <3>1, <3>2
    <2> QED
      BY <2>1, <2>2, <2>4, <2>5
  <1>2. CASE found # {}
    <2>1. more = files /\ id \in found
      BY <1>2 DEF Sought
    <2>2. id \in DOMAIN files /\ files[id].filename = name /\ name # ""
      BY <2>1 DEF files_search
    <2>3. DOMAIN files = 1 .. Len(files) /\ Len(files) \in Nat
      BY SeqMore DEF FilesShape
    <2>4. Grown(files, more)
      BY <2>1 DEF Grown
    <2>5. id \in Nat \ {0}
      <3>1. PICK n \in Nat : n = Len(files)
        BY <2>3
      <3>2. id \in 1 .. n
        BY <2>2, <2>3, <3>1
      <3> QED
        BY <3>2
    <2> QED
      BY <2>1, <2>2, <2>4, <2>5
  <1> QED
    BY <1>1, <1>2

Registered(c, kind, name, r) ==
    /\ Sound(r.c) /\ StayAsTheyWere(c, r.c)
    /\ Finished(r.c) = Finished(c) /\ Len(r.c.profiles) = Len(c.profiles)
    /\ r.id \in ToSet(Dp(r.c).lists[kind]) /\ r.id \in Nat
    /\ name = "" => Takes(r.c, kind, r.id)

LEMMA RegisterIs ==
    ASSUME NEW c, Sound(c), NEW kind \in Kind, NEW name
    PROVE  Registered(c, kind, name, Register(c, kind, name))
  <1> DEFINE sort == SortOf(kind)
             found == files_search(c[sort], name)
             files == IF found = {} THEN files_add(c[sort], name) ELSE c[sort]
             id == IF found = {} THEN Len(files) ELSE CHOOSE i \in found : TRUE
             items == Dp(c).lists[kind]
             dp == IF collection_search(items, files, name) THEN Dp(c)
                   ELSE [Dp(c) EXCEPT !.lists[kind] = collection_add(items, id)]
             d == [Put(c, dp) EXCEPT ![sort] = files]
  <1>1. PICK r : r = Register(c, kind, name) /\ r = [c |-> d, id |-> id]
    BY DEF Register
  <1>2. sort \in {"hostlists", "ipsets"} /\ FilesShape(c[sort]) /\ LoadedOnce(c[sort])
    BY Sorts DEF Sound, ConfigShape, FilesFit
  <1>3. /\ Grown(c[sort], files) /\ id \in Nat \ {0} /\ id \in DOMAIN files
        /\ files[id].filename = name /\ (name = "" => id \notin DOMAIN c[sort])
    <2>1. Sought(c[sort], name, files, id)
      BY DEF Sought
    <2> HIDE DEF sort, files, id
    <2> QED
      BY <1>2, <2>1, FilesAre
  <1>4. ProfileShape(Dp(c)) /\ Held(c, Dp(c))
    BY DEF Sound, ProfilesFit
  <1>5. items \in Seq(Nat) /\ ToSet(items) \subseteq DOMAIN c[sort]
    BY <1>4 DEF ProfileShape, Held
  <1> HIDE DEF sort, found, files, id
  <1>6. /\ collection_add(items, id) \in Seq(Nat)
        /\ ToSet(collection_add(items, id)) = ToSet(items) \cup {id}
    BY <1>3, <1>5, Prefixed
  <1>7. /\ ProfileShape(dp) /\ dp.auto = Dp(c).auto
        /\ ToSet(dp.lists[kind]) = ToSet(items) \cup {id}
        /\ \A k \in Kind \ {kind} : dp.lists[k] = Dp(c).lists[k]
    <2>1. CASE collection_search(items, files, name)
      <3>1. PICK i \in DOMAIN items : name # "" /\ files[items[i]].filename = name
        BY <2>1 DEF collection_search
      <3>2. items[i] \in ToSet(items) /\ items[i] \in DOMAIN files
        BY <1>3, <1>5, <3>1 DEF ToSet, Grown
      <3>3. items[i] = id
        BY <1>3, <3>1, <3>2 DEF Grown, LoadedOnce
      <3>4. dp = Dp(c)
        BY <2>1
      <3> QED
        BY <1>4, <3>2, <3>3, <3>4
    <2>2. CASE ~ collection_search(items, files, name)
      <3>1. dp = [Dp(c) EXCEPT !.lists[kind] = collection_add(items, id)]
        BY <2>2
      <3> QED
        BY <1>4, <1>6, <3>1 DEF ProfileShape
    <2> QED
      BY <2>1, <2>2
  <1> HIDE DEF items, dp
  <1>8. /\ DOMAIN d = DOMAIN c /\ d.profiles = Append(Front(c.profiles), dp) /\ d.templates = c.templates
        /\ d.anon = c.anon /\ d[sort] = files
        /\ \A s \in {"hostlists", "ipsets"} \ {sort} : d[s] = c[s]
    BY <1>2 DEF Put, Sound, ConfigShape
  <1> HIDE DEF d
  <1>9. Replaced(c, d, dp)
    <2>1. \A s \in {"hostlists", "ipsets"} : Grown(c[s], c[s])
      BY DEF Grown, Sound, ConfigShape, FilesFit
    <2>2. \A s \in {"hostlists", "ipsets"} : Grown(c[s], d[s])
      BY <1>3, <1>8, <2>1
    <2> QED
      BY <1>8, <2>2 DEF Replaced
  <1>10. Held(d, dp)
    <2>1. \A k \in Kind : DOMAIN c[SortOf(k)] \subseteq DOMAIN d[SortOf(k)]
      BY <1>9, Sorts DEF Replaced, Grown
    <2>2. ASSUME NEW k \in Kind PROVE ToSet(dp.lists[k]) \subseteq DOMAIN d[SortOf(k)]
      <3>1. CASE k = kind
        <4>1. SortOf(k) = sort
          BY <3>1 DEF sort
        <4> QED
          BY <1>3, <1>5, <1>7, <1>8, <2>1, <3>1, <4>1
      <3>2. CASE k # kind
        BY <1>4, <1>7, <2>1, <3>2 DEF Held
      <3> QED
        BY <3>1, <3>2
    <2>3. ToSet(Dp(c).lists["hosts"]) \subseteq ToSet(dp.lists["hosts"])
      BY <1>7 DEF items, Kind
    <2> QED
      BY <1>4, <1>7, <2>2, <2>3 DEF Held
  <1>11. /\ Sound(d) /\ StayAsTheyWere(c, d) /\ Dp(d) = dp /\ Finished(d) = Finished(c)
         /\ Len(d.profiles) = Len(c.profiles)
    BY <1>7, <1>9, <1>10, ReplacedIs
  <1>12. ASSUME name = "" PROVE Takes(d, kind, id)
    <2>1. id \in DOMAIN d[SortOf(kind)] /\ d[SortOf(kind)][id].filename = ""
      BY <1>3, <1>8, <1>12 DEF sort
    <2>2. ASSUME NEW l \in Kind, SortOf(l) = SortOf(kind) PROVE d.anon[l] # id
      <3>1. c.anon[l] # 0 => c.anon[l] \in DOMAIN c[sort]
        BY <2>2 DEF Sound, TakersFit, TakesForOne, sort
      <3> QED
        BY <1>3, <1>8, <1>12, <3>1
    <2>3. ASSUME NEW l \in Kind, SortOf(l) = SortOf(kind), NEW x \in Finished(d) PROVE id \notin ToSet(x.lists[l])
      <3>1. ToSet(x.lists[l]) \subseteq DOMAIN c[sort]
        BY <1>11, <2>3 DEF Sound, ProfilesFit, Held, sort
      <3> QED
        BY <1>3, <1>12, <3>1
    <2> QED
      BY <2>1, <2>2, <2>3 DEF Takes
  <1>13. r.c = d /\ r.id = id
    BY <1>1
  <1>14. id \in ToSet(Dp(d).lists[kind]) /\ id \in Nat
    BY <1>3, <1>7, <1>11
  <1> QED
    BY <1>1, <1>11, <1>12, <1>13, <1>14 DEF Registered

\* Entries are given to a file that takes them.
LEMMA AddEntriesIs ==
    ASSUME NEW c, Sound(c), NEW kind \in Kind, NEW id, Takes(c, kind, id), id \in Nat, NEW entries,
           NEW d \in AddEntries(c, kind, id, entries)
    PROVE  Sound(d) /\ StayAsTheyWere(c, d)
  <1> DEFINE sort == SortOf(kind)
             old == c[sort]
             new == [old EXCEPT ![id].entries = @ \cup entries]
  <1>1. sort \in {"hostlists", "ipsets"} /\ FilesShape(old) /\ LoadedOnce(old)
    BY Sorts DEF Sound, ConfigShape, FilesFit
  <1>2. id \in DOMAIN old
    BY DEF Takes
  <1>3. /\ DOMAIN d = DOMAIN c /\ d.profiles = c.profiles /\ d.templates = c.templates
        /\ d[sort] = new /\ \A s \in {"hostlists", "ipsets"} \ {sort} : d[s] = c[s]
        /\ d.anon = [c.anon EXCEPT ![kind] = id]
    BY <1>1 DEF AddEntries, Sound, ConfigShape
  <1>4. /\ DOMAIN new = DOMAIN old /\ Len(old) \in Nat /\ DOMAIN old = 1 .. Len(old)
        /\ \A i \in DOMAIN old : new[i].filename = old[i].filename /\ DOMAIN new[i] = DOMAIN old[i]
        /\ \A i \in DOMAIN old : i # id => new[i] = old[i]
    BY <1>1, SeqMore DEF FilesShape
  <1>5. FilesShape(new) /\ LoadedOnce(new)
    <2>1. IsSeq(new)
      <3>1. new \in [1 .. Len(old) -> {new[i] : i \in 1 .. Len(old)}]
        BY <1>4
      <3>2. new \in Seq({new[i] : i \in 1 .. Len(old)})
        BY <1>4, <3>1, AsSequence
      <3> QED
        BY <3>2 DEF IsSeq
    <2> HIDE DEF new, old
    <2>2. \A i \in DOMAIN new : {"filename", "entries"} \subseteq DOMAIN new[i]
      BY <1>1, <1>4 DEF FilesShape
    <2> QED
      BY <1>1, <1>4, <2>1, <2>2 DEF FilesShape, LoadedOnce
  <1> HIDE DEF new, sort
  <1>6. \A s \in {"hostlists", "ipsets"} :
           /\ FilesShape(d[s]) /\ LoadedOnce(d[s]) /\ DOMAIN d[s] = DOMAIN c[s]
           /\ \A i \in DOMAIN c[s] : d[s][i].filename = c[s][i].filename
    <2>1. \A s \in {"hostlists", "ipsets"} \ {sort} : d[s] = c[s] /\ FilesShape(c[s]) /\ LoadedOnce(c[s])
      BY <1>3 DEF Sound, ConfigShape, FilesFit
    <2> QED
      BY <1>3, <1>4, <1>5, <2>1
  <1>7. Finished(d) = Finished(c) /\ Dp(d) = Dp(c)
    BY <1>3 DEF Finished, Dp
  <1>8. \A x : Held(c, x) => Held(d, x)
    BY <1>6, Sorts DEF Held
  <1>9. d.anon \in [Kind -> Nat] /\ d.anon[kind] = id /\ \A k \in Kind \ {kind} : d.anon[k] = c.anon[k]
    BY <1>3 DEF Sound, ConfigShape
  <1>10. ConfigShape(d) /\ FilesFit(d)
    BY <1>3, <1>6, <1>9 DEF Sound, ConfigShape, FilesFit
  <1>11. ProfilesFit(d)
    BY <1>7, <1>8 DEF Sound, ProfilesFit
  <1>12. TakersFit(d)
    <2>1. ASSUME NEW k \in Kind, d.anon[k] # 0 PROVE TakesForOne(d, k)
      <3>1. CASE k = kind
        <4>1. d.anon[k] \in DOMAIN d[SortOf(k)] /\ d[SortOf(k)][d.anon[k]].filename = ""
          BY <1>6, <1>9, <3>1, Sorts DEF Takes
        <4>2. ASSUME NEW l \in Kind, SortOf(l) = SortOf(k)
              PROVE  /\ l # k => d.anon[l] # d.anon[k]
                     /\ \A dp \in Finished(d) : d.anon[k] \notin ToSet(dp.lists[l])
          BY <1>7, <1>9, <3>1, <4>2 DEF Takes
        <4> QED
          BY <4>1, <4>2 DEF TakesForOne
      <3>2. CASE k # kind
        <4>1. d.anon[k] = c.anon[k] /\ TakesForOne(c, k)
          BY <1>9, <2>1, <3>2 DEF Sound, TakersFit
        <4>2. \A l \in Kind : SortOf(l) = SortOf(k) /\ l # k => d.anon[l] # d.anon[k]
          <5>1. SortOf(kind) = SortOf(k) => id # c.anon[k]
            BY <3>2 DEF Takes
          <5> QED
            BY <1>9, <4>1, <5>1 DEF TakesForOne
        <4> QED
          BY <1>6, <1>7, <4>1, <4>2, Sorts DEF TakesForOne
      <3> QED
        BY <3>1, <3>2
    <2> QED
      BY <2>1 DEF TakersFit
  <1>13. SameEntries(c, d)
    <2>1. ASSUME NEW dp \in Finished(c), NEW k \in Kind, NEW x \in ToSet(dp.lists[k])
          PROVE  d[SortOf(k)][x].entries = c[SortOf(k)][x].entries
      <3>1. CASE SortOf(k) = sort
        <4>1. x # id /\ x \in DOMAIN old
          BY <2>1, <3>1 DEF Takes, sort, Sound, ProfilesFit, Held
        <4> QED
          BY <1>3, <1>4, <3>1, <4>1
      <3>2. CASE SortOf(k) # sort
        BY <1>3, <3>2, Sorts
      <3> QED
        BY <3>1, <3>2
    <2> QED
      BY <2>1 DEF SameEntries
  <1>14. \A x \in Finished(c) : EntriesOf(d, x) = EntriesOf(c, x)
    BY <1>13, SameStay DEF Sound, ProfilesFit
  <1>15. DOMAIN c.profiles = 1 .. Len(c.profiles) /\ Len(c.profiles) \in Nat
    BY SeqMore DEF Sound, ConfigShape
  <1>16. \A i \in 1 .. Len(c.profiles) - 1 : i \in DOMAIN d.profiles
    BY <1>3, <1>15
  <1> QED
    BY <1>3, <1>10, <1>11, <1>12, <1>14, <1>16 DEF Sound, StayAsTheyWere

\* Two options, or the two parts of one.
LEMMA StayOn ==
    ASSUME NEW c, NEW b, NEW d, StayAsTheyWere(c, b), StayAsTheyWere(b, d),
           Finished(b) = Finished(c), Len(b.profiles) = Len(c.profiles)
    PROVE  StayAsTheyWere(c, d)
  BY DEF StayAsTheyWere

LEMMA RegisterListIs ==
    ASSUME NEW c, NEW kind, NEW name, NEW r \in RegisterList(c, kind, name)
    PROVE  r = Register(c, kind, name)
  BY DEF RegisterList, RegisterHostlist, RegisterIpset

LEMMA ListOptionKeeps ==
    ASSUME NEW c, Sound(c), NEW kind \in Kind, NEW file, NEW d \in ListOption(c, kind, file)
    PROVE  Sound(d) /\ StayAsTheyWere(c, d)
  <1>1. CASE c.skip
    <2>1. Apart(c, d)
      BY <1>1 DEF ListOption, Apart
    <2> QED
      BY <2>1, ApartIs
  <1>2. CASE ~ c.skip
    <2>1. PICK r \in RegisterList(c, kind, file) : d = r.c
      BY <1>2 DEF ListOption
    <2>2. r = Register(c, kind, file)
      BY <2>1, RegisterListIs
    <2>3. Registered(c, kind, file, r)
      BY <2>2, RegisterIs
    <2> QED
      BY <2>1, <2>3 DEF Registered
  <1> QED
    BY <1>1, <1>2

LEMMA EntriesKeeps ==
    ASSUME NEW c, Sound(c), NEW kind \in Kind, NEW entries, NEW d \in Entries(c, kind, entries)
    PROVE  Sound(d) /\ StayAsTheyWere(c, d)
  <1>1. CASE c.skip
    <2>1. Apart(c, d)
      BY <1>1 DEF Entries, Apart
    <2> QED
      BY <2>1, ApartIs
  <1>2. CASE ~ c.skip /\ c.anon[kind] # 0
    <2>1. d \in AddEntries(c, kind, c.anon[kind], entries)
      BY <1>2 DEF Entries
    <2>2. Takes(c, kind, c.anon[kind]) /\ c.anon[kind] \in Nat
      BY <1>2 DEF Sound, TakersFit, TakesForOne, Takes, ConfigShape
    <2> QED
      BY <2>1, <2>2, AddEntriesIs
  <1>3. CASE ~ c.skip /\ c.anon[kind] = 0
    <2>1. PICK r \in RegisterList(c, kind, "") : d \in AddEntries(r.c, kind, r.id, entries)
      BY <1>3 DEF Entries
    <2>a. PICK none : none = "" /\ r = Register(c, kind, none)
      BY RegisterListIs
    <2>2. /\ Sound(r.c) /\ StayAsTheyWere(c, r.c)
          /\ Finished(r.c) = Finished(c) /\ Len(r.c.profiles) = Len(c.profiles)
          /\ r.id \in Nat /\ Takes(r.c, kind, r.id)
      <3>1. Registered(c, kind, none, r)
        BY <2>a, RegisterIs
      <3> QED
        BY <2>a, <3>1 DEF Registered
    <2>3. Sound(d) /\ StayAsTheyWere(r.c, d)
      BY <2>1, <2>2, AddEntriesIs
    <2> QED
      BY <2>2, <2>3, StayOn
  <1> QED
    BY <1>1, <1>2, <1>3

LEMMA AutoHostsKeeps ==
    ASSUME NEW c, Sound(c), NEW file, NEW d \in AutoHosts(c, file)
    PROVE  Sound(d) /\ StayAsTheyWere(c, d)
  <1>1. CASE c.skip
    <2>1. Apart(c, d)
      BY <1>1 DEF AutoHosts, Apart
    <2> QED
      BY <2>1, ApartIs
  <1>2. CASE ~ c.skip
    <2>1. PICK r : r = Register(c, "hosts", file) /\ d = Put(r.c, [Dp(r.c) EXCEPT !.auto = r.id])
      BY <1>2 DEF AutoHosts, RegisterHostlist
    <2>2. /\ Sound(r.c) /\ StayAsTheyWere(c, r.c)
          /\ Finished(r.c) = Finished(c) /\ Len(r.c.profiles) = Len(c.profiles)
          /\ r.id \in Nat /\ r.id \in ToSet(Dp(r.c).lists["hosts"])
      <3>1. PICK kind \in Kind : kind = "hosts"
        BY DEF Kind
      <3>2. r = Register(c, kind, file)
        BY <2>1, <3>1
      <3>3. Registered(c, kind, file, r)
        BY <3>2, RegisterIs
      <3> QED
        BY <3>1, <3>3 DEF Registered
    <2> DEFINE dp == [Dp(r.c) EXCEPT !.auto = r.id]
    <2>3. PICK b : b = r.c
      OBVIOUS
    <2>4. ProfileShape(Dp(b)) /\ Held(b, Dp(b))
      BY <2>2, <2>3 DEF Sound, ProfilesFit
    <2>5. dp.lists = Dp(b).lists /\ dp.auto = r.id /\ ProfileShape(dp)
      BY <2>2, <2>3, <2>4 DEF ProfileShape
    <2>6. Held(b, dp)
      BY <2>2, <2>3, <2>4, <2>5 DEF Held
    <2> HIDE DEF dp
    <2>7. d = Put(b, dp)
      BY <2>1, <2>3 DEF dp
    <2>8. Sound(d) /\ StayAsTheyWere(b, d)
      BY <2>2, <2>3, <2>5, <2>6, <2>7, PutIs
    <2> QED
      BY <2>2, <2>3, <2>8, StayOn
  <1> QED
    BY <1>1, <1>2

\* Options that say something else of the profile at hand.
LEMMA TuneKeeps ==
    ASSUME NEW c, Sound(c), NEW f \in {"fail", "time", "retrans", "name", "cookie", "l3", "l7", "ssid", "lua"}, NEW v
    PROVE  LET d == Put(c, [Dp(c) EXCEPT ![f] = v]) IN Sound(d) /\ StayAsTheyWere(c, d)
  <1> DEFINE dp == [Dp(c) EXCEPT ![f] = v]
  <1>1. ProfileShape(Dp(c)) /\ Held(c, Dp(c))
    BY DEF Sound, ProfilesFit
  <1>2. dp.lists = Dp(c).lists /\ dp.auto = Dp(c).auto /\ DOMAIN dp = DOMAIN Dp(c)
    BY <1>1 DEF ProfileShape
  <1> HIDE DEF dp
  <1>3. ProfileShape(dp) /\ Held(c, dp)
    BY <1>1, <1>2 DEF ProfileShape, Held
  <1>4. Sound(Put(c, dp)) /\ StayAsTheyWere(c, Put(c, dp))
    BY <1>3, PutIs
  <1> QED
    BY <1>4 DEF dp

LEMMA PortsKeep ==
    ASSUME NEW c, Sound(c), NEW tcp, NEW udp
    PROVE  LET d == Put(c, [Dp(c) EXCEPT !.tcp = tcp, !.udp = udp]) IN Sound(d) /\ StayAsTheyWere(c, d)
  <1> DEFINE dp == [Dp(c) EXCEPT !.tcp = tcp, !.udp = udp]
  <1>1. ProfileShape(Dp(c)) /\ Held(c, Dp(c))
    BY DEF Sound, ProfilesFit
  <1>2. dp.lists = Dp(c).lists /\ dp.auto = Dp(c).auto /\ DOMAIN dp = DOMAIN Dp(c)
    BY <1>1 DEF ProfileShape
  <1> HIDE DEF dp
  <1>3. ProfileShape(dp) /\ Held(c, dp)
    BY <1>1, <1>2 DEF ProfileShape, Held
  <1>4. Sound(Put(c, dp)) /\ StayAsTheyWere(c, Put(c, dp))
    BY <1>3, PutIs
  <1> QED
    BY <1>4 DEF dp

\* A profile takes the lists of a template.
LEMMA ImportKeeps ==
    ASSUME NEW c, Sound(c), NEW name, NEW d \in Import(c, name)
    PROVE  Sound(d) /\ StayAsTheyWere(c, d)
  <1>1. PICK i \in DOMAIN c.templates :
           d = Put(c, [dp_list_copy(c.templates[i]) EXCEPT !.n = c.count, !.name_tpl = c.templates[i].name,
                                                           !.n_tpl = c.templates[i].n])
    BY DEF Import, dp_list_search_name
  <1>2. PICK t : t = c.templates[i]
    OBVIOUS
  <1>3. ProfileShape(t) /\ Held(c, t)
    <2>1. t \in Finished(c)
      BY <1>2 DEF Finished, ToSet
    <2> QED
      BY <2>1 DEF Sound, ProfilesFit
  <1> DEFINE dp == [dp_list_copy(t) EXCEPT !.n = c.count, !.name_tpl = t.name, !.n_tpl = t.n]
  <1>4. dp.lists = t.lists /\ dp.auto = t.auto /\ DOMAIN dp = DOMAIN t
    BY <1>3 DEF ProfileShape, dp_list_copy
  <1>5. d = Put(c, dp)
    BY <1>1, <1>2
  <1> HIDE DEF dp
  <1>6. ProfileShape(dp) /\ Held(c, dp)
    BY <1>3, <1>4 DEF ProfileShape, Held
  <1> QED
    BY <1>5, <1>6, PutIs

\* What --new forgets is nobody's.
LEMMA ForgetIs ==
    ASSUME NEW c, ConfigShape(c), ProfilesFit(c), FilesFit(c)
    PROVE  /\ Sound(Forget(c))
           /\ \A f \in {"profiles", "templates", "hostlists", "ipsets"} : Forget(c)[f] = c[f]
  <1>1. PICK d : d = Forget(c)
    OBVIOUS
  <1>2. /\ d.profiles = c.profiles /\ d.templates = c.templates /\ d.hostlists = c.hostlists /\ d.ipsets = c.ipsets
        /\ DOMAIN d = DOMAIN c /\ d.anon = [k \in Kind |-> 0]
        /\ \A f \in {"profiles", "templates", "hostlists", "ipsets"} : d[f] = c[f]
    BY <1>1 DEF Forget, ConfigShape, NoneOf
  <1>3. Finished(d) = Finished(c) /\ Dp(d) = Dp(c)
    BY <1>2 DEF Finished, Dp
  <1>4. \A x : Held(c, x) => Held(d, x)
    BY <1>2 DEF Held, SortOf
  <1>5. ConfigShape(d) /\ FilesFit(d) /\ TakersFit(d)
    BY <1>2 DEF ConfigShape, FilesFit, TakersFit
  <1>6. ProfilesFit(d)
    BY <1>3, <1>4 DEF ProfilesFit
  <1> QED
    BY <1>1, <1>2, <1>5, <1>6 DEF Sound

\* A profile with nothing in it.
LEMMA EmptyProfile ==
    ASSUME NEW c, ConfigShape(c), NEW n
    PROVE  ProfileShape([Profile EXCEPT !.n = n]) /\ Held(c, [Profile EXCEPT !.n = n])
  <1> DEFINE dp == [Profile EXCEPT !.n = n]
  <1>1. dp.lists = [k \in Kind |-> <<>>] /\ dp.auto = 0 /\ {"lists", "auto"} \subseteq DOMAIN dp
    BY DEF Profile
  <1> HIDE DEF dp
  <1>2. ToSet(<<>>) = {}
    BY DEF ToSet
  <1>3. <<>> \in Seq(Nat)
    OBVIOUS
  <1>4. ProfileShape(dp)
    BY <1>1, <1>3 DEF ProfileShape
  <1>5. Held(c, dp)
    BY <1>1, <1>2 DEF Held
  <1> QED
    BY <1>4, <1>5 DEF dp

\* The profiles and templates of d are those of c and one at the end.
LEMMA NextProfile ==
    ASSUME NEW c, Sound(c), NEW d, NEW dp, ProfileShape(dp), Held(c, dp),
           DOMAIN d = DOMAIN c, d.hostlists = c.hostlists, d.ipsets = c.ipsets, d.anon \in [Kind -> Nat],
           IsSeq(d.profiles), Len(d.profiles) >= 1, Dp(d) = dp, IsSeq(d.templates),
           \A x \in Finished(d) : x \in Finished(c) \/ (ProfileShape(x) /\ Held(c, x)),
           \A i \in 1 .. Len(c.profiles) - 1 : i \in DOMAIN d.profiles /\ d.profiles[i] = c.profiles[i],
           \A i \in DOMAIN c.templates : i \in DOMAIN d.templates /\ d.templates[i] = c.templates[i]
    PROVE  Sound(Forget(d)) /\ StayAsTheyWere(c, Forget(d))
  <1>1. \A x : Held(c, x) => Held(d, x)
    BY DEF Held, SortOf
  <1>2. ProfilesFit(d)
    <2>1. \A x \in Finished(c) : ProfileShape(x) /\ Held(c, x)
      BY DEF Sound, ProfilesFit
    <2> QED
      BY <1>1, <2>1 DEF ProfilesFit
  <1>3. ConfigShape(d) /\ FilesFit(d)
    BY DEF Sound, ConfigShape, FilesFit
  <1>4. PICK b : b = Forget(d)
    OBVIOUS
  <1>5. /\ Sound(b) /\ b.profiles = d.profiles /\ b.templates = d.templates
        /\ b.hostlists = c.hostlists /\ b.ipsets = c.ipsets
    BY <1>2, <1>3, <1>4, ForgetIs
  <1>6. SameEntries(c, b)
    BY <1>5 DEF SameEntries, SortOf
  <1>7. \A x \in Finished(c) : EntriesOf(b, x) = EntriesOf(c, x)
    BY <1>6, SameStay DEF Sound, ProfilesFit
  <1>8. StayAsTheyWere(c, b)
    BY <1>5, <1>7 DEF StayAsTheyWere
  <1> QED
    BY <1>4, <1>5, <1>8

LEMMA NewKeeps ==
    ASSUME NEW c, Sound(c), NEW d \in New(c)
    PROVE  Sound(d) /\ StayAsTheyWere(c, d)
  <1>a. /\ IsSeq(c.profiles) /\ Len(c.profiles) >= 1 /\ IsSeq(c.templates) /\ c.anon \in [Kind -> Nat]
        /\ {"profiles", "templates", "anon", "hostlists", "ipsets"} \subseteq DOMAIN c
        /\ Len(c.profiles) \in Nat /\ DOMAIN c.profiles = 1 .. Len(c.profiles)
        /\ DOMAIN c.templates = 1 .. Len(c.templates) /\ Len(c.templates) \in Nat
    BY SeqMore DEF Sound, ConfigShape
  <1>b. ProfileShape(Dp(c)) /\ Held(c, Dp(c))
    BY DEF Sound, ProfilesFit
  <1>1. CASE c.skip
    <2>1. PICK dp : dp = [Profile EXCEPT !.n = c.count] /\ ProfileShape(dp) /\ Held(c, dp)
      BY EmptyProfile DEF Sound
    <2>2. d = Forget(Put(c, dp))
      BY <1>1, <2>1 DEF New
    <2>3. PICK b : b = Put(c, dp)
      OBVIOUS
    <2>4. Sound(b) /\ StayAsTheyWere(c, b)
      BY <2>1, <2>3, PutIs
    <2>5. /\ Sound(d) /\ d.profiles = b.profiles /\ d.templates = b.templates
          /\ d.hostlists = b.hostlists /\ d.ipsets = b.ipsets
      BY <2>2, <2>3, <2>4, ForgetIs DEF Sound
    <2>6. \A x : EntriesOf(d, x) = EntriesOf(b, x)
      BY <2>5 DEF EntriesOf, SortOf
    <2> QED
      BY <2>4, <2>5, <2>6 DEF StayAsTheyWere
  <1>2. CASE ~ c.skip /\ c.template
    <2>1. PICK b \in ToTemplates(c) :
             d = Forget([b EXCEPT !.profiles = dp_list_add(@, c.count), !.count = c.count])
      BY <1>2 DEF New
    <2> DEFINE dp == [Profile EXCEPT !.n = c.count]
               t == [Dp(c) EXCEPT !.n = Len(c.templates) + 1]
    <2>2. b = [c EXCEPT !.templates = Append(@, t), !.profiles = Front(@)]
      BY <2>1 DEF ToTemplates, dp_list_move
    <2>3. ProfileShape(dp) /\ Held(c, dp)
      BY EmptyProfile DEF Sound
    <2>4. ProfileShape(t) /\ Held(c, t)
      <3>1. t.lists = Dp(c).lists /\ t.auto = Dp(c).auto /\ DOMAIN t = DOMAIN Dp(c)
        BY <1>b DEF ProfileShape
      <3> HIDE DEF t
      <3> QED
        BY <1>b, <3>1 DEF ProfileShape, Held
    <2> HIDE DEF dp, t
    <2>5. PICK e : /\ e = [b EXCEPT !.profiles = dp_list_add(@, c.count), !.count = c.count]
                   /\ d = Forget(e)
      BY <2>1
    <2>6. /\ DOMAIN e = DOMAIN c /\ e.hostlists = c.hostlists /\ e.ipsets = c.ipsets /\ e.anon = c.anon
          /\ e.profiles = Append(Front(c.profiles), dp) /\ e.templates = Append(c.templates, t)
      BY <1>a, <2>2, <2>5 DEF dp_list_add, dp
    <2>7. /\ IsSeq(Append(Front(c.profiles), dp)) /\ Len(Append(Front(c.profiles), dp)) = Len(c.profiles)
          /\ \A i \in 1 .. Len(c.profiles) - 1 : Append(Front(c.profiles), dp)[i] = c.profiles[i]
          /\ Early(Append(Front(c.profiles), dp)) = Early(c.profiles)
          /\ Last(Append(Front(c.profiles), dp)) = dp
      BY <1>a, SeqReplaced
    <2>8. /\ IsSeq(Append(c.templates, t)) /\ Len(Append(c.templates, t)) = Len(c.templates) + 1
          /\ \A i \in 1 .. Len(c.templates) : Append(c.templates, t)[i] = c.templates[i]
          /\ ToSet(Append(c.templates, t)) = ToSet(c.templates) \cup {t}
      BY <1>a, SeqMore
    <2>9. DOMAIN e.profiles = 1 .. Len(c.profiles) /\ DOMAIN e.templates = 1 .. Len(c.templates) + 1
      BY <2>6, <2>7, <2>8, SeqMore
    <2>10. Finished(e) = Finished(c) \cup {t} /\ Dp(e) = dp
      BY <2>6, <2>7, <2>8, FinishedIs DEF Dp
    <2>11. /\ \A i \in 1 .. Len(c.profiles) - 1 : i \in DOMAIN e.profiles /\ e.profiles[i] = c.profiles[i]
           /\ \A i \in DOMAIN c.templates : i \in DOMAIN e.templates /\ e.templates[i] = c.templates[i]
      BY <1>a, <2>6, <2>7, <2>8, <2>9
    <2>12. IsSeq(e.profiles) /\ Len(e.profiles) >= 1 /\ IsSeq(e.templates) /\ e.anon \in [Kind -> Nat]
      BY <1>a, <2>6, <2>7, <2>8
    <2>13. \A x \in Finished(e) : x \in Finished(c) \/ (ProfileShape(x) /\ Held(c, x))
      BY <2>4, <2>10
    <2> QED
      BY <2>3, <2>5, <2>6, <2>10, <2>11, <2>12, <2>13, NextProfile
  <1>3. CASE ~ c.skip /\ ~ c.template
    <2> DEFINE dp == [Profile EXCEPT !.n = c.count + 1]
    <2>1. PICK e : /\ e = [c EXCEPT !.profiles = dp_list_add(@, c.count + 1), !.count = c.count + 1]
                   /\ d = Forget(e)
      BY <1>3 DEF New
    <2>3. ProfileShape(dp) /\ Held(c, dp)
      BY EmptyProfile DEF Sound
    <2> HIDE DEF dp
    <2>6. /\ DOMAIN e = DOMAIN c /\ e.hostlists = c.hostlists /\ e.ipsets = c.ipsets /\ e.anon = c.anon
          /\ e.profiles = Append(c.profiles, dp) /\ e.templates = c.templates
      BY <1>a, <2>1 DEF dp_list_add, dp
    <2>7. /\ IsSeq(Append(c.profiles, dp)) /\ Len(Append(c.profiles, dp)) = Len(c.profiles) + 1
          /\ \A i \in 1 .. Len(c.profiles) : Append(c.profiles, dp)[i] = c.profiles[i]
          /\ Early(Append(c.profiles, dp)) = ToSet(c.profiles)
          /\ Last(Append(c.profiles, dp)) = dp
      BY <1>a, SeqMore
    <2>8. ToSet(c.profiles) = Early(c.profiles) \cup {Dp(c)}
      BY <1>a, SeqFront DEF Dp
    <2>9. DOMAIN e.profiles = 1 .. Len(c.profiles) + 1
      BY <2>6, <2>7, SeqMore
    <2>10. Finished(e) = Finished(c) \cup {Dp(c)} /\ Dp(e) = dp
      BY <2>6, <2>7, <2>8, FinishedIs DEF Dp
    <2>11. /\ \A i \in 1 .. Len(c.profiles) - 1 : i \in DOMAIN e.profiles /\ e.profiles[i] = c.profiles[i]
           /\ \A i \in DOMAIN c.templates : i \in DOMAIN e.templates /\ e.templates[i] = c.templates[i]
      BY <1>a, <2>6, <2>7, <2>9
    <2>12. IsSeq(e.profiles) /\ Len(e.profiles) >= 1 /\ IsSeq(e.templates) /\ e.anon \in [Kind -> Nat]
      BY <1>a, <2>6, <2>7
    <2>13. \A x \in Finished(e) : x \in Finished(c) \/ (ProfileShape(x) /\ Held(c, x))
      BY <1>b, <2>10
    <2> QED
      BY <2>1, <2>3, <2>6, <2>10, <2>11, <2>12, <2>13, NextProfile
  <1> QED
    BY <1>1, <1>2, <1>3

-----------------------------------------------------------------------------
(* Every option.                                                           *)

Settings == {"blob", "qnum", "fwmark", "server", "uid", "skip", "payload", "out-range", "in-range"}
Tunings == {"fail-threshold", "fail-time", "retrans-threshold", "name", "cookie", "filter-l3", "filter-l7",
            "filter-ssid", "lua-desync"}
OptionOk(o) ==
    /\ o.opt \in Settings \cup Tunings \cup {"filter-tcp", "filter-udp", "list", "entries", "hostlist-auto", "new",
                                             "template", "import"}
    /\ o.opt \in {"list", "entries"} => o.kind \in Kind

LEMMA SettingsKeep ==
    ASSUME NEW c, Sound(c), NEW o, o.opt \in Settings, NEW d \in Apply(c, o)
    PROVE  Sound(d) /\ StayAsTheyWere(c, d)
  <1>0. {"profiles", "templates", "anon", "hostlists", "ipsets"} \subseteq DOMAIN c
    BY DEF Sound, ConfigShape
  <1>1. CASE o.opt = "blob"
    BY <1>0, <1>1, ApartIs DEF Apply, Blob, Apart
  <1>2. CASE o.opt = "qnum"
    BY <1>0, <1>2, ApartIs DEF Apply, Qnum, Apart
  <1>3. CASE o.opt = "fwmark"
    BY <1>0, <1>3, ApartIs DEF Apply, Fwmark, Apart
  <1>4. CASE o.opt = "server"
    BY <1>0, <1>4, ApartIs DEF Apply, Server, Apart
  <1>5. CASE o.opt = "uid"
    BY <1>0, <1>5, ApartIs DEF Apply, Uid, Apart
  <1>6. CASE o.opt = "skip"
    BY <1>0, <1>6, ApartIs DEF Apply, SkipProfile, Apart
  <1>7. CASE o.opt = "payload"
    BY <1>0, <1>7, ApartIs DEF Apply, Payload, Apart
  <1>8. CASE o.opt = "out-range"
    BY <1>0, <1>8, ApartIs DEF Apply, OutboundRange, Apart
  <1>9. CASE o.opt = "in-range"
    BY <1>0, <1>9, ApartIs DEF Apply, InboundRange, Apart
  <1> QED
    BY <1>1, <1>2, <1>3, <1>4, <1>5, <1>6, <1>7, <1>8, <1>9 DEF Settings

LEMMA TuningsKeep ==
    ASSUME NEW c, Sound(c), NEW o, o.opt \in Tunings, NEW d \in Apply(c, o)
    PROVE  Sound(d) /\ StayAsTheyWere(c, d)
  <1>1. \E f \in {"fail", "time", "retrans", "name", "cookie", "l3", "l7", "ssid", "lua"} :
           \E v : d = Put(c, [Dp(c) EXCEPT ![f] = v])
    <2>1. CASE o.opt = "fail-threshold"
      <3>1. \E v : d = Put(c, [Dp(c) EXCEPT !["fail"] = v])
        BY <2>1 DEF Apply, FailThreshold
      <3> QED
        BY <3>1
    <2>2. CASE o.opt = "fail-time"
      <3>1. \E v : d = Put(c, [Dp(c) EXCEPT !["time"] = v])
        BY <2>2 DEF Apply, FailTime
      <3> QED
        BY <3>1
    <2>3. CASE o.opt = "retrans-threshold"
      <3>1. \E v : d = Put(c, [Dp(c) EXCEPT !["retrans"] = v])
        BY <2>3 DEF Apply, RetransThreshold
      <3> QED
        BY <3>1
    <2>4. CASE o.opt = "name"
      <3>1. \E v : d = Put(c, [Dp(c) EXCEPT !["name"] = v])
        BY <2>4 DEF Apply, Name
      <3> QED
        BY <3>1
    <2>5. CASE o.opt = "cookie"
      <3>1. \E v : d = Put(c, [Dp(c) EXCEPT !["cookie"] = v])
        BY <2>5 DEF Apply, Cookie
      <3> QED
        BY <3>1
    <2>6. CASE o.opt = "filter-l3"
      <3>1. \E v : d = Put(c, [Dp(c) EXCEPT !["l3"] = v])
        BY <2>6 DEF Apply, FilterL3
      <3> QED
        BY <3>1
    <2>7. CASE o.opt = "filter-l7"
      <3>1. \E v : d = Put(c, [Dp(c) EXCEPT !["l7"] = v])
        BY <2>7 DEF Apply, FilterL7
      <3> QED
        BY <3>1
    <2>8. CASE o.opt = "filter-ssid"
      <3>1. \E v : d = Put(c, [Dp(c) EXCEPT !["ssid"] = v])
        BY <2>8 DEF Apply, FilterSsid
      <3> QED
        BY <3>1
    <2>9. CASE o.opt = "lua-desync"
      <3>1. \E v : d = Put(c, [Dp(c) EXCEPT !["lua"] = v])
        BY <2>9 DEF Apply, LuaDesync
      <3> QED
        BY <3>1
    <2> QED
      BY <2>1, <2>2, <2>3, <2>4, <2>5, <2>6, <2>7, <2>8, <2>9 DEF Tunings
  <1> QED
    BY <1>1, TuneKeeps

LEMMA ApplyKeeps ==
    ASSUME NEW c, Sound(c), NEW o, OptionOk(o), NEW d \in Apply(c, o)
    PROVE  Sound(d) /\ StayAsTheyWere(c, d)
  <1>1. CASE o.opt \in Settings
    BY <1>1, SettingsKeep
  <1>2. CASE o.opt \in Tunings
    BY <1>2, TuningsKeep
  <1>3. CASE o.opt = "filter-tcp"
    <2>1. d \in FilterTcp(c, o.items)
      BY <1>3 DEF Apply
    <2>2. \E tcp, udp : d = Put(c, [Dp(c) EXCEPT !.tcp = tcp, !.udp = udp])
      BY <2>1 DEF FilterTcp
    <2> QED
      BY <2>2, PortsKeep
  <1>4. CASE o.opt = "filter-udp"
    <2>1. d \in FilterUdp(c, o.items)
      BY <1>4 DEF Apply
    <2>2. \E tcp, udp : d = Put(c, [Dp(c) EXCEPT !.udp = udp, !.tcp = tcp])
      BY <2>1 DEF FilterUdp
    <2>3. \E tcp, udp : d = Put(c, [Dp(c) EXCEPT !.tcp = tcp, !.udp = udp])
      BY <2>2
    <2> QED
      BY <2>3, PortsKeep
  <1>5. CASE o.opt = "list"
    BY <1>5, ListOptionKeeps DEF Apply, OptionOk
  <1>6. CASE o.opt = "entries"
    BY <1>6, EntriesKeeps DEF Apply, OptionOk
  <1>7. CASE o.opt = "hostlist-auto"
    BY <1>7, AutoHostsKeeps DEF Apply
  <1>8. CASE o.opt = "new"
    BY <1>8, NewKeeps DEF Apply
  <1>9. CASE o.opt = "import"
    BY <1>9, ImportKeeps DEF Apply
  <1>10. CASE o.opt = "template"
    <2>1. PICK b : b = [c EXCEPT !.template = TRUE]
      OBVIOUS
    <2>2. d \in IF o.name = "" THEN {b} ELSE Name(b, o.name)
      BY <1>10, <2>1 DEF Apply, Template
    <2>3. Apart(c, b)
      BY <2>1 DEF Apart, Sound, ConfigShape
    <2>4. Sound(b) /\ StayAsTheyWere(c, b)
      BY <2>3, ApartIs
    <2>5. CASE o.name = ""
      BY <2>2, <2>4, <2>5
    <2>6. CASE o.name # ""
      <3>1. \E f \in {"name"} : \E v : d = Put(b, [Dp(b) EXCEPT ![f] = v])
        BY <2>2, <2>6 DEF Name
      <3>2. Sound(d) /\ StayAsTheyWere(b, d)
        BY <2>4, <3>1, TuneKeeps
      <3>3. Finished(b) = Finished(c) /\ Len(b.profiles) = Len(c.profiles)
        BY <2>3 DEF Finished, Apart
      <3> QED
        BY <2>4, <3>2, <3>3, StayOn
    <2> QED
      BY <2>5, <2>6
  <1> QED
    BY <1>1, <1>2, <1>3, <1>4, <1>5, <1>6, <1>7, <1>8, <1>9, <1>10 DEF OptionOk

LEMMA StartIsSound ==
    ASSUME NEW c \in Qnum(Start, 200)
    PROVE  Sound(c)
  <1>1. PICK dp : dp = [Profile EXCEPT !.n = 1] /\ c.profiles = Append(<<>>, dp)
    BY DEF Qnum, Start, dp_list_add
  <1>2. /\ c.templates = <<>> /\ c.hostlists = <<>> /\ c.ipsets = <<>> /\ c.anon = [k \in Kind |-> 0]
        /\ {"profiles", "templates", "anon", "hostlists", "ipsets"} \subseteq DOMAIN c
    BY DEF Qnum, Start, NoneOf
  <1>3. IsSeq(<<>>) /\ Len(<<>>) = 0 /\ ToSet(<<>>) = {} /\ DOMAIN <<>> = {}
    <2>1. <<>> \in Seq({})
      OBVIOUS
    <2> QED
      BY <2>1 DEF IsSeq, ToSet
  <1>4. IsSeq(c.profiles) /\ Len(c.profiles) = 1 /\ Early(c.profiles) = {} /\ Dp(c) = dp
    <2>1. PICK s : s = <<>> /\ c.profiles = Append(s, dp)
      BY <1>1
    <2>2. IsSeq(s) /\ Len(s) = 0 /\ ToSet(s) = {}
      BY <1>3, <2>1
    <2>3. /\ IsSeq(Append(s, dp)) /\ Len(Append(s, dp)) = 0 + 1
          /\ Early(Append(s, dp)) = ToSet(s) /\ Last(Append(s, dp)) = dp
      BY <2>2, SeqMore
    <2> QED
      BY <2>1, <2>2, <2>3 DEF Dp
  <1>5. Finished(c) = {}
    BY <1>2, <1>3, <1>4, FinishedIs
  <1>6. ConfigShape(c)
    BY <1>2, <1>3, <1>4 DEF ConfigShape, FilesShape
  <1>7. ProfilesFit(c)
    <2>1. ProfileShape(dp) /\ Held(c, dp)
      <3>1. PICK n : n = 1 /\ dp = [Profile EXCEPT !.n = n]
        BY <1>1
      <3> QED
        BY <1>6, <3>1, EmptyProfile
    <2> QED
      BY <1>4, <1>5, <2>1 DEF ProfilesFit
  <1>8. FilesFit(c) /\ TakersFit(c)
    BY <1>2, <1>3 DEF FilesFit, LoadedOnce, TakersFit
  <1> QED
    BY <1>6, <1>7, <1>8 DEF Sound

LEMMA MenuIsOk == \A menu \in DOMAIN Menu : \A o \in Menu[menu] : OptionOk(o)
  <1>1. \A o \in Structure : OptionOk(o)
    BY DEF Structure, On, OptionOk, Settings, Tunings
  <1>2. \A o \in OfProfiles : OptionOk(o)
    BY <1>1 DEF OfProfiles, On, Call, OptionOk, Settings, Tunings
  <1>3. \A o \in OfInstances : OptionOk(o)
    BY <1>1 DEF OfInstances, Call, Out, OptionOk, Settings, Tunings
  <1>4. \A o \in OfLists : OptionOk(o)
    BY <1>1 DEF OfLists, OptionOk, Settings, Tunings, Kind
  <1>5. \A o \in OfPorts : OptionOk(o)
    <2>1. \A opt, items : Ports(opt, items).opt = opt
      BY DEF Ports
    <2>2. \A o \in OfPorts : \/ o \in Structure \/ o.opt = "filter-tcp" \/ o.opt = "filter-udp"
                             \/ o.opt \in {"filter-l3", "filter-l7", "filter-ssid"}
      BY <2>1 DEF OfPorts
    <2> QED
      BY <1>1, <2>2 DEF OptionOk, Settings, Tunings
  <1>6. \A o \in OfNumbers : OptionOk(o)
    BY <1>1 DEF OfNumbers, On, OptionOk, Settings, Tunings
  <1> QED
    BY <1>2, <1>3, <1>4, <1>5, <1>6 DEF Menu

OptionScene(s) ==
    s.kind = "options" =>
        /\ {"kind", "menu", "config"} \subseteq DOMAIN s
        /\ s.menu \in DOMAIN Menu /\ Sound(s.config)

LEMMA OptionSteps ==
    ASSUME OptionScene(scene), [Next]_scene
    PROVE  /\ OptionScene(scene)'
           /\ scene' # scene /\ scene.kind = "options" /\ scene'.kind = "options"
                 => StayAsTheyWere(scene.config, scene'.config)
  <1>1. CASE CommandLine
    <2>1. PICK menu \in DOMAIN Menu : \E c \in Qnum(Start, 200) :
             scene' = [kind |-> "options", menu |-> menu, given |-> <<>>, config |-> c]
      BY <1>1 DEF CommandLine
    <2>2. PICK c \in Qnum(Start, 200) : scene' = [kind |-> "options", menu |-> menu, given |-> <<>>, config |-> c]
      BY <2>1
    <2>3. OptionScene(scene)'
      BY <2>1, <2>2, StartIsSound DEF OptionScene
    <2>4. scene.kind # "options"
      BY <1>1 DEF CommandLine, Idle
    <2> QED
      BY <2>3, <2>4
  <1>2. CASE More
    <2>1. scene.kind = "options" /\ \E o \in Menu[scene.menu] : \E c \in Apply(scene.config, o) :
             scene' = [scene EXCEPT !.given = Append(@, o), !.config = c]
      BY <1>2 DEF More
    <2>2. {"kind", "menu", "config"} \subseteq DOMAIN scene /\ scene.menu \in DOMAIN Menu /\ Sound(scene.config)
      BY <2>1 DEF OptionScene
    <2>a. PICK o \in Menu[scene.menu] : \E c \in Apply(scene.config, o) :
             scene' = [scene EXCEPT !.given = Append(@, o), !.config = c]
      BY <2>1
    <2>3. PICK c \in Apply(scene.config, o) : scene' = [scene EXCEPT !.given = Append(@, o), !.config = c]
      BY <2>a
    <2>4. Sound(c) /\ StayAsTheyWere(scene.config, c)
      BY <2>2, <2>3, MenuIsOk, ApplyKeeps
    <2>5. scene'.config = c /\ scene'.menu = scene.menu /\ DOMAIN scene' = DOMAIN scene
      BY <2>2, <2>3
    <2> QED
      BY <2>2, <2>4, <2>5 DEF OptionScene
  <1>3. CASE UNCHANGED scene
    BY <1>3 DEF OptionScene
  <1>4. CASE Fields \/ Sums \/ Load \/ Reload \/ OtherScene'
    <2>1. scene'.kind # "options"
      BY <1>4 DEF Fields, Sums, Load, Reload, OtherScene
    <2> QED
      BY <2>1 DEF OptionScene
  <1> QED
    BY <1>1, <1>2, <1>3, <1>4, NextScene

\* However long a command line: every list a profile holds is there and its
\* automatic one is among its own, a file is loaded once, and what takes the
\* entries of an option is no finished profile's (main, RegisterHostlist and
\* RegisterIpset of nfq2/nfqws.c).
THEOREM ListsAlwaysOwn == Spec => []ListsAreOwn
  <1>1. Init => OptionScene(scene)
    BY DEF Init, OptionScene
  <1>2. OptionScene(scene) /\ [Next]_scene => OptionScene(scene)'
    BY OptionSteps
  <1>3. OptionScene(scene) => ListsAreOwn
    BY SoundIsOwn DEF OptionScene, ListsAreOwn
  <1> QED
    BY <1>1, <1>2, <1>3, PTL DEF Spec

\* What is finished by --new stays as it was to the last entry of its lists,
\* whatever options follow (the same functions).
THEOREM FinishedProfilesStay ==
    Spec => [][scene.kind = "options" /\ scene'.kind = "options"
                  => StayAsTheyWere(scene.config, scene'.config)]_scene
  <1>1. Init => OptionScene(scene)
    BY DEF Init, OptionScene
  <1>2. OptionScene(scene) /\ [Next]_scene => OptionScene(scene)'
    BY OptionSteps
  <1>3. OptionScene(scene) /\ [Next]_scene
           => [scene.kind = "options" /\ scene'.kind = "options" => StayAsTheyWere(scene.config, scene'.config)]_scene
    BY OptionSteps
  <1> QED
    BY <1>1, <1>2, <1>3, PTL DEF Spec

-----------------------------------------------------------------------------
(* Port filters.                                                           *)

PortFilter == [from : Nat, to : Nat, neg : BOOLEAN]
ItemOk(x) == x.star \in BOOLEAN /\ (~ x.star => x.from \in Nat /\ x.to \in Nat /\ x.neg \in BOOLEAN)
ItemsOk(items) == Len(items) \in Nat /\ \A i \in 1 .. Len(items) : ItemOk(items[i])
PortNumber == {n \in Nat : n # 0 /\ n <= 65535}

\* Some filter, or some of the first items, lets a port through.
Passes(pfs, port) == \E i \in DOMAIN pfs : pf_in_range(port, pfs[i])
SomeLets(items, n, star, port) == \E i \in 1 .. n : Lets(items[i], star[i], port)

\* What a star lets through is what the item before it did not negate; only what
\* one at the head does is not known.
AfterItem(x, star) == IF x.star THEN star ELSE ~ (x.neg \/ (x.from = 0 /\ x.to = 0))
Stars(items, n, star) ==
    /\ star \in [1 .. n + 1 -> BOOLEAN]
    /\ \A i \in 1 .. n : star[i + 1] <=> AfterItem(items[i], star[i])

LEMMA StarIs ==
    ASSUME NEW was \in BOOLEAN, NEW port \in PortNumber
    PROVE  pf_in_range(port, Port(1, 65535, was)) <=> ~ was
  <1>1. port \in Nat /\ port # 0 /\ port <= 65535
    BY DEF PortNumber
  <1> QED
    BY <1>1 DEF pf_in_range, Port

LEMMA FilterIs ==
    ASSUME NEW x, ItemOk(x), NEW was \in BOOLEAN, NEW f \in pf_parse(x, was)
    PROVE  /\ f \in PortFilter /\ (~ f.neg <=> AfterItem(x, ~ was))
           /\ \A port \in PortNumber : pf_in_range(port, f) <=> Lets(x, ~ was, port)
  <1>1. CASE x.star
    <2>1. f = Port(1, 65535, was)
      BY <1>1 DEF pf_parse
    <2>2. f \in PortFilter /\ f.from = 1 /\ f.to = 65535 /\ f.neg = was
      BY <2>1 DEF Port, PortFilter
    <2>3. \A port \in PortNumber : pf_in_range(port, f) <=> ~ was
      BY <2>1, StarIs
    <2> QED
      BY <1>1, <2>2, <2>3 DEF Lets, AfterItem
  <1>2. CASE ~ x.star
    <2>1. /\ f = Port(x.from, x.to, x.neg \/ (x.from = 0 /\ x.to = 0))
          /\ f.to <= 65535 /\ f.from <= f.to
      BY <1>2 DEF pf_parse
    <2>2. x.from \in Nat /\ x.to \in Nat /\ x.neg \in BOOLEAN
      BY <1>2 DEF ItemOk
    <2>3. /\ f \in PortFilter /\ f.from = x.from /\ f.to = x.to
          /\ f.neg = (x.neg \/ (x.from = 0 /\ x.to = 0)) /\ x.from <= x.to
      BY <2>1, <2>2 DEF Port, PortFilter
    <2>4. ASSUME NEW port \in PortNumber
          PROVE  pf_in_range(port, f) <=> x.to # 0 /\ (port \in x.from .. x.to) # x.neg
      <3>1. port # 0
        BY <2>4 DEF PortNumber
      <3>2. CASE x.to = 0
        <4>1. x.from = 0
          BY <2>2, <2>3, <3>2
        <4>2. f.neg = TRUE
          BY <2>3, <3>2, <4>1
        <4> QED
          BY <2>3, <3>2, <4>1, <4>2 DEF pf_in_range
      <3>3. CASE x.to # 0
        <4>1. f.neg = x.neg
          BY <2>2, <2>3, <3>3
        <4> QED
          BY <2>3, <3>1, <3>3, <4>1 DEF pf_in_range
      <3> QED
        BY <3>2, <3>3
    <2> QED
      BY <1>2, <2>2, <2>3, <2>4 DEF Lets, AfterItem
  <1> QED
    BY <1>1, <1>2 DEF ItemOk

LEMMA FilterAdded ==
    ASSUME NEW pfs \in Seq(PortFilter), NEW f \in PortFilter
    PROVE  /\ port_filter_add(pfs, f) \in Seq(PortFilter) /\ Len(port_filter_add(pfs, f)) = Len(pfs) + 1
           /\ \A port : Passes(port_filter_add(pfs, f), port) <=> Passes(pfs, port) \/ pf_in_range(port, f)
  <1> DEFINE n == Len(pfs)
             t == <<f>> \o pfs
  <1>1. n \in Nat /\ DOMAIN pfs = 1 .. n
    BY LenProperties
  <1>2. <<f>> \in Seq(PortFilter) /\ Len(<<f>>) = 1 /\ <<f>>[1] = f
    OBVIOUS
  <1>3. /\ t \in Seq(PortFilter) /\ Len(t) = n + 1
        /\ t[1] = f /\ \A i \in 1 .. n : t[i + 1] = pfs[i]
    BY <1>1, <1>2, ConcatProperties
  <1>4. DOMAIN t = 1 .. n + 1
    BY <1>3, LenProperties
  <1> HIDE DEF t, n
  <1>5. \A i \in 1 .. n + 1 : i = 1 \/ (i - 1 \in 1 .. n /\ (i - 1) + 1 = i)
    BY <1>1
  <1>6. 1 \in 1 .. n + 1 /\ \A i \in 1 .. n : i + 1 \in 1 .. n + 1
    BY <1>1
  <1>7. ASSUME NEW port PROVE Passes(t, port) <=> Passes(pfs, port) \/ pf_in_range(port, f)
    <2>1. ASSUME Passes(t, port) PROVE Passes(pfs, port) \/ pf_in_range(port, f)
      <3>1. PICK i \in 1 .. n + 1 : pf_in_range(port, t[i])
        BY <1>4, <2>1 DEF Passes
      <3>2. CASE i = 1
        BY <1>3, <3>1, <3>2
      <3>3. CASE i # 1
        <4>1. i - 1 \in 1 .. n /\ t[i] = pfs[i - 1]
          BY <1>3, <1>5, <3>3
        <4> QED
          BY <1>1, <3>1, <4>1 DEF Passes
      <3> QED
        BY <3>2, <3>3
    <2>2. ASSUME Passes(pfs, port) PROVE Passes(t, port)
      <3>1. PICK i \in 1 .. n : pf_in_range(port, pfs[i])
        BY <1>1, <2>2 DEF Passes
      <3> QED
        BY <1>3, <1>4, <1>6, <3>1 DEF Passes
    <2>3. ASSUME pf_in_range(port, f) PROVE Passes(t, port)
      BY <1>3, <1>4, <1>6, <2>3 DEF Passes
    <2> QED
      BY <2>1, <2>2, <2>3
  <1> QED
    BY <1>3, <1>7 DEF port_filter_add, t, n

Parsed == [pfs : Seq(PortFilter), neg : BOOLEAN]

\* What a parse of the first n items leaves.
ParsedTo(items, pfs, n, p) ==
    /\ p \in Parsed /\ Len(p.pfs) = Len(pfs) + n
    /\ \E star : /\ Stars(items, n, star) /\ (p.neg <=> ~ star[n + 1])
                 /\ \A port \in PortNumber :
                       Passes(p.pfs, port) <=> Passes(pfs, port) \/ SomeLets(items, n, star, port)

NextParsed(S, x) ==
    UNION {{[pfs |-> port_filter_add(p.pfs, f), neg |-> f.neg] : f \in pf_parse(x, p.neg)} : p \in S}

LEMMA NextParsedIs ==
    ASSUME NEW S \in SUBSET Parsed, NEW x, ItemOk(x)
    PROVE  NextParsed(S, x) \in SUBSET Parsed
  <1> SUFFICES ASSUME NEW q \in NextParsed(S, x) PROVE q \in Parsed
    OBVIOUS
  <1>1. PICK p \in S : q \in {[pfs |-> port_filter_add(p.pfs, f), neg |-> f.neg] : f \in pf_parse(x, p.neg)}
    BY DEF NextParsed
  <1>2. PICK f \in pf_parse(x, p.neg) : q = [pfs |-> port_filter_add(p.pfs, f), neg |-> f.neg]
    BY <1>1
  <1>3. p.pfs \in Seq(PortFilter) /\ p.neg \in BOOLEAN
    BY DEF Parsed
  <1>4. f \in PortFilter
    BY <1>3, FilterIs
  <1>5. port_filter_add(p.pfs, f) \in Seq(PortFilter) /\ f.neg \in BOOLEAN
    BY <1>3, <1>4, FilterAdded DEF PortFilter
  <1> QED
    BY <1>2, <1>5 DEF Parsed

LEMMA ParsedMore ==
    ASSUME NEW items, ItemsOk(items), NEW pfs \in Seq(PortFilter), NEW k \in Nat, k + 1 <= Len(items),
           NEW S \in SUBSET Parsed, \A p \in S : ParsedTo(items, pfs, k, p),
           NEW q \in NextParsed(S, items[k + 1])
    PROVE  ParsedTo(items, pfs, k + 1, q)
  <1>1. ItemOk(items[k + 1])
    BY DEF ItemsOk
  <1>2. PICK p \in S : q \in {[pfs |-> port_filter_add(p.pfs, f), neg |-> f.neg] : f \in pf_parse(items[k + 1], p.neg)}
    BY DEF NextParsed
  <1>3. PICK f \in pf_parse(items[k + 1], p.neg) : q = [pfs |-> port_filter_add(p.pfs, f), neg |-> f.neg]
    BY <1>2
  <1>4. p.pfs \in Seq(PortFilter) /\ p.neg \in BOOLEAN /\ Len(p.pfs) = Len(pfs) + k
    BY DEF Parsed, ParsedTo
  <1>5. /\ f \in PortFilter /\ (~ f.neg <=> AfterItem(items[k + 1], ~ p.neg))
        /\ \A port \in PortNumber : pf_in_range(port, f) <=> Lets(items[k + 1], ~ p.neg, port)
    BY <1>1, <1>4, FilterIs
  <1>6. /\ port_filter_add(p.pfs, f) \in Seq(PortFilter) /\ Len(port_filter_add(p.pfs, f)) = Len(p.pfs) + 1
        /\ \A port : Passes(port_filter_add(p.pfs, f), port) <=> Passes(p.pfs, port) \/ pf_in_range(port, f)
    BY <1>4, <1>5, FilterAdded
  <1>7. q \in Parsed /\ q.pfs = port_filter_add(p.pfs, f)
    BY <1>1, <1>3, NextParsedIs
  <1>8. Len(q.pfs) = Len(pfs) + (k + 1)
    <2>1. Len(pfs) \in Nat
      BY LenProperties
    <2> QED
      BY <1>4, <1>6, <1>7, <2>1
  <1>9. PICK star : /\ Stars(items, k, star) /\ (p.neg <=> ~ star[k + 1])
                    /\ \A port \in PortNumber :
                          Passes(p.pfs, port) <=> Passes(pfs, port) \/ SomeLets(items, k, star, port)
    BY DEF ParsedTo
  <1>a. PICK b \in BOOLEAN : b <=> AfterItem(items[k + 1], star[k + 1])
    <2>1. TRUE \in BOOLEAN /\ FALSE \in BOOLEAN
      OBVIOUS
    <2> QED
      BY <2>1
  <1>10. PICK more : more = [i \in 1 .. k + 2 |-> IF i = k + 2 THEN b ELSE star[i]]
    OBVIOUS
  <1>11. /\ more \in [1 .. (k + 1) + 1 -> BOOLEAN] /\ more[(k + 1) + 1] = b
         /\ \A i \in 1 .. k + 1 : more[i] = star[i]
    <2>1. \A i \in 1 .. k + 2 : i = k + 2 \/ i \in 1 .. k + 1
      OBVIOUS
    <2>2. k + 2 = (k + 1) + 1 /\ k + 2 \in 1 .. k + 2 /\ 1 .. k + 1 \subseteq 1 .. k + 2 /\ k + 2 \notin 1 .. k + 1
      OBVIOUS
    <2>3. \A i \in 1 .. k + 1 : star[i] \in BOOLEAN
      BY <1>9 DEF Stars
    <2> QED
      BY <1>10, <2>1, <2>2, <2>3
  <1>12. \A i \in 1 .. k : i \in 1 .. k + 1 /\ i + 1 \in 1 .. k + 1
    OBVIOUS
  <1>13. \A i \in 1 .. k + 1 : i \in 1 .. k \/ i = k + 1
    OBVIOUS
  <1>14. Stars(items, k + 1, more)
    <2>1. ASSUME NEW i \in 1 .. k + 1 PROVE more[i + 1] <=> AfterItem(items[i], more[i])
      <3>1. CASE i \in 1 .. k
        <4>1. more[i] = star[i] /\ more[i + 1] = star[i + 1]
          BY <1>11, <1>12, <3>1
        <4>2. star[i + 1] <=> AfterItem(items[i], star[i])
          BY <1>9, <3>1 DEF Stars
        <4> QED
          BY <4>1, <4>2
      <3>2. CASE i = k + 1
        BY <1>a, <1>11, <3>2
      <3> QED
        BY <1>13, <3>1, <3>2
    <2> QED
      BY <1>11, <2>1 DEF Stars
  <1>15. q.neg = f.neg /\ (q.neg <=> ~ more[(k + 1) + 1])
    <2>1. q.neg = f.neg /\ f.neg \in BOOLEAN
      BY <1>3, <1>5 DEF PortFilter
    <2>2. (~ p.neg <=> star[k + 1]) /\ star[k + 1] \in BOOLEAN
      BY <1>4, <1>9 DEF Stars
    <2>3. ~ f.neg <=> b
      BY <1>5, <1>a, <2>2
    <2> QED
      BY <1>11, <2>1, <2>3
  <1>16. ASSUME NEW port \in PortNumber
         PROVE  SomeLets(items, k + 1, more, port)
                   <=> SomeLets(items, k, star, port) \/ Lets(items[k + 1], star[k + 1], port)
    <2>1. k + 1 \in 1 .. k + 1
      OBVIOUS
    <2> QED
      BY <1>11, <1>12, <1>13, <2>1 DEF SomeLets
  <1>17. \A port \in PortNumber : Passes(q.pfs, port) <=> Passes(pfs, port) \/ SomeLets(items, k + 1, more, port)
    <2>1. ~ p.neg <=> star[k + 1]
      BY <1>4, <1>9 DEF Stars
    <2>3. \A port : Lets(items[k + 1], ~ p.neg, port) <=> Lets(items[k + 1], star[k + 1], port)
      BY <2>1 DEF Lets
    <2>4. \A port \in PortNumber : pf_in_range(port, f) <=> Lets(items[k + 1], star[k + 1], port)
      BY <1>5, <2>3
    <2> QED
      BY <1>6, <1>7, <1>9, <1>16, <2>4
  <1> QED
    BY <1>7, <1>8, <1>14, <1>15, <1>17 DEF ParsedTo

LEMMA ParseIs ==
    ASSUME NEW items, ItemsOk(items), NEW pfs \in Seq(PortFilter), NEW q \in parse_pf_list(items, pfs)
    PROVE  \E p : p.pfs = q /\ ParsedTo(items, pfs, Len(items), p)
  <1> DEFINE N == Len(items)
             V == SUBSET Parsed
             first == {[pfs |-> pfs, neg |-> neg] : neg \in BOOLEAN}
             step == [x \in Nat \X V |-> IF x[1] \in 1 .. N THEN NextParsed(x[2], items[x[1]]) ELSE x[2]]
  <1>1. N \in Nat /\ \A i \in 1 .. N : ItemOk(items[i])
    BY DEF ItemsOk
  <1>2. \A n \in Nat, S \in V : step[<<n, S>>] = IF n \in 1 .. N THEN NextParsed(S, items[n]) ELSE S
    OBVIOUS
  <1>3. step \in [Nat \X V -> V]
    <2>1. ASSUME NEW x \in Nat \X V PROVE (IF x[1] \in 1 .. N THEN NextParsed(x[2], items[x[1]]) ELSE x[2]) \in V
      <3>1. x[2] \in V
        OBVIOUS
      <3> QED
        BY <1>1, <3>1, NextParsedIs
    <2> QED
      BY <2>1
  <1>4. first \in V
    BY DEF Parsed
  <1> HIDE DEF step, first, V
  <1>5. PICK e : SolvesTo(N, V, first, step, e)
    <2>1. Steps(V, first, step)
      BY <1>3, <1>4 DEF Steps
    <2> QED
      BY <1>1, <2>1, RecursionTo
  <1>6. ASSUME NEW i \in 0 .. N PROVE e[i] = IF i = 0 THEN first ELSE NextParsed(e[i - 1], items[i])
    <2>1. CASE i = 0
      BY <1>5, <2>1 DEF SolvesTo
    <2>2. CASE i # 0
      <3>1. i \in 1 .. N /\ i \in Nat /\ i - 1 \in 0 .. N
        BY <1>1, <2>2
      <3>2. e[i] = step[<<i, e[i - 1]>>] /\ e[i - 1] \in V
        BY <1>5, <2>2, <3>1 DEF SolvesTo
      <3> QED
        BY <1>2, <2>2, <3>1, <3>2
    <2> QED
      BY <2>1, <2>2
  <1> DEFINE Equation(g) == g = [k \in 0 .. N |-> IF k = 0 THEN first ELSE NextParsed(g[k - 1], items[k])]
             parsed == CHOOSE g : Equation(g)
  <1>7. Equation(e)
    <2>1. e = [k \in 0 .. N |-> e[k]]
      BY <1>5 DEF SolvesTo
    <2> QED
      BY <1>6, <2>1
  <1>8. Equation(parsed)
    BY <1>7
  <1>9. parse_pf_list(items, pfs) = {p.pfs : p \in parsed[N]}
    BY DEF parse_pf_list, NextParsed, first
  <1> HIDE DEF parsed
  <1>10. parsed[0] = first /\ \A i \in 1 .. N : parsed[i] = NextParsed(parsed[i - 1], items[i])
    <2>1. \A i \in 0 .. N : parsed[i] = IF i = 0 THEN first ELSE NextParsed(parsed[i - 1], items[i])
      BY <1>8
    <2>2. 0 \in 0 .. N /\ \A i \in 1 .. N : i \in 0 .. N /\ i # 0
      BY <1>1
    <2> QED
      BY <2>1, <2>2
  <1> HIDE DEF Equation
  <1> DEFINE T == {k \in Nat : k <= N => parsed[k] \in V /\ \A p \in parsed[k] : ParsedTo(items, pfs, k, p)}
  <1>11. 0 \in T
    <2>1. ASSUME NEW p \in first PROVE ParsedTo(items, pfs, 0, p)
      <3>1. p \in Parsed /\ p.pfs = pfs /\ p.neg \in BOOLEAN
        BY <2>1 DEF first, Parsed
      <3>b. PICK b \in BOOLEAN : b <=> ~ p.neg
        <4> TRUE \in BOOLEAN /\ FALSE \in BOOLEAN
          OBVIOUS
        <4> QED
          BY <3>1
      <3>2. PICK one : one = [i \in 1 .. 0 + 1 |-> b]
        OBVIOUS
      <3>3. one \in [1 .. 0 + 1 -> BOOLEAN] /\ one[0 + 1] = b /\ (p.neg <=> ~ b)
        BY <3>1, <3>b, <3>2
      <3>4. Stars(items, 0, one) /\ \A port : ~ SomeLets(items, 0, one, port)
        BY <3>3 DEF Stars, SomeLets
      <3>5. Len(p.pfs) = Len(pfs) + 0
        BY <3>1, LenProperties
      <3> QED
        BY <3>1, <3>3, <3>4, <3>5 DEF ParsedTo
    <2> QED
      BY <1>4, <1>10, <2>1
  <1>12. ASSUME NEW k \in T PROVE k + 1 \in T
    <2> SUFFICES ASSUME k + 1 <= N
                 PROVE  parsed[k + 1] \in V /\ \A p \in parsed[k + 1] : ParsedTo(items, pfs, k + 1, p)
      OBVIOUS
    <2>1. k \in Nat /\ parsed[k] \in V /\ \A p \in parsed[k] : ParsedTo(items, pfs, k, p)
      BY <1>1
    <2>2. k + 1 \in 1 .. N /\ (k + 1) - 1 = k
      BY <1>1, <2>1
    <2>3. parsed[k + 1] = NextParsed(parsed[k], items[k + 1])
      BY <1>10, <2>2
    <2>4. parsed[k + 1] \in V
      BY <1>1, <2>1, <2>2, <2>3, NextParsedIs DEF V
    <2>5. \A p \in parsed[k + 1] : ParsedTo(items, pfs, k + 1, p)
      BY <2>1, <2>3, ParsedMore DEF V
    <2> QED
      BY <2>4, <2>5
  <1> HIDE DEF T
  <1>13. T \in SUBSET Nat
    BY DEF T
  <1>14. N \in T
    BY <1>1, <1>11, <1>12, <1>13, Induction
  <1> QED
    BY <1>1, <1>9, <1>14 DEF T

LEMMA DeniedIs ==
    ASSUME NEW pfs \in Seq(PortFilter)
    PROVE  /\ port_filters_deny_if_empty(pfs) \in Seq(PortFilter)
           /\ \A port \in PortNumber : port_filters_in_range(port_filters_deny_if_empty(pfs), port) <=> Passes(pfs, port)
  <1>1. CASE pfs = <<>>
    <2>1. PICK f, denied : f = Port(0, 0, TRUE) /\ denied = <<f>>
      OBVIOUS
    <2>2. f \in PortFilter /\ f.from = 0 /\ f.to = 0 /\ f.neg = TRUE
      BY <2>1 DEF Port, PortFilter
    <2>3. denied \in Seq(PortFilter) /\ denied # <<>> /\ DOMAIN denied = {1} /\ denied[1] = f
      <3>1. denied = <<f>>
        BY <2>1
      <3>2. <<f>> \in Seq(PortFilter)
        BY <2>2
      <3>3. Len(<<f>>) = 1 /\ <<f>>[1] = f
        OBVIOUS
      <3>4. DOMAIN denied = 1 .. 1
        BY <3>1, <3>2, <3>3, LenProperties
      <3> QED
        BY <3>1, <3>2, <3>3, <3>4
    <2>4. \A port : ~ pf_in_range(port, f)
      BY <2>2 DEF pf_in_range
    <2>5. \A port : ~ Passes(pfs, port)
      BY <1>1 DEF Passes
    <2>6. port_filters_deny_if_empty(pfs) = denied
      BY <1>1, <2>1 DEF port_filters_deny_if_empty
    <2>7. \A port : ~ port_filters_in_range(denied, port)
      BY <2>3, <2>4 DEF port_filters_in_range
    <2> QED
      BY <2>3, <2>5, <2>6, <2>7
  <1>2. CASE pfs # <<>>
    BY <1>2 DEF port_filters_deny_if_empty, port_filters_in_range, Passes
  <1> QED
    BY <1>1, <1>2

\* A profile that options can filter the ports of.
Filters(c) ==
    /\ "profiles" \in DOMAIN c /\ IsSeq(c.profiles) /\ Len(c.profiles) >= 1
    /\ {"tcp", "udp"} \subseteq DOMAIN Dp(c) /\ Dp(c).tcp \in Seq(PortFilter) /\ Dp(c).udp \in Seq(PortFilter)

\* What items add to the ports a protocol has, and what remains of the other's.
AddsPorts(was, now, items) ==
    \E star : /\ Stars(items, Len(items), star)
              /\ \A port \in PortNumber :
                    port_filters_in_range(now, port) <=> Passes(was, port) \/ SomeLets(items, Len(items), star, port)
OnlyNamed(was, now) == \A port \in PortNumber : port_filters_in_range(now, port) <=> Passes(was, port)

LEMMA PortsParsed ==
    ASSUME NEW pfs \in Seq(PortFilter), NEW items, ItemsOk(items), Len(items) >= 1, NEW q \in parse_pf_list(items, pfs)
    PROVE  q \in Seq(PortFilter) /\ AddsPorts(pfs, q, items)
  <1>1. PICK p : p.pfs = q /\ ParsedTo(items, pfs, Len(items), p)
    BY ParseIs
  <1>2. q \in Seq(PortFilter) /\ Len(q) = Len(pfs) + Len(items)
    BY <1>1 DEF ParsedTo, Parsed
  <1>3. q # <<>>
    <2>1. Len(pfs) \in Nat /\ Len(items) \in Nat
      BY LenProperties DEF ItemsOk
    <2> QED
      BY <1>2, <2>1
  <1>4. \A port : port_filters_in_range(q, port) <=> Passes(q, port)
    BY <1>3 DEF port_filters_in_range, Passes
  <1> QED
    BY <1>1, <1>2, <1>4 DEF AddsPorts, ParsedTo

LEMMA PortsPut ==
    ASSUME NEW c, Filters(c), NEW dp, DOMAIN dp = DOMAIN Dp(c),
           dp.tcp \in Seq(PortFilter), dp.udp \in Seq(PortFilter)
    PROVE  Filters(Put(c, dp)) /\ Dp(Put(c, dp)) = dp
  <1> DEFINE t == Append(Front(c.profiles), dp)
             d == Put(c, dp)
  <1>1. d.profiles = t /\ DOMAIN d = DOMAIN c
    BY DEF Put, Filters
  <1>2. IsSeq(t) /\ Len(t) = Len(c.profiles) /\ Last(t) = dp
    BY SeqReplaced DEF Filters
  <1> HIDE DEF t, d
  <1>3. Dp(d) = dp
    BY <1>1, <1>2 DEF Dp
  <1>4. Filters(d)
    BY <1>1, <1>2, <1>3 DEF Filters
  <1> QED
    BY <1>3, <1>4 DEF d

\* A filter for the ports of one protocol adds what its items say, a star being
\* as the item before it, to what the filters before it let through, and leaves
\* the other protocol the ports that its own filters name, none without them
\* (--filter-tcp and --filter-udp, parse_pf_list and pf_parse of
\* nfq2/helpers.c).
THEOREM PortsAreMeant ==
    ASSUME NEW c, Filters(c), NEW items, ItemsOk(items), Len(items) >= 1
    PROVE  /\ \A d \in FilterTcp(c, items) :
                 Filters(d) /\ AddsPorts(Dp(c).tcp, Dp(d).tcp, items) /\ OnlyNamed(Dp(c).udp, Dp(d).udp)
           /\ \A d \in FilterUdp(c, items) :
                 Filters(d) /\ AddsPorts(Dp(c).udp, Dp(d).udp, items) /\ OnlyNamed(Dp(c).tcp, Dp(d).tcp)
  <1>0. Dp(c).tcp \in Seq(PortFilter) /\ Dp(c).udp \in Seq(PortFilter)
    BY DEF Filters
  <1>1. ASSUME NEW d \in FilterTcp(c, items)
        PROVE  Filters(d) /\ AddsPorts(Dp(c).tcp, Dp(d).tcp, items) /\ OnlyNamed(Dp(c).udp, Dp(d).udp)
    <2>1. PICK q \in parse_pf_list(items, Dp(c).tcp) :
             d = Put(c, [Dp(c) EXCEPT !.tcp = q, !.udp = port_filters_deny_if_empty(Dp(c).udp)])
      BY <1>1 DEF FilterTcp
    <2>2. q \in Seq(PortFilter) /\ AddsPorts(Dp(c).tcp, q, items)
      BY <1>0, PortsParsed
    <2>3. PICK r : r = port_filters_deny_if_empty(Dp(c).udp)
      OBVIOUS
    <2>4. r \in Seq(PortFilter) /\ OnlyNamed(Dp(c).udp, r)
      BY <1>0, <2>3, DeniedIs DEF OnlyNamed
    <2>5. PICK dp : dp = [Dp(c) EXCEPT !.tcp = q, !.udp = r]
      OBVIOUS
    <2>6. dp.tcp = q /\ dp.udp = r /\ DOMAIN dp = DOMAIN Dp(c)
      BY <2>5 DEF Filters
    <2>7. d = Put(c, dp)
      BY <2>1, <2>3, <2>5
    <2>8. Filters(d) /\ Dp(d) = dp
      BY <2>2, <2>4, <2>6, <2>7, PortsPut
    <2> QED
      BY <2>2, <2>4, <2>6, <2>8
  <1>2. ASSUME NEW d \in FilterUdp(c, items)
        PROVE  Filters(d) /\ AddsPorts(Dp(c).udp, Dp(d).udp, items) /\ OnlyNamed(Dp(c).tcp, Dp(d).tcp)
    <2>1. PICK q \in parse_pf_list(items, Dp(c).udp) :
             d = Put(c, [Dp(c) EXCEPT !.udp = q, !.tcp = port_filters_deny_if_empty(Dp(c).tcp)])
      BY <1>2 DEF FilterUdp
    <2>2. q \in Seq(PortFilter) /\ AddsPorts(Dp(c).udp, q, items)
      BY <1>0, PortsParsed
    <2>3. PICK r : r = port_filters_deny_if_empty(Dp(c).tcp)
      OBVIOUS
    <2>4. r \in Seq(PortFilter) /\ OnlyNamed(Dp(c).tcp, r)
      BY <1>0, <2>3, DeniedIs DEF OnlyNamed
    <2>5. PICK dp : dp = [Dp(c) EXCEPT !.udp = q, !.tcp = r]
      OBVIOUS
    <2>6. dp.udp = q /\ dp.tcp = r /\ DOMAIN dp = DOMAIN Dp(c)
      BY <2>5 DEF Filters
    <2>7. d = Put(c, dp)
      BY <2>1, <2>3, <2>5
    <2>8. Filters(d) /\ Dp(d) = dp
      BY <2>2, <2>4, <2>6, <2>7, PortsPut
    <2> QED
      BY <2>2, <2>4, <2>6, <2>8
  <1> QED
    BY <1>1, <1>2

=============================================================================
