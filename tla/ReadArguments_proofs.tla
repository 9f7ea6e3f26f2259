------------------------ MODULE ReadArguments_proofs ------------------------
(***************************************************************************)
(* Theorems about the arguments of a read: the codes of the thresholds,    *)
(* for every converter width and for significands of every length, and the *)
(* waits of the C driver, for every width of the integers they are         *)
(* computed in.                                                            *)
(*                                                                         *)
(* The codes rest on two facts.  Rounding a quotient to a significand      *)
(* never carries it across a code, because the codes are among the values  *)
(* the significand has: so a code is off by at most the one that rounding  *)
(* onto it costs.  And every value of the shorter significand is one of    *)
(* the longer: so what the longer rounds onto a code, the shorter does.    *)
(***************************************************************************)
EXTENDS ReadArguments, FiniteSets, FiniteSetTheorems, FunctionTheorems, WellFoundedInduction, TLAPS

\* A set of naturals that has zero, and every successor of its elements, has all.
LEMMA SetInduction ==
    ASSUME NEW S, 0 \in S, \A n \in Nat : n \in S => n + 1 \in S
    PROVE  Nat \subseteq S
<1> SUFFICES ASSUME Nat \ S # {} PROVE FALSE
  OBVIOUS
<1>1. PICK x \in Nat \ S : \A y \in Nat \ S : ~(<<y, x>> \in OpToRel(<, Nat))
  BY NatLessThanWellFounded, WFMin
<1>2. x # 0 /\ x - 1 \in Nat
  OBVIOUS
<1>3. x - 1 \notin S
  BY <1>2
<1>4. <<x - 1, x>> \in OpToRel(<, Nat)
  BY <1>2 DEF OpToRel
<1> QED
  BY <1>1, <1>2, <1>3, <1>4

\* A set of naturals that is not empty has a least element.
LEMMA LeastElement ==
    ASSUME NEW S \in SUBSET Nat, S # {}
    PROVE  \E least \in S : \A n \in S : least <= n
<1>1. PICK x \in S : \A y \in S : ~(<<y, x>> \in OpToRel(<, Nat))
  BY NatLessThanWellFounded, WFMin
<1>2. ASSUME NEW y \in S, y < x PROVE FALSE
  <2>1. <<y, x>> \in OpToRel(<, Nat)
    BY <1>2 DEF OpToRel
  <2> QED
    BY <1>1, <2>1
<1>3. \A y \in S : x <= y
  BY <1>2
<1> QED
  BY <1>3

(***************************************************************************)
(* Products and quotients                                                  *)
(***************************************************************************)
LEMMA Products ==
    ASSUME NEW a \in Int, NEW b \in Int, NEW g \in Nat \ {0}
    PROVE  /\ a * g \in Int
           /\ a <= b <=> a * g <= b * g
           /\ a < b <=> a * g < b * g
  OBVIOUS

LEMMA Associative ==
    ASSUME NEW a \in Int, NEW b \in Int, NEW d \in Int
    PROVE  (a * b) * d = a * (b * d) /\ a * b = b * a
  OBVIOUS

\* The quotient is the one number whose multiple is at most one divisor below.
LEMMA Quotient ==
    ASSUME NEW a \in Nat, NEW b \in Nat \ {0}
    PROVE  /\ a \div b \in Nat
           /\ a % b \in 0 .. b - 1
           /\ a = (a \div b) * b + (a % b)
           /\ \A k \in Int : k <= a \div b <=> k * b <= a
<1>1. a \div b \in Nat /\ a % b \in 0 .. b - 1 /\ a = (a \div b) * b + (a % b)
  OBVIOUS
<1> DEFINE q == a \div b
           r == a % b
<1> HIDE DEF q, r
<1>2. q \in Nat /\ r \in 0 .. b - 1 /\ a = q * b + r
  BY <1>1 DEF q, r
<1>3. ASSUME NEW k \in Int PROVE k <= q <=> k * b <= a
  <2>1. k <= q => k * b <= q * b
    BY <1>2, Products
  <2>2. q + 1 <= k => (q + 1) * b <= k * b
    BY <1>2, Products
  <2>3. (q + 1) * b = q * b + b
    BY <1>2
  <2>4. q * b \in Int /\ k * b \in Int
    BY <1>2
  <2> QED
    BY <1>2, <2>1, <2>2, <2>3, <2>4
<1> QED
  BY <1>1, <1>3 DEF q

\* Rounding up.
LEMMA Ceiling ==
    ASSUME NEW a \in Nat, NEW b \in Nat \ {0}
    PROVE  /\ CeilDiv(a, b) \in Nat
           /\ \A k \in Int : CeilDiv(a, b) <= k <=> a <= k * b
<1>1. a + b - 1 \in Nat /\ CeilDiv(a, b) = (a + b - 1) \div b
  BY DEF CeilDiv
<1>2. CeilDiv(a, b) \in Nat
  BY <1>1, Quotient
<1>3. ASSUME NEW k \in Int PROVE CeilDiv(a, b) <= k <=> a <= k * b
  <2> DEFINE n == a + b - 1
  <2>0. n \in Nat /\ CeilDiv(a, b) = n \div b /\ k + 1 \in Int
    BY <1>1
  <2> HIDE DEF n
  <2>1. k + 1 <= CeilDiv(a, b) <=> (k + 1) * b <= n
    <3>1. \A i \in Int : i <= n \div b <=> i * b <= n
      BY <2>0, Quotient, Zenon
    <3> QED
      BY <2>0, <3>1, Zenon
  <2>2. (k + 1) * b = k * b + b /\ k * b \in Int
    OBVIOUS
  <2> QED
    BY <1>2, <2>1, <2>2 DEF n
<1> QED
  BY <1>2, <1>3

\* Rounding to nearest keeps the side of a multiple of the divisor.
LEMMA Nearest ==
    ASSUME NEW a \in Nat, NEW b \in Nat \ {0}
    PROVE  /\ NearestQuotient(a, b) \in Nat
           /\ \A k \in Int : a <= k * b => NearestQuotient(a, b) <= k
           /\ \A k \in Int : k * b <= a => k <= NearestQuotient(a, b)
<1> DEFINE q == a \div b
           r == a % b
<1>1. NearestQuotient(a, b) = IF 2 * r < b \/ (2 * r = b /\ q % 2 = 0) THEN q ELSE q + 1
  BY DEF NearestQuotient
<1>2. q \in Nat /\ r \in 0 .. b - 1 /\ a = q * b + r /\ \A k \in Int : k <= q <=> k * b <= a
  BY Quotient
<1> HIDE DEF q, r
<1>3. NearestQuotient(a, b) \in {q, q + 1}
  BY <1>1
<1>4. ASSUME NEW k \in Int, a <= k * b PROVE NearestQuotient(a, b) <= k
  <2>1. CASE a = k * b
    <3>1. k <= q
      BY <1>2, <2>1
    <3>2. q <= k
      <4>1. q * b <= k * b
        BY <1>2, <2>1
      <4> QED
        BY <1>2, <4>1, Products
    <3>3. r = 0
      BY <1>2, <2>1, <3>1, <3>2
    <3> QED
      BY <1>1, <1>2, <3>2, <3>3
  <2>2. CASE a < k * b
    <3>1. ~(k <= q)
      BY <1>2, <2>2
    <3> QED
      BY <1>2, <1>3, <3>1
  <2> QED
    BY <1>4, <2>1, <2>2
<1> QED
  BY <1>2, <1>3, <1>4

\* A value that a finer rounding takes to a multiple of the divisor is taken there
\* by a coarser one.
LEMMA CoarserDown ==
    ASSUME NEW a \in Nat, NEW b \in Nat \ {0}, NEW h \in Nat \ {0}, NEW k \in Nat,
           k * b <= a, NearestQuotient(a * h, b) <= k * h
    PROVE  NearestQuotient(a, b) <= k
<1> DEFINE r == a - k * b
<1>1. r \in Nat /\ a = k * b + r /\ k * b \in Nat /\ k * h \in Nat /\ r * h \in Nat /\ a * h \in Nat
  OBVIOUS
<1>2. a * h = (k * h) * b + r * h
  <2>1. a * h = (k * b) * h + r * h
    BY <1>1
  <2>2. (k * b) * h = (k * h) * b
    OBVIOUS
  <2> QED
    BY <2>1, <2>2
<1>3. r <= r * h
  OBVIOUS
<1> HIDE DEF r
<1> DEFINE n == a * h
           j == k * h
           s == r * h
<1>4. n \in Nat /\ j \in Nat /\ s \in Nat /\ n = j * b + s /\ NearestQuotient(n, b) <= j
  BY <1>1, <1>2
<1> HIDE DEF n, j, s
<1>5. s < b /\ n \div b = j /\ n % b = s
  <2>1. /\ n \div b \in Nat /\ n % b \in 0 .. b - 1 /\ n = (n \div b) * b + (n % b)
        /\ \A i \in Int : i <= n \div b <=> i * b <= n
    BY <1>4, Quotient
  <2>2. j <= n \div b
    BY <1>4, <2>1
  <2>3. n \div b <= NearestQuotient(n, b)
    BY <2>1 DEF NearestQuotient
  <2>4. n \div b = j
    <3>1. NearestQuotient(n, b) \in Nat
      BY <1>4, Nearest
    <3> QED
      BY <1>4, <2>1, <2>2, <2>3, <3>1
  <2> QED
    BY <1>4, <2>1, <2>4
<1>6. 2 * s < b \/ (2 * s = b /\ j % 2 = 0)
  BY <1>4, <1>5 DEF NearestQuotient
<1>7. a \div b = k /\ a % b = r
  <2>1. r < b
    BY <1>1, <1>3, <1>4, <1>5 DEF s
  <2>2. /\ a \div b \in Nat /\ a % b \in 0 .. b - 1 /\ a = (a \div b) * b + (a % b)
        /\ \A i \in Int : i <= a \div b <=> i * b <= a
    BY Quotient
  <2>3. k <= a \div b
    BY <2>2
  <2>4. ~(k + 1 <= a \div b)
    <3>1. (k + 1) * b = k * b + b
      OBVIOUS
    <3> QED
      BY <1>1, <2>1, <2>2, <3>1
  <2>5. a \div b = k
    BY <2>2, <2>3, <2>4
  <2> QED
    BY <1>1, <2>2, <2>5
<1>8. CASE 2 * r < b
  BY <1>7, <1>8 DEF NearestQuotient
<1>9. CASE ~(2 * r < b)
  <2>1. s = r /\ r # 0
    BY <1>1, <1>3, <1>4, <1>6, <1>9 DEF s
  <2>2. h = 1
    BY <1>1, <2>1 DEF s
  <2>3. a * h = a /\ k * h = k
    BY <2>2
  <2> QED
    BY <2>3
<1> QED
  BY <1>8, <1>9

LEMMA CoarserUp ==
    ASSUME NEW a \in Nat, NEW b \in Nat \ {0}, NEW h \in Nat \ {0}, NEW k \in Nat,
           a <= k * b, k * h <= NearestQuotient(a * h, b)
    PROVE  k <= NearestQuotient(a, b)
<1> DEFINE r == k * b - a
<1>1. r \in Nat /\ a = k * b - r /\ k * b \in Nat /\ k * h \in Nat /\ r * h \in Nat /\ a * h \in Nat
  OBVIOUS
<1>2. a * h = (k * h) * b - r * h
  <2>1. a * h = (k * b) * h - r * h
    BY <1>1
  <2>2. (k * b) * h = (k * h) * b
    OBVIOUS
  <2> QED
    BY <2>1, <2>2
<1>3. r <= r * h
  OBVIOUS
<1> HIDE DEF r
<1>4. CASE r = 0
  BY <1>1, <1>4, Nearest
<1>5. CASE r # 0
  <2> DEFINE n == a * h
             j == k * h
             s == r * h
  <2>1. n \in Nat /\ j \in Nat /\ s \in Nat /\ n = j * b - s /\ j <= NearestQuotient(n, b)
        /\ r <= s
    BY <1>1, <1>2, <1>3
  <2> HIDE DEF n, j, s
  <2>2. /\ n \div b \in Nat /\ n % b \in 0 .. b - 1 /\ n = (n \div b) * b + (n % b)
        /\ \A i \in Int : i <= n \div b <=> i * b <= n
    BY <2>1, Quotient
  <2>3. n \div b = j - 1
    <3>1. ~(j <= n \div b)
      BY <1>1, <1>5, <2>1, <2>2
    <3>2. NearestQuotient(n, b) <= n \div b + 1
      BY <2>2 DEF NearestQuotient
    <3> DEFINE q == n \div b
               m == NearestQuotient(n, b)
    <3>3. q \in Nat /\ m \in Nat /\ j \in Nat
      BY <1>1, <2>1, <2>2, Nearest
    <3>4. ~(j <= q) /\ j <= m /\ m <= q + 1
      BY <2>1, <3>1, <3>2
    <3> HIDE DEF q, m
    <3>5. q = j - 1
      BY <3>3, <3>4
    <3> QED
      BY <3>5 DEF q
  <2>4. n % b = b - s
    <3>1. (j - 1) * b = j * b - b
      BY <2>1
    <3> QED
      BY <2>1, <2>2, <2>3, <3>1
  <2>5. ~(2 * (b - s) < b) /\ ~(2 * (b - s) = b /\ (j - 1) % 2 = 0)
    <3>1. NearestQuotient(n, b) # n \div b
      BY <2>1, <2>2, <2>3
    <3> QED
      BY <2>3, <2>4, <3>1 DEF NearestQuotient
  <2>6. a \div b = k - 1 /\ a % b = b - r
    <3>1. /\ a \div b \in Nat /\ a % b \in 0 .. b - 1 /\ a = (a \div b) * b + (a % b)
          /\ \A i \in Int : i <= a \div b <=> i * b <= a
      BY Quotient
    <3>2. (k - 1) * b = k * b - b /\ r <= b
      BY <1>1, <2>1, <2>5
    <3>3. k - 1 <= a \div b
      BY <1>1, <3>1, <3>2
    <3>4. ~(k <= a \div b)
      BY <1>1, <1>5, <3>1
    <3>5. a \div b = k - 1
      BY <3>1, <3>3, <3>4
    <3> QED
      BY <1>1, <3>1, <3>2, <3>5
  <2>7. CASE 2 * (b - r) > b
    BY <2>6, <2>7 DEF NearestQuotient
  <2>8. CASE ~(2 * (b - r) > b)
    <3>1. s = r
      BY <1>1, <2>1, <2>5, <2>8
    <3>2. h = 1
      BY <1>1, <1>5, <3>1 DEF s
    <3>3. a * h = a /\ k * h = k
      BY <3>2
    <3> QED
      BY <3>3
  <2> QED
    BY <1>1, <2>1, <2>7, <2>8
<1> QED
  BY <1>4, <1>5

(***************************************************************************)
(* Powers of two                                                           *)
(***************************************************************************)
\* A set of n + 1 elements has twice as many subsets as one of n.
LEMMA PowerOfTwo ==
    ASSUME NEW n \in Nat
    PROVE  2 ^ n \in Nat \ {0} /\ 2 ^ (n + 1) = 2 * 2 ^ n
<1> DEFINE S == 1 .. n
           A == SUBSET S
           B == {T \cup {n + 1} : T \in A}
<1>1. IsFiniteSet(S) /\ Cardinality(S) = n
  BY FS_Interval
<1>2. IsFiniteSet(A) /\ Cardinality(A) = 2 ^ n
  BY <1>1, FS_SUBSET
<1>3. A # {} /\ Cardinality(A) \in Nat
  BY <1>2, FS_CardinalityType
<1>4. Cardinality(A) # 0
  BY <1>2, <1>3, FS_EmptySet
<1>5. IsFiniteSet(1 .. n + 1) /\ Cardinality(1 .. n + 1) = n + 1
  BY FS_Interval
<1>6. Cardinality(SUBSET (1 .. n + 1)) = 2 ^ (n + 1)
  BY <1>5, FS_SUBSET
<1>7. n + 1 \notin S /\ 1 .. n + 1 = S \cup {n + 1}
  OBVIOUS
<1>8. SUBSET (1 .. n + 1) = A \cup B
  <2>1. ASSUME NEW T \in SUBSET (1 .. n + 1) PROVE T \in A \cup B
    <3>1. CASE n + 1 \in T
      <4>1. T \ {n + 1} \in A /\ T = (T \ {n + 1}) \cup {n + 1}
        BY <1>7, <3>1
      <4> QED
        BY <4>1
    <3>2. CASE n + 1 \notin T
      BY <1>7, <3>2
    <3> QED
      BY <3>1, <3>2
  <2>2. A \cup B \subseteq SUBSET (1 .. n + 1)
    BY <1>7
  <2> QED
    BY <2>1, <2>2
<1>9. A \cap B = {} /\ n \in Nat
  BY <1>7
<1>10. IsFiniteSet(B) /\ Cardinality(B) = Cardinality(A)
  <2> DEFINE f == [T \in A |-> T \cup {n + 1}]
  <2>1. ASSUME NEW T \in A, NEW U \in A, f[T] = f[U] PROVE T = U
    BY <1>7, <2>1
  <2>a. f \in [A -> B] /\ \A U \in B : \E T \in A : f[T] = U
    OBVIOUS
  <2> HIDE DEF f, A, B
  <2>2. f \in Bijection(A, B)
    <3>1. IsInjective(f)
      BY <2>1, <2>a DEF IsInjective
    <3>2. f \in Injection(A, B)
      BY <2>a, <3>1 DEF Injection
    <3>3. f \in Surjection(A, B)
      BY <2>a DEF Surjection
    <3> QED
      BY <3>2, <3>3 DEF Bijection
  <2>3. ExistsBijection(A, B)
    BY <2>2 DEF ExistsBijection
  <2> QED
    BY <1>2, <2>3, FS_Bijection
<1> HIDE DEF S, A, B
<1>11. Cardinality(A \cup B) = Cardinality(A) + Cardinality(B)
  <2>1. Cardinality(A \cap B) = 0
    BY <1>9, FS_EmptySet
  <2>2. Cardinality(A \cup B) = Cardinality(A) + Cardinality(B) - Cardinality(A \cap B)
    BY <1>2, <1>10, FS_Union
  <2>3. Cardinality(B) \in Nat
    BY <1>3, <1>10
  <2> QED
    BY <1>3, <2>1, <2>2, <2>3
<1>12. 2 ^ n \in Nat \ {0}
  BY <1>2, <1>3, <1>4
<1>13. 2 ^ (n + 1) = 2 ^ n + 2 ^ n
  BY <1>2, <1>6, <1>8, <1>10, <1>11
<1> QED
  BY <1>12, <1>13

LEMMA PowerZero == 2 ^ 0 = 1
  OBVIOUS

LEMMA PowerSum ==
    ASSUME NEW m \in Nat, NEW n \in Nat
    PROVE  2 ^ (m + n) = 2 ^ m * 2 ^ n
<1> DEFINE S == {i \in Nat : 2 ^ (m + i) = 2 ^ m * 2 ^ i}
<1>1. 0 \in S
  <2>1. 2 ^ m \in Nat
    BY PowerOfTwo
  <2> QED
    BY <2>1, PowerZero
<1>2. ASSUME NEW i \in Nat, i \in S PROVE i + 1 \in S
  <2>1. 2 ^ (m + i) = 2 ^ m * 2 ^ i
    BY <1>2
  <2>2. 2 ^ (m + (i + 1)) = 2 * 2 ^ (m + i)
    <3>1. m + (i + 1) = (m + i) + 1 /\ m + i \in Nat
      OBVIOUS
    <3> QED
      BY <3>1, PowerOfTwo
  <2>3. 2 ^ (i + 1) = 2 * 2 ^ i /\ 2 ^ m \in Nat /\ 2 ^ i \in Nat
    BY PowerOfTwo
  <2>4. 2 * (2 ^ m * 2 ^ i) = 2 ^ m * (2 * 2 ^ i)
    <3>1. \A x, y \in Nat : 2 * (x * y) = x * (2 * y)
      OBVIOUS
    <3> QED
      BY <2>3, <3>1
  <2> QED
    BY <2>1, <2>2, <2>3, <2>4
<1>3. Nat \subseteq S
  BY <1>1, <1>2, SetInduction
<1> QED
  BY <1>3

\* A higher power is a multiple of a lower one.
LEMMA PowerMultiple ==
    ASSUME NEW m \in Nat, NEW n \in Nat, m <= n
    PROVE  \E g \in Nat \ {0} : 2 ^ n = 2 ^ m * g
<1>1. n - m \in Nat /\ m + (n - m) = n
  OBVIOUS
<1>2. 2 ^ n = 2 ^ m * 2 ^ (n - m) /\ 2 ^ (n - m) \in Nat \ {0}
  BY <1>1, PowerSum, PowerOfTwo
<1> QED
  BY <1>2

LEMMA PowerOrder ==
    ASSUME NEW m \in Nat, NEW n \in Nat
    PROVE  m <= n <=> 2 ^ m <= 2 ^ n
<1>1. \A i, j \in Nat : i <= j => 2 ^ i <= 2 ^ j
  <2> SUFFICES ASSUME NEW i \in Nat, NEW j \in Nat, i <= j PROVE 2 ^ i <= 2 ^ j
    OBVIOUS
  <2>1. PICK g \in Nat \ {0} : 2 ^ j = 2 ^ i * g
    BY PowerMultiple
  <2>2. 2 ^ i \in Nat \ {0}
    BY PowerOfTwo
  <2>3. \A x \in Nat : x <= x * g
    OBVIOUS
  <2> QED
    BY <2>1, <2>2, <2>3
<1>2. ASSUME n < m PROVE 2 ^ n < 2 ^ m
  <2>1. 2 ^ (n + 1) <= 2 ^ m
    <3>1. n + 1 \in Nat /\ n + 1 <= m
      BY <1>2
    <3> QED
      BY <1>1, <3>1
  <2>2. 2 ^ (n + 1) = 2 * 2 ^ n /\ 2 ^ n \in Nat \ {0} /\ 2 ^ m \in Nat
    BY PowerOfTwo
  <2> QED
    BY <2>1, <2>2
<1>3. 2 ^ n \in Nat /\ 2 ^ m \in Nat
  BY PowerOfTwo
<1> QED
  BY <1>1, <1>2, <1>3

(***************************************************************************)
(* The exponent of a quotient                                              *)
(***************************************************************************)
At(ohms, ref, e) == (ohms * 2 ^ e) \div ref

IsExponent(ohms, ref, precision, e) ==
    At(ohms, ref, e) \in 2 ^ (precision - 1) .. 2 ^ precision - 1

\* The next exponent doubles the quotient.
LEMMA Doubling ==
    ASSUME NEW ohms \in Nat, NEW ref \in Nat \ {0}, NEW e \in Nat
    PROVE  /\ At(ohms, ref, e) \in Nat
           /\ At(ohms, ref, e + 1) \in 2 * At(ohms, ref, e) .. 2 * At(ohms, ref, e) + 1
<1>1. 2 ^ e \in Nat \ {0} /\ 2 ^ (e + 1) = 2 * 2 ^ e
  BY PowerOfTwo
<1> DEFINE n == ohms * 2 ^ e
           q == At(ohms, ref, e)
<1>2. n \in Nat /\ ohms * 2 ^ (e + 1) = 2 * n
  <2>1. \A x \in Nat : ohms * (2 * x) = 2 * (ohms * x) /\ ohms * x \in Nat
    OBVIOUS
  <2> QED
    BY <1>1, <2>1
<1>3. q = n \div ref /\ At(ohms, ref, e + 1) = (2 * n) \div ref
  BY <1>2 DEF At
<1> HIDE DEF n, q
<1>4. /\ q \in Nat /\ n % ref \in 0 .. ref - 1 /\ n = q * ref + (n % ref)
  BY <1>2, <1>3, Quotient
<1>5. \A k \in Int : k <= (2 * n) \div ref <=> k * ref <= 2 * n
  BY <1>2, Quotient
<1>6. (2 * n) \div ref \in Nat
  BY <1>2, Quotient
<1>7. (2 * q) * ref = 2 * (q * ref) /\ (2 * q + 2) * ref = 2 * (q * ref) + 2 * ref /\ q * ref \in Nat
  BY <1>4
<1>8. 2 * q <= (2 * n) \div ref
  BY <1>4, <1>5, <1>7
<1>9. ~(2 * q + 2 <= (2 * n) \div ref)
  BY <1>4, <1>5, <1>7
<1> QED
  BY <1>3, <1>4, <1>6, <1>8, <1>9 DEF q

\* Every quotient below one has an exponent among those of the model.
LEMMA ExponentExists ==
    ASSUME NEW ohms \in Nat \ {0}, NEW ref \in References, ohms < ref,
           NEW precision \in 1 .. PythonPrecision
    PROVE  \E e \in 0 .. MaxExponent : IsExponent(ohms, ref, precision, e)
<1>0. ref \in Nat \ {0} /\ PythonPrecision \in Nat /\ MaxExponent \in Nat /\ precision - 1 \in Nat
      /\ MaxExponent - PythonPrecision \in Nat /\ ref <= 2 ^ (MaxExponent - PythonPrecision)
  BY ThresholdAssumption
<1> DEFINE E == {e \in 0 .. MaxExponent : 2 ^ (precision - 1) <= At(ohms, ref, e)}
<1>1. MaxExponent \in E
  <2>1. 2 ^ MaxExponent = 2 ^ (MaxExponent - PythonPrecision) * 2 ^ PythonPrecision
    <3>1. MaxExponent = (MaxExponent - PythonPrecision) + PythonPrecision
      BY <1>0
    <3> QED
      BY <1>0, <3>1, PowerSum
  <2> DEFINE u == 2 ^ (MaxExponent - PythonPrecision)
             v == 2 ^ (precision - 1)
             w == 2 ^ PythonPrecision
  <2>2. u \in Nat \ {0} /\ v \in Nat \ {0} /\ w \in Nat \ {0} /\ ref <= u
    BY <1>0, PowerOfTwo
  <2>3. v <= w
    <3>1. precision - 1 <= PythonPrecision
      BY <1>0
    <3> QED
      BY <1>0, <3>1, PowerOrder
  <2> HIDE DEF u, v, w
  <2>4. v * ref <= ohms * (u * w)
    <3>1. v * ref <= w * u
      BY <1>0, <2>2, <2>3
    <3>2. w * u = u * w /\ u * w \in Nat
      BY <2>2
    <3>3. \A x \in Nat : x <= ohms * x
      OBVIOUS
    <3>4. v * ref \in Nat /\ ohms * (u * w) \in Nat
      BY <1>0, <2>2, <3>2
    <3> QED
      BY <3>1, <3>2, <3>3, <3>4
  <2>5. v * ref <= ohms * 2 ^ MaxExponent
    BY <2>1, <2>4 DEF u, w
  <2>6. v <= At(ohms, ref, MaxExponent)
    <3> DEFINE n == ohms * 2 ^ MaxExponent
    <3>1. n \in Nat /\ v \in Int
      BY <1>0, <2>2, PowerOfTwo
    <3>2. v * ref <= n /\ At(ohms, ref, MaxExponent) = n \div ref
      BY <2>5 DEF At
    <3> HIDE DEF n
    <3>3. \A k \in Int : k <= n \div ref <=> k * ref <= n
      BY <1>0, <3>1, Quotient
    <3> QED
      BY <3>1, <3>2, <3>3
  <2> QED
    BY <1>0, <2>6 DEF v
<1>2. PICK e \in E : \A f \in E : e <= f
  <2>1. E \in SUBSET Nat /\ E # {}
    BY <1>0, <1>1
  <2> HIDE DEF E
  <2> QED
    BY <2>1, LeastElement
<1>3. e # 0
  <2>1. At(ohms, ref, 0) = 0
    <3>1. ohms * 2 ^ 0 = ohms
      BY PowerZero
    <3>2. ~(1 <= ohms \div ref)
      <4>1. 1 \in Int /\ ~(1 * ref <= ohms)
        BY <1>0
      <4> QED
        BY <1>0, <4>1, Quotient
    <3>3. ohms \div ref \in Nat
      BY <1>0, Quotient
    <3> QED
      BY <3>1, <3>2, <3>3 DEF At
  <2>2. 2 ^ (precision - 1) \in Nat \ {0}
    BY <1>0, PowerOfTwo
  <2> QED
    BY <2>1, <2>2
<1>4. e - 1 \in Nat /\ e - 1 \in 0 .. MaxExponent /\ e - 1 \notin E
  <2>1. e \in 1 .. MaxExponent
    BY <1>0, <1>3
  <2>2. ~(e <= e - 1)
    BY <2>1
  <2> QED
    BY <1>0, <1>2, <2>1, <2>2
<1>5. ~(2 ^ (precision - 1) <= At(ohms, ref, e - 1))
  BY <1>4
<1>6. At(ohms, ref, e) <= 2 * At(ohms, ref, e - 1) + 1 /\ At(ohms, ref, e - 1) \in Nat
      /\ At(ohms, ref, e) \in Nat
  <2>1. e = (e - 1) + 1 /\ e \in Nat
    BY <1>0
  <2> QED
    BY <1>0, <1>4, <2>1, Doubling
<1>7. 2 ^ precision = 2 * 2 ^ (precision - 1) /\ 2 ^ (precision - 1) \in Nat
  <2>1. precision = (precision - 1) + 1
    OBVIOUS
  <2> QED
    BY <1>0, <2>1, PowerOfTwo
<1>8. 2 ^ (precision - 1) <= At(ohms, ref, e)
  OBVIOUS
<1> QED
  BY <1>5, <1>6, <1>7, <1>8 DEF IsExponent

(***************************************************************************)
(* The codes                                                               *)
(***************************************************************************)
\* A quotient in a type of the given precision: the significand, and the g of its
\* denominator AdcScale * g.
IsScaled(ohms, ref, precision, m, e, g) ==
    /\ e \in Nat /\ g \in Nat \ {0} /\ 2 ^ e = AdcScale * g
    /\ IsExponent(ohms, ref, precision, e)
    /\ m = NearestQuotient((ohms * AdcScale) * g, ref)
    /\ Scaled(ohms, ref, precision) = [num |-> m * AdcScale, den |-> AdcScale * g]

\* The exponent is large enough for the scale of the codes to be a power of two
\* among the denominators.
LEMMA ScaledFacts ==
    ASSUME NEW ohms \in Nat \ {0}, NEW ref \in References, ohms < ref,
           NEW precision \in {PythonPrecision, CPrecision}
    PROVE  \E m, g \in Nat, e \in Nat : IsScaled(ohms, ref, precision, m, e, g)
<1>0. /\ ref \in Nat \ {0} /\ AdcBits \in Nat /\ precision \in 1 .. PythonPrecision
      /\ precision - 1 \in Nat /\ AdcBits <= precision - 1 /\ MaxExponent \in Nat
      /\ precision \in Nat
  BY ThresholdAssumption
<1> DEFINE e == CHOOSE i \in 0 .. MaxExponent : IsExponent(ohms, ref, precision, i)
<1>1. e \in 0 .. MaxExponent /\ IsExponent(ohms, ref, precision, e)
  BY <1>0, ExponentExists
<1>2. Scaled(ohms, ref, precision) =
          [num |-> NearestQuotient(ohms * 2 ^ e, ref) * AdcScale, den |-> 2 ^ e]
  <2>1. Scaled(ohms, ref, precision) =
            LET i == CHOOSE i \in 0 .. MaxExponent :
                         (ohms * 2 ^ i) \div ref \in 2 ^ (precision - 1) .. 2 ^ precision - 1
            IN  [num |-> NearestQuotient(ohms * 2 ^ i, ref) * AdcScale, den |-> 2 ^ i]
    BY DEF Scaled
  <2> QED
    BY <2>1 DEF IsExponent, At
<1> HIDE DEF e
<1>3. e \in Nat
  BY <1>0, <1>1
<1>4. precision - 1 < e
  <2> DEFINE v == 2 ^ (precision - 1)
             u == 2 ^ e
  <2>1. v \in Nat \ {0} /\ u \in Nat \ {0}
    BY <1>0, <1>3, PowerOfTwo
  <2>2. v <= At(ohms, ref, e)
    BY <1>1 DEF IsExponent
  <2>3. ~(u <= At(ohms, ref, e))
    <3>1. ohms * u \in Nat /\ ohms * u < ref * u /\ ref * u = u * ref
      BY <1>0, <2>1, Products
    <3>2. At(ohms, ref, e) = (ohms * u) \div ref
      BY DEF At
    <3> DEFINE n == ohms * u
    <3>3. n \in Nat /\ ~(u * ref <= n) /\ At(ohms, ref, e) = n \div ref /\ u \in Int
      BY <1>0, <2>1, <3>1, <3>2
    <3> HIDE DEF n, u
    <3>4. ref \in Nat \ {0}
      BY <1>0
    <3>5. \A k \in Int : k <= n \div ref <=> k * ref <= n
      BY <3>3, <3>4, Quotient, Zenon
    <3>6. ~(u <= n \div ref)
      BY <3>3, <3>5, Zenon
    <3> QED
      BY <3>3, <3>6, Zenon
  <2>4. ~(u <= v)
    <3>1. At(ohms, ref, e) \in Nat
      BY <1>0, <1>3, Doubling
    <3> HIDE DEF u, v
    <3> QED
      BY <2>1, <2>2, <2>3, <3>1
  <2> QED
    BY <1>0, <1>3, <2>4, PowerOrder
<1>5. PICK g \in Nat \ {0} : 2 ^ e = AdcScale * g
  <2>1. AdcBits <= e
    BY <1>0, <1>3, <1>4
  <2> QED
    BY <1>0, <1>3, <2>1, PowerMultiple DEF AdcScale
<1>6. AdcScale \in Nat \ {0}
  BY <1>0, PowerOfTwo DEF AdcScale
<1>7. ohms * 2 ^ e = (ohms * AdcScale) * g /\ (ohms * AdcScale) * g \in Nat
  BY <1>5, <1>6, Associative
<1>8. NearestQuotient((ohms * AdcScale) * g, ref) \in Nat
  BY <1>0, <1>7, Nearest
<1> QED
  BY <1>1, <1>2, <1>3, <1>5, <1>7, <1>8 DEF IsScaled

\* A common factor of both sides does not change a code.
LEMMA CommonFactor ==
    ASSUME NEW m \in Nat, NEW g \in Nat \ {0}, NEW scale \in Nat \ {0}
    PROVE  /\ (m * scale) \div (scale * g) = m \div g
           /\ CeilDiv(m * scale, scale * g) = CeilDiv(m, g)
<1> DEFINE n == m * scale
           d == scale * g
<1>1. n \in Nat /\ d \in Nat \ {0}
  OBVIOUS
<1>2. \A k \in Int : /\ k * d <= n <=> k * g <= m
                     /\ n <= k * d <=> m <= k * g
  <2> TAKE k \in Int
  <2>1. k * d = (k * g) * scale /\ k * g \in Int
    <3>1. scale * g = g * scale /\ k * (g * scale) = (k * g) * scale
      BY Associative
    <3> QED
      BY <3>1
  <2> QED
    BY <2>1, Products
<1>3. n \div d \in Nat /\ m \div g \in Nat /\ CeilDiv(n, d) \in Nat /\ CeilDiv(m, g) \in Nat
  BY <1>1, Quotient, Ceiling
<1> HIDE DEF n, d
<1>4. \A k \in Int : k <= n \div d <=> k <= m \div g
  <2>1. \A k \in Int : k <= n \div d <=> k * d <= n
    BY <1>1, Quotient
  <2>2. \A k \in Int : k <= m \div g <=> k * g <= m
    BY Quotient
  <2> QED
    BY <1>2, <2>1, <2>2
<1>5. \A k \in Int : CeilDiv(n, d) <= k <=> CeilDiv(m, g) <= k
  BY <1>1, <1>2, Ceiling
<1>6. n \div d = m \div g
  BY <1>3, <1>4
<1>7. CeilDiv(n, d) = CeilDiv(m, g)
  BY <1>3, <1>5
<1> QED
  BY <1>6, <1>7 DEF n, d

\* Incrementing the truncated value when it is below the value is rounding up.
LEMMA IncrementIsCeiling ==
    ASSUME NEW n \in Nat, NEW d \in Nat \ {0}
    PROVE  CHighCode([num |-> n, den |-> d]) = CeilDiv(n, d)
<1> DEFINE q == n \div d
<1>1. /\ q \in Nat /\ n % d \in 0 .. d - 1 /\ n = q * d + (n % d)
      /\ \A k \in Int : k <= q <=> k * d <= n
  BY Quotient
<1>2. CHighCode([num |-> n, den |-> d]) = IF q * d < n THEN q + 1 ELSE q
  BY DEF CHighCode
<1>3. CeilDiv(n, d) \in Nat /\ \A k \in Int : CeilDiv(n, d) <= k <=> n <= k * d
  BY Ceiling
<1> HIDE DEF q
<1>4. (q + 1) * d = q * d + d /\ (q - 1) * d = q * d - d /\ q * d \in Nat
  BY <1>1
<1>5. CASE q * d < n
  <2>1. CeilDiv(n, d) <= q + 1 /\ ~(CeilDiv(n, d) <= q)
    BY <1>1, <1>3, <1>4, <1>5
  <2> QED
    BY <1>1, <1>2, <1>3, <1>5, <2>1
<1>6. CASE ~(q * d < n)
  <2>1. CeilDiv(n, d) <= q /\ ~(CeilDiv(n, d) <= q - 1)
    BY <1>1, <1>3, <1>4, <1>6
  <2> QED
    BY <1>1, <1>2, <1>3, <1>6, <2>1
<1> QED
  BY <1>5, <1>6

\* The codes of a threshold that is not zero, and its exact ones.
LEMMA Codes ==
    ASSUME NEW ohms \in Nat \ {0}, NEW ref \in References,
           NEW precision, NEW m \in Nat, NEW e, NEW g,
           IsScaled(ohms, ref, precision, m, e, g)
    PROVE  LET x == Scaled(ohms, ref, precision)
           IN  /\ PythonHighCode(x) = CeilDiv(m, g)
               /\ CHighCode(x) = CeilDiv(m, g)
               /\ LowCode(x) = m \div g
<1>1. g \in Nat \ {0} /\ AdcScale \in Nat \ {0}
  BY ThresholdAssumption, PowerOfTwo DEF IsScaled, AdcScale
<1>2. Scaled(ohms, ref, precision) = [num |-> m * AdcScale, den |-> AdcScale * g]
  BY DEF IsScaled
<1>3. m * AdcScale \in Nat /\ AdcScale * g \in Nat \ {0}
  BY <1>1
<1>4. CHighCode([num |-> m * AdcScale, den |-> AdcScale * g]) = CeilDiv(m * AdcScale, AdcScale * g)
  BY <1>3, IncrementIsCeiling
<1>5. /\ (m * AdcScale) \div (AdcScale * g) = m \div g
      /\ CeilDiv(m * AdcScale, AdcScale * g) = CeilDiv(m, g)
  BY <1>1, CommonFactor
<1> QED
  BY <1>2, <1>4, <1>5 DEF PythonHighCode, LowCode

\* However the quotient is rounded, the codes are at most one away from the exact
\* ones, and never farther out.
LEMMA CodesAreClose ==
    ASSUME NEW n \in Nat, NEW ref \in Nat \ {0}, NEW g \in Nat \ {0}, NEW m \in Nat,
           m = NearestQuotient(n * g, ref)
    PROVE  /\ CeilDiv(m, g) \in CeilDiv(n, ref) - 1 .. CeilDiv(n, ref)
           /\ m \div g \in n \div ref .. n \div ref + 1
<1>1. n * g \in Nat
  OBVIOUS
<1>2. \A k \in Int : /\ n <= k * ref => m <= k * g
                     /\ k * ref <= n => k * g <= m
  <2> TAKE k \in Int
  <2>1. k * ref \in Int /\ (k * ref) * g = (k * g) * ref /\ k * g \in Int
    OBVIOUS
  <2>2. n <= k * ref => n * g <= (k * g) * ref
    BY <2>1, Products
  <2>3. k * ref <= n => (k * g) * ref <= n * g
    BY <2>1, Products
  <2> QED
    BY <1>1, <2>1, <2>2, <2>3, Nearest
<1> DEFINE above == CeilDiv(n, ref)
           below == n \div ref
           a == CeilDiv(m, g)
           b == m \div g
<1>3. /\ above \in Nat /\ \A k \in Int : above <= k <=> n <= k * ref
      /\ a \in Nat /\ \A k \in Int : a <= k <=> m <= k * g
  BY Ceiling
<1>4. /\ below \in Nat /\ \A k \in Int : k <= below <=> k * ref <= n
      /\ b \in Nat /\ \A k \in Int : k <= b <=> k * g <= m
  BY Quotient
<1> HIDE DEF above, below, a, b
<1>5. a <= above
  BY <1>2, <1>3
<1>6. above - 1 <= a
  <2>1. (above - 1) * ref <= n
    <3>1. ~(n <= (above - 1) * ref)
      BY <1>3
    <3>2. (above - 1) * ref \in Int
      BY <1>3
    <3> QED
      BY <3>1, <3>2
  <2>2. (above - 1) * g <= m
    <3>1. above - 1 \in Int
      BY <1>3
    <3>2. \A k \in Int : k * ref <= n => k * g <= m
      BY <1>2
    <3> QED
      BY <2>1, <3>1, <3>2
  <2>3. m <= a * g /\ a * g \in Int
    BY <1>3
  <2>4. (above - 1) * g <= a * g
    <3>1. (above - 1) * g \in Int
      BY <1>3
    <3> QED
      BY <2>2, <2>3, <3>1
  <2> QED
    BY <1>3, <2>4, Products
<1>7. below <= b
  <2>1. below \in Int /\ below * ref <= n
    BY <1>4
  <2>2. \A k \in Int : k * ref <= n => k * g <= m
    BY <1>2
  <2>3. below * g <= m
    BY <2>1, <2>2
  <2> QED
    BY <1>4, <2>1, <2>3
<1>8. b <= below + 1
  <2>1. n <= (below + 1) * ref /\ below + 1 \in Int
    <3>1. ~((below + 1) * ref <= n) /\ (below + 1) * ref \in Int
      BY <1>4
    <3> QED
      BY <1>4, <3>1
  <2>2. m <= (below + 1) * g
    BY <1>2, <2>1
  <2>3. b * g <= m /\ b * g \in Int /\ (below + 1) * g \in Int
    BY <1>4
  <2>4. b * g <= (below + 1) * g
    BY <2>2, <2>3
  <2> QED
    BY <1>4, <2>1, <2>4, Products
<1> QED
  BY <1>3, <1>4, <1>5, <1>6, <1>7, <1>8 DEF above, below, a, b

\* The longer significand has the larger exponent, so that its denominator is a
\* multiple of the other one.
LEMMA FinerDenominator ==
    ASSUME NEW ohms \in Nat \ {0}, NEW ref \in Nat \ {0},
           NEW m, NEW e, NEW g, IsScaled(ohms, ref, PythonPrecision, m, e, g),
           NEW n, NEW i, NEW d, IsScaled(ohms, ref, CPrecision, n, i, d)
    PROVE  \E h \in Nat \ {0} : g = d * h
<1>0. /\ e \in Nat /\ g \in Nat \ {0} /\ 2 ^ e = AdcScale * g
      /\ IsExponent(ohms, ref, PythonPrecision, e)
      /\ i \in Nat /\ d \in Nat \ {0} /\ 2 ^ i = AdcScale * d
      /\ IsExponent(ohms, ref, CPrecision, i)
      /\ AdcScale \in Nat \ {0}
  BY ThresholdAssumption, PowerOfTwo DEF IsScaled, AdcScale
<1>1. i <= e
  <2> SUFFICES ASSUME e + 1 <= i PROVE FALSE
    BY <1>0
  <2>1. /\ At(ohms, ref, e) \in Nat /\ At(ohms, ref, e + 1) \in Nat /\ At(ohms, ref, i) \in Nat
        /\ 2 * At(ohms, ref, e) <= At(ohms, ref, e + 1)
    BY <1>0, Doubling
  <2>2. At(ohms, ref, e + 1) <= At(ohms, ref, i)
    <3> DEFINE x == ohms * 2 ^ (e + 1)
               y == ohms * 2 ^ i
               k == At(ohms, ref, e + 1)
    <3>1. 2 ^ (e + 1) <= 2 ^ i /\ 2 ^ (e + 1) \in Nat /\ 2 ^ i \in Nat
      BY <1>0, PowerOrder, PowerOfTwo
    <3>2. x \in Nat /\ y \in Nat /\ x <= y
      <4>1. \A u, v \in Nat : u <= v => ohms * u \in Nat /\ ohms * v \in Nat /\ ohms * u <= ohms * v
        OBVIOUS
      <4> QED
        BY <3>1, <4>1
    <3>3. k = x \div ref /\ At(ohms, ref, i) = y \div ref
      BY DEF At
    <3> HIDE DEF x, y, k
    <3>4. k \in Nat /\ k * ref <= x /\ k * ref \in Nat
      <4>1. x \div ref \in Nat /\ \A j \in Int : j <= x \div ref <=> j * ref <= x
        BY <3>2, Quotient
      <4>2. k \in Nat /\ k \in Int /\ k <= k
        BY <3>3, <4>1
      <4>3. k * ref <= x
        BY <3>3, <4>1, <4>2
      <4> QED
        BY <4>2, <4>3
    <3>5. k * ref <= y
      BY <3>2, <3>4
    <3>6. k <= y \div ref
      <4>1. \A j \in Int : j <= y \div ref <=> j * ref <= y
        BY <3>2, Quotient
      <4> QED
        BY <3>4, <3>5, <4>1
    <3> QED
      BY <3>3, <3>6 DEF k
  <2>3. 2 ^ PythonPrecision = 2 * 2 ^ (PythonPrecision - 1) /\ 2 ^ (PythonPrecision - 1) \in Nat
    <3>1. PythonPrecision - 1 \in Nat /\ PythonPrecision = (PythonPrecision - 1) + 1
      BY ThresholdAssumption
    <3> QED
      BY <3>1, PowerOfTwo
  <2>4. 2 ^ CPrecision <= 2 ^ PythonPrecision /\ 2 ^ CPrecision \in Nat
    BY ThresholdAssumption, PowerOrder, PowerOfTwo
  <2>5. 2 ^ (PythonPrecision - 1) <= At(ohms, ref, e) /\ At(ohms, ref, i) <= 2 ^ CPrecision - 1
    BY <1>0 DEF IsExponent
  <2> QED
    BY <2>1, <2>2, <2>3, <2>4, <2>5
<1>2. PICK h \in Nat \ {0} : 2 ^ e = 2 ^ i * h
  BY <1>0, <1>1, PowerMultiple
<1>3. AdcScale * g = AdcScale * (d * h) /\ d * h \in Nat
  BY <1>0, <1>2, Associative
<1>4. g = d * h
  <2> DEFINE x == d * h
  <2>1. x \in Nat /\ AdcScale * g = AdcScale * x
    BY <1>3
  <2> HIDE DEF x
  <2>2. g * AdcScale = x * AdcScale
    BY <1>0, <2>1
  <2>3. g <= x /\ x <= g
    BY <1>0, <2>1, <2>2, Products
  <2> QED
    BY <1>0, <2>1, <2>3 DEF x
<1> QED
  BY <1>4

\* The coarser of two roundings keeps the side of a code that the finer one took.
LEMMA CoarserCodes ==
    ASSUME NEW n \in Nat, NEW ref \in Nat \ {0}, NEW d \in Nat \ {0}, NEW h \in Nat \ {0}
    PROVE  LET fine == NearestQuotient(n * (d * h), ref)
               coarse == NearestQuotient(n * d, ref)
           IN  /\ CeilDiv(coarse, d) <= CeilDiv(fine, d * h)
               /\ fine \div (d * h) <= coarse \div d
<1> DEFINE g == d * h
           a == n * d
           fine == NearestQuotient(n * g, ref)
           coarse == NearestQuotient(a, ref)
<1>1. /\ g \in Nat \ {0} /\ a \in Nat /\ n * g \in Nat /\ n * g = a * h
  BY Associative
<1>2. fine = NearestQuotient(a * h, ref)
  BY <1>1
<1>3. fine \in Nat /\ coarse \in Nat
  BY <1>1, Nearest
<1> HIDE DEF fine, coarse
<1>4. ASSUME NEW k \in Nat PROVE /\ fine <= k * g => coarse <= k * d
                                 /\ k * g <= fine => k * d <= coarse
  <2>1. k * g = (k * d) * h /\ k * d \in Nat /\ k * ref \in Int
    BY Associative
  <2>2. (k * d) * ref = (k * ref) * d
    OBVIOUS
  <2>3. n <= k * ref => a <= (k * d) * ref
    BY <2>1, <2>2, Products
  <2>4. k * ref <= n => (k * d) * ref <= a
    BY <2>1, <2>2, Products
  <2> DEFINE j == k * d
  <2>5. /\ j \in Nat /\ k * g = j * h
        /\ n <= k * ref => a <= j * ref
        /\ k * ref <= n => j * ref <= a
    BY <2>1, <2>3, <2>4
  <2> HIDE DEF j, a, g
  <2>6. n <= k * ref => coarse <= j
    BY <1>1, <2>5, Nearest DEF coarse
  <2>7. k * ref <= n => j <= coarse
    BY <1>1, <2>5, Nearest DEF coarse
  <2>8. k * ref <= n /\ fine <= k * g => coarse <= j
    <3> SUFFICES ASSUME k * ref <= n, fine <= k * g PROVE coarse <= j
      OBVIOUS
    <3>1. j * ref <= a /\ NearestQuotient(a * h, ref) <= j * h
      BY <1>2, <2>5
    <3> QED
      BY <1>1, <2>5, <3>1, CoarserDown DEF coarse
  <2>9. n <= k * ref /\ k * g <= fine => j <= coarse
    <3> SUFFICES ASSUME n <= k * ref, k * g <= fine PROVE j <= coarse
      OBVIOUS
    <3>1. a <= j * ref /\ j * h <= NearestQuotient(a * h, ref)
      BY <1>2, <2>5
    <3> QED
      BY <1>1, <2>5, <3>1, CoarserUp DEF coarse
  <2>10. n <= k * ref \/ k * ref <= n
    BY <2>1
  <2> QED
    BY <2>6, <2>7, <2>8, <2>9, <2>10 DEF j
<1> HIDE DEF g
<1>5. CeilDiv(coarse, d) <= CeilDiv(fine, g)
  <2> DEFINE k == CeilDiv(fine, g)
  <2>1. k \in Nat /\ fine <= k * g
    BY <1>1, <1>3, Ceiling
  <2> HIDE DEF k
  <2>2. coarse <= k * d
    BY <1>4, <2>1
  <2>3. CeilDiv(coarse, d) <= k
    BY <1>3, <2>1, <2>2, Ceiling
  <2> QED
    BY <2>3 DEF k
<1>6. fine \div g <= coarse \div d
  <2> DEFINE k == fine \div g
  <2>1. k \in Nat /\ k * g <= fine
    BY <1>1, <1>3, Quotient
  <2> HIDE DEF k
  <2>2. k * d <= coarse
    BY <1>4, <2>1
  <2>3. k <= coarse \div d
    <3>1. \A j \in Int : j <= coarse \div d <=> j * d <= coarse
      BY <1>3, Quotient
    <3> QED
      BY <2>1, <2>2, <3>1
  <2> QED
    BY <2>3 DEF k
<1> QED
  BY <1>5, <1>6 DEF fine, coarse, g, a

(***************************************************************************)
(* The codes of one threshold in both implementations                      *)
(***************************************************************************)
\* A threshold below the reference: how far its two pairs of codes are from the
\* exact ones and from each other.
LEMMA ThresholdCodes ==
    ASSUME NEW ohms \in Nat, NEW ref \in References, ohms < ref
    PROVE  LET inPython == Scaled(ohms, ref, PythonPrecision)
               inC == Scaled(ohms, ref, CPrecision)
               above == CeilDiv(ohms * AdcScale, ref)
               below == (ohms * AdcScale) \div ref
           IN  /\ {PythonHighCode(inPython), CHighCode(inC), LowCode(inPython), LowCode(inC),
                   above, below} \subseteq Nat
               /\ ohms # 0 => /\ PythonHighCode(inPython) \in above - 1 .. above
                              /\ CHighCode(inC) \in above - 1 .. above
                              /\ CHighCode(inC) <= PythonHighCode(inPython)
               /\ LowCode(inPython) \in below .. below + 1
               /\ LowCode(inC) \in below .. below + 1
               /\ LowCode(inPython) <= LowCode(inC)
<1> DEFINE inPython == Scaled(ohms, ref, PythonPrecision)
           inC == Scaled(ohms, ref, CPrecision)
           n == ohms * AdcScale
<1>0. AdcScale \in Nat \ {0} /\ n \in Nat /\ ref \in Nat \ {0}
  BY ThresholdAssumption, PowerOfTwo DEF AdcScale
<1>1. CASE ohms = 0
  <2>1. inPython = [num |-> 0, den |-> 1] /\ inC = [num |-> 0, den |-> 1] /\ n = 0
    BY <1>0, <1>1 DEF Scaled
  <2>2. 0 \div 1 = 0 /\ CeilDiv(0, 1) = 0
    BY DEF CeilDiv
  <2>3. CeilDiv(n, ref) \in Nat /\ n \div ref = 0
    <3>1. \A k \in Int : k <= 0 \div ref <=> k * ref <= 0
      BY <1>0, Quotient
    <3>2. ~(1 * ref <= 0) /\ 0 \div ref \in Nat
      BY <1>0, Quotient
    <3>3. ~(1 <= 0 \div ref)
      BY <3>1, <3>2
    <3> QED
      BY <1>0, <2>1, <3>2, <3>3, Ceiling
  <2>4. PythonHighCode(inPython) = 0 /\ CHighCode(inC) = 0 /\ LowCode(inPython) = 0 /\ LowCode(inC) = 0
    BY <2>1, <2>2 DEF PythonHighCode, CHighCode, LowCode
  <2> QED
    BY <1>1, <2>3, <2>4
<1>2. CASE ohms # 0
  <2>1. ohms \in Nat \ {0}
    BY <1>2
  <2>2. PICK m \in Nat, g \in Nat, e \in Nat : IsScaled(ohms, ref, PythonPrecision, m, e, g)
    BY <2>1, ScaledFacts
  <2>3. PICK p \in Nat, d \in Nat, i \in Nat : IsScaled(ohms, ref, CPrecision, p, i, d)
    BY <2>1, ScaledFacts
  <2>4. PICK h \in Nat \ {0} : g = d * h
    BY <1>0, <2>1, <2>2, <2>3, FinerDenominator
  <2>5. /\ g \in Nat \ {0} /\ m = NearestQuotient(n * g, ref)
        /\ d \in Nat \ {0} /\ p = NearestQuotient(n * d, ref)
    BY <2>2, <2>3 DEF IsScaled
  <2>6. /\ PythonHighCode(inPython) = CeilDiv(m, g) /\ LowCode(inPython) = m \div g
        /\ CHighCode(inC) = CeilDiv(p, d) /\ LowCode(inC) = p \div d
    BY <2>1, <2>2, <2>3, Codes
  <2> HIDE DEF inPython, inC, n
  <2>7. /\ CeilDiv(m, g) \in CeilDiv(n, ref) - 1 .. CeilDiv(n, ref)
        /\ m \div g \in n \div ref .. n \div ref + 1
    BY <1>0, <2>5, CodesAreClose
  <2>8. /\ CeilDiv(p, d) \in CeilDiv(n, ref) - 1 .. CeilDiv(n, ref)
        /\ p \div d \in n \div ref .. n \div ref + 1
    BY <1>0, <2>5, CodesAreClose
  <2>9. CeilDiv(p, d) <= CeilDiv(m, g) /\ m \div g <= p \div d
    BY <1>0, <2>4, <2>5, CoarserCodes
  <2>10. /\ CeilDiv(m, g) \in Nat /\ m \div g \in Nat /\ CeilDiv(p, d) \in Nat /\ p \div d \in Nat
         /\ CeilDiv(n, ref) \in Nat /\ n \div ref \in Nat
    BY <1>0, <2>5, Quotient, Ceiling
  <2> HIDE <2>2, <2>3
  <2>11. /\ {PythonHighCode(inPython), CHighCode(inC), LowCode(inPython), LowCode(inC),
            CeilDiv(n, ref), n \div ref} \subseteq Nat
         /\ PythonHighCode(inPython) \in CeilDiv(n, ref) - 1 .. CeilDiv(n, ref)
         /\ CHighCode(inC) \in CeilDiv(n, ref) - 1 .. CeilDiv(n, ref)
         /\ CHighCode(inC) <= PythonHighCode(inPython)
         /\ LowCode(inPython) \in n \div ref .. n \div ref + 1
         /\ LowCode(inC) \in n \div ref .. n \div ref + 1
         /\ LowCode(inPython) <= LowCode(inC)
    BY <2>6, <2>7, <2>8, <2>9, <2>10
  <2> QED
    BY <2>11 DEF inPython, inC, n
<1> QED
  BY <1>1, <1>2

(***************************************************************************)
(* The requests of both implementations                                    *)
(***************************************************************************)
CodesOf(o, highCode, lowCode) ==
    o.accepted =>
        /\ RequestIsValid
        /\ high # Unset => o.high = highCode
        /\ high = Unset => o.high = Unset
        /\ low # Unset => o.low = lowCode
        /\ low = Unset => o.low = Unset

\* The codes of an accepted configuration are those of the request's thresholds.
OutcomeInv ==
    /\ reference \in References
    /\ low \in Thresholds \cup {Unset} /\ high \in Thresholds \cup {Unset}
    /\ CodesOf(python, PythonHighCode(Scaled(high, reference, PythonPrecision)),
                       LowCode(Scaled(low, reference, PythonPrecision)))
    /\ CodesOf(c, CHighCode(Scaled(high, reference, CPrecision)),
                  LowCode(Scaled(low, reference, CPrecision)))

LEMMA OutcomeInit == ArgumentsInit => OutcomeInv
BY DEF ArgumentsInit, RequestInit, OutcomeInv, CodesOf, Pending

LEMMA OutcomeNext == OutcomeInv /\ [ArgumentsNext]_<<vars, requestVars>> => OutcomeInv'
<1> SUFFICES ASSUME OutcomeInv, [ArgumentsNext]_<<vars, requestVars>> PROVE OutcomeInv'
  OBVIOUS
<1>1. CASE ConfigurePython
  <2> DEFINE highCode == PythonHighCode(Scaled(high, reference, PythonPrecision))
             lowCode == LowCode(Scaled(low, reference, PythonPrecision))
  <2>1. /\ python' = Outcome(IF high = Unset THEN Unset ELSE highCode,
                             IF low = Unset THEN Unset ELSE lowCode)
        /\ UNCHANGED <<reference, low, high, c>>
    BY <1>1 DEF ConfigurePython
  <2> HIDE DEF highCode, lowCode
  <2>2. CodesOf(python', highCode, lowCode)
    BY <2>1 DEF Outcome, Pending, CodesOf
  <2> QED
    BY <2>1, <2>2 DEF OutcomeInv, CodesOf, RequestIsValid, ThresholdIsValid, highCode, lowCode
<1>2. CASE ConfigureC
  <2> DEFINE highCode == CHighCode(Scaled(high, reference, CPrecision))
             lowCode == LowCode(Scaled(low, reference, CPrecision))
  <2>1. /\ c' = Outcome(IF high = Unset THEN Unset ELSE highCode,
                        IF low = Unset THEN Unset ELSE lowCode)
        /\ UNCHANGED <<reference, low, high, python>>
    BY <1>2 DEF ConfigureC
  <2> HIDE DEF highCode, lowCode
  <2>2. CodesOf(c', highCode, lowCode)
    BY <2>1 DEF Outcome, Pending, CodesOf
  <2> QED
    BY <2>1, <2>2 DEF OutcomeInv, CodesOf, RequestIsValid, ThresholdIsValid, highCode, lowCode
<1>3. CASE UNCHANGED requestVars
  BY <1>3 DEF OutcomeInv, CodesOf, RequestIsValid, ThresholdIsValid, requestVars
<1> QED
  BY <1>1, <1>2, <1>3 DEF ArgumentsNext, Configure

LEMMA OutcomeInvariant == ArgumentsSpec => []OutcomeInv
BY OutcomeInit, OutcomeNext, PTL DEF ArgumentsSpec

\* The thresholds of a valid request are below its reference.
LEMMA ValidThresholds ==
    ASSUME OutcomeInv, RequestIsValid
    PROVE  /\ high # Unset => high \in Nat \ {0} /\ high < reference
           /\ low # Unset => low \in Nat /\ low < reference
BY ThresholdAssumption DEF OutcomeInv, RequestIsValid, ThresholdIsValid, Unset

LEMMA OutcomeIsClose == OutcomeInv => WithinOneCode
<1> SUFFICES ASSUME OutcomeInv, NEW o \in {python, c}, o.accepted
             PROVE  /\ high # Unset => o.high \in ExactHigh - 1 .. ExactHigh
                    /\ low # Unset => o.low \in ExactLow .. ExactLow + 1
  BY DEF WithinOneCode
<1>1. RequestIsValid /\ reference \in References
  BY DEF OutcomeInv, CodesOf
<1>2. ASSUME high # Unset PROVE o.high \in ExactHigh - 1 .. ExactHigh
  <2>1. high \in Nat \ {0} /\ high < reference
    BY <1>1, <1>2, ValidThresholds
  <2>2. /\ PythonHighCode(Scaled(high, reference, PythonPrecision)) \in ExactHigh - 1 .. ExactHigh
        /\ CHighCode(Scaled(high, reference, CPrecision)) \in ExactHigh - 1 .. ExactHigh
    BY <1>1, <2>1, ThresholdCodes DEF ExactHigh
  <2> QED
    BY <1>2, <2>2 DEF OutcomeInv, CodesOf
<1>3. ASSUME low # Unset PROVE o.low \in ExactLow .. ExactLow + 1
  <2>1. low \in Nat /\ low < reference
    BY <1>1, <1>3, ValidThresholds
  <2>2. /\ LowCode(Scaled(low, reference, PythonPrecision)) \in ExactLow .. ExactLow + 1
        /\ LowCode(Scaled(low, reference, CPrecision)) \in ExactLow .. ExactLow + 1
    BY <1>1, <2>1, ThresholdCodes DEF ExactLow
  <2> QED
    BY <1>3, <2>2 DEF OutcomeInv, CodesOf
<1> QED
  BY <1>2, <1>3

LEMMA OutcomesAgree == OutcomeInv => CWindowIsInside
<1> SUFFICES ASSUME OutcomeInv, python.accepted, c.accepted
             PROVE  /\ c.high \in {python.high - 1, python.high}
                    /\ c.low \in {python.low, python.low + 1}
  BY DEF CWindowIsInside
<1>1. RequestIsValid /\ reference \in References
  BY DEF OutcomeInv, CodesOf
<1>2. c.high \in {python.high - 1, python.high}
  <2>1. CASE high = Unset
    BY <2>1 DEF OutcomeInv, CodesOf
  <2>2. CASE high # Unset
    <3>1. high \in Nat \ {0} /\ high < reference
      BY <1>1, <2>2, ValidThresholds
    <3> DEFINE p == PythonHighCode(Scaled(high, reference, PythonPrecision))
               q == CHighCode(Scaled(high, reference, CPrecision))
    <3>2. /\ ExactHigh \in Nat /\ p \in ExactHigh - 1 .. ExactHigh
          /\ q \in ExactHigh - 1 .. ExactHigh /\ q <= p
      BY <1>1, <3>1, ThresholdCodes DEF ExactHigh
    <3>3. python.high = p /\ c.high = q
      BY <2>2 DEF OutcomeInv, CodesOf
    <3> HIDE DEF p, q
    <3> QED
      BY <3>2, <3>3
  <2> QED
    BY <2>1, <2>2
<1>3. c.low \in {python.low, python.low + 1}
  <2>1. CASE low = Unset
    BY <2>1 DEF OutcomeInv, CodesOf
  <2>2. CASE low # Unset
    <3>1. low \in Nat /\ low < reference
      BY <1>1, <2>2, ValidThresholds
    <3> DEFINE p == LowCode(Scaled(low, reference, PythonPrecision))
               q == LowCode(Scaled(low, reference, CPrecision))
    <3>2. /\ ExactLow \in Nat /\ p \in ExactLow .. ExactLow + 1
          /\ q \in ExactLow .. ExactLow + 1 /\ p <= q
      BY <1>1, <3>1, ThresholdCodes DEF ExactLow
    <3>3. python.low = p /\ c.low = q
      BY <2>2 DEF OutcomeInv, CodesOf
    <3> HIDE DEF p, q
    <3> QED
      BY <3>2, <3>3
  <2> QED
    BY <2>1, <2>2
<1> QED
  BY <1>2, <1>3

\* However long the significands of the two floating-point types are, the codes
\* that _thresholds.py and c/src/max31865.c compute for a threshold are at most one
\* away from the exact ones, and never outside the window that was asked for.
THEOREM ThresholdsAreClose == ArgumentsSpec => []WithinOneCode
<1>1. OutcomeInv => WithinOneCode
  BY OutcomeIsClose
<1> QED
  BY <1>1, OutcomeInvariant, PTL

\* The C implementation's window lies inside the one of Python, by at most one code
\* on each side, because its significand is not the longer one.
THEOREM CWindowInside == ArgumentsSpec => []CWindowIsInside
<1>1. OutcomeInv => CWindowIsInside
  BY OutcomesAgree
<1> QED
  BY <1>1, OutcomeInvariant, PTL

(***************************************************************************)
(* The waits                                                               *)
(***************************************************************************)
\* Division with remainder.
LEMMA DivMod ==
    ASSUME NEW n \in Nat, NEW d \in Nat \ {0}
    PROVE  /\ n \div d \in Nat
           /\ n % d \in 0 .. d - 1
           /\ n = d * (n \div d) + (n % d)
  OBVIOUS

\* What fits does not wrap.
LEMMA WrapFits ==
    ASSUME NEW n \in 0 .. UintMax
    PROVE  Wrap(n) = n
  BY TimingAssumption DEF Wrap

\* The adapter waits exactly as long as it is asked to.
LEMMA AvrDelayExact ==
    ASSUME NEW duration \in Nat
    PROVE  AvrDelay(duration) = duration
<1> DEFINE rest == duration % MillisecondUs
<1>1. rest \in 0 .. AvrUintMax
  BY DivMod, TimingAssumption
<1>2. rest % (AvrUintMax + 1) = rest
  BY <1>1, TimingAssumption
<1>3. duration = (duration \div MillisecondUs) * MillisecondUs + rest
  BY DivMod, TimingAssumption
<1> QED
  BY <1>2, <1>3 DEF AvrDelay

\* Half a time constant, rounded up, always fits.
LEMMA HalfTau ==
    ASSUME NEW t \in 0 .. UintMax
    PROVE  HalfTauRoundedUp(t) = (t + 1) \div 2
<1>1. (t \div 2) + (t % 2) = (t + 1) \div 2
  BY TimingAssumption
<1>2. (t \div 2) + (t % 2) \in 0 .. UintMax
  BY TimingAssumption
<1> QED
  BY <1>1, <1>2, WrapFits DEF HalfTauRoundedUp

\* The overflow test refuses exactly what cannot be represented.
LEMMA RefusedExact ==
    ASSUME NEW t \in 0 .. UintMax
    PROVE  Refused(t) <=> 10 * t + ((t + 1) \div 2) + MillisecondUs > UintMax
  BY HalfTau, TimingAssumption DEF Refused

\* When it passes, none of the products and sums wraps around.
LEMMA WaitsFit ==
    ASSUME NEW t \in 0 .. UintMax, ~Refused(t)
    PROVE  /\ BiasSettle(t) = 10 * t + ((t + 1) \div 2) + MillisecondUs
           /\ PostFaultSettle(t) = 5 * t + MillisecondUs
           /\ BiasSettle(t) \in 0 .. UintMax
           /\ PostFaultSettle(t) \in 0 .. UintMax
<1> DEFINE half == (t + 1) \div 2
<1>1. half \in Nat /\ 10 * t + half + MillisecondUs <= UintMax
  BY RefusedExact, TimingAssumption
<1>2. /\ 10 * t \in 0 .. UintMax /\ 10 * t + half \in 0 .. UintMax
      /\ 10 * t + half + MillisecondUs \in 0 .. UintMax
      /\ 5 * t \in 0 .. UintMax /\ 5 * t + MillisecondUs \in 0 .. UintMax
  BY <1>1, TimingAssumption
<1>3. HalfTauRoundedUp(t) = half
  BY HalfTau
<1> HIDE DEF half
<1>4. BiasSettle(t) = 10 * t + half + MillisecondUs
  BY <1>2, <1>3, WrapFits DEF BiasSettle
<1>5. PostFaultSettle(t) = 5 * t + MillisecondUs
  BY <1>2, WrapFits DEF PostFaultSettle
<1> QED
  BY <1>2, <1>4, <1>5 DEF half

(***************************************************************************)
(* The invariants                                                          *)
(***************************************************************************)
LEMMA TypeInit == Init => TypeOK
  BY TimingAssumption DEF Init, TypeOK, Durations

\* What has been computed and waited at each control point.
ProgressInv ==
    /\ pc \in {"compute", "settle_bias", "settle_post_fault"} => result = "none"
    /\ pc = "done" => result \in {"OK", "CONFIGURATION_ERROR"}
    /\ result = "CONFIGURATION_ERROR" => Refused(tau)
    /\ (pc # "compute" /\ result # "CONFIGURATION_ERROR") =>
          /\ ~Refused(tau)
          /\ waits.bias = BiasSettle(tau)
          /\ waits.post_fault = PostFaultSettle(tau)
          /\ pc \in {"settle_post_fault", "done"} => elapsed.bias = BiasSettle(tau)
          /\ pc = "done" => elapsed.post_fault = PostFaultSettle(tau)

IInv == TypeOK /\ ProgressInv

LEMMA InvNext == IInv /\ [Next]_vars => IInv'
<1> SUFFICES ASSUME IInv, [Next]_vars PROVE IInv'
  OBVIOUS
<1> USE DEF IInv, TypeOK, Durations, ProgressInv
<1>1. CASE ComputeDelays
  <2>1. CASE Refused(tau)
    BY <1>1, <2>1 DEF ComputeDelays
  <2>2. CASE ~Refused(tau)
    <3>1. /\ pc = "compute" /\ pc' = "settle_bias" /\ UNCHANGED <<tau, elapsed, result>>
          /\ waits' = [bias |-> BiasSettle(tau), post_fault |-> PostFaultSettle(tau)]
      BY <1>1, <2>2 DEF ComputeDelays
    <3>2. BiasSettle(tau) \in 0 .. UintMax /\ PostFaultSettle(tau) \in 0 .. UintMax
      BY <2>2, WaitsFit
    <3>3. TypeOK'
      BY <3>1, <3>2
    <3>4. /\ Refused(tau') <=> Refused(tau)
          /\ BiasSettle(tau') = BiasSettle(tau)
          /\ PostFaultSettle(tau') = PostFaultSettle(tau)
      BY <3>1
    <3> QED
      BY <2>2, <3>1, <3>3, <3>4
  <2> QED
    BY <2>1, <2>2
<1>2. CASE SettleBias
  <2>1. AvrDelay(waits.bias) = waits.bias
    BY AvrDelayExact
  <2> QED
    BY <1>2, <2>1 DEF SettleBias
<1>3. CASE SettlePostFault
  <2>1. AvrDelay(waits.post_fault) = waits.post_fault
    BY AvrDelayExact
  <2> QED
    BY <1>3, <2>1 DEF SettlePostFault
<1>4. CASE UNCHANGED vars
  BY <1>4 DEF vars
<1> QED
  BY <1>1, <1>2, <1>3, <1>4 DEF Next

LEMMA Invariant == Spec => []IInv
<1>1. Init => IInv
  BY TypeInit DEF Init, IInv, ProgressInv
<1> QED
  BY <1>1, InvNext, PTL DEF Spec

\* No wait that is computed or spent leaves the range of the HAL's integer.
THEOREM TypeCorrect == Spec => []TypeOK
<1>1. IInv => TypeOK
  BY DEF IInv
<1> QED
  BY <1>1, Invariant, PTL

\* A read checks the thresholds first, which leaves the timing as it is.
LEMMA ReadInvariant == ArgumentsSpec => []IInv
<1>1. ArgumentsInit => Init
  BY DEF ArgumentsInit
<1>2. [ArgumentsNext]_<<vars, requestVars>> => [Next]_vars
  BY DEF ArgumentsNext, vars
<1>3. ArgumentsSpec => Spec
  BY <1>1, <1>2, PTL DEF ArgumentsSpec, Spec
<1> QED
  BY <1>3, Invariant, PTL

\* Whatever the integer widths: the bias settles 10.5 time constants plus 1 ms,
\* rounded up to the next microsecond, the input five plus 1 ms.
THEOREM ExactWaits == ArgumentsSpec => []WaitsAreExact
<1>1. IInv => WaitsAreExact
  <2> SUFFICES ASSUME IInv PROVE WaitsAreExact
    OBVIOUS
  <2>1. CASE pc \in {"settle_post_fault", "done"} /\ result # "CONFIGURATION_ERROR"
    <3>1. tau \in 0 .. UintMax /\ ~Refused(tau) /\ elapsed.bias = BiasSettle(tau)
      BY <2>1 DEF IInv, TypeOK, ProgressInv
    <3>2. elapsed.bias = 10 * tau + ((tau + 1) \div 2) + MillisecondUs
      BY <3>1, WaitsFit
    <3>3. 2 * ((tau + 1) \div 2) \in {tau, tau + 1}
      BY <3>1, TimingAssumption
    <3>4. 2 * elapsed.bias \in {21 * tau + 2 * MillisecondUs,
                                21 * tau + 2 * MillisecondUs + 1}
      BY <3>1, <3>2, <3>3, TimingAssumption
    <3>5. result = "OK" => elapsed.post_fault = 5 * tau + MillisecondUs
      BY <3>1, WaitsFit DEF IInv, TypeOK, ProgressInv
    <3> QED
      BY <3>4, <3>5 DEF WaitsAreExact
  <2>2. CASE ~(pc \in {"settle_post_fault", "done"} /\ result # "CONFIGURATION_ERROR")
    <3>1. result # "OK"
      BY <2>2 DEF IInv, TypeOK, ProgressInv
    <3> QED
      BY <2>2, <3>1 DEF WaitsAreExact
  <2> QED
    BY <2>1, <2>2
<1> QED
  BY <1>1, ReadInvariant, PTL

\* The overflow test is neither too weak nor too strict.
THEOREM ExactRefusal == ArgumentsSpec => []OnlyUnrepresentableIsRefused
<1>1. IInv => OnlyUnrepresentableIsRefused
  <2> SUFFICES ASSUME IInv, pc # "compute"
               PROVE  result = "CONFIGURATION_ERROR"
                        <=> 10 * tau + (tau + 1) \div 2 + MillisecondUs > UintMax
    BY DEF OnlyUnrepresentableIsRefused
  <2>1. Refused(tau) <=> 10 * tau + ((tau + 1) \div 2) + MillisecondUs > UintMax
    BY RefusedExact DEF IInv, TypeOK
  <2>2. result = "CONFIGURATION_ERROR" <=> Refused(tau)
    BY DEF IInv, ProgressInv
  <2> QED
    BY <2>1, <2>2
<1> QED
  BY <1>1, ReadInvariant, PTL
=============================================================================
