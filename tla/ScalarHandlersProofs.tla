------------------------- MODULE ScalarHandlersProofs --------------------------
(***************************************************************************)
(* Handlers of single values: what is rounded, cast and compared is right   *)
(* for integers and mantissas of all widths.  Powers of two are reached by  *)
(* counting subsets, and an induction is the least member of a set of       *)
(* counterexamples, for the library has no theorem that applies.            *)
(***************************************************************************)
EXTENDS ScalarHandlers, FiniteSetTheorems, TLAPS

(* 2 ^ n counts the subsets of a set of n elements, which is how its laws   *)
(* are reached.                                                             *)
LEMMA PowerCounts ==
    ASSUME NEW n \in Nat
    PROVE  /\ IsFiniteSet(SUBSET (1..n)) /\ Cardinality(SUBSET (1..n)) = 2 ^ n
           /\ 2 ^ n \in Nat /\ 2 ^ n > 0
<1> DEFINE S == 1..n
<1>1. IsFiniteSet(S) /\ Cardinality(S) = n
  BY FS_Interval
<1> HIDE DEF S
<1>2. IsFiniteSet(SUBSET S) /\ Cardinality(SUBSET S) = 2 ^ n
  BY <1>1, FS_SUBSET
<1>3. 2 ^ n \in Nat
  BY <1>2, FS_CardinalityType
<1>4. 2 ^ n # 0
  <2>1. SUBSET S # {}
    OBVIOUS
  <2> QED BY <1>2, <2>1, FS_EmptySet
<1> QED BY <1>2, <1>3, <1>4 DEF S

(* Every subset either has the new element or has not.                      *)
LEMMA PowerDoubles ==
    ASSUME NEW n \in Nat
    PROVE  2 ^ (n + 1) = 2 * 2 ^ n
<1> DEFINE S == SUBSET (1..n)
           T == {x \cup {n + 1} : x \in S}
           f == [x \in S |-> x \cup {n + 1}]
<1>1. IsFiniteSet(S) /\ Cardinality(S) = 2 ^ n /\ 2 ^ n \in Nat
  BY PowerCounts
<1>2. n + 1 \notin 1..n /\ 1..(n + 1) = (1..n) \cup {n + 1} /\ n + 1 \in Nat
  OBVIOUS
<1>3. f \in Bijection(S, T)
  <2>1. f \in [S -> T] /\ \A y \in T : \E x \in S : f[x] = y
    OBVIOUS
  <2>2. \A x \in S, y \in S : f[x] = f[y] => x = y
    <3>1. \A x \in S : x = f[x] \ {n + 1}
      BY <1>2
    <3> HIDE DEF f, S
    <3> QED BY <3>1
  <2> HIDE DEF f, S, T
  <2> QED BY <2>1, <2>2 DEF Bijection, Injection, Surjection, IsInjective
<1>4. IsFiniteSet(T) /\ Cardinality(T) = 2 ^ n
  <2> HIDE DEF f, S, T
  <2>1. ExistsBijection(S, T)
    BY <1>3 DEF ExistsBijection
  <2> QED BY <1>1, <2>1, FS_Bijection
<1>5. S \cap T = {}
  BY <1>2
<1>6. SUBSET (1..(n + 1)) = S \cup T
  <2>1. S \cup T \subseteq SUBSET (1..(n + 1))
    BY <1>2
  <2>2. ASSUME NEW x \in SUBSET (1..(n + 1))
        PROVE  x \in S \cup T
    <3>1. CASE n + 1 \in x
      <4>1. x \ {n + 1} \in S /\ x = (x \ {n + 1}) \cup {n + 1}
        BY <1>2, <3>1
      <4> QED BY <4>1
    <3>2. CASE n + 1 \notin x
      BY <1>2, <3>2
    <3> QED BY <3>1, <3>2
  <2> HIDE DEF S, T
  <2> QED BY <2>1, <2>2
<1>7. Cardinality(SUBSET (1..(n + 1))) = 2 ^ (n + 1)
  BY <1>2, PowerCounts
<1> HIDE DEF S, T
<1>8. Cardinality(S \cup T) = Cardinality(S) + Cardinality(T) - Cardinality({})
  BY <1>1, <1>4, <1>5, FS_Union
<1>9. Cardinality({}) = 0
  BY FS_EmptySet
<1> PICK p : p = 2 ^ n
  OBVIOUS
<1>10. 2 ^ (n + 1) = p + p - 0
  BY <1>1, <1>4, <1>6, <1>7, <1>8, <1>9
<1>11. p \in Nat
  BY <1>1
<1>12. p + p - 0 = 2 * p
  BY <1>11
<1> QED BY <1>10, <1>12

(* Induction over a set that is named: the smallest number of one exists.   *)
LEMMA Least ==
    ASSUME NEW n \in Nat, NEW S, S \subseteq 0..n, S # {}
    PROVE  \E j \in S : \A k \in S : j <= k
<1> DEFINE K == {k \in 0..n : \A s \in S : k < s}
           c == Cardinality(K)
           I == 0..(c - 1)
<1>1. IsFiniteSet(K) /\ c \in Nat
  <2>1. IsFiniteSet(0..n)
    BY FS_Interval
  <2>2. K \in SUBSET (0..n)
    OBVIOUS
  <2> HIDE DEF K
  <2> QED BY <2>1, <2>2, FS_Subset, FS_CardinalityType
<1>2. \A k \in K : k + 1 <= c
  <2> SUFFICES ASSUME NEW k \in K
               PROVE  k + 1 <= c
    OBVIOUS
  <2>1. k \in Nat /\ k \in Int /\ 0 \in Int /\ ~(0 > k)
    OBVIOUS
  <2> PICK R : R = 0..k
    OBVIOUS
  <2>2. Cardinality(R) = k + 1
    <3>1. Cardinality(0..k) = IF 0 > k THEN 0 ELSE k - 0 + 1
      BY <2>1, FS_Interval
    <3> QED BY <2>1, <3>1
  <2>3. R \in SUBSET K
    BY <2>1
  <2> HIDE DEF K
  <2>4. Cardinality(R) <= Cardinality(K)
    BY <1>1, <2>3, FS_Subset
  <2> QED BY <2>2, <2>4
<1>3. IsFiniteSet(I) /\ Cardinality(I) = c
  <2> PICK d : d = c
    OBVIOUS
  <2>1. d \in Nat /\ 0 \in Int /\ d - 1 \in Int
    BY <1>1
  <2>2. /\ IsFiniteSet(0..(d - 1))
        /\ Cardinality(0..(d - 1)) = IF 0 > d - 1 THEN 0 ELSE d - 1 - 0 + 1
    BY <2>1, FS_Interval
  <2> QED BY <2>1, <2>2
<1>4. K \in SUBSET I
  <2>1. \A k \in K : k \in Nat
    OBVIOUS
  <2> HIDE DEF K
  <2> QED BY <1>1, <1>2, <2>1
<1>5. K = I
  <2> HIDE DEF K, I
  <2> QED BY <1>1, <1>3, <1>4, FS_Subset
<1>6. \A s \in S : c <= s
  <2> SUFFICES ASSUME NEW s \in S
               PROVE  c <= s
    OBVIOUS
  <2>1. s \in Nat /\ s \notin K
    OBVIOUS
  <2> HIDE DEF K
  <2> QED BY <1>1, <1>5, <2>1
<1>7. c \in S
  <2> SUFFICES ASSUME c \notin S
               PROVE  FALSE
    OBVIOUS
  <2>1. \A s \in S : c < s /\ s \in 0..n
    BY <1>1, <1>6
  <2> PICK d : d = c
    OBVIOUS
  <2>2. c \in K
    <3>1. d \in Nat /\ \A s \in S : d < s /\ s \in 0..n
      BY <1>1, <2>1
    <3>2. d \in 0..n
      <4> PICK s \in S : TRUE
        OBVIOUS
      <4> HIDE DEF c, K
      <4> QED BY <3>1
    <3>3. d \in K
      BY <3>1, <3>2
    <3> HIDE DEF K
    <3> QED BY <3>3
  <2>3. c \notin I
    BY <1>1
  <2> HIDE DEF K, I
  <2> QED BY <1>5, <2>2, <2>3
<1> QED BY <1>6, <1>7

(* What holds of 0 and of the successor of every number up to n where it    *)
(* holds, holds of n.                                                       *)
LEMMA Reached ==
    ASSUME NEW n \in Nat, NEW J, 0 \in J, \A k \in 0..n : k \in J => k + 1 \in J
    PROVE  n \in J
<1> SUFFICES ASSUME n \notin J
             PROVE  FALSE
  OBVIOUS
<1> DEFINE S == {k \in 0..n : k \notin J}
<1>1. S \subseteq 0..n /\ n \in S
  OBVIOUS
<1>2. PICK j \in S : \A k \in S : j <= k
  <2> HIDE DEF S
  <2> QED BY <1>1, Least
<1>3. j \in 0..n /\ j \notin J /\ j # 0
  OBVIOUS
<1>4. j - 1 \in 0..n /\ ~(j <= j - 1) /\ (j - 1) + 1 = j
  BY <1>3
<1>5. j - 1 \in J
  BY <1>2, <1>4
<1> QED BY <1>3, <1>4, <1>5

(* Powers, as a name that hides what the provers cannot evaluate.           *)
Power(n) == 2 ^ n

(* The definition of powers by their recursion.                             *)
LEMMA PowerFacts ==
    /\ Power(0) = 1
    /\ \A n \in Nat : Power(n) \in Nat \ {0} /\ Power(n + 1) = 2 * Power(n)
<1>1. Power(0) = 1
  BY DEF Power
<1>2. ASSUME NEW n \in Nat
      PROVE  Power(n) \in Nat \ {0} /\ Power(n + 1) = 2 * Power(n)
  <2>1. Power(n) \in Nat /\ Power(n) > 0
    BY PowerCounts DEF Power
  <2>2. Power(n + 1) = 2 * Power(n)
    BY PowerDoubles, Zenon DEF Power
  <2> QED BY <2>1, <2>2
<1> QED BY <1>1, <1>2

(* A sum of exponents is a product of powers.                               *)
LEMMA PowerSum ==
    ASSUME NEW a \in Nat, NEW b \in Nat
    PROVE  Power(a + b) = Power(a) * Power(b)
<1> DEFINE J == {k \in Nat : Power(a + k) = Power(a) * Power(k)}
<1>1. 0 \in J
  BY PowerFacts
<1>2. ASSUME NEW k \in 0..b, k \in J
      PROVE  k + 1 \in J
  <2>1. /\ k \in Nat /\ a + k \in Nat /\ a + (k + 1) = (a + k) + 1
        /\ Power(a + k) = Power(a) * Power(k)
    BY <1>2
  <2>2. /\ Power(a + (k + 1)) = 2 * Power(a + k) /\ Power(k + 1) = 2 * Power(k)
        /\ Power(a) \in Nat /\ Power(k) \in Nat
    BY <2>1, PowerFacts
  <2>3. \A x \in Nat, y \in Nat : 2 * (x * y) = x * (2 * y)
    OBVIOUS
  <2> QED BY <2>1, <2>2, <2>3
<1> HIDE DEF J
<1>3. b \in J
  BY <1>1, <1>2, Reached
<1> QED BY <1>3 DEF J

(* A power exceeds its exponent, so that every magnitude has a number of    *)
(* digits below it.                                                         *)
LEMMA PowerGrows ==
    ASSUME NEW n \in Nat
    PROVE  n < Power(n)
<1> DEFINE J == {k \in Nat : k < Power(k)}
<1>1. 0 \in J
  BY PowerFacts
<1>2. ASSUME NEW k \in 0..n, k \in J
      PROVE  k + 1 \in J
  <2>1. k \in Nat /\ k < Power(k) /\ Power(k) \in Nat /\ Power(k + 1) = 2 * Power(k)
    BY <1>2, PowerFacts
  <2> QED BY <2>1
<1> HIDE DEF J
<1>3. n \in J
  BY <1>1, <1>2, Reached
<1> QED BY <1>3 DEF J

(* Powers are ordered as their exponents.                                   *)
LEMMA PowerOrder ==
    ASSUME NEW a \in Nat, NEW b \in Nat
    PROVE  Power(a) <= Power(b) <=> a <= b
<1>1. ASSUME NEW x \in Nat, NEW y \in Nat, x <= y
      PROVE  Power(x) <= Power(y)
  <2> PICK d \in Nat : y = x + d
    BY <1>1
  <2>1. Power(y) = Power(x) * Power(d)
    BY PowerSum
  <2>2. Power(x) \in Nat \ {0} /\ Power(d) \in Nat \ {0}
    BY PowerFacts
  <2>3. \A u \in Nat \ {0}, v \in Nat \ {0} : u <= u * v
    OBVIOUS
  <2> QED BY <2>1, <2>2, <2>3
<1>2. ASSUME NEW x \in Nat, NEW y \in Nat, x < y
      PROVE  Power(x) < Power(y)
  <2>1. Power(x + 1) <= Power(y)
    BY <1>1, <1>2
  <2>2. /\ Power(x + 1) = 2 * Power(x) /\ Power(x) \in Nat \ {0}
        /\ Power(y) \in Nat
    BY PowerFacts
  <2> QED BY <2>1, <2>2
<1>3. Power(a) \in Nat /\ Power(b) \in Nat
  BY PowerFacts
<1> QED BY <1>1, <1>2, <1>3

-------------------------------------------------------------------------------
(* Division by a power, or by any number that is not zero.                  *)
LEMMA Divided ==
    ASSUME NEW M \in Nat \ {0}, NEW a \in Int
    PROVE  /\ a % M \in 0..(M - 1) /\ a \div M \in Int
           /\ a = M * (a \div M) + (a % M)
           /\ a >= 0 => a \div M \in Nat
  OBVIOUS

(* A multiple leaves no rest.                                               *)
LEMMA Multiple ==
    ASSUME NEW M \in Nat \ {0}, NEW c \in Int
    PROVE  (M * c) % M = 0 /\ (M * c) \div M = c
<1> DEFINE a == M * c
<1>1. a \in Int
  OBVIOUS
<1>2. PICK q \in Int, r \in 0..(M - 1) : q = a \div M /\ r = a % M /\ a = M * q + r
  <2> HIDE DEF a
  <2> QED BY <1>1, Divided
<1>3. M * (c - q) = r
  BY <1>2
<1>4. c - q = 0
  <2> PICK d \in Int : d = c - q
    OBVIOUS
  <2>1. M * d = r
    BY <1>3
  <2>2. d >= 1 => M * d >= M
    OBVIOUS
  <2>3. d <= -1 => M * d <= -M
    OBVIOUS
  <2> QED BY <2>1, <2>2, <2>3
<1> QED BY <1>2, <1>3, <1>4

(* The exponent that the mantissa of a number a is for.                     *)
Exponent(digits, a) ==
    CHOOSE x \in 0..a : /\ a < 2 ^ (digits + x)
                        /\ x > 0 => a >= 2 ^ (digits + x - 1)

(* The exponent exists, and is the least with which the digits suffice.     *)
LEMMA ExponentFits ==
    ASSUME NEW d \in Nat \ {0}, NEW a \in Nat
    PROVE  /\ Exponent(d, a) \in 0..a
           /\ a < Power(d + Exponent(d, a))
           /\ Exponent(d, a) > 0 => Power(d + Exponent(d, a) - 1) <= a
<1> DEFINE S == {x \in 0..a : a < Power(d + x)}
<1>1. a \in S
  <2>1. a < Power(a) /\ Power(a) <= Power(d + a) /\ Power(a) \in Nat
        /\ Power(d + a) \in Nat
    BY PowerGrows, PowerOrder, PowerFacts
  <2> QED BY <2>1
<1>2. PICK x \in S : \A y \in S : x <= y
  <2>1. S \subseteq 0..a
    OBVIOUS
  <2> HIDE DEF S
  <2> QED BY <1>1, <2>1, Least
<1>3. x \in 0..a /\ a < Power(d + x)
  OBVIOUS
<1>4. x > 0 => a >= Power(d + x - 1)
  <2> SUFFICES ASSUME x > 0
               PROVE  a >= Power(d + x - 1)
    OBVIOUS
  <2>1. x - 1 \in 0..a /\ ~(x <= x - 1) /\ d + (x - 1) = d + x - 1
        /\ d + x - 1 \in Nat
    BY <1>3
  <2>2. ~(a < Power(d + x - 1))
    BY <1>2, <2>1
  <2>3. Power(d + x - 1) \in Nat
    BY <2>1, PowerFacts
  <2> QED BY <2>2, <2>3
<1> HIDE DEF S
<1> DEFINE Fits(e) == a < Power(d + e) /\ (e > 0 => a >= Power(d + e - 1))
<1>5. Exponent(d, a) = CHOOSE e \in 0..a : Fits(e)
  BY DEF Exponent, Power
<1>6. Fits(x)
  BY <1>3, <1>4
<1> HIDE DEF Fits
<1>7. Exponent(d, a) \in 0..a /\ Fits(Exponent(d, a))
  BY <1>3, <1>5, <1>6
<1>8. Exponent(d, a) > 0 => Power(d + Exponent(d, a) - 1) \in Nat
  <2>1. Exponent(d, a) > 0 => d + Exponent(d, a) - 1 \in Nat
    BY <1>7
  <2> QED BY <2>1, PowerFacts
<1> QED BY <1>7, <1>8 DEF Fits

-------------------------------------------------------------------------------
(* What rounding makes of a magnitude.                                      *)
RoundedNat(digits, a) ==
    LET unit == 2 ^ Exponent(digits, a)
        q    == a \div unit
        r    == 2 * (a % unit)
        up   == r > unit \/ (r = unit /\ q % 2 = 1)
    IN unit * (IF up THEN q + 1 ELSE q)

(* Rounded rounds the magnitude and gives it the sign back.                 *)
LEMMA RoundedIs ==
    ASSUME NEW d, NEW h
    PROVE  Rounded(d, h) = IF h < 0 THEN -RoundedNat(d, Magnitude(h))
                           ELSE RoundedNat(d, Magnitude(h))
  BY Zenon DEF Rounded, RoundedNat, Exponent

(* a is rounded to g, down or, if it has a rest, up to the next unit.       *)
Rounds(d, a, g, e, q, r) ==
    /\ e \in Nat /\ Power(e) \in Nat \ {0} /\ q \in Nat /\ r \in 0..(Power(e) - 1)
    /\ a = Power(e) * q + r
    /\ a < Power(d + e) /\ (e > 0 => Power(d + e - 1) <= a)
    /\ g = Power(e) * q \/ (r > 0 /\ g = Power(e) * (q + 1))

(* What is rounded has an exponent, a quotient and a rest that are related  *)
(* as Rounds says.                                                          *)
LEMMA RoundedNatFacts ==
    ASSUME NEW d \in Nat \ {0}, NEW a \in Nat
    PROVE  /\ RoundedNat(d, a) \in Nat
           /\ \E e, q, r : Rounds(d, a, RoundedNat(d, a), e, q, r)
<1> DEFINE e == Exponent(d, a)
<1>1. e \in Nat /\ a < Power(d + e) /\ (e > 0 => Power(d + e - 1) <= a)
  BY ExponentFits
<1> PICK u : u = Power(e)
  OBVIOUS
<1>2. u \in Nat \ {0}
  BY <1>1, PowerFacts
<1> DEFINE q == a \div u
           r == a % u
           up == 2 * r > u \/ (2 * r = u /\ q % 2 = 1)
<1>3. /\ q \in Nat /\ r \in 0..(u - 1) /\ a = u * q + r
  <2>1. a \in Int /\ a >= 0
    OBVIOUS
  <2>2. /\ a % u \in 0..(u - 1) /\ a = u * (a \div u) + (a % u)
        /\ a \div u \in Nat
    BY <1>2, <2>1, Divided
  <2> QED BY <2>2
<1>4. RoundedNat(d, a) = u * (IF up THEN q + 1 ELSE q)
  <2>1. u = 2 ^ Exponent(d, a)
    BY DEF Power
  <2> QED BY <2>1, Zenon DEF RoundedNat
<1> HIDE DEF e, q, r
<1>5. up => r > 0
  BY <1>2, <1>3
<1> HIDE DEF up
<1>6. RoundedNat(d, a) = u * q \/ (r > 0 /\ RoundedNat(d, a) = u * (q + 1))
  BY <1>4, <1>5
<1>7. u * q \in Nat /\ u * (q + 1) \in Nat
  BY <1>2, <1>3
<1>8. Rounds(d, a, RoundedNat(d, a), e, q, r)
  BY <1>1, <1>2, <1>3, <1>6 DEF Rounds
<1> QED BY <1>6, <1>7, <1>8

(* A number whose digits fit is not rounded.                                *)
LEMMA ExactNat ==
    ASSUME NEW d \in Nat \ {0}, NEW f \in Nat, NEW c \in Nat, c <= Power(d)
    PROVE  RoundedNat(d, Power(f) * c) = Power(f) * c
<1> PICK a : a = Power(f) * c
  OBVIOUS
<1>1. Power(f) \in Nat \ {0} /\ Power(d) \in Nat \ {0}
  BY PowerFacts
<1>2. a \in Nat
  BY <1>1
<1> PICK g : g = RoundedNat(d, a)
  OBVIOUS
<1>3. PICK e, q, r : Rounds(d, a, g, e, q, r)
  BY <1>2, RoundedNatFacts
<1>4. /\ e \in Nat /\ Power(e) \in Nat \ {0} /\ q \in Nat /\ r \in 0..(Power(e) - 1)
      /\ a = Power(e) * q + r
      /\ e > 0 => Power(d + e - 1) <= a
      /\ g = Power(e) * q \/ (r > 0 /\ g = Power(e) * (q + 1))
  BY <1>3 DEF Rounds
<1>5. SUFFICES ASSUME NEW b \in Nat, a = Power(e) * b
               PROVE  g = a
  <2>1. CASE e <= f
    <3> PICK k \in Nat : f = e + k
      BY <1>4, <2>1
    <3>1. Power(f) = Power(e) * Power(k) /\ Power(k) \in Nat
      BY <1>4, PowerSum, PowerFacts
    <3>2. \A x \in Nat, y \in Nat, z \in Nat : (x * y) * z = x * (y * z)
      OBVIOUS
    <3>3. a = Power(e) * (Power(k) * c) /\ Power(k) * c \in Nat
      BY <1>4, <3>1, <3>2
    <3> QED BY <1>5, <3>3
  <2>2. CASE e > f
    <3>1. d + e - 1 \in Nat /\ d + f \in Nat /\ e > 0
      BY <1>4, <2>2
    <3>2. a <= Power(d + f)
      <4>1. Power(f) * c <= Power(f) * Power(d)
        BY <1>1
      <4>2. Power(f + d) = Power(f) * Power(d) /\ f + d = d + f
        BY PowerSum
      <4> QED BY <4>1, <4>2
    <3>3. Power(d + e - 1) <= Power(d + f)
      BY <1>2, <1>4, <3>1, <3>2, PowerFacts
    <3>4. e = f + 1
      BY <1>4, <2>2, <3>1, <3>3, PowerOrder
    <3>5. d + e - 1 = d + f /\ d + f = e + (d - 1) /\ d - 1 \in Nat
      BY <1>4, <3>4
    <3>6. a = Power(d + f)
      <4>1. Power(d + f) <= a
        BY <1>4, <3>1, <3>5
      <4>2. Power(d + f) \in Nat
        BY <3>1, PowerFacts
      <4> QED BY <1>2, <3>2, <4>1, <4>2
    <3>7. a = Power(e) * Power(d - 1) /\ Power(d - 1) \in Nat
      <4>1. Power(e + (d - 1)) = Power(e) * Power(d - 1)
        BY <1>4, <3>5, PowerSum
      <4> QED BY <3>5, <3>6, <4>1, PowerFacts
    <3> QED BY <1>5, <3>7
  <2> QED BY <1>4, <2>1, <2>2
<1>6. r = 0 /\ q = b
  <2> PICK u : u = Power(e)
    OBVIOUS
  <2>1. u \in Nat \ {0} /\ u * b = u * q + r /\ r \in 0..(u - 1)
    BY <1>4, <1>5
  <2>2. PICK k \in Int : k = b - q
    BY <1>4
  <2>3. u * k = r
    BY <1>4, <2>1, <2>2
  <2>4. (k >= 1 => u * k >= u) /\ (k <= -1 => u * k <= -u)
    BY <2>1
  <2>5. k = 0
    BY <2>1, <2>3, <2>4
  <2> QED BY <1>4, <2>1, <2>2, <2>3, <2>5
<1> QED BY <1>4, <1>5, <1>6

(* An even magnitude stays even: rounding changes it by whole units.        *)
LEMMA EvenNat ==
    ASSUME NEW d \in Nat \ {0}, NEW a \in Nat, NEW b \in Nat, a = 2 * b
    PROVE  \E c \in Nat : RoundedNat(d, a) = 2 * c
<1> PICK g : g = RoundedNat(d, a)
  OBVIOUS
<1>1. PICK e, q, r : Rounds(d, a, g, e, q, r)
  BY RoundedNatFacts
<1>2. /\ e \in Nat /\ q \in Nat /\ r \in 0..(Power(e) - 1)
      /\ a = Power(e) * q + r
      /\ g = Power(e) * q \/ (r > 0 /\ g = Power(e) * (q + 1))
  BY <1>1 DEF Rounds
<1>3. CASE e = 0
  <2>1. Power(e) = 1
    BY <1>3, PowerFacts
  <2>2. g = a
    BY <1>2, <2>1
  <2> QED BY <2>2
<1>4. CASE e # 0
  <2> PICK k \in Nat : e = k + 1
    <3>1. e - 1 \in Nat /\ e = (e - 1) + 1
      BY <1>2, <1>4
    <3> QED BY <3>1
  <2> PICK u : u = Power(k)
    OBVIOUS
  <2>1. Power(e) = 2 * u /\ u \in Nat
    BY PowerFacts
  <2>2. /\ (2 * u) * q = 2 * (u * q) /\ (2 * u) * (q + 1) = 2 * (u * (q + 1))
        /\ u * q \in Nat /\ u * (q + 1) \in Nat
    BY <1>2, <2>1
  <2> QED BY <1>2, <2>1, <2>2
<1> QED BY <1>3, <1>4

(* What was rounded is not changed by rounding it again.                    *)
LEMMA StableNat ==
    ASSUME NEW d \in Nat \ {0}, NEW a \in Nat
    PROVE  RoundedNat(d, RoundedNat(d, a)) = RoundedNat(d, a)
<1> PICK g : g = RoundedNat(d, a)
  OBVIOUS
<1>1. PICK e, q, r : Rounds(d, a, g, e, q, r)
  BY RoundedNatFacts
<1> PICK u : u = Power(e)
  OBVIOUS
<1> PICK p : p = Power(d)
  OBVIOUS
<1>2. /\ e \in Nat /\ q \in Nat /\ r \in 0..(u - 1) /\ u \in Nat \ {0}
      /\ a = u * q + r /\ a < Power(d + e)
      /\ g = u * q \/ g = u * (q + 1)
  BY <1>1 DEF Rounds
<1>3. p \in Nat /\ Power(d + e) = p * u
  BY <1>2, PowerFacts, PowerSum
<1>4. q < p
  <2>1. u * q < p * u
    BY <1>2, <1>3
  <2>2. p <= q => p * u <= u * q
    BY <1>2, <1>3
  <2> QED BY <1>2, <1>3, <2>1, <2>2
<1>5. /\ q \in Nat /\ q <= Power(d) /\ q + 1 \in Nat /\ q + 1 <= Power(d)
  BY <1>2, <1>3, <1>4
<1>6. RoundedNat(d, u * q) = u * q /\ RoundedNat(d, u * (q + 1)) = u * (q + 1)
  BY <1>2, <1>5, ExactNat
<1> QED BY <1>2, <1>6

(* Rounding does not pass a power of two.                                   *)
LEMMA WithinNat ==
    ASSUME NEW d \in Nat \ {0}, NEW a \in Nat, NEW j \in Nat, a <= Power(j)
    PROVE  RoundedNat(d, a) <= Power(j)
<1> PICK g : g = RoundedNat(d, a)
  OBVIOUS
<1>1. PICK e, q, r : Rounds(d, a, g, e, q, r)
  BY RoundedNatFacts
<1> PICK u : u = Power(e)
  OBVIOUS
<1> PICK p : p = Power(j)
  OBVIOUS
<1>2. /\ e \in Nat /\ q \in Nat /\ r \in 0..(u - 1) /\ u \in Nat \ {0}
      /\ a = u * q + r /\ (e > 0 => Power(d + e - 1) <= a)
      /\ g = u * q \/ (r > 0 /\ g = u * (q + 1))
  BY <1>1 DEF Rounds
<1>3. p \in Nat /\ a <= p
  BY PowerFacts
<1>4. e <= j
  <2>1. CASE e = 0
    BY <2>1
  <2>2. CASE e # 0
    <3>1. d + e - 1 \in Nat /\ Power(d + e - 1) <= a
      BY <1>2, <2>2
    <3>2. Power(d + e - 1) \in Nat
      BY <3>1, PowerFacts
    <3>3. Power(d + e - 1) <= Power(j)
      BY <1>3, <3>1, <3>2
    <3>4. d + e - 1 <= j
      BY <3>1, <3>3, PowerOrder
    <3> QED BY <1>2, <3>4
  <2> QED BY <2>1, <2>2
<1> PICK k \in Nat : j = e + k
  <2>1. j - e \in Nat /\ j = e + (j - e)
    BY <1>2, <1>4
  <2> QED BY <2>1
<1> PICK c : c = Power(k)
  OBVIOUS
<1>5. c \in Nat /\ p = u * c
  BY <1>2, PowerFacts, PowerSum
<1>6. CASE g = u * q
  BY <1>2, <1>3, <1>6
<1>7. CASE r > 0 /\ g = u * (q + 1)
  <2>1. u * q < u * c
    BY <1>2, <1>3, <1>5, <1>7
  <2>2. q < c
    <3>1. c <= q => u * c <= u * q
      BY <1>2, <1>5
    <3> QED BY <1>2, <1>5, <2>1, <3>1
  <2>3. u * (q + 1) <= u * c
    BY <1>2, <1>5, <2>2
  <2> QED BY <1>5, <1>7, <2>3
<1> QED BY <1>2, <1>6, <1>7

-------------------------------------------------------------------------------
(* A number of halves and its magnitude.                                    *)
LEMMA MagnitudeFacts ==
    ASSUME NEW h \in Int
    PROVE  /\ Magnitude(h) \in Nat
           /\ h < 0 => h = -Magnitude(h) /\ Magnitude(h) > 0
           /\ h >= 0 => h = Magnitude(h)
  BY DEF Magnitude

(* Rounding keeps the sign and is done on the magnitude.                    *)
LEMMA RoundedFacts ==
    ASSUME NEW d \in Nat \ {0}, NEW h \in Int
    PROVE  /\ Rounded(d, h) \in Int
           /\ h < 0 => /\ Rounded(d, h) = -RoundedNat(d, -h) /\ Rounded(d, h) <= 0
                       /\ -h \in Nat
           /\ h >= 0 => Rounded(d, h) = RoundedNat(d, h) /\ Rounded(d, h) >= 0
<1>1. CASE h < 0
  <2>1. Magnitude(h) = -h /\ -h \in Nat
    BY <1>1 DEF Magnitude
  <2>2. Rounded(d, h) = -RoundedNat(d, -h)
    BY <1>1, <2>1, RoundedIs
  <2>3. RoundedNat(d, -h) \in Nat
    BY <2>1, RoundedNatFacts
  <2> QED BY <1>1, <2>1, <2>2, <2>3
<1>2. CASE h >= 0
  <2>1. Magnitude(h) = h /\ h \in Nat /\ ~(h < 0)
    BY <1>2 DEF Magnitude
  <2>2. Rounded(d, h) = RoundedNat(d, h)
    BY <2>1, RoundedIs
  <2>3. RoundedNat(d, h) \in Nat
    BY <2>1, RoundedNatFacts
  <2> QED BY <1>2, <2>1, <2>2, <2>3
<1> QED BY <1>1, <1>2

(* What was rounded, of any sign, is not changed by rounding it again.      *)
LEMMA RoundedOnce ==
    ASSUME NEW d \in Nat \ {0}, NEW h \in Int
    PROVE  Rounded(d, Rounded(d, h)) = Rounded(d, h)
<1>1. CASE h >= 0
  <2>1. h \in Nat /\ Rounded(d, h) = RoundedNat(d, h) /\ Rounded(d, h) >= 0
        /\ Rounded(d, h) \in Int
    BY <1>1, RoundedFacts
  <2>2. Rounded(d, Rounded(d, h)) = RoundedNat(d, RoundedNat(d, h))
    BY <2>1, RoundedFacts
  <2> QED BY <2>1, <2>2, StableNat
<1>2. CASE h < 0
  <2> PICK a : a = -h
    OBVIOUS
  <2> PICK g : g = RoundedNat(d, a)
    OBVIOUS
  <2>1. a \in Nat /\ Rounded(d, h) = -g
    BY <1>2, RoundedFacts
  <2>2. g \in Nat /\ RoundedNat(d, g) = g
    BY <2>1, RoundedNatFacts, StableNat
  <2>3. CASE g = 0
    <3>1. -g = 0 /\ Rounded(d, 0) = RoundedNat(d, 0)
      BY <2>3, RoundedFacts
    <3> QED BY <2>1, <2>2, <2>3, <3>1
  <2>4. CASE g # 0
    <3> PICK m : m = -g
      OBVIOUS
    <3>1. m \in Int /\ m < 0 /\ -m = g
      BY <2>2, <2>4
    <3>2. Rounded(d, m) = -RoundedNat(d, g)
      BY <3>1, RoundedFacts
    <3> QED BY <2>1, <2>2, <3>2
  <2> QED BY <2>3, <2>4
<1> QED BY <1>1, <1>2

(* An integer that is rounded is an integer of the same sign.               *)
LEMMA RoundedEven ==
    ASSUME NEW d \in Nat \ {0}, NEW n \in Int
    PROVE  \E k \in Int : Rounded(d, 2 * n) = 2 * k /\ (n < 0 => k <= 0) /\ (n >= 0 => k >= 0)
<1>1. CASE n >= 0
  <2>1. 2 * n \in Nat /\ 2 * n \in Int /\ 2 * n >= 0 /\ n \in Nat
    BY <1>1
  <2>2. PICK c \in Nat : RoundedNat(d, 2 * n) = 2 * c
    BY <2>1, EvenNat
  <2>3. Rounded(d, 2 * n) = 2 * c
    BY <2>1, <2>2, RoundedFacts
  <2> QED BY <1>1, <2>3
<1>2. CASE n < 0
  <2> PICK a : a = -n
    OBVIOUS
  <2>1. a \in Nat /\ 2 * a \in Nat /\ 2 * n \in Int /\ 2 * n < 0 /\ -(2 * n) = 2 * a
    BY <1>2
  <2>2. PICK c \in Nat : RoundedNat(d, 2 * a) = 2 * c
    BY <2>1, EvenNat
  <2>3. Rounded(d, 2 * n) = -RoundedNat(d, -(2 * n))
    BY <2>1, RoundedFacts
  <2>4. Rounded(d, 2 * n) = 2 * (-c)
    BY <2>1, <2>2, <2>3
  <2> PICK k : k = -c
    OBVIOUS
  <2>5. k \in Int /\ Rounded(d, 2 * n) = 2 * k
    BY <2>4
  <2>6. (n < 0 => k <= 0) /\ (n >= 0 => k >= 0)
    BY <1>2, <2>2
  <2> QED BY <2>5, <2>6
<1> QED BY <1>1, <1>2

(* An integer no larger than the mantissa is exact.                         *)
LEMMA RoundedExact ==
    ASSUME NEW d \in Nat \ {0}, NEW n \in Int, -Power(d) <= n, n <= Power(d)
    PROVE  Rounded(d, 2 * n) = 2 * n
<1>1. /\ Power(d) \in Nat /\ Power(1) = 2 /\ 1 \in Nat
  <2>1. Power(0 + 1) = 2 * Power(0) /\ Power(0) = 1 /\ 0 + 1 = 1
    BY PowerFacts
  <2> QED BY <2>1, PowerFacts
<1>2. \A c \in Nat : c <= Power(d) => RoundedNat(d, 2 * c) = 2 * c
  BY <1>1, ExactNat
<1>3. CASE n >= 0
  <2>1. n \in Nat /\ 2 * n \in Int /\ 2 * n >= 0
    BY <1>3
  <2>2. RoundedNat(d, 2 * n) = 2 * n
    BY <1>2, <2>1
  <2> QED BY <2>1, <2>2, RoundedFacts
<1>4. CASE n < 0
  <2> PICK a : a = -n
    OBVIOUS
  <2>1. /\ a \in Nat /\ a <= Power(d)
        /\ 2 * n \in Int /\ 2 * n < 0 /\ -(2 * n) = 2 * a
    BY <1>1, <1>4
  <2>2. RoundedNat(d, 2 * a) = 2 * a
    BY <1>2, <2>1
  <2>3. Rounded(d, 2 * n) = -RoundedNat(d, -(2 * n))
    BY <2>1, RoundedFacts
  <2> QED BY <2>1, <2>2, <2>3
<1> QED BY <1>3, <1>4

(* Rounding an integer does not pass a power of two of either sign.         *)
LEMMA RoundedWithin ==
    ASSUME NEW d \in Nat \ {0}, NEW n \in Int, NEW j \in Nat,
           -Power(j) <= n, n <= Power(j)
    PROVE  -(2 * Power(j)) <= Rounded(d, 2 * n) /\ Rounded(d, 2 * n) <= 2 * Power(j)
<1>1. Power(j) \in Nat /\ Power(j + 1) = 2 * Power(j) /\ j + 1 \in Nat
  BY PowerFacts
<1>2. \A c \in Nat : c <= Power(j) =>
          RoundedNat(d, 2 * c) \in Nat /\ RoundedNat(d, 2 * c) <= 2 * Power(j)
  <2> SUFFICES ASSUME NEW c \in Nat, c <= Power(j)
               PROVE  RoundedNat(d, 2 * c) \in Nat
                      /\ RoundedNat(d, 2 * c) <= 2 * Power(j)
    OBVIOUS
  <2>1. 2 * c \in Nat /\ 2 * c <= Power(j + 1)
    BY <1>1
  <2> QED BY <1>1, <2>1, WithinNat, RoundedNatFacts
<1>3. CASE n >= 0
  <2>1. n \in Nat /\ 2 * n \in Int /\ 2 * n >= 0
    BY <1>3
  <2>2. Rounded(d, 2 * n) = RoundedNat(d, 2 * n)
    BY <2>1, RoundedFacts
  <2> QED BY <1>1, <1>2, <2>1, <2>2
<1>4. CASE n < 0
  <2> PICK a : a = -n
    OBVIOUS
  <2>1. /\ a \in Nat /\ a <= Power(j)
        /\ 2 * n \in Int /\ 2 * n < 0 /\ -(2 * n) = 2 * a
    BY <1>1, <1>4
  <2>2. Rounded(d, 2 * n) = -RoundedNat(d, 2 * a)
    BY <2>1, RoundedFacts
  <2> QED BY <1>1, <1>2, <2>1, <2>2
<1> QED BY <1>3, <1>4

(* A number of halves that is even is an integer, and truncation gives it.  *)
LEMMA TruncatedEven ==
    ASSUME NEW k \in Int
    PROVE  Truncated(2 * k) = k /\ (2 * k) % 2 = 0
<1>1. \A c \in Int : (2 * c) % 2 = 0 /\ (2 * c) \div 2 = c
  BY Multiple
<1>2. CASE k < 0
  <2> PICK c : c = -k
    OBVIOUS
  <2>1. c \in Int /\ -(2 * k) = 2 * c /\ 2 * k < 0 /\ -c = k
    BY <1>2
  <2>2. Truncated(2 * k) = -((2 * c) \div 2)
    BY <2>1 DEF Truncated
  <2> QED BY <1>1, <2>1, <2>2
<1>3. CASE k >= 0
  <2>1. ~(2 * k < 0)
    BY <1>3
  <2> QED BY <1>1, <2>1 DEF Truncated
<1> QED BY <1>2, <1>3

(* A conversion gives a value of the type.                                  *)
LEMMA ConvertsInto ==
    ASSUME NEW t \in IntegerType, NEW n \in Int
    PROVE  Convert(t, n) \in ValuesOf(t)
<1>1. t.half \in Nat /\ t.half > 0 /\ t.signed \in BOOLEAN
  BY DEF IntegerType
<1> PICK M : M = 2 * t.half
  OBVIOUS
<1> PICK l : l = Lowest(t)
  OBVIOUS
<1>2. M \in Nat \ {0} /\ l \in Int /\ n - l \in Int /\ Highest(t) = l + (M - 1)
  BY <1>1 DEF Lowest, Highest
<1>3. (n - l) % M \in 0..(M - 1)
  BY <1>2, Divided
<1>4. l + ((n - l) % M) \in l..(l + (M - 1))
  BY <1>2, <1>3
<1> QED BY <1>2, <1>4 DEF Convert, ValuesOf

(* A cast from a floating number gives a value of the type, whatever a      *)
(* build makes of one that does not fit.                                    *)
LEMMA CastsInto ==
    ASSUME NEW t \in IntegerType, NEW h \in Int, NEW n \in CastTo(t, h)
    PROVE  n \in ValuesOf(t)
<1>1. t.half \in Nat /\ t.half > 0 /\ t.signed \in BOOLEAN
  BY DEF IntegerType
<1>2. Lowest(t) \in ValuesOf(t) /\ Highest(t) \in ValuesOf(t)
  BY <1>1 DEF ValuesOf, Lowest, Highest
<1>3. Truncated(h) \in Int
  <2>1. -h \in Int /\ 2 \in Nat \ {0}
    OBVIOUS
  <2>2. h \div 2 \in Int /\ (-h) \div 2 \in Int
    BY <2>1, Divided
  <2> QED BY <2>2 DEF Truncated
<1>4. Convert(t, Truncated(h)) \in ValuesOf(t)
  BY <1>3, ConvertsInto
<1> QED BY <1>2, <1>4 DEF CastTo

-------------------------------------------------------------------------------
(* A value of a type is kept by the conversion to it.                       *)
LEMMA ConvertKeeps ==
    ASSUME NEW t \in IntegerType, NEW n \in ValuesOf(t)
    PROVE  Convert(t, n) = n
<1>1. t.half \in Nat /\ t.half > 0 /\ t.signed \in BOOLEAN
  BY DEF IntegerType
<1>2. /\ Lowest(t) \in Int /\ n \in Int /\ Lowest(t) <= n
      /\ n - Lowest(t) < 2 * t.half
  BY <1>1 DEF ValuesOf, Lowest, Highest
<1> DEFINE a == n - Lowest(t)
           M == 2 * t.half
<1>3. a \in Nat /\ M \in Nat /\ a < M
  BY <1>1, <1>2
<1>4. a % M = a
  <2> HIDE DEF a, M
  <2> QED BY <1>3
<1> QED BY <1>2, <1>4 DEF Convert

(* Widths are those of machine types: equal, or one at least the double of  *)
(* the other.                                                               *)
Comparable(s, t) ==
    s.half = t.half \/ 2 * s.half <= t.half \/ 2 * t.half <= s.half

(* The common type has every value of both, but the negative ones if it is  *)
(* unsigned.                                                                *)
LEMMA CommonTypeHolds ==
    ASSUME NEW s \in IntegerType, NEW t \in IntegerType, Comparable(s, t),
           NEW n \in ValuesOf(s) \cup ValuesOf(t),
           n >= 0 \/ s.signed = t.signed
    PROVE  CommonType(s, t) \in IntegerType /\ n \in ValuesOf(CommonType(s, t))
<1>1. /\ s.half \in Nat /\ s.half > 0 /\ s.signed \in BOOLEAN
      /\ t.half \in Nat /\ t.half > 0 /\ t.signed \in BOOLEAN
  BY DEF IntegerType
<1>2. /\ n \in Int
      /\ \/ Lowest(s) <= n /\ n <= Highest(s)
         \/ Lowest(t) <= n /\ n <= Highest(t)
  BY <1>1 DEF ValuesOf, Lowest, Highest
<1>3. CASE CommonType(s, t) = s
  <2>1. (s.half > t.half) \/ (s.half = t.half /\ s.signed = FALSE) \/ s = t
    BY <1>1, <1>3 DEF CommonType
  <2>2. CASE s.signed
    <3>1. Lowest(s) <= n /\ n <= Highest(s)
      BY <1>1, <1>2, <2>1, <2>2 DEF Lowest, Highest, Comparable
    <3> QED BY <1>1, <1>2, <1>3, <3>1 DEF ValuesOf, Lowest, Highest
  <2>3. CASE s.signed = FALSE
    <3>1. Lowest(s) <= n /\ n <= Highest(s)
      BY <1>1, <1>2, <2>1, <2>3 DEF Lowest, Highest, Comparable
    <3> QED BY <1>1, <1>2, <1>3, <3>1 DEF ValuesOf, Lowest, Highest
  <2> QED BY <1>1, <2>2, <2>3
<1>4. CASE CommonType(s, t) = t /\ s # t
  <2>1. (s.half < t.half) \/ (s.half = t.half /\ s.signed)
    BY <1>1, <1>4 DEF CommonType
  <2>2. CASE t.signed
    <3>1. Lowest(t) <= n /\ n <= Highest(t)
      BY <1>1, <1>2, <2>1, <2>2 DEF Lowest, Highest, Comparable
    <3> QED BY <1>1, <1>2, <1>4, <3>1 DEF ValuesOf, Lowest, Highest
  <2>3. CASE t.signed = FALSE
    <3>1. Lowest(t) <= n /\ n <= Highest(t)
      BY <1>1, <1>2, <2>1, <2>3 DEF Lowest, Highest, Comparable
    <3> QED BY <1>1, <1>2, <1>4, <3>1 DEF ValuesOf, Lowest, Highest
  <2> QED BY <1>1, <2>2, <2>3
<1> QED BY <1>3, <1>4 DEF CommonType

(* is_out_of_range says of every value of one type whether the other has it.*)
LEMMA RangeTestExact ==
    ASSUME NEW this \in IntegerType, NEW that \in IntegerType,
           Comparable(this, that), NEW n \in ValuesOf(that)
    PROVE  is_out_of_range(this, that, n) <=> n \notin ValuesOf(this)
<1> DEFINE c == CommonType(this, that)
<1>1. /\ this.half \in Nat /\ this.half > 0 /\ this.signed \in BOOLEAN
      /\ that.half \in Nat /\ that.half > 0 /\ that.signed \in BOOLEAN
  BY DEF IntegerType
<1>2. /\ n \in Int
      /\ Lowest(this) \in ValuesOf(this) /\ Highest(this) \in ValuesOf(this)
      /\ Highest(this) >= 0 /\ Lowest(this) \in Int /\ Highest(this) \in Int
      /\ n \in ValuesOf(this) <=> Lowest(this) <= n /\ n <= Highest(this)
  BY <1>1 DEF ValuesOf, Lowest, Highest
<1>3. ASSUME NEW m \in ValuesOf(this) \cup ValuesOf(that),
             m >= 0 \/ this.signed = that.signed
      PROVE  Convert(c, m) = m
  <2>1. c \in IntegerType /\ m \in ValuesOf(c)
    BY <1>3, CommonTypeHolds
  <2> QED BY <2>1, ConvertKeeps
<1>4. is_out_of_range(this, that, n) <=>
          IF this.signed = that.signed
          THEN \/ Convert(c, Lowest(this)) > Convert(c, n)
               \/ Convert(c, Highest(this)) < Convert(c, n)
          ELSE IF this.signed THEN Convert(c, Highest(this)) < Convert(c, n)
          ELSE n < 0 \/ Convert(c, n) > Convert(c, Highest(this))
  BY Zenon DEF is_out_of_range
<1> HIDE DEF c
<1>5. CASE this.signed = that.signed
  <2>1. /\ Convert(c, n) = n
        /\ Convert(c, Lowest(this)) = Lowest(this)
        /\ Convert(c, Highest(this)) = Highest(this)
    BY <1>2, <1>3, <1>5
  <2>2. is_out_of_range(this, that, n)
            <=> Lowest(this) > n \/ Highest(this) < n
    BY <1>4, <1>5, <2>1
  <2>3. Lowest(this) > n \/ Highest(this) < n <=> n \notin ValuesOf(this)
    BY <1>2
  <2> QED BY <2>2, <2>3
<1>6. CASE this.signed /\ that.signed = FALSE
  <2>1. n >= 0 /\ Lowest(this) <= 0
    BY <1>1, <1>6 DEF ValuesOf, Lowest, Highest
  <2>2. Convert(c, n) = n /\ Convert(c, Highest(this)) = Highest(this)
    BY <1>2, <1>3, <2>1
  <2>3. is_out_of_range(this, that, n) <=> Highest(this) < n
    BY <1>1, <1>4, <1>6, <2>2
  <2>4. Highest(this) < n <=> n \notin ValuesOf(this)
    BY <1>2, <2>1
  <2> QED BY <2>3, <2>4
<1>7. CASE this.signed = FALSE /\ that.signed
  <2>1. Lowest(this) = 0
    BY <1>7 DEF Lowest
  <2>2. CASE n < 0
    <3>1. is_out_of_range(this, that, n)
      BY <1>1, <1>4, <1>7, <2>2
    <3>2. n \notin ValuesOf(this)
      BY <1>2, <2>1, <2>2
    <3> QED BY <3>1, <3>2
  <2>3. CASE n >= 0
    <3>1. Convert(c, n) = n /\ Convert(c, Highest(this)) = Highest(this)
      BY <1>2, <1>3, <2>3
    <3>2. is_out_of_range(this, that, n)
              <=> n < 0 \/ Convert(c, n) > Convert(c, Highest(this))
      BY <1>1, <1>4, <1>7
    <3>3. ~ (n < 0)
      BY <1>2, <2>3
    <3>4. is_out_of_range(this, that, n) <=> n > Highest(this)
      BY <3>1, <3>2, <3>3
    <3>5. n > Highest(this) <=> n \notin ValuesOf(this)
      BY <1>2, <2>1, <2>3
    <3> QED BY <3>4, <3>5
  <2> QED BY <1>2, <2>2, <2>3
<1> QED BY <1>1, <1>5, <1>6, <1>7

-------------------------------------------------------------------------------
(* The integer types of the handlers satisfy the lemma's assumptions.       *)
LEMMA IntegerTypesOfHandlers ==
    ASSUME NEW i \in IntegerEvents, NEW j \in IntegerEvents
    PROVE  /\ IntegerOf[i] \in IntegerType
           /\ Comparable(IntegerOf[i], IntegerOf[j])
<1>1. IntegerEvents = {"Int", "Uint", "Int64", "Uint64"}
  BY DEF IntegerEvents, IntegerOf
<1>2. \A k \in IntegerEvents :
          /\ IntegerOf[k] \in IntegerType
          /\ IntegerOf[k].half \in {HalfInt, HalfLong}
  <2>1. /\ IntegerOf["Int"] \in IntegerType /\ IntegerOf["Int"].half = HalfInt
        /\ IntegerOf["Uint"] \in IntegerType /\ IntegerOf["Uint"].half = HalfInt
    BY WidthAssumption DEF IntegerOf, IntegerType
  <2>2. /\ IntegerOf["Int64"] \in IntegerType /\ IntegerOf["Int64"].half = HalfLong
        /\ IntegerOf["Uint64"] \in IntegerType /\ IntegerOf["Uint64"].half = HalfLong
    BY WidthAssumption DEF IntegerOf, IntegerType
  <2> TAKE k \in IntegerEvents
  <2>3. CASE k = "Int" BY <2>1, <2>2, <2>3
  <2>4. CASE k = "Uint" BY <2>1, <2>2, <2>4
  <2>5. CASE k = "Int64" BY <2>1, <2>2, <2>5
  <2>6. CASE k = "Uint64" BY <2>1, <2>2, <2>6
  <2> QED BY <1>1, <2>3, <2>4, <2>5, <2>6
<1>3. IntegerOf[i].half \in {HalfInt, HalfLong} /\ IntegerOf[j].half \in {HalfInt, HalfLong}
  BY <1>2
<1>4. Comparable(IntegerOf[i], IntegerOf[j])
  BY <1>3, WidthAssumption DEF Comparable
<1> QED BY <1>2, <1>4

(* An event that is an integer has a value of its type, and no class of     *)
(* events is two.                                                           *)
LEMMA ReceiveKeepsExact ==
    ASSUME NEW e, Receive(e),
           e.kind \in IntegerEvents => e.data \in ValuesOf(IntegerOf[e.kind])
    PROVE  IntegersExact'
<1> SUFFICES ASSUME type \in IntegerEvents, e.kind \in IntegerEvents
             PROVE  /\ parsed' <=> e.data \in ValuesOf(IntegerOf[type])
                    /\ parsed' => m_value' = e.data
  BY DEF Receive, IntegersExact
<1> DEFINE this == IntegerOf[type]
           that == IntegerOf[e.kind]
<1>0. /\ IntegerEvents = {"Int", "Uint", "Int64", "Uint64"}
      /\ DOMAIN Digits = {"double", "float"}
  BY DEF IntegerEvents, IntegerOf, Digits
<1>1. Outcomes(e) = ReceiveInteger(this, that, e.data)
  BY <1>0, Zenon DEF Outcomes
<1>2. PICK o \in Outcomes(e) :
          /\ m_value' = o.value
          /\ parsed' = (o.error = "none")
  BY DEF Receive
<1>3. this \in IntegerType /\ that \in IntegerType /\ Comparable(this, that)
  BY IntegerTypesOfHandlers
<1>4. is_out_of_range(this, that, e.data) <=> e.data \notin ValuesOf(this)
  BY <1>3, RangeTestExact
<1>5. CASE e.data \in ValuesOf(this)
  <2>1. o = Outcome(e.data, "none")
    BY <1>1, <1>2, <1>3, <1>4, <1>5, ConvertKeeps DEF ReceiveInteger
  <2> QED BY <1>2, <1>5, <2>1 DEF Outcome
<1>6. CASE e.data \notin ValuesOf(this)
  <2>1. o = Outcome(m_value, "NUMBER_OUT_OF_RANGE")
    BY <1>1, <1>2, <1>4, <1>6 DEF ReceiveInteger
  <2> QED BY <1>2, <1>6, <2>1 DEF Outcome
<1> QED BY <1>5, <1>6

(* For every pair of integer types, the one of the handler and the one the  *)
(* reader found the number to have, a number is taken exactly when the      *)
(* handler's type has it, and stored unchanged (IntegerHandler::receive,    *)
(* is_out_of_range).                                                        *)
THEOREM IntegersAreExact == Spec => []IntegersExact
<1>0. IntegerEvents = {"Int", "Uint", "Int64", "Uint64"}
  BY DEF IntegerEvents, IntegerOf
<1>1. Init => IntegersExact
  BY <1>0 DEF Init, IntegersExact, Event
<1>2. IntegersExact /\ [Next]_vars => IntegersExact'
  <2> SUFFICES ASSUME IntegersExact, [Next]_vars PROVE IntegersExact'
    OBVIOUS
  <2>1. CASE Integer
    <3>1. PICK kind \in IntegerEvents :
              \E n \in ValuesOf(IntegerOf[kind]) : Receive(Event(kind, n))
      BY <2>1 DEF Integer
    <3>2. PICK n \in ValuesOf(IntegerOf[kind]) : Receive(Event(kind, n))
      BY <3>1
    <3> QED BY <3>2, ReceiveKeepsExact DEF Event
  <2>2. CASE Double
    <3>1. PICK h \in Halves : Receive(Event("Double", h))
      BY <2>2 DEF Double
    <3> QED BY <1>0, <3>1, ReceiveKeepsExact DEF Event
  <2>3. CASE Bool
    <3>1. PICK b \in {0, 1} : Receive(Event("Bool", b))
      BY <2>3 DEF Bool
    <3> QED BY <1>0, <3>1, ReceiveKeepsExact DEF Event
  <2>4. CASE Null
    BY <1>0, <2>4, ReceiveKeepsExact DEF Null, Event
  <2>5. CASE String
    <3>1. PICK name \in Names : Receive(Event("String", name))
      BY <2>5 DEF String
    <3> QED BY <1>0, <3>1, ReceiveKeepsExact DEF Event
  <2>6. CASE PrepareForReuse
    BY <1>0, <2>6 DEF PrepareForReuse, IntegersExact, Event
  <2>7. CASE UNCHANGED vars
    BY <2>7 DEF vars, IntegersExact
  <2> QED BY <2>1, <2>2, <2>3, <2>4, <2>5, <2>6, <2>7 DEF Next
<1> QED BY <1>1, <1>2, PTL DEF Spec

-------------------------------------------------------------------------------
(* An integer that a floating handler finds again when it casts back, it    *)
(* has, or the cast has saturated: at the upper end of a type, where alone  *)
(* rounding leaves it.                                                      *)
LEMMA CastBackKeeps ==
    ASSUME NEW d \in Nat \ {0}, NEW t \in IntegerType, NEW j \in Nat,
           t.half = Power(j), NEW n \in ValuesOf(t),
           n \in CastTo(t, Rounded(d, 2 * n))
    PROVE  Rounded(d, 2 * n) = 2 * n \/ n = Highest(t)
<1>1. t.half \in Nat \ {0} /\ t.signed \in BOOLEAN
  BY DEF IntegerType
<1> PICK m : m = t.half
  OBVIOUS
<1>2. /\ n \in Int /\ m \in Nat \ {0}
      /\ Lowest(t) = (IF t.signed THEN -m ELSE 0)
      /\ Highest(t) = (IF t.signed THEN m - 1 ELSE 2 * m - 1)
      /\ Lowest(t) <= n /\ n <= Highest(t)
  BY <1>1 DEF ValuesOf, Lowest, Highest
<1>3. PICK k \in Int : /\ Rounded(d, 2 * n) = 2 * k
                       /\ n < 0 => k <= 0
                       /\ n >= 0 => k >= 0
  BY <1>2, RoundedEven
<1>4. Truncated(Rounded(d, 2 * n)) = k
  BY <1>3, TruncatedEven
<1>5. CASE k \in ValuesOf(t)
  <2>1. n = k
    BY <1>4, <1>5 DEF CastTo
  <2> QED BY <1>3, <2>1
<1>6. CASE k \notin ValuesOf(t)
  <2>1. n \in {Convert(t, k), Lowest(t), IF k < 0 THEN Lowest(t) ELSE Highest(t)}
    BY <1>4, <1>6 DEF CastTo
  <2>2. k < Lowest(t) \/ Highest(t) < k
    BY <1>2, <1>6 DEF ValuesOf
  <2>3. CASE t.signed
    <3>1. -Power(j) <= n /\ n <= Power(j)
      BY <1>2, <2>3
    <3>2. -(2 * m) <= 2 * k /\ 2 * k <= 2 * m
      BY <1>2, <1>3, <3>1, RoundedWithin
    <3>3. k = m /\ n >= 0
      BY <1>2, <1>3, <2>2, <2>3, <3>2
    <3>4. Convert(t, k) = -m
      <4>1. ((2 * m) * 1) % (2 * m) = 0
        BY <1>2, Multiple
      <4>2. k - Lowest(t) = (2 * m) * 1
        BY <1>2, <2>3, <3>3
      <4>3. Lowest(t) = -m
        BY <1>2, <2>3
      <4>4. Convert(t, k) = Lowest(t) + ((k - Lowest(t)) % (2 * m))
        BY DEF Convert
      <4> HIDE DEF Convert
      <4>5. Convert(t, k) = -m + 0
        BY <4>1, <4>2, <4>3, <4>4
      <4> QED BY <1>2, <4>5
    <3> QED BY <1>2, <2>1, <2>3, <3>3, <3>4
  <2>4. CASE ~t.signed
    <3>1. Power(j + 1) = 2 * m /\ j + 1 \in Nat
      BY PowerFacts
    <3>2. -Power(j + 1) <= n /\ n <= Power(j + 1)
      BY <1>2, <2>4, <3>1
    <3>3. 2 * k <= 2 * (2 * m)
      BY <1>2, <1>3, <3>1, <3>2, RoundedWithin
    <3>4. k = 2 * m /\ n >= 0
      BY <1>2, <1>3, <2>2, <2>4, <3>3
    <3>5. Convert(t, k) = 0
      <4>1. ((2 * m) * 1) % (2 * m) = 0
        BY <1>2, Multiple
      <4>2. k - Lowest(t) = (2 * m) * 1
        BY <1>2, <2>4, <3>4
      <4>3. Lowest(t) = 0
        BY <1>2, <2>4
      <4>4. Convert(t, k) = Lowest(t) + ((k - Lowest(t)) % (2 * m))
        BY DEF Convert
      <4>5. Convert(t, k) = 0 + 0
        BY <4>1, <4>2, <4>3, <4>4
      <4> QED BY <4>5
    <3>6. n # 0
      <4> SUFFICES ASSUME n = 0
                   PROVE  FALSE
        OBVIOUS
      <4>1. 2 * n = 2 * 0 /\ 0 \in Int /\ -Power(d) <= 0 /\ 0 <= Power(d)
        BY PowerFacts
      <4>2. Rounded(d, 2 * 0) = 2 * 0
        BY <4>1, RoundedExact
      <4>3. k = 0
        BY <1>3, <4>1, <4>2
      <4> QED BY <1>2, <3>4, <4>3
    <3> QED BY <1>2, <2>1, <2>4, <3>4, <3>5, <3>6
  <2> QED BY <1>1, <2>3, <2>4
<1> QED BY <1>5, <1>6

(* The types of the handlers are powers of two wide; all but the long ones  *)
(* have int's width.                                                        *)
LEMMA HandlersWidths ==
    ASSUME NEW i \in IntegerEvents
    PROVE  /\ IntegerOf[i] \in IntegerType
           /\ \E j \in Nat : IntegerOf[i].half = Power(j)
           /\ i \notin {"Int64", "Uint64"} => IntegerOf[i].half = HalfInt
<1>1. i \in {"Int", "Uint", "Int64", "Uint64"}
  BY DEF IntegerEvents, IntegerOf
<1>2. IntegerOf[i] \in IntegerType
  BY IntegerTypesOfHandlers
<1>3. IntegerOf[i].half \in {HalfInt, HalfLong}
      /\ (i \notin {"Int64", "Uint64"} => IntegerOf[i].half = HalfInt)
  <2>1. CASE i = "Int"
    BY <2>1 DEF IntegerOf
  <2>2. CASE i = "Uint"
    BY <2>2 DEF IntegerOf
  <2>3. CASE i = "Int64"
    BY <2>3 DEF IntegerOf
  <2>4. CASE i = "Uint64"
    BY <2>4 DEF IntegerOf
  <2> QED BY <1>1, <2>1, <2>2, <2>3, <2>4
<1>4. \A half \in {HalfInt, HalfLong} : \E j \in Nat : half = Power(j)
  <2>1. ASSUME NEW half \in {HalfInt, HalfLong}
        PROVE  \E j \in Nat : half = Power(j)
    <3>1. PICK j \in 0..half : half = 2 ^ j
      BY BinaryAssumption
    <3>2. j \in Nat
      BY WidthAssumption
    <3> QED BY <3>1, <3>2 DEF Power
  <2> QED BY <2>1
<1> QED BY <1>2, <1>3, <1>4

-------------------------------------------------------------------------------
(* What is held of a value that was read, by the handler's class.           *)
Held(v) ==
    /\ type \in IntegerEvents => v \in ValuesOf(IntegerOf[type])
    /\ type \in DOMAIN Digits => v \in Int /\ Rounded(Precision, v) = v
    /\ type \in {"bool", "char"} => v \in {0, 1}
    /\ type = "string" => v \in Names
    /\ type = "nullptr" => v = Nothing
    /\ type = "enum" => \E i \in DOMAIN mapping : mapping[i][2] = v

MappingKnown == mapping \in Seq(Names \X Enumerators)

(* Types, and that a value was read when parsed says so.                    *)
ScalarInv ==
    /\ type \in Classes /\ parsed \in BOOLEAN /\ the_error \in Errors
    /\ MappingKnown
    /\ m_value = Nothing \/ Held(m_value)
    /\ parsed => Held(m_value)

(* What the reader can send.                                                *)
Sent(e) ==
    \/ e.kind \in IntegerEvents /\ e.data \in ValuesOf(IntegerOf[e.kind])
    \/ e.kind = "Double" /\ e.data \in Int /\ Rounded(DoubleDigits, e.data) = e.data
    \/ e.kind = "Bool" /\ e.data \in {0, 1}
    \/ e.kind = "Null"
    \/ e.kind = "String" /\ e.data \in Names

(* The classes, and which are integers and which are floating.              *)
LEMMA KindsApart ==
    /\ IntegerEvents = {"Int", "Uint", "Int64", "Uint64"}
    /\ DOMAIN Digits = {"double", "float"}
    /\ Classes = {"Int", "Uint", "Int64", "Uint64", "double", "float",
                  "nullptr", "bool", "char", "string", "enum"}
<1>1. IntegerEvents = {"Int", "Uint", "Int64", "Uint64"}
  BY DEF IntegerEvents, IntegerOf
<1>2. DOMAIN Digits = {"double", "float"}
  BY DEF Digits
<1> QED BY <1>1, <1>2 DEF Classes

(* The mantissa of a floating class.                                        *)
LEMMA PrecisionKnown ==
    ASSUME type \in DOMAIN Digits
    PROVE  Precision \in Nat \ {0} /\ (type = "double" => Precision = DoubleDigits)
<1>1. type = "double" \/ type = "float"
  BY KindsApart
<1>2. CASE type = "double"
  BY <1>2, WidthAssumption DEF Precision, Digits
<1>3. CASE type = "float"
  BY <1>3, WidthAssumption DEF Precision, Digits
<1> QED BY <1>1, <1>2, <1>3

(* Values of integer types are integers.                                    *)
LEMMA ValuesAreIntegers ==
    ASSUME NEW t \in IntegerType, NEW n \in ValuesOf(t)
    PROVE  n \in Int
<1>1. t.half \in Nat /\ t.half > 0 /\ t.signed \in BOOLEAN
  BY DEF IntegerType
<1> QED BY <1>1 DEF ValuesOf, Lowest, Highest

(* A step is the receipt of an event that the reader sends, or a reset.     *)
LEMMA StepsAre ==
    ASSUME [Next]_vars
    PROVE  \/ \E e : Sent(e) /\ Receive(e)
           \/ PrepareForReuse
           \/ UNCHANGED vars
<1>1. CASE Integer
  <2>1. PICK kind \in IntegerEvents :
            \E n \in ValuesOf(IntegerOf[kind]) : Receive(Event(kind, n))
    BY <1>1 DEF Integer
  <2>2. PICK n \in ValuesOf(IntegerOf[kind]) : Receive(Event(kind, n))
    BY <2>1
  <2>3. Sent(Event(kind, n))
    BY DEF Sent, Event
  <2> QED BY <2>2, <2>3
<1>2. CASE Double
  <2>1. PICK h \in Halves : Rounded(DoubleDigits, h) = h /\ Receive(Event("Double", h))
    BY <1>2 DEF Double
  <2>2. h \in Int
    BY WidthAssumption DEF Halves
  <2>3. Sent(Event("Double", h))
    BY <2>1, <2>2 DEF Sent, Event
  <2> QED BY <2>1, <2>3
<1>3. CASE Bool
  <2>1. PICK b \in {0, 1} : Receive(Event("Bool", b))
    BY <1>3 DEF Bool
  <2>2. Sent(Event("Bool", b))
    BY DEF Sent, Event
  <2> QED BY <2>1, <2>2
<1>4. CASE Null
  <2>1. Sent(Event("Null", Nothing))
    BY DEF Sent, Event
  <2> QED BY <1>4, <2>1 DEF Null
<1>5. CASE String
  <2>1. PICK name \in Names : Receive(Event("String", name))
    BY <1>5 DEF String
  <2>2. Sent(Event("String", name))
    BY DEF Sent, Event
  <2> QED BY <2>1, <2>2
<1> QED BY <1>1, <1>2, <1>3, <1>4, <1>5 DEF Next

(* A value of the class, or the one there was; without an error, a value.   *)
Allowed(o) ==
    /\ o.error \in Errors
    /\ o.value = m_value \/ Held(o.value)
    /\ o.error = "none" => Held(o.value)

(* An error that leaves the value alone is allowed.                         *)
LEMMA MismatchAllowed ==
    ASSUME NEW x \in Errors \ {"none"}, NEW o, o = Outcome(m_value, x)
    PROVE  Allowed(o)
  BY DEF Allowed, Outcome

(* IntegerHandler gives nothing else, for any event.                        *)
LEMMA IntegerAllowed ==
    ASSUME type \in IntegerEvents, NEW e, Sent(e), NEW o \in Outcomes(e)
    PROVE  Allowed(o)
<1> DEFINE this == IntegerOf[type]
<1>0. this \in IntegerType
  BY HandlersWidths
<1>1. CASE e.kind \in IntegerEvents
  <2>1. o \in ReceiveInteger(this, IntegerOf[e.kind], e.data)
    <3>1. Outcomes(e) = ReceiveInteger(this, IntegerOf[e.kind], e.data)
      BY <1>1, KindsApart, Zenon DEF Outcomes
    <3> QED BY <3>1
  <2>2. e.data \in Int
    <3>1. e.data \in ValuesOf(IntegerOf[e.kind])
      BY <1>1, KindsApart DEF Sent
    <3>2. IntegerOf[e.kind] \in IntegerType
      BY <1>1, HandlersWidths
    <3> QED BY <3>1, <3>2, ValuesAreIntegers
  <2>3. Convert(this, e.data) \in ValuesOf(this)
    BY <1>0, <2>2, ConvertsInto
  <2>4. o = Outcome(m_value, "NUMBER_OUT_OF_RANGE") \/ o = Outcome(Convert(this, e.data), "none")
    BY <2>1, Zenon DEF ReceiveInteger
  <2> HIDE DEF this
  <2>5. CASE o = Outcome(m_value, "NUMBER_OUT_OF_RANGE")
    BY <2>5, MismatchAllowed DEF Errors
  <2>6. CASE o = Outcome(Convert(this, e.data), "none")
    <3>1. o.value = Convert(this, e.data) /\ o.error = "none"
      BY <2>6 DEF Outcome
    <3>2. Held(o.value)
      BY <2>3, <3>1, KindsApart DEF Held, this
    <3> QED BY <3>1, <3>2 DEF Allowed, Errors
  <2> QED BY <2>4, <2>5, <2>6
<1>2. CASE e.kind = "Double"
  <2>1. o \in ReceiveDouble(this, e.data)
    <3>1. e.kind \notin IntegerEvents /\ type \notin DOMAIN Digits
      BY <1>2, KindsApart
    <3> QED BY <1>2, <3>1, Zenon DEF Outcomes
  <2>2. PICK n \in CastTo(this, e.data) :
            o = IF DoubleInRange(e.data, n) THEN Outcome(n, "none")
                ELSE Outcome(m_value, "NUMBER_OUT_OF_RANGE")
    BY <2>1, Zenon DEF ReceiveDouble
  <2>3. e.data \in Int
    BY <1>2, KindsApart DEF Sent
  <2>4. n \in ValuesOf(this)
    BY <1>0, <2>3, CastsInto
  <2>5. CASE o = Outcome(m_value, "NUMBER_OUT_OF_RANGE")
    BY <2>5, MismatchAllowed DEF Errors
  <2>6. CASE o = Outcome(n, "none")
    <3>1. o.value = n /\ o.error = "none"
      BY <2>6 DEF Outcome
    <3>2. Held(o.value)
      BY <2>4, <3>1, KindsApart DEF Held
    <3> QED BY <3>1, <3>2 DEF Allowed, Errors
  <2> QED BY <2>2, <2>5, <2>6
<1>3. CASE e.kind \notin IntegerEvents /\ e.kind # "Double"
  <2>1. o = Outcome(m_value, "TYPE_MISMATCH")
    BY <1>3, KindsApart DEF Outcomes
  <2> QED BY <2>1, MismatchAllowed DEF Errors
<1> QED BY <1>1, <1>2, <1>3

(* Nor do the handlers of double and float, which may store a value that    *)
(* they report as out of range.                                             *)
LEMMA FloatAllowed ==
    ASSUME type \in DOMAIN Digits, NEW e, Sent(e), NEW o \in Outcomes(e)
    PROVE  Allowed(o)
<1>0. Precision \in Nat \ {0} /\ type \notin IntegerEvents
  BY PrecisionKnown, KindsApart
<1>1. \A h \in Int : Held(Rounded(Precision, h))
  <2> SUFFICES ASSUME NEW h \in Int
               PROVE  Held(Rounded(Precision, h))
    OBVIOUS
  <2>1. Rounded(Precision, h) \in Int
    BY <1>0, RoundedFacts
  <2>2. Rounded(Precision, Rounded(Precision, h)) = Rounded(Precision, h)
    BY <1>0, RoundedOnce
  <2> QED BY <2>1, <2>2, KindsApart DEF Held
<1>2. \A h \in Int : \A x \in Errors : Allowed(Outcome(Rounded(Precision, h), x))
  BY <1>1 DEF Allowed, Outcome
<1>3. CASE e.kind \in IntegerEvents
  <2>1. o \in StoreInteger(e.kind, e.data)
    <3>1. Outcomes(e) = StoreInteger(e.kind, e.data)
      BY <1>0, <1>3, KindsApart, Zenon DEF Outcomes
    <3> QED BY <3>1
  <2>2. \E x \in {"none", "NUMBER_OUT_OF_RANGE"} :
            o = Outcome(Rounded(Precision, 2 * e.data), x)
    BY <2>1, Zenon DEF StoreInteger
  <2>3. 2 * e.data \in Int
    <3>1. e.data \in ValuesOf(IntegerOf[e.kind])
      BY <1>3, KindsApart DEF Sent
    <3>2. IntegerOf[e.kind] \in IntegerType
      BY <1>3, HandlersWidths
    <3> QED BY <3>1, <3>2, ValuesAreIntegers
  <2> QED BY <1>2, <2>2, <2>3 DEF Errors
<1>4. CASE e.kind = "Double"
  <2>1. o = Outcome(Rounded(Precision, e.data), "none")
    <3>1. e.kind \notin IntegerEvents
      BY <1>4, KindsApart
    <3> QED BY <1>0, <1>4, <3>1, Zenon DEF Outcomes
  <2>2. e.data \in Int
    BY <1>4, KindsApart DEF Sent
  <2> QED BY <1>2, <2>1, <2>2 DEF Errors
<1>5. CASE e.kind \notin IntegerEvents /\ e.kind # "Double"
  <2>1. o = Outcome(m_value, "TYPE_MISMATCH")
    BY <1>5, KindsApart DEF Outcomes
  <2> QED BY <2>1, MismatchAllowed DEF Errors
<1> QED BY <1>3, <1>4, <1>5

(* The mapping that is the least of a set of them.                          *)
LEMMA MinOfHits ==
    ASSUME MappingKnown, NEW S, S \subseteq DOMAIN mapping, S # {}
    PROVE  Min(S) \in S /\ Min(S) \in Nat \ {0}
<1>1. Len(mapping) \in Nat /\ DOMAIN mapping = 1..Len(mapping)
  BY DEF MappingKnown
<1>2. S \subseteq 0..Len(mapping)
  BY <1>1
<1>3. \E j \in S : \A k \in S : j <= k
  BY <1>1, <1>2, Least
<1>4. Min(S) \in S
  BY <1>3 DEF Min
<1> QED BY <1>1, <1>4

(* Nor do the handlers of nullptr_t, bool, char, std::string and enums.     *)
LEMMA OthersAllowed ==
    ASSUME type \in Classes \ (IntegerEvents \cup DOMAIN Digits), MappingKnown,
           type = "nullptr" => m_value = Nothing,
           NEW e, Sent(e), NEW o \in Outcomes(e)
    PROVE  Allowed(o)
<1>0. /\ type \in {"nullptr", "bool", "char", "string", "enum"}
      /\ type \notin IntegerEvents /\ type \notin DOMAIN Digits
  BY KindsApart
<1>1. CASE o = Outcome(m_value, "TYPE_MISMATCH")
  BY <1>1, MismatchAllowed DEF Errors
<1>2. \A v : Held(v) => Allowed(Outcome(v, "none"))
  BY DEF Allowed, Outcome, Errors
<1>3. CASE type \in {"bool", "char"} /\ o # Outcome(m_value, "TYPE_MISMATCH")
  <2>1. e.kind = "Bool" /\ o = Outcome(e.data, "none")
    BY <1>0, <1>3 DEF Outcomes
  <2>2. e.data \in {0, 1}
    BY <2>1, KindsApart DEF Sent
  <2>3. Held(e.data)
    BY <1>3, <2>2, KindsApart DEF Held
  <2> QED BY <1>2, <2>1, <2>3
<1>4. CASE type = "nullptr" /\ o # Outcome(m_value, "TYPE_MISMATCH")
  <2>1. o = Outcome(m_value, "none")
    BY <1>0, <1>4 DEF Outcomes
  <2>2. Held(m_value)
    BY <1>4, KindsApart DEF Held
  <2> QED BY <1>2, <2>1, <2>2
<1>5. CASE type = "string" /\ o # Outcome(m_value, "TYPE_MISMATCH")
  <2>1. e.kind = "String" /\ o = Outcome(e.data, "none")
    BY <1>0, <1>5 DEF Outcomes
  <2>2. e.data \in Names
    BY <2>1, KindsApart DEF Sent
  <2>3. Held(e.data)
    BY <1>5, <2>2, KindsApart DEF Held
  <2> QED BY <1>2, <2>1, <2>3
<1>6. CASE type = "enum" /\ o # Outcome(m_value, "TYPE_MISMATCH")
  <2>1. e.kind = "String" /\ o \in LookUp(e.data)
    BY <1>0, <1>6 DEF Outcomes
  <2>2. CASE Found(e.data) = 0
    <3>1. o = Outcome(m_value, "INVALID_ENUM")
      BY <2>1, <2>2 DEF LookUp
    <3> QED BY <3>1, MismatchAllowed DEF Errors
  <2>3. CASE Found(e.data) # 0
    <3>1. o = Outcome(mapping[Found(e.data)][2], "none")
      BY <2>1, <2>3 DEF LookUp
    <3>2. Found(e.data) \in DOMAIN mapping
      <4> DEFINE hits == {i \in DOMAIN mapping : mapping[i][1] = e.data}
      <4>1. hits # {} /\ Found(e.data) = Min(hits)
        BY <2>3, Zenon DEF Found
      <4>2. hits \subseteq DOMAIN mapping
        OBVIOUS
      <4> HIDE DEF hits
      <4>3. Min(hits) \in hits
        BY <4>1, <4>2, MinOfHits
      <4> QED BY <4>1, <4>2, <4>3
    <3>3. Held(mapping[Found(e.data)][2])
      BY <1>6, <3>2, KindsApart DEF Held
    <3> QED BY <1>2, <3>1, <3>3
  <2> QED BY <2>2, <2>3
<1> QED BY <1>0, <1>1, <1>3, <1>4, <1>5, <1>6

(* Nor does any handler.                                                    *)
LEMMA OutcomesAllowed ==
    ASSUME ScalarInv, NEW e, Sent(e), NEW o \in Outcomes(e)
    PROVE  Allowed(o)
<1>1. CASE type \in IntegerEvents
  BY <1>1, IntegerAllowed
<1>2. CASE type \in DOMAIN Digits
  BY <1>2, FloatAllowed
<1>3. CASE type \notin IntegerEvents /\ type \notin DOMAIN Digits
  <2>1. type = "nullptr" => m_value = Nothing
    BY DEF ScalarInv, Held
  <2> QED BY <1>3, <2>1, OthersAllowed DEF ScalarInv
<1> QED BY <1>1, <1>2, <1>3

(* An event keeps the invariant.                                            *)
LEMMA ReceiveKeeps ==
    ASSUME ScalarInv, NEW e, Sent(e), Receive(e)
    PROVE  ScalarInv'
<1>1. PICK o \in Outcomes(e) :
          /\ m_value' = o.value /\ the_error' = o.error
          /\ parsed' = (o.error = "none")
          /\ type' = type /\ mapping' = mapping
  BY DEF Receive
<1>2. Allowed(o)
  BY OutcomesAllowed
<1>3. \A v : Held(v) => Held(v)'
  BY <1>1 DEF Held, Precision
<1>4. (o.error = "none") \in BOOLEAN
  OBVIOUS
<1>5. m_value' = Nothing \/ Held(m_value')
  BY <1>1, <1>2 DEF Allowed, ScalarInv
<1>6. parsed' => Held(m_value')
  BY <1>1, <1>2 DEF Allowed
<1>7. type' \in Classes /\ parsed' \in BOOLEAN /\ the_error' \in Errors /\ MappingKnown'
  BY <1>1, <1>2, <1>4 DEF Allowed, ScalarInv, MappingKnown
<1> QED BY <1>3, <1>5, <1>6, <1>7 DEF ScalarInv

(* The invariant of the handlers: a handler that has parsed holds a value   *)
(* of its class, and one that failed the value from before, or another of   *)
(* its class.                                                               *)
LEMMA ScalarInvHolds == Spec => []ScalarInv
<1>1. Init => ScalarInv
  <2> SUFFICES ASSUME Init
               PROVE  ScalarInv
    OBVIOUS
  <2>1. mapping \in Mappings \/ mapping = <<>>
    BY DEF Init
  <2>2. MappingKnown
    <3> PICK S : S = Names \X Enumerators
      OBVIOUS
    <3>1. <<>> \in Seq(S) /\ Mappings \subseteq Seq(S)
      BY MappingsAssumption
    <3> QED BY <2>1, <3>1, Zenon DEF MappingKnown
  <2> QED BY <2>2 DEF Init, ScalarInv, Errors
<1>2. ScalarInv /\ [Next]_vars => ScalarInv'
  <2> SUFFICES ASSUME ScalarInv, [Next]_vars
               PROVE  ScalarInv'
    OBVIOUS
  <2>1. ASSUME NEW e, Sent(e), Receive(e)
        PROVE  ScalarInv'
    BY <2>1, ReceiveKeeps
  <2>2. CASE PrepareForReuse
    BY <2>2 DEF PrepareForReuse, ScalarInv, MappingKnown, Held, Precision, Errors
  <2>3. CASE UNCHANGED vars
    BY <2>3 DEF vars, ScalarInv, MappingKnown, Held, Precision
  <2> QED BY <2>1, <2>2, <2>3, StepsAre
<1> QED BY <1>1, <1>2, PTL DEF Spec

(* The invariant implies the types that TLC checks.                         *)
LEMMA ScalarTyped ==
    ASSUME ScalarInv
    PROVE  TypeOK
<1>1. type \in {"Int", "Uint", "Int64", "Uint64", "double", "float",
                "nullptr", "bool", "char", "string", "enum"}
  BY KindsApart DEF ScalarInv
<1>2. m_value = Nothing \/ Held(m_value)
  BY DEF ScalarInv
<1> SUFFICES ASSUME m_value # Nothing
             PROVE  CASE type \in IntegerEvents -> m_value \in ValuesOf(IntegerOf[type])
                      [] type \in DOMAIN Digits -> Rounded(Digits[type], m_value) = m_value
                      [] type \in {"bool", "char"} -> m_value \in {0, 1}
                      [] type = "string" -> m_value \in Names
                      [] OTHER -> m_value \in Enumerators
  BY DEF ScalarInv, TypeOK
<1>3. CASE type \in IntegerEvents
  <2>1. m_value \in ValuesOf(IntegerOf[type])
    BY <1>2, <1>3 DEF Held
  <2> QED BY <1>3, <2>1, KindsApart, Zenon
<1>4. CASE type \in DOMAIN Digits
  <2>1. Rounded(Digits[type], m_value) = m_value
    BY <1>2, <1>4 DEF Held, Precision
  <2> QED BY <1>4, <2>1, KindsApart, Zenon
<1>5. CASE type \in {"bool", "char"}
  <2>1. m_value \in {0, 1}
    BY <1>2, <1>5 DEF Held
  <2> QED BY <1>5, <2>1, KindsApart
<1>6. CASE type = "string"
  <2>1. m_value \in Names
    BY <1>2, <1>6 DEF Held
  <2> QED BY <1>6, <2>1, KindsApart
<1>7. CASE type = "nullptr"
  BY <1>2, <1>7 DEF Held
<1>8. CASE type = "enum"
  <2>1. PICK i \in DOMAIN mapping : mapping[i][2] = m_value
    BY <1>2, <1>8 DEF Held
  <2>2. mapping[i] \in Names \X Enumerators
    BY DEF ScalarInv, MappingKnown
  <2>3. m_value \in Enumerators
    BY <2>1, <2>2
  <2> QED BY <1>8, <2>3, KindsApart
<1> QED BY <1>1, <1>3, <1>4, <1>5, <1>6, <1>7, <1>8, KindsApart

(* A double passed to IntegerHandler: what is taken is an integer, and all  *)
(* integers of the type are taken.                                          *)
LEMMA ReceiveIntegral ==
    ASSUME NEW e, Sent(e), Receive(e)
    PROVE  DoublesIntegral'
<1> SUFFICES ASSUME type \in IntegerEvents, e.kind = "Double"
             PROVE  /\ parsed' => /\ e.data % 2 = 0
                                  /\ Rounded(DoubleDigits, 2 * m_value') = e.data
                    /\ e.data % 2 = 0 /\ e.data \div 2 \in ValuesOf(IntegerOf[type])
                           => parsed'
  BY DEF Receive, DoublesIntegral
<1> DEFINE this == IntegerOf[type]
           h == e.data
<1>0. /\ this \in IntegerType
      /\ h \in Int /\ Rounded(DoubleDigits, h) = h
      /\ DoubleDigits \in Nat \ {0}
  BY HandlersWidths, KindsApart, WidthAssumption DEF Sent
<1>1. PICK o \in Outcomes(e) : m_value' = o.value /\ parsed' = (o.error = "none")
  BY DEF Receive
<1>2. Outcomes(e) = ReceiveDouble(this, h)
  <2>1. e.kind \notin IntegerEvents /\ type \notin DOMAIN Digits
    BY KindsApart
  <2> QED BY <2>1, Zenon DEF Outcomes
<1>3. PICK n \in CastTo(this, h) :
          o = IF DoubleInRange(h, n) THEN Outcome(n, "none")
              ELSE Outcome(m_value, "NUMBER_OUT_OF_RANGE")
  BY <1>1, <1>2, Zenon DEF ReceiveDouble
<1>4. n \in Int
  BY <1>0, CastsInto, ValuesAreIntegers
<1> HIDE DEF this, h
<1>5. ASSUME parsed'
      PROVE  h % 2 = 0 /\ Rounded(DoubleDigits, 2 * m_value') = h
  <2>1. o.error = "none"
    BY <1>1, <1>5
  <2>2. DoubleInRange(h, n) /\ o.value = n
    BY <1>3, <2>1 DEF Outcome
  <2>3. Rounded(DoubleDigits, 2 * n) = h /\ m_value' = n
    BY <1>1, <2>2 DEF DoubleInRange
  <2>4. PICK k \in Int : h = 2 * k
    BY <1>0, <1>4, <2>3, RoundedEven
  <2> QED BY <2>3, <2>4, TruncatedEven
<1>6. ASSUME h % 2 = 0, h \div 2 \in ValuesOf(this)
      PROVE  parsed'
  <2> PICK k : k = h \div 2
    OBVIOUS
  <2>1. k \in Int /\ h = 2 * k
    <3>1. 2 \in Nat \ {0}
      OBVIOUS
    <3>2. h \div 2 \in Int /\ h = 2 * (h \div 2) + (h % 2)
      BY <1>0, <3>1, Divided
    <3> QED BY <1>0, <1>6, <3>2
  <2>2. Truncated(h) = k
    BY <2>1, TruncatedEven
  <2>3. n = k
    BY <1>6, <2>2 DEF CastTo
  <2>4. DoubleInRange(h, n)
    BY <1>0, <2>1, <2>3 DEF DoubleInRange
  <2>5. o.error = "none"
    BY <1>3, <2>4 DEF Outcome
  <2> QED BY <1>1, <2>5
<1> QED BY <1>5, <1>6 DEF h, this

(* An integer passed to a floating handler: one that casts back finds it    *)
(* again, one that does not has a mantissa for it.                          *)
LEMMA ReceiveByFloat ==
    ASSUME NEW e, Sent(e), Receive(e)
    PROVE  IntegersKeptByFloats'
<1> SUFFICES ASSUME type \in DOMAIN Digits, e.kind \in IntegerEvents, parsed'
             PROVE  m_value' = 2 * e.data \/ e.data = Highest(IntegerOf[e.kind])
  BY DEF Receive, IntegersKeptByFloats
<1> DEFINE n == e.data
           t == IntegerOf[e.kind]
           h == Rounded(Precision, 2 * n)
<1>0. /\ t \in IntegerType /\ n \in ValuesOf(t) /\ n \in Int
      /\ Precision \in Nat \ {0}
  <2>1. t \in IntegerType /\ n \in ValuesOf(t)
    BY HandlersWidths, KindsApart DEF Sent
  <2> QED BY <2>1, ValuesAreIntegers, PrecisionKnown
<1>1. PICK o \in Outcomes(e) : m_value' = o.value /\ parsed' = (o.error = "none")
  BY DEF Receive
<1>2. Outcomes(e) = StoreInteger(e.kind, n)
  <2>1. type \notin IntegerEvents
    BY KindsApart
  <2> QED BY <2>1, KindsApart, Zenon DEF Outcomes
<1>3. PICK j \in Nat : t.half = Power(j)
  BY HandlersWidths
<1>4. CASE CastsBack(e.kind)
  <2>1. PICK back \in CastTo(t, h) :
            o = IF LosesNothing(n, back) THEN Outcome(h, "none")
                ELSE Outcome(h, "NUMBER_OUT_OF_RANGE")
    BY <1>1, <1>2, <1>4, Zenon DEF StoreInteger
  <2>2. o.value = h /\ back = n
    BY <1>1, <2>1 DEF Outcome, LosesNothing
  <2>3. n \in CastTo(t, h)
    BY <2>1, <2>2
  <2>4. h = 2 * n \/ n = Highest(t)
    BY <1>0, <1>3, <2>3, CastBackKeeps
  <2> QED BY <1>1, <2>2, <2>4
<1>5. CASE ~CastsBack(e.kind)
  <2>1. o = Outcome(h, "none")
    BY <1>1, <1>2, <1>5, Zenon DEF StoreInteger
  <2>2. m_value' = h
    BY <1>1, <2>1 DEF Outcome
  <2>3. type = "double" /\ e.kind \notin {"Int64", "Uint64"}
    BY <1>5, KindsApart DEF CastsBack
  <2>4. Precision = DoubleDigits /\ t.half = HalfInt
    BY <2>3, HandlersWidths, PrecisionKnown
  <2>5. 2 * HalfInt <= Power(Precision)
    BY <2>4, BinaryAssumption DEF Power
  <2>6. Power(Precision) \in Nat
    BY <1>0, PowerFacts
  <2>7. -Power(Precision) <= n /\ n <= Power(Precision)
    BY <1>0, <2>4, <2>5, <2>6, WidthAssumption DEF ValuesOf, Lowest, Highest
  <2>8. h = 2 * n
    BY <1>0, <2>7, RoundedExact
  <2> QED BY <2>2, <2>8
<1> QED BY <1>4, <1>5

(* No number is taken for another one in passing between integers and       *)
(* floating numbers, whatever the widths: a double that an integer handler  *)
(* takes is an integer that rounds to itself, all integers of the type are  *)
(* taken, and an integer that a floating handler takes is held exactly, but *)
(* for the upper end of a type where the cast back saturates                *)
(* (IntegerHandler::receive of a double, Handler<double> and Handler<float> *)
(* of an integer).                                                          *)
THEOREM NumbersAreKept == Spec => []NumbersKept
<1>1. Init => DoublesIntegral /\ IntegersKeptByFloats
  BY KindsApart DEF Init, DoublesIntegral, IntegersKeptByFloats, Event
<1>2. DoublesIntegral /\ IntegersKeptByFloats /\ [Next]_vars
          => (DoublesIntegral /\ IntegersKeptByFloats)'
  <2> SUFFICES ASSUME DoublesIntegral, IntegersKeptByFloats, [Next]_vars
               PROVE  DoublesIntegral' /\ IntegersKeptByFloats'
    OBVIOUS
  <2>1. ASSUME NEW e, Sent(e), Receive(e)
        PROVE  DoublesIntegral' /\ IntegersKeptByFloats'
    BY <2>1, ReceiveIntegral, ReceiveByFloat
  <2>2. CASE PrepareForReuse
    BY <2>2, KindsApart DEF PrepareForReuse, DoublesIntegral, IntegersKeptByFloats, Event
  <2>3. CASE UNCHANGED vars
    BY <2>3 DEF vars, DoublesIntegral, IntegersKeptByFloats, Precision
  <2> QED BY <2>1, <2>2, <2>3, StepsAre
<1>3. ScalarInv => TypeOK
  BY ScalarTyped
<1> QED BY <1>1, <1>2, <1>3, ScalarInvHolds, PTL DEF Spec, NumbersKept

(* The name under which an enumerator is written is found again at the same *)
(* mapping, if it is mapped once.                                           *)
LEMMA EnumRoundTrip ==
    ASSUME ScalarInv, type = "enum", parsed,
           \A i, j \in DOMAIN mapping : mapping[i][1] = mapping[j][1] => i = j
    PROVE  \E e \in Written(m_value) : Outcome(m_value, "none") \in Outcomes(e)
<1>0. MappingKnown /\ Held(m_value) /\ type \notin IntegerEvents /\ type \notin DOMAIN Digits
  BY KindsApart DEF ScalarInv
<1> DEFINE hits == {i \in DOMAIN mapping : mapping[i][2] = m_value}
<1>1. hits \subseteq DOMAIN mapping /\ hits # {}
  BY <1>0 DEF Held
<1> PICK i : i = Min(hits)
  OBVIOUS
<1>2. Written(m_value) = {Event("String", mapping[i][1])}
  BY <1>0, <1>1 DEF Written
<1>3. i \in hits
  <2> HIDE DEF hits
  <2> QED BY <1>0, <1>1, MinOfHits
<1>4. i \in DOMAIN mapping /\ mapping[i][2] = m_value
  BY <1>3
<1> HIDE DEF hits
<1> PICK name : name = mapping[i][1]
  OBVIOUS
<1> DEFINE named == {j \in DOMAIN mapping : mapping[j][1] = name}
<1>5. named \subseteq DOMAIN mapping /\ i \in named /\ (\A j \in named : j = i)
  BY <1>4
<1>6. Found(name) = i /\ Found(name) # 0
  <2>1. named # {}
    BY <1>5
  <2>2. Found(name) = Min(named)
    BY <2>1, Zenon DEF Found
  <2> HIDE DEF named
  <2>3. Min(named) \in named /\ Min(named) \in Nat \ {0}
    BY <1>0, <1>5, <2>1, MinOfHits
  <2> QED BY <1>5, <2>2, <2>3
<1>7. Outcome(m_value, "none") \in LookUp(name)
  BY <1>4, <1>6 DEF LookUp
<1>8. Outcomes(Event("String", name)) = LookUp(name)
  BY <1>0 DEF Outcomes, Event
<1> QED BY <1>2, <1>7, <1>8

(* A value of any other class is written as the event that gives it back.   *)
LEMMA ValueRoundTrip ==
    ASSUME ScalarInv, type # "enum", parsed
    PROVE  \E e \in Written(m_value) : Outcome(m_value, "none") \in Outcomes(e)
<1>0. /\ Held(m_value)
      /\ type \in {"Int", "Uint", "Int64", "Uint64", "double", "float",
                   "nullptr", "bool", "char", "string"}
  BY KindsApart DEF ScalarInv
<1>1. CASE type \in IntegerEvents
  <2> DEFINE t == IntegerOf[type]
  <2>1. t \in IntegerType /\ Comparable(t, t) /\ m_value \in ValuesOf(t)
    BY <1>0, <1>1, IntegerTypesOfHandlers DEF Held
  <2>2. ~is_out_of_range(t, t, m_value)
    BY <2>1, RangeTestExact
  <2>3. Convert(t, m_value) = m_value
    BY <2>1, ConvertKeeps
  <2>4. Outcome(m_value, "none") \in ReceiveInteger(t, t, m_value)
    BY <2>2, <2>3, Zenon DEF ReceiveInteger
  <2> PICK e : e = Event(type, m_value)
    OBVIOUS
  <2>5. e.kind = type /\ e.data = m_value
    BY DEF Event
  <2>6. Outcomes(e) = ReceiveInteger(t, t, m_value)
    BY <1>1, <2>5, KindsApart, Zenon DEF Outcomes
  <2>7. Written(m_value) = {e}
    BY <1>1, KindsApart, Zenon DEF Written, WrittenInteger
  <2> QED BY <2>4, <2>6, <2>7
<1>2. CASE type \in DOMAIN Digits
  <2>0. type \notin IntegerEvents
    BY <1>2, KindsApart
  <2> PICK e : e = Event("Double", m_value)
    OBVIOUS
  <2>1. e.kind = "Double" /\ e.data = m_value /\ e.kind \notin IntegerEvents
    BY KindsApart DEF Event
  <2>2. Rounded(Precision, m_value) = m_value
    BY <1>0, <1>2 DEF Held
  <2>3. Outcomes(e) = {Outcome(Rounded(Precision, e.data), "none")}
    BY <1>2, <2>0, <2>1, Zenon DEF Outcomes
  <2>4. Outcomes(e) = {Outcome(m_value, "none")}
    BY <2>1, <2>2, <2>3
  <2>5. Written(m_value) = {e}
    BY <1>2, <2>0, KindsApart, Zenon DEF Written
  <2> QED BY <2>4, <2>5
<1>3. CASE type \in {"bool", "char"}
  <2>1. Written(m_value) = {Event("Bool", m_value)}
    BY <1>3, KindsApart DEF Written
  <2>2. Outcomes(Event("Bool", m_value)) = {Outcome(m_value, "none")}
    BY <1>3, KindsApart DEF Outcomes, Event
  <2> QED BY <2>1, <2>2
<1>4. CASE type = "nullptr"
  <2>1. Written(m_value) = {Event("Null", Nothing)}
    BY <1>4, KindsApart DEF Written
  <2>2. Outcomes(Event("Null", Nothing)) = {Outcome(m_value, "none")}
    BY <1>4, KindsApart DEF Outcomes, Event
  <2> QED BY <2>1, <2>2
<1>5. CASE type = "string"
  <2>1. Written(m_value) = {Event("String", m_value)}
    BY <1>5, KindsApart DEF Written
  <2>2. Outcomes(Event("String", m_value)) = {Outcome(m_value, "none")}
    BY <1>5, KindsApart DEF Outcomes, Event
  <2> QED BY <2>1, <2>2
<1> QED BY <1>0, <1>1, <1>2, <1>3, <1>4, <1>5, KindsApart

(* What a handler of a single value writes for a value it has read, it      *)
(* reads back unchanged: integers of all widths, floating numbers of all    *)
(* mantissas, enums in which no name is mapped twice.                       *)
THEOREM WrittenIsReadBack == Spec => []RoundTrip
<1>1. ScalarInv => RoundTrip
  BY EnumRoundTrip, ValueRoundTrip DEF RoundTrip
<1> QED BY <1>1, ScalarInvHolds, PTL
===============================================================================
