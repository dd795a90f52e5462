----------------------------- MODULE ALUProofs -----------------------------
(***************************************************************************)
(* The units of the ALU compute what they promise, for bytes of any width. *)
(* A concatenation of bits is a sum over the bits of the byte; a lemma     *)
(* turns a formula for the partial sums into the sum, and each unit has    *)
(* its formula.                                                            *)
(***************************************************************************)
EXTENDS ALU, FiniteSetTheorems, TLAPS

\* Induction on the natural numbers, over a set instead of a predicate: the numbers are well
\* founded, so a number outside the set has a least one.
LEMMA Induction ==
  ASSUME NEW S, 0 \in S, \A n \in Nat : n \in S => n + 1 \in S
  PROVE  \A n \in Nat : n \in S
<1> SUFFICES ASSUME NEW k \in Nat, k \notin S PROVE FALSE
  OBVIOUS
<1> DEFINE T == Nat \ S
           R == OpToRel(<, Nat)
<1>1. PICK m \in T : \A n \in T : ~ (<<n, m>> \in R)
  <2>1. T \subseteq Nat /\ T # {} /\ IsWellFoundedOn(R, Nat)
    BY NatLessThanWellFounded
  <2> HIDE DEF T, R
  <2> QED BY <2>1, WFMin
<1>2. m \in Nat /\ m # 0 /\ m - 1 \in Nat /\ (m - 1) + 1 = m
  OBVIOUS
<1>3. <<m - 1, m>> \in R
  BY <1>2 DEF OpToRel
<1> QED BY <1>1, <1>2, <1>3

\* A power of two is the number of subsets.
LEMMA Subsets ==
  ASSUME NEW n \in Nat
  PROVE  /\ IsFiniteSet(SUBSET (1 .. n)) /\ Cardinality(SUBSET (1 .. n)) = 2 ^ n
         /\ 2 ^ n \in Nat \ {0}
<1>1. IsFiniteSet(1 .. n) /\ Cardinality(1 .. n) = n
  BY FS_Interval
<1>2. IsFiniteSet(SUBSET (1 .. n)) /\ Cardinality(SUBSET (1 .. n)) = 2 ^ n
  BY <1>1, FS_SUBSET
<1>3. Cardinality(SUBSET (1 .. n)) \in Nat /\ Cardinality(SUBSET (1 .. n)) # 0
  BY <1>2, FS_CardinalityType, FS_EmptySet
<1> QED BY <1>2, <1>3

\* One more element doubles the subsets, and so the power.
LEMMA PowersOfTwo ==
  /\ 2 ^ 0 = 1
  /\ \A n \in Nat : 2 ^ n \in Nat \ {0} /\ 2 ^ (n + 1) = 2 * 2 ^ n
<1>1. 2 ^ 0 = 1
  OBVIOUS
<1> SUFFICES ASSUME NEW n \in Nat PROVE 2 ^ n \in Nat \ {0} /\ 2 ^ (n + 1) = 2 * 2 ^ n
  BY <1>1
\* The subsets without n + 1 and those with it.
<1> DEFINE A == SUBSET (1 .. n)
           B == {s \cup {n + 1} : s \in A}
<1>2. SUBSET (1 .. n + 1) = A \cup B
  <2>1. ASSUME NEW s \in SUBSET (1 .. n + 1) PROVE s \in A \cup B
    <3>1. s \ {n + 1} \in A
      OBVIOUS
    <3>2. CASE n + 1 \in s
      <4>1. s = (s \ {n + 1}) \cup {n + 1}
        BY <3>2
      <4> QED BY <3>1, <4>1
    <3>3. CASE n + 1 \notin s
      BY <3>1, <3>3
    <3> QED BY <3>2, <3>3
  <2>2. 1 .. n \subseteq 1 .. n + 1 /\ n + 1 \in 1 .. n + 1
    OBVIOUS
  <2> QED BY <2>1, <2>2
<1>3. A \cap B = {}
  <2>1. n + 1 \notin 1 .. n
    OBVIOUS
  <2> QED BY <2>1
<1>4. ExistsBijection(A, B)
  <2> DEFINE f == [s \in A |-> s \cup {n + 1}]
  <2>1. n + 1 \notin 1 .. n
    OBVIOUS
  <2>2. f \in [A -> B]
    OBVIOUS
  <2>3. \A s, t \in A : f[s] = f[t] => s = t
    <3> SUFFICES ASSUME NEW s \in A, NEW t \in A, s \cup {n + 1} = t \cup {n + 1} PROVE s = t
      OBVIOUS
    <3>1. n + 1 \notin s /\ n + 1 \notin t
      BY <2>1
    <3> QED BY <3>1
  <2>4. \A t \in B : \E s \in A : f[s] = t
    OBVIOUS
  <2>5. f \in Bijection(A, B)
    BY <2>2, <2>3, <2>4 DEF Bijection, Injection, Surjection, IsInjective
  <2> QED BY <2>5 DEF ExistsBijection
<1>5. IsFiniteSet(A) /\ Cardinality(A) = 2 ^ n /\ 2 ^ n \in Nat \ {0}
  BY Subsets
<1>6. IsFiniteSet(B) /\ Cardinality(B) = 2 ^ n
  BY <1>4, <1>5, FS_Bijection
<1>7. Cardinality(A \cup B) = 2 ^ n + 2 ^ n
  <2> HIDE DEF A, B
  <2>1. Cardinality(A \cup B) = Cardinality(A) + Cardinality(B) - Cardinality(A \cap B)
    BY <1>5, <1>6, FS_Union
  <2>2. Cardinality(A \cap B) = 0
    BY <1>3, FS_EmptySet
  <2> QED BY <1>5, <1>6, <2>1, <2>2
<1>8. Cardinality(SUBSET (1 .. n + 1)) = 2 ^ (n + 1)
  <2>1. n + 1 \in Nat
    OBVIOUS
  <2> QED BY <2>1, Subsets, Zenon
<1>9. 2 ^ (n + 1) = 2 ^ n + 2 ^ n
  BY <1>2, <1>7, <1>8, Zenon
<1> QED BY <1>5, <1>9

\* The power of a sum is the product of the powers.
LEMMA PowersMultiply ==
  \A m, n \in Nat : 2 ^ (m + n) = 2 ^ m * 2 ^ n
<1> SUFFICES ASSUME NEW m \in Nat PROVE \A n \in Nat : 2 ^ (m + n) = 2 ^ m * 2 ^ n
  OBVIOUS
<1> DEFINE S == {n \in Nat : 2 ^ (m + n) = 2 ^ m * 2 ^ n}
<1>1. 0 \in S
  <2>1. 2 ^ 0 = 1 /\ 2 ^ m \in Nat
    BY PowersOfTwo
  <2> QED BY <2>1
<1>2. ASSUME NEW n \in Nat, n \in S PROVE n + 1 \in S
  <2> DEFINE p == 2 ^ m
             q == 2 ^ n
             r == 2 ^ (m + n)
             r1 == 2 ^ (m + (n + 1))
             q1 == 2 ^ (n + 1)
  <2>1. m + n \in Nat /\ m + (n + 1) = (m + n) + 1
    OBVIOUS
  <2>2. p \in Nat /\ q \in Nat /\ r \in Nat /\ r1 = 2 * r /\ q1 = 2 * q
    BY <2>1, PowersOfTwo, Zenon
  <2>3. r = p * q
    BY <1>2
  <2>4. r1 = p * q1
    <3> HIDE DEF p, q, r, r1, q1
    <3> QED BY <2>2, <2>3
  <2> QED BY <2>4
<1> HIDE DEF S
<1>3. \A n \in Nat : n \in S
  BY <1>1, <1>2, Induction, Zenon
<1> QED BY <1>3 DEF S
-----------------------------------------------------------------------------
(* Quotients and remainders. *)

\* A quotient and a remainder that fit are the quotient and the remainder.
LEMMA Quotient ==
  ASSUME NEW a \in Int, NEW n \in Nat \ {0}, NEW q \in Int, NEW r \in 0 .. n - 1,
         a = n * q + r
  PROVE  a \div n = q /\ a % n = r
OBVIOUS

\* Division with remainder, towards minus infinity.
LEMMA Divided ==
  ASSUME NEW a \in Int, NEW n \in Nat \ {0}
  PROVE  /\ a \div n \in Int /\ a % n \in 0 .. n - 1 /\ a % n \in Int
         /\ a = n * (a \div n) + (a % n)
OBVIOUS

\* The same with the quotient hidden.
LEMMA Division ==
  ASSUME NEW a \in Int, NEW n \in Nat \ {0}
  PROVE  /\ a % n \in 0 .. n - 1 /\ a % n \in Int
         /\ \E q \in Int : a = n * q + (a % n)
BY Divided, Zenon

\* A remainder that fits is the remainder.
LEMMA Remainder ==
  ASSUME NEW a \in Int, NEW n \in Nat \ {0}, NEW q \in Int, NEW r \in 0 .. n - 1,
         a = n * q + r
  PROVE  a % n = r
BY Quotient

\* A remainder by a multiple of n keeps the remainder by n.
LEMMA RemainderOfMultiple ==
  ASSUME NEW n \in Nat \ {0}, NEW k \in Nat \ {0}, k % n = 0, NEW a \in Int
  PROVE  (a % k) % n = a % n
<1> DEFINE b == a % k
<1>1. PICK q \in Int : a = k * q + b
  BY Division
<1>2. b \in Int
  BY Division
<1>3. PICK m \in Int : k = n * m
  <2>1. k \in Int
    OBVIOUS
  <2>2. PICK m \in Int : k = n * m + (k % n)
    BY <2>1, Division, Zenon
  <2>3. k = n * m
    BY <2>2
  <2> QED BY <2>3, Zenon
<1> HIDE DEF b
<1>4. PICK d \in Int : b = n * d + (b % n) /\ b % n \in 0 .. n - 1
  BY <1>2, Division
<1>5. k * q = n * (m * q) /\ m * q \in Int
  BY <1>3
<1>6. a = n * (m * q + d) + (b % n)
  <2>1. n * (m * q + d) = n * (m * q) + n * d
    BY <1>5
  <2> QED BY <1>1, <1>4, <1>5, <2>1
<1>7. m * q + d \in Int
  BY <1>5
<1>8. a % n = b % n
  BY <1>4, <1>6, <1>7, Remainder, Zenon
<1> QED BY <1>8 DEF b

\* A remainder may be taken before a sum.
LEMMA RemainderOfSum ==
  ASSUME NEW n \in Nat \ {0}, NEW a \in Int, NEW b \in Int
  PROVE  ((a % n) + b) % n = (a + b) % n
<1> DEFINE c == (a % n) + b
<1>1. PICK q \in Int : a = n * q + (a % n)
  BY Division, Zenon
<1>2. c \in Int /\ a + b = n * q + c
  <2>1. n * q \in Int
    OBVIOUS
  <2> QED BY <1>1, <2>1, Division
<1> HIDE DEF c
<1>3. PICK d \in Int : c = n * d + (c % n)
  BY <1>2, Division, Zenon
<1>4. a + b = n * (q + d) + (c % n)
  <2>1. n * (q + d) = n * q + n * d /\ n * q \in Int /\ n * d \in Int
    OBVIOUS
  <2>2. c % n \in Int
    BY <1>2, Division, Zenon
  <2> DEFINE r == c % n
             f == n * q
             g == n * d
             h == n * (q + d)
  <2>3. a + b = f + c /\ c = g + r /\ h = f + g /\ r \in Int /\ f \in Int /\ g \in Int
    BY <1>2, <1>3, <2>1, <2>2, Zenon
  <2> HIDE DEF r, f, g, h
  <2>4. a + b = h + r
    BY <1>2, <2>3
  <2> QED BY <2>4 DEF h, r
<1>5. a + b \in Int /\ q + d \in Int
  OBVIOUS
<1>6. c % n \in 0 .. n - 1
  BY <1>2, Division, Zenon
<1>7. (a + b) % n = c % n
  BY <1>4, <1>5, <1>6, Remainder, Zenon
<1> QED BY <1>7 DEF c

\* One more bit of a number.
LEMMA OneMoreBit ==
  ASSUME NEW x \in Int, NEW k \in Nat \ {0}
  PROVE  /\ (x \div k) % 2 \in {0, 1}
         /\ x % (2 * k) = (x % k) + ((x \div k) % 2) * k
<1> DEFINE q == x \div k
           r == x % k
           d == q \div 2
           b == q % 2
<1>1. q \in Int /\ r \in 0 .. k - 1 /\ x = k * q + r
  BY Divided, Zenon
<1>2. d \in Int /\ b \in {0, 1} /\ q = 2 * d + b
  BY <1>1
<1> HIDE DEF q, r, d, b
<1>3. x = (2 * k) * d + (r + b * k)
  <2>1. k * q = (2 * k) * d + b * k
    BY <1>1, <1>2
  <2>2. b * k \in Int /\ (2 * k) * d \in Int /\ k * q \in Int
    BY <1>1, <1>2
  <2> QED BY <1>1, <2>1, <2>2
<1>4. r + b * k \in 0 .. (2 * k) - 1 /\ 2 * k \in Nat \ {0} /\ r + b * k \in Int
  BY <1>1, <1>2
<1>5. x % (2 * k) = r + b * k
  BY <1>2, <1>3, <1>4, Quotient, Zenon
<1> QED BY <1>2, <1>5 DEF q, r, b

\* Dividing twice is dividing by the product.
LEMMA QuotientOfQuotient ==
  ASSUME NEW x \in Int, NEW m \in Nat \ {0}, NEW n \in Nat \ {0}
  PROVE  (x \div m) \div n = x \div (m * n)
<1> DEFINE q == x \div m
           r == x % m
           d == q \div n
           e == q % n
<1>1. q \in Int /\ r \in 0 .. m - 1 /\ x = m * q + r
  BY Divided, Zenon
<1>2. d \in Int /\ e \in 0 .. n - 1 /\ q = n * d + e
  BY <1>1, Divided, Zenon
<1> HIDE DEF q, r, d, e
<1>3. m * q = (m * n) * d + m * e /\ m * e \in Nat /\ (m * n) * d \in Int
  <2>1. m * (n * d + e) = m * (n * d) + m * e /\ m * (n * d) = (m * n) * d
    BY <1>2
  <2> QED BY <1>2, <2>1
<1>4. m * n \in Nat \ {0} /\ m * e <= m * n - m
  <2>1. n - 1 - e \in Nat
    BY <1>2
  <2>2. m * (n - 1 - e) \in Nat
    BY <2>1
  <2>3. m * (n - 1 - e) = m * n - m - m * e
    BY <1>2
  <2>4. m * n \in Nat \ {0}
    OBVIOUS
  <2> QED BY <1>3, <2>2, <2>3, <2>4
<1>5. m * e + r \in 0 .. (m * n) - 1
  <2> DEFINE f == m * e
             g == m * n
  <2>1. f \in Nat /\ g \in Nat /\ f <= g - m
    BY <1>3, <1>4
  <2> HIDE DEF f, g
  <2>2. f + r \in 0 .. g - 1
    BY <1>1, <2>1
  <2> QED BY <2>2 DEF f, g
<1>6. x = (m * n) * d + (m * e + r)
  <2> DEFINE f == m * e
             g == (m * n) * d
             h == m * q
  <2>1. f \in Nat /\ g \in Int /\ h = g + f /\ x = h + r
    BY <1>1, <1>3
  <2> HIDE DEF f, g, h
  <2>2. x = g + (f + r)
    BY <1>1, <2>1
  <2> QED BY <2>2 DEF f, g
<1>7. x \div (m * n) = d
  BY <1>2, <1>4, <1>5, <1>6, Quotient, Zenon
<1> QED BY <1>7 DEF d, q

\* A remainder may be scaled with its number and its divisor.
LEMMA RemainderScaled ==
  ASSUME NEW x \in Int, NEW m \in Nat \ {0}, NEW n \in Nat \ {0}
  PROVE  (x * n) % (m * n) = (x % m) * n
<1> DEFINE q == x \div m
           r == x % m
<1>1. q \in Int /\ r \in 0 .. m - 1 /\ x = m * q + r
  BY Divided, Zenon
<1> HIDE DEF q, r
<1>2. x * n = (m * n) * q + r * n /\ x * n \in Int
  <2>1. (m * q + r) * n = (m * n) * q + r * n
    BY <1>1
  <2> QED BY <1>1, <2>1
<1>3. r * n \in 0 .. (m * n) - 1 /\ m * n \in Nat \ {0}
  <2>1. (m - 1 - r) * n \in Nat /\ (m - 1 - r) * n = m * n - n - r * n
    BY <1>1
  <2>2. m * n \in Nat \ {0} /\ r * n \in Nat
    BY <1>1
  <2> DEFINE f == m * n
             g == r * n
  <2>3. f \in Nat \ {0} /\ g \in Nat /\ f - n - g \in Nat
    BY <2>1, <2>2
  <2> HIDE DEF f, g
  <2>4. g \in 0 .. f - 1
    BY <2>3
  <2> QED BY <2>3, <2>4 DEF f, g
<1>4. (x * n) % (m * n) = r * n
  BY <1>1, <1>2, <1>3, Quotient, Zenon
<1> QED BY <1>4 DEF r

-----------------------------------------------------------------------------
(* The sum over the bits of a byte. *)

\* A byte is a number from 0.
LEMMA Widths ==
  /\ Modulus \in Nat \ {0} /\ Width \in Nat \ {0} /\ Words = 0 .. Modulus - 1
  /\ Words \subseteq Int /\ 0 \in Words
<1>1. Modulus \in Nat \ {0}
  BY PowersOfTwo, WidthAssumption DEF Modulus
<1> QED BY <1>1, WidthAssumption DEF Words

\* The partial sums that `total' counts up exist.
LEMMA PartialSums ==
  ASSUME NEW t \in [Bits -> Int]
  PROVE  \E f \in [0 .. Width -> Int] :
           /\ f[0] = 0 /\ \A n \in Bits : f[n + 1] = f[n] + t[n]
           /\ total(t) = f[Width]
<1> DEFINE IsSum(f, m) == f = [n \in 0 .. m |-> IF n = 0 THEN 0 ELSE f[n - 1] + t[n - 1]]
           S == {m \in Nat : m <= Width => \E f : IsSum(f, m) /\ f \in [0 .. m -> Int]}
<1>1. 0 \in S
  <2>1. IsSum([n \in 0 .. 0 |-> 0], 0) /\ [n \in 0 .. 0 |-> 0] \in [0 .. 0 -> Int]
    OBVIOUS
  <2> QED BY <2>1
<1>2. ASSUME NEW m \in Nat, m \in S PROVE m + 1 \in S
  <2> SUFFICES ASSUME m + 1 <= Width
               PROVE  \E f : IsSum(f, m + 1) /\ f \in [0 .. m + 1 -> Int]
    OBVIOUS
  <2>1. PICK f : IsSum(f, m) /\ f \in [0 .. m -> Int]
    <3>1. m <= Width
      BY WidthAssumption
    <3> QED BY <1>2, <3>1, Zenon
  <2> DEFINE g == [n \in 0 .. m + 1 |-> IF n = m + 1 THEN f[m] + t[m] ELSE f[n]]
  <2>2. m \in Bits /\ t[m] \in Int /\ f[m] \in Int
    BY <2>1, WidthAssumption DEF Bits
  <2>3. g \in [0 .. m + 1 -> Int]
    BY <2>1, <2>2
  <2>4. ASSUME NEW n \in 0 .. m + 1
        PROVE  g[n] = IF n = 0 THEN 0 ELSE g[n - 1] + t[n - 1]
    BY <2>1
  <2> QED BY <2>3, <2>4
<1>3. Width \in S
  <2> HIDE DEF S
  <2> QED BY <1>1, <1>2, Induction, WidthAssumption
<1> DEFINE upTo == CHOOSE f : IsSum(f, Width)
<1>4. PICK h : IsSum(h, Width) /\ h \in [0 .. Width -> Int]
  BY <1>3, WidthAssumption
<1>5. IsSum(upTo, Width)
  BY <1>4
<1>6. total(t) = upTo[Width]
  BY DEF total
<1> HIDE DEF upTo
<1>7. upTo[0] = 0 /\ \A n \in Bits : upTo[n + 1] = upTo[n] + t[n]
  <2>1. \A n \in 0 .. Width : upTo[n] = IF n = 0 THEN 0 ELSE upTo[n - 1] + t[n - 1]
    BY <1>5, Zenon
  <2>2. 0 \in 0 .. Width
    BY WidthAssumption
  <2>3. ASSUME NEW n \in Bits
        PROVE  n + 1 \in 0 .. Width /\ n + 1 # 0 /\ (n + 1) - 1 = n
    BY WidthAssumption DEF Bits
  <2> HIDE DEF IsSum
  <2>4. upTo[0] = 0
    BY <2>1, <2>2
  <2>5. ASSUME NEW n \in Bits PROVE upTo[n + 1] = upTo[n] + t[n]
    BY <2>1, <2>3, Zenon
  <2> QED BY <2>4, <2>5
<1>8. upTo \in [0 .. Width -> Int]
  <2> DEFINE T == {m \in Nat : m <= Width => upTo[m] \in Int}
  <2>1. 0 \in T
    BY <1>7
  <2>2. ASSUME NEW m \in Nat, m \in T PROVE m + 1 \in T
    <3> SUFFICES ASSUME m + 1 <= Width PROVE upTo[m + 1] \in Int
      OBVIOUS
    <3>1. m \in Bits
      BY WidthAssumption DEF Bits
    <3> QED BY <1>7, <2>2, <3>1, WidthAssumption
  <2> HIDE DEF T
  <2>3. \A m \in Nat : m \in T
    BY <2>1, <2>2, Induction
  <2>4. \A m \in 0 .. Width : upTo[m] \in Int
    BY <2>3 DEF T
  <2>5. DOMAIN upTo = 0 .. Width /\ upTo = [m \in 0 .. Width |-> upTo[m]]
    BY <1>5
  <2> QED BY <2>4, <2>5
<1> QED BY <1>6, <1>7, <1>8

\* A formula for the partial sums gives the sum.
LEMMA Total ==
  ASSUME NEW t \in [Bits -> Int], NEW g, g[0] = 0,
         \A n \in Bits : g[n + 1] = g[n] + t[n]
  PROVE  total(t) = g[Width]
<1>1. PICK f \in [0 .. Width -> Int] :
        /\ f[0] = 0 /\ \A n \in Bits : f[n + 1] = f[n] + t[n]
        /\ total(t) = f[Width]
  BY PartialSums
<1> DEFINE S == {m \in Nat : m <= Width => g[m] = f[m]}
<1>2. 0 \in S
  BY <1>1
<1>3. ASSUME NEW m \in Nat, m \in S PROVE m + 1 \in S
  <2> SUFFICES ASSUME m + 1 <= Width PROVE g[m + 1] = f[m + 1]
    OBVIOUS
  <2>1. m \in Bits
    BY WidthAssumption DEF Bits
  <2> QED BY <1>1, <1>3, <2>1, WidthAssumption
<1>4. Width \in S
  <2> HIDE DEF S
  <2> QED BY <1>2, <1>3, Induction, WidthAssumption
<1> QED BY <1>1, <1>4, WidthAssumption

-----------------------------------------------------------------------------
(* Bits and the byte that they make. *)

\* Bit i is what the low i + 1 bits have over the low i bits.
LEMMA Bit ==
  ASSUME NEW x \in Int, NEW i \in Nat
  PROVE  /\ bit(x, i) \in {0, 1} /\ 2 ^ i \in Nat \ {0}
         /\ x % 2 ^ (i + 1) = (x % 2 ^ i) + bit(x, i) * 2 ^ i
<1> DEFINE k == 2 ^ i
<1>1. k \in Nat \ {0} /\ 2 ^ (i + 1) = 2 * k
  BY PowersOfTwo
<1> HIDE DEF k
<1>2. (x \div k) % 2 \in {0, 1} /\ x % (2 * k) = (x % k) + ((x \div k) % 2) * k
  BY <1>1, OneMoreBit
<1>3. bit(x, i) = (x \div k) % 2
  BY DEF bit, k
<1>4. 2 ^ i = k
  BY DEF k
<1> QED BY <1>1, <1>2, <1>3, <1>4, Zenon

\* The bits from m on are those of the number shifted by m.
LEMMA BitFrom ==
  ASSUME NEW x \in Int, NEW m \in Nat, NEW i \in Nat
  PROVE  bit(x, i + m) = bit(x \div 2 ^ m, i)
<1>1. 2 ^ m \in Nat \ {0} /\ 2 ^ i \in Nat \ {0}
  BY PowersOfTwo
<1>2. 2 ^ (i + m) = 2 ^ m * 2 ^ i
  <2>1. i + m = m + i
    OBVIOUS
  <2> QED BY <2>1, PowersMultiply
<1>3. (x \div 2 ^ m) \div 2 ^ i = x \div (2 ^ m * 2 ^ i)
  BY <1>1, QuotientOfQuotient, Zenon
<1> QED BY <1>2, <1>3 DEF bit

\* A formula for the partial sums of a concatenation gives the byte.
LEMMA Concatenation ==
  ASSUME NEW b \in [Bits -> {0, 1}], NEW g, g[0] = 0,
         \A n \in Bits : g[n + 1] = g[n] + b[n] * 2 ^ n
  PROVE  concat(b) = g[Width]
<1> DEFINE t == [i \in Bits |-> b[i] * 2 ^ i]
<1>1. t \in [Bits -> Int]
  <2>1. \A i \in Bits : 2 ^ i \in Int
    BY PowersOfTwo DEF Bits
  <2> QED BY <2>1
<1>2. \A n \in Bits : g[n + 1] = g[n] + t[n]
  OBVIOUS
<1> HIDE DEF t
<1>3. total(t) = g[Width]
  BY <1>1, <1>2, Total, Zenon
<1> QED BY <1>3 DEF concat, t

\* A concatenation is a byte.
LEMMA ConcatenationType ==
  ASSUME NEW b \in [Bits -> {0, 1}]
  PROVE  concat(b) \in Words
<1> DEFINE t == [i \in Bits |-> b[i] * 2 ^ i]
<1>1. t \in [Bits -> Int]
  <2>1. \A i \in Bits : 2 ^ i \in Int
    BY PowersOfTwo DEF Bits
  <2> QED BY <2>1
<1>2. PICK f \in [0 .. Width -> Int] :
        /\ f[0] = 0 /\ \A n \in Bits : f[n + 1] = f[n] + t[n]
        /\ total(t) = f[Width]
  <2> HIDE DEF t
  <2> QED BY <1>1, PartialSums
<1> DEFINE S == {m \in Nat : m <= Width => f[m] \in 0 .. (2 ^ m) - 1}
<1>3. 0 \in S
  BY <1>2
<1>4. ASSUME NEW m \in Nat, m \in S PROVE m + 1 \in S
  <2> SUFFICES ASSUME m + 1 <= Width PROVE f[m + 1] \in 0 .. (2 ^ (m + 1)) - 1
    OBVIOUS
  <2>1. m \in Bits /\ m <= Width
    BY WidthAssumption DEF Bits
  <2> DEFINE p == 2 ^ m
             q == 2 ^ (m + 1)
  <2>2. p \in Nat \ {0} /\ q = 2 * p
    BY PowersOfTwo
  <2>3. f[m] \in 0 .. p - 1 /\ f[m + 1] = f[m] + b[m] * p /\ b[m] \in {0, 1}
    BY <1>2, <1>4, <2>1
  <2> HIDE DEF p, q
  <2>4. f[m + 1] \in 0 .. q - 1
    BY <2>2, <2>3
  <2> QED BY <2>4 DEF q
<1>5. Width \in S
  <2> HIDE DEF S
  <2> QED BY <1>3, <1>4, Induction, WidthAssumption
<1>6. concat(b) = f[Width]
  BY <1>2 DEF concat
<1>7. f[Width] \in 0 .. (2 ^ Width) - 1
  BY <1>5, WidthAssumption
<1> QED BY <1>6, <1>7 DEF Words, Modulus

\* The bits of a number make the number, but for the bits that do not fit.
LEMMA BitsOf ==
  ASSUME NEW x \in Int
  PROVE  concat([i \in Bits |-> bit(x, i)]) = x % Modulus
<1> DEFINE b == [i \in Bits |-> bit(x, i)]
           g == [n \in 0 .. Width |-> x % 2 ^ n]
<1>1. Bits \subseteq Nat /\ 0 \in 0 .. Width /\ Width \in 0 .. Width
      /\ \A n \in Bits : n \in 0 .. Width /\ n + 1 \in 0 .. Width
  BY WidthAssumption DEF Bits
<1>2. b \in [Bits -> {0, 1}]
  BY <1>1, Bit
<1>3. g[0] = 0
  <2>1. x % 1 = 0 /\ 2 ^ 0 = 1
    OBVIOUS
  <2> QED BY <1>1, <2>1
<1>4. \A n \in Bits : g[n + 1] = g[n] + b[n] * 2 ^ n
  BY <1>1, Bit
<1>5. concat(b) = g[Width]
  <2> HIDE DEF b, g
  <2> QED BY <1>2, <1>3, <1>4, Concatenation, Zenon
<1> QED BY <1>1, <1>5 DEF Modulus

\* Where the bits of a byte are counted.
LEMMA BitsFacts ==
  /\ Bits \subseteq Nat /\ 0 \in 0 .. Width /\ Width \in 0 .. Width
  /\ \A n \in Bits : n < Width /\ n \in 0 .. Width /\ n + 1 \in 0 .. Width
BY WidthAssumption DEF Bits

-----------------------------------------------------------------------------
(* Negation, the adder and the gates. *)

\* Inverting the bits subtracts from the byte of ones.
LEMMA Inverted ==
  ASSUME NEW x \in Words
  PROVE  invert(x) = Modulus - 1 - x
<1> DEFINE b == [i \in Bits |-> 1 - bit(x, i)]
           g == [n \in 0 .. Width |-> (2 ^ n) - 1 - (x % 2 ^ n)]
<1>1. x \in Int /\ x % Modulus = x
  BY Widths
<1>2. b \in [Bits -> {0, 1}]
  <2>1. \A i \in Bits : bit(x, i) \in {0, 1}
    BY <1>1, BitsFacts, Bit
  <2> QED BY <2>1
<1>3. g[0] = 0
  <2>1. x % 1 = 0 /\ 2 ^ 0 = 1
    BY <1>1
  <2> QED BY <2>1, BitsFacts
<1>4. ASSUME NEW n \in Bits PROVE g[n + 1] = g[n] + b[n] * 2 ^ n
  <2> DEFINE p == 2 ^ n
             q == 2 ^ (n + 1)
             r == x % p
             s == x % q
             c == bit(x, n)
  <2>1. p \in Nat \ {0} /\ q = 2 * p
    BY PowersOfTwo, BitsFacts
  <2>2. c \in {0, 1} /\ s = r + c * p
    BY <1>1, BitsFacts, Bit
  <2>3. r \in Int
    BY <1>1, <2>1
  <2>4. g[n] = p - 1 - r /\ g[n + 1] = q - 1 - s /\ b[n] = 1 - c
    BY BitsFacts
  <2> HIDE DEF p, q, r, s, c, g, b
  <2>5. g[n + 1] = g[n] + b[n] * p
    BY <2>1, <2>2, <2>3, <2>4
  <2> QED BY <2>5 DEF p
<1>5. concat(b) = g[Width]
  <2> HIDE DEF b, g
  <2> QED BY <1>2, <1>3, <1>4, Concatenation, Zenon
<1> QED BY <1>1, <1>5, BitsFacts DEF invert, Modulus

\* Inversion and one more is the negation, and with it the adder subtracts: its result is 0
\* just for equal operands (twos_complement.v:11-13, add_unit.v:8-10, alu.v:38).
THEOREM SubtractExact == \A a, b \in Words : SubtractCorrect(a, b)
<1> SUFFICES ASSUME NEW a \in Words, NEW b \in Words PROVE SubtractCorrect(a, b)
  OBVIOUS
<1> DEFINE M == Modulus
           c == (M - b) % M
<1>1. M \in Nat \ {0} /\ a \in 0 .. M - 1 /\ b \in 0 .. M - 1 /\ Words = 0 .. M - 1
  BY Widths
<1>2. twos_complement(b) = c
  <2>1. (Modulus - 1 - b) + 1 = M - b
    BY <1>1
  <2> QED BY <2>1, Inverted DEF twos_complement
<1> HIDE DEF M
<1>3. c \in 0 .. M - 1
  BY <1>1
<1>4. (a + c) % M = (a - b) % M
  <2>1. (c + a) % M = ((M - b) + a) % M
    <3>1. M - b \in Int /\ a \in Int
      BY <1>1
    <3> QED BY <1>1, <3>1, RemainderOfSum, Zenon
  <2>2. c + a = a + c /\ (M - b) + a = M + (a - b) /\ a - b \in Int /\ M \in Int
    BY <1>1, <1>3
  <2>3. ((M % M) + (a - b)) % M = (M + (a - b)) % M
    BY <1>1, <2>2, RemainderOfSum, Zenon
  <2>4. M % M = 0 /\ 0 + (a - b) = a - b
    BY <1>1
  <2> QED BY <2>1, <2>2, <2>3, <2>4
<1>5. (a - b) % M = 0 <=> a = b
  <2>1. CASE a >= b
    <3>1. a - b \in 0 .. M - 1 /\ a - b = M * 0 + (a - b)
      BY <1>1, <2>1
    <3>2. (a - b) % M = a - b
      BY <1>1, <3>1
    <3> QED BY <1>1, <3>2
  <2>2. CASE a < b
    <3>1. (a - b) + M \in 1 .. M - 1 /\ a - b = M * (-1) + ((a - b) + M)
      BY <1>1, <2>2
    <3>2. (a - b) % M = (a - b) + M
      BY <1>1, <3>1, Quotient
    <3> QED BY <1>1, <2>2, <3>1, <3>2
  <2> QED BY <1>1, <2>1, <2>2
<1>6. add_unit(a, twos_complement(b)) = (a + c) % M
  BY <1>2 DEF add_unit, M
<1> HIDE DEF c
<1> QED BY <1>1, <1>2, <1>3, <1>4, <1>5, <1>6 DEF SubtractCorrect, M

\* The bits of a mask.
LEMMA MaskBit ==
  ASSUME NEW k \in Nat, NEW n \in Nat
  PROVE  bit((2 ^ k) - 1, n) = IF n < k THEN 1 ELSE 0
<1> DEFINE p == 2 ^ k
           q == 2 ^ n
<1>1. p \in Nat \ {0} /\ q \in Nat \ {0}
  BY PowersOfTwo
<1>2. CASE n < k
  <2> DEFINE m == k - n - 1
             s == 2 ^ m
  <2>1. m \in Nat /\ m + 1 \in Nat /\ k = n + (m + 1)
    BY <1>2
  <2>2. s \in Nat \ {0} /\ p = q * (2 * s)
    <3> HIDE DEF m
    <3>1. s \in Nat \ {0} /\ 2 ^ (m + 1) = 2 * s
      BY <2>1, PowersOfTwo
    <3>2. 2 ^ (n + (m + 1)) = q * 2 ^ (m + 1)
      BY <2>1, PowersMultiply, Zenon
    <3> QED BY <2>1, <3>1, <3>2
  <2> HIDE DEF m, s, p, q
  <2> DEFINE d == 2 * s - 1
  <2>3. p - 1 = q * d + (q - 1) /\ d \in Int /\ q - 1 \in 0 .. q - 1 /\ p - 1 \in Int
    <3>1. q * (2 * s - 1) = q * (2 * s) - q
      BY <1>1, <2>2
    <3> QED BY <1>1, <2>2, <3>1
  <2> HIDE DEF d
  <2>4. (p - 1) \div q = d
    BY <1>1, <2>3, Quotient, Zenon
  <2>5. d % 2 = 1
    BY <2>2 DEF d
  <2> QED BY <1>2, <2>4, <2>5 DEF bit, p, q
<1>3. CASE ~(n < k)
  <2> DEFINE m == n - k
             s == 2 ^ m
  <2>1. m \in Nat /\ n = k + m
    BY <1>3
  <2>2. s \in Nat \ {0} /\ q = p * s
    <3> HIDE DEF m
    <3> QED BY <2>1, PowersOfTwo, PowersMultiply
  <2> HIDE DEF m, s, p, q
  <2>3. p <= q
    <3>1. (s - 1) * p \in Nat /\ (s - 1) * p = p * s - p
      BY <1>1, <2>2
    <3> DEFINE f == p * s
    <3>2. q = f /\ f \in Nat /\ f - p \in Nat
      BY <1>1, <2>2, <3>1
    <3> HIDE DEF f
    <3> QED BY <1>1, <3>2
  <2>4. p - 1 = q * 0 + (p - 1) /\ p - 1 \in 0 .. q - 1
    BY <1>1, <2>3
  <2>5. (p - 1) \div q = 0
    BY <1>1, <2>4, Quotient
  <2>6. bit((2 ^ k) - 1, n) = 0 % 2
    BY <2>5 DEF bit, p, q
  <2> QED BY <1>3, <2>6
<1> QED BY <1>2, <1>3

\* Conjunction with a mask of k ones keeps the low k bits.
LEMMA Mask ==
  ASSUME NEW a \in Words, NEW k \in Nat, k < Width
  PROVE  and_unit(a, (2 ^ k) - 1) = a % 2 ^ k
<1> DEFINE e == (2 ^ k) - 1
           b == [i \in Bits |-> bit(a, i) * bit(e, i)]
           g == [n \in 0 .. Width |-> a % 2 ^ (IF n <= k THEN n ELSE k)]
<1>1. a \in Int
  BY Widths
<1>2. \A i \in Bits : bit(a, i) \in {0, 1} /\ bit(e, i) = IF i < k THEN 1 ELSE 0
  BY <1>1, BitsFacts, Bit, MaskBit
<1> HIDE DEF e
<1>3. b \in [Bits -> {0, 1}]
  BY <1>2
<1>4. g[0] = 0
  <2>1. a % 1 = 0 /\ 2 ^ 0 = 1
    BY <1>1
  <2> QED BY <2>1, BitsFacts
<1>5. ASSUME NEW n \in Bits PROVE g[n + 1] = g[n] + b[n] * 2 ^ n
  <2> DEFINE c == bit(a, n)
  <2>1. /\ g[n + 1] = a % 2 ^ (IF n + 1 <= k THEN n + 1 ELSE k)
        /\ g[n] = a % 2 ^ (IF n <= k THEN n ELSE k)
        /\ b[n] = c * IF n < k THEN 1 ELSE 0
    BY <1>2, BitsFacts
  <2>2. n \in Nat /\ c \in {0, 1} /\ 2 ^ n \in Nat /\ a % 2 ^ (n + 1) = (a % 2 ^ n) + c * 2 ^ n
    BY <1>1, BitsFacts, Bit
  <2> HIDE DEF g, b, c
  <2>3. CASE n < k
    <3>1. n + 1 <= k /\ n <= k
      BY <2>2, <2>3
    <3>2. b[n] = c
      BY <2>1, <2>2, <2>3
    <3> QED BY <2>1, <2>2, <3>1, <3>2
  <2>4. CASE ~(n < k)
    <3>1. ~(n + 1 <= k) /\ (n <= k => n = k)
      BY <2>2, <2>4
    <3>2. b[n] = 0 /\ g[n + 1] = g[n]
      BY <2>1, <2>2, <2>4, <3>1
    <3>3. b[n] * 2 ^ n = 0 /\ g[n] \in Int
      <4>1. 2 ^ k \in Nat \ {0} /\ g[n] = a % 2 ^ k
        BY <2>1, <3>1, PowersOfTwo
      <4>2. a % 2 ^ k \in Int
        BY <1>1, <4>1, Divided, Zenon
      <4> QED BY <2>2, <3>2, <4>1, <4>2
    <3> QED BY <3>2, <3>3
  <2> QED BY <2>3, <2>4
<1>6. concat(b) = g[Width]
  <2> HIDE DEF b, g
  <2> QED BY <1>3, <1>4, <1>5, Concatenation, Zenon
<1>7. g[Width] = a % 2 ^ k
  <2>1. ~(Width <= k)
    BY WidthAssumption
  <2> QED BY <2>1, BitsFacts
<1> QED BY <1>6, <1>7 DEF and_unit, e

\* What one gate takes of a bit of the sum, the other leaves.
LEMMA GatesSplit ==
  ASSUME NEW x \in Words, NEW y \in Words
  PROVE  /\ and_unit(x, y) + or_unit(x, y) = x + y
         /\ and_unit(x, y) \in Words /\ or_unit(x, y) \in Words
<1> DEFINE b == [i \in Bits |-> bit(x, i) * bit(y, i)]
           c == [i \in Bits |-> IF bit(x, i) + bit(y, i) = 0 THEN 0 ELSE 1]
           t == [i \in Bits |-> b[i] * 2 ^ i]
<1>1. x \in Int /\ y \in Int /\ x % Modulus = x /\ y % Modulus = y
  BY Widths
<1>2. \A i \in Bits : bit(x, i) \in {0, 1} /\ bit(y, i) \in {0, 1}
  BY <1>1, BitsFacts, Bit
<1>3. /\ b \in [Bits -> {0, 1}] /\ c \in [Bits -> {0, 1}]
      /\ \A i \in Bits : b[i] + c[i] = bit(x, i) + bit(y, i)
  BY <1>2
<1>4. t \in [Bits -> Int]
  <2>1. \A i \in Bits : 2 ^ i \in Int /\ b[i] \in Int
    BY <1>3, PowersOfTwo, BitsFacts
  <2> HIDE DEF b
  <2> QED BY <2>1
<1>5. PICK f \in [0 .. Width -> Int] :
        /\ f[0] = 0 /\ \A n \in Bits : f[n + 1] = f[n] + t[n]
        /\ total(t) = f[Width]
  <2> HIDE DEF t
  <2> QED BY <1>4, PartialSums
<1> DEFINE g == [n \in 0 .. Width |-> (x % 2 ^ n) + (y % 2 ^ n) - f[n]]
<1>6. g[0] = 0
  <2>1. x % 1 = 0 /\ y % 1 = 0 /\ 2 ^ 0 = 1
    BY <1>1
  <2> QED BY <1>5, <2>1, BitsFacts
<1>7. ASSUME NEW n \in Bits PROVE g[n + 1] = g[n] + c[n] * 2 ^ n
  <2> DEFINE p == 2 ^ n
             u == x % p
             v == y % p
             u1 == x % 2 ^ (n + 1)
             v1 == y % 2 ^ (n + 1)
             bx == bit(x, n)
             by == bit(y, n)
  <2>1. p \in Nat \ {0} /\ bx \in {0, 1} /\ by \in {0, 1} /\ u1 = u + bx * p /\ v1 = v + by * p
    BY <1>1, BitsFacts, Bit
  <2>2. u \in Int /\ v \in Int
    BY <1>1, <2>1
  <2>3. f[n + 1] = f[n] + b[n] * p /\ f[n] \in Int
    BY <1>5, BitsFacts
  <2>4. g[n] = u + v - f[n] /\ g[n + 1] = u1 + v1 - f[n + 1]
    BY BitsFacts
  <2>5. b[n] \in {0, 1} /\ c[n] \in {0, 1} /\ b[n] + c[n] = bx + by
    BY <1>3
  <2> HIDE DEF p, u, v, u1, v1, bx, by, g, b, c, t
  <2>6. (b[n] + c[n]) * p = b[n] * p + c[n] * p /\ (bx + by) * p = bx * p + by * p
    BY <2>1, <2>5
  <2>7. b[n] * p \in Int /\ c[n] * p \in Int /\ bx * p \in Int /\ by * p \in Int
    <3>1. \A z \in {0, 1} : z * p \in Int
      BY <2>1
    <3> QED BY <2>1, <2>5, <3>1, Zenon
  <2>8. b[n] * p + c[n] * p = bx * p + by * p
    BY <2>5, <2>6
  <2>9. g[n + 1] = g[n] + c[n] * p
    <3> DEFINE i == b[n] * p
               j == c[n] * p
               k == bx * p
               l == by * p
    <3>1. /\ u1 = u + k /\ v1 = v + l /\ f[n + 1] = f[n] + i /\ i + j = k + l
          /\ i \in Int /\ j \in Int /\ k \in Int /\ l \in Int
      BY <2>1, <2>3, <2>7, <2>8, Zenon
    <3> HIDE DEF i, j, k, l
    <3>2. g[n + 1] = g[n] + j
      <4> DEFINE o == f[n]
      <4>1. /\ u \in Int /\ v \in Int /\ o \in Int /\ i \in Int /\ j \in Int /\ k \in Int
            /\ l \in Int /\ i + j = k + l
        BY <2>2, <2>3, <3>1, Zenon
      <4> HIDE DEF o
      <4>2. (u + k) + (v + l) - (o + i) = u + v - o + j
        BY <4>1
      <4> QED BY <2>4, <3>1, <4>2, Zenon DEF o
    <3> QED BY <3>2 DEF j
  <2> QED BY <2>9 DEF p
<1>8. concat(c) = g[Width]
  <2> HIDE DEF c, g
  <2> QED BY <1>3, <1>6, <1>7, Concatenation, Zenon
<1>9. concat(b) = f[Width]
  BY <1>5 DEF concat
<1>10. g[Width] = x + y - f[Width] /\ f[Width] \in Int
  BY <1>1, <1>5, BitsFacts DEF Modulus
<1>11. concat(b) + concat(c) = x + y
  <2> HIDE DEF b, c, g
  <2> QED BY <1>1, <1>8, <1>9, <1>10
<1>12. concat(b) \in Words /\ concat(c) \in Words
  <2> HIDE DEF b, c
  <2> QED BY <1>3, ConcatenationType
<1>13. and_unit(x, y) = concat(b) /\ or_unit(x, y) = concat(c)
  BY DEF and_unit, or_unit
<1> QED BY <1>11, <1>12, <1>13

\* The gates: a mask keeps the low bits, and and_unit and or_unit split a sum
\* (and_unit.v:8-10, or_unit.v:8-10).
THEOREM LogicExact == \A a, b \in Words : LogicCorrect(a, b)
<1> SUFFICES ASSUME NEW a \in Words, NEW b \in Words PROVE LogicCorrect(a, b)
  OBVIOUS
<1>1. b % Width \in 0 .. Width - 1
  <2>1. b \in Int
    BY Widths
  <2> QED BY <2>1, WidthAssumption, Divided, Zenon
<1>2. b % Width \in Nat /\ b % Width < Width
  BY <1>1, WidthAssumption
<1>3. and_unit(a, (2 ^ (b % Width)) - 1) = a % 2 ^ (b % Width)
  BY <1>2, Mask, Zenon
<1> QED BY <1>3, GatesSplit DEF LogicCorrect

\* The highest bit, which is extended to a branch offset, is the sign (cpu.v:96-107).
THEOREM SignExact == \A a \in Words : SignCorrect(a)
<1> SUFFICES ASSUME NEW a \in Words PROVE SignCorrect(a)
  OBVIOUS
<1> DEFINE h == 2 ^ (Width - 1)
<1>1. h \in Nat \ {0} /\ Modulus = 2 * h
  <2>1. Width - 1 \in Nat /\ (Width - 1) + 1 = Width
    BY WidthAssumption
  <2> QED BY <2>1, PowersOfTwo DEF Modulus
<1>2. bit(a, Width - 1) = (a \div h) % 2
  BY DEF bit
<1> HIDE DEF h
<1>3. a \in 0 .. (2 * h) - 1 /\ (2 * h) \div 2 = h
  BY <1>1, Widths
<1>4. CASE a < h
  <2>1. a = h * 0 + a /\ a \in 0 .. h - 1
    BY <1>1, <1>3, <1>4
  <2>2. a \div h = 0
    BY <1>1, <2>1, Quotient
  <2>3. bit(a, Width - 1) = 0
    BY <1>2, <2>2
  <2>4. signed(a) = a
    BY <1>1, <1>3, <1>4 DEF signed
  <2> QED BY <1>3, <2>3, <2>4 DEF SignCorrect
<1>5. CASE ~(a < h)
  <2>1. a = h * 1 + (a - h) /\ a - h \in 0 .. h - 1
    BY <1>1, <1>3, <1>5
  <2>2. a \div h = 1
    BY <1>1, <2>1, Quotient
  <2>3. bit(a, Width - 1) = 1
    BY <1>2, <2>2
  <2>4. signed(a) = a - 2 * h
    BY <1>1, <1>3, <1>5 DEF signed
  <2> QED BY <1>1, <1>3, <2>3, <2>4 DEF SignCorrect
<1> QED BY <1>4, <1>5

-----------------------------------------------------------------------------
(* The shifter. *)

\* The byte cut at bit k.
LEMMA Cut ==
  ASSUME NEW k \in Nat, k <= Width
  PROVE  /\ 2 ^ k \in Nat \ {0} /\ 2 ^ (Width - k) \in Nat \ {0}
         /\ Modulus = 2 ^ k * 2 ^ (Width - k) /\ Modulus = 2 ^ (Width - k) * 2 ^ k
         /\ Modulus \div 2 ^ k = 2 ^ (Width - k)
<1> DEFINE m == Width - k
           p == 2 ^ k
           s == 2 ^ m
<1>1. m \in Nat /\ k + m = Width /\ m + k = Width
  BY WidthAssumption
<1> HIDE DEF m
<1>2. 2 ^ (k + m) = p * s /\ 2 ^ (m + k) = s * p /\ p \in Nat \ {0} /\ s \in Nat \ {0}
  BY <1>1, PowersMultiply, PowersOfTwo
<1> HIDE DEF p, s
<1>3. Modulus = p * s /\ Modulus = s * p
  BY <1>1, <1>2 DEF Modulus
<1>4. p * s = p * s + 0 /\ 0 \in 0 .. p - 1 /\ p * s \in Int /\ s \in Int
  BY <1>2
<1>5. (p * s) \div p = s
  BY <1>2, <1>4, Quotient, Zenon
<1> QED BY <1>2, <1>3, <1>5 DEF p, s, m

\* What is left of a byte that is divided by 2^k.
LEMMA HighPart ==
  ASSUME NEW d \in Words, NEW k \in Nat, k <= Width
  PROVE  /\ d \div 2 ^ k \in 0 .. 2 ^ (Width - k) - 1
         /\ (d \div 2 ^ k) % 2 ^ (Width - k) = d \div 2 ^ k
         /\ d \div 2 ^ k \in Words
<1> DEFINE p == 2 ^ k
           s == 2 ^ (Width - k)
           q == d \div p
           r == d % p
<1>1. p \in Nat \ {0} /\ s \in Nat \ {0} /\ Modulus = p * s
  BY Cut
<1> HIDE DEF p, s
<1>2. d \in 0 .. (p * s) - 1
  BY <1>1, Widths
<1>3. q \in Int /\ r \in 0 .. p - 1 /\ d = p * q + r
  BY <1>1, <1>2, Divided
<1> HIDE DEF q, r
<1>4. q >= 0
  <2> SUFFICES ASSUME q <= -1 PROVE FALSE
    BY <1>3
  <2>1. p * (-1 - q) \in Nat /\ p * (-1 - q) = -p - p * q
    BY <1>1, <1>3
  <2> DEFINE f == p * q
  <2>2. f \in Int /\ -p - f \in Nat /\ d = f + r /\ d \in Nat
    BY <1>1, <1>2, <1>3, <2>1
  <2> HIDE DEF f
  <2> QED BY <1>1, <1>3, <2>2
<1>5. q < s
  <2> SUFFICES ASSUME q >= s PROVE FALSE
    BY <1>1, <1>3
  <2>1. p * (q - s) \in Nat /\ p * (q - s) = p * q - p * s
    BY <1>1, <1>3
  <2> DEFINE f == p * q
             g == p * s
  <2>2. f \in Int /\ g \in Int /\ f - g \in Nat /\ d = f + r /\ d < g /\ d \in Int
    BY <1>1, <1>2, <1>3, <2>1
  <2> HIDE DEF f, g
  <2> QED BY <1>3, <2>2
<1>6. q \in 0 .. s - 1 /\ q % s = q
  <2>1. q \in 0 .. s - 1 /\ q = s * 0 + q
    BY <1>1, <1>3, <1>4, <1>5
  <2> QED BY <1>1, <1>3, <2>1, Quotient
<1>7. q <= d
  <2>1. (p - 1) * q \in Nat /\ (p - 1) * q = p * q - q
    BY <1>1, <1>3, <1>4
  <2> DEFINE f == p * q
  <2>2. f \in Int /\ f - q \in Nat /\ d = f + r
    BY <1>1, <1>3, <2>1
  <2> HIDE DEF f
  <2> QED BY <1>1, <1>2, <1>3, <2>2
<1>8. q \in Words
  BY <1>2, <1>3, <1>4, <1>7, Widths
<1> QED BY <1>6, <1>8 DEF p, s, q

\* Beyond the byte there are only zeros.
LEMMA HighBit ==
  ASSUME NEW d \in Words, NEW j \in Nat, j >= Width
  PROVE  bit(d, j) = 0 /\ Modulus <= 2 ^ j
<1> DEFINE m == j - Width
           s == 2 ^ m
           q == 2 ^ j
<1>1. m \in Nat /\ Width + m = j
  BY WidthAssumption
<1> HIDE DEF m
<1>2. 2 ^ (Width + m) = 2 ^ Width * s /\ s \in Nat \ {0}
  BY <1>1, PowersMultiply, PowersOfTwo, WidthAssumption
<1>3. q = Modulus * s /\ q \in Nat \ {0}
  BY <1>1, <1>2, PowersOfTwo DEF Modulus
<1> HIDE DEF s
<1>4. Modulus <= q
  <2>1. Modulus * (s - 1) \in Nat /\ Modulus * (s - 1) = Modulus * s - Modulus
    BY <1>2, Widths
  <2> HIDE DEF q
  <2>2. q - Modulus \in Nat
    BY <1>3, <2>1
  <2> QED BY <1>3, <2>2, Widths
<1> HIDE DEF q
<1>5. d \in 0 .. q - 1 /\ d = q * 0 + d
  BY <1>3, <1>4, Widths
<1>6. d \div q = 0
  BY <1>3, <1>5, Quotient
<1>7. bit(d, j) = 0 % 2
  BY <1>6 DEF bit, q
<1> QED BY <1>4, <1>7 DEF q

\* A shift to the left: n bits of the result are 0, or the low n - k bits of d times 2^k.
LEMMA Left ==
  ASSUME NEW d \in Words, NEW k \in Nat, k < Width
  PROVE  left_result(d, k) = (d * 2 ^ k) % Modulus /\ left_result(d, k) \in Words
<1> DEFINE b == [i \in Bits |-> IF i < k THEN 0 ELSE bit(d, i - k)]
           p == 2 ^ k
           s == 2 ^ (Width - k)
           g == [n \in 0 .. Width |-> IF n < k THEN 0 ELSE (d % 2 ^ (n - k)) * p]
<1>1. p \in Nat \ {0} /\ s \in Nat \ {0} /\ Modulus = s * p
  BY Cut, WidthAssumption
<1>2. d \in Int
  BY Widths
<1>3. b \in [Bits -> {0, 1}]
  <2>1. ASSUME NEW i \in Bits, ~(i < k) PROVE bit(d, i - k) \in {0, 1}
    <3>1. i - k \in Nat
      BY <2>1, BitsFacts
    <3> QED BY <1>2, <3>1, Bit
  <2> QED BY <2>1
<1>4. g[0] = 0
  <2>1. CASE k = 0
    <3>1. d % 1 = 0 /\ 2 ^ 0 = 1 /\ 0 - k = 0
      BY <1>2, <2>1
    <3>2. g[0] = (d % 2 ^ 0) * p
      BY <2>1, <3>1, BitsFacts
    <3> HIDE DEF p, g
    <3> QED BY <1>1, <3>1, <3>2
  <2>2. CASE k # 0
    BY <2>2, BitsFacts
  <2> QED BY <2>1, <2>2
<1>5. ASSUME NEW n \in Bits PROVE g[n + 1] = g[n] + b[n] * 2 ^ n
  <2> HIDE DEF p
  <2>1. /\ g[n] = IF n < k THEN 0 ELSE (d % 2 ^ (n - k)) * p
        /\ g[n + 1] = IF n + 1 < k THEN 0 ELSE (d % 2 ^ ((n + 1) - k)) * p
        /\ b[n] = IF n < k THEN 0 ELSE bit(d, n - k)
    BY BitsFacts
  <2> HIDE DEF b, g
  <2>2. n \in Nat /\ 2 ^ n \in Nat
    BY PowersOfTwo, BitsFacts
  <2>3. CASE ~(n < k)
    <3> DEFINE m == n - k
               q == 2 ^ m
               c == bit(d, m)
               u == d % q
    <3>1. m \in Nat /\ (n + 1) - k = m + 1 /\ n = m + k /\ ~(n + 1 < k)
      BY <2>2, <2>3
    <3> HIDE DEF m
    <3>2. /\ d % 2 ^ (m + 1) = u + c * q
          /\ c \in {0, 1} /\ q \in Nat \ {0}
      BY <1>2, <3>1, Bit
    <3>3. 2 ^ n = q * p /\ u \in Int
      BY <1>2, <3>1, <3>2, PowersMultiply DEF p
    <3>4. g[n + 1] = (u + c * q) * p /\ g[n] = u * p /\ b[n] = c
      BY <2>1, <2>3, <3>1, <3>2 DEF m
    <3> HIDE DEF q, c, u
    <3>5. g[n + 1] = g[n] + c * (q * p)
      <4>1. ASSUME NEW z \in {0, 1} PROVE (u + z * q) * p = u * p + z * (q * p)
        <5>1. (u + q) * p = u * p + q * p /\ q * p \in Int /\ u * p \in Int
          BY <1>1, <3>2, <3>3
        <5>2. CASE z = 0
          BY <3>2, <3>3, <5>1, <5>2
        <5>3. CASE z = 1
          BY <3>2, <3>3, <5>1, <5>3
        <5> QED BY <5>2, <5>3
      <4> QED BY <3>2, <3>4, <4>1
    <3> QED BY <3>3, <3>4, <3>5
  <2>4. CASE n < k
    <3>1. b[n] = 0 /\ g[n] = 0 /\ b[n] * 2 ^ n = 0
      BY <2>1, <2>2, <2>4
    <3>2. g[n + 1] = 0
      <4>1. CASE n + 1 < k
        BY <2>1, <4>1
      <4>2. CASE ~(n + 1 < k)
        <5>1. (n + 1) - k = 0 /\ d % 1 = 0 /\ 2 ^ 0 = 1
          BY <1>2, <2>2, <2>4, <4>2
        <5>2. g[n + 1] = 0 * p
          BY <2>1, <4>2, <5>1
        <5> QED BY <1>1, <5>2
      <4> QED BY <4>1, <4>2
    <3> QED BY <3>1, <3>2
  <2> QED BY <2>3, <2>4
<1>6. concat(b) = g[Width]
  <2> HIDE DEF b, g
  <2> QED BY <1>3, <1>4, <1>5, Concatenation, Zenon
<1>7. g[Width] = (d % s) * p
  BY BitsFacts
<1>8. (d * p) % (s * p) = (d % s) * p
  <2> HIDE DEF p, s
  <2> QED BY <1>1, <1>2, RemainderScaled, Zenon
<1>9. concat(b) \in Words
  <2> HIDE DEF b
  <2> QED BY <1>3, ConcatenationType
<1> QED BY <1>1, <1>6, <1>7, <1>8, <1>9 DEF left_result

\* A shift to the right: bit i of the result is bit i of the quotient.
LEMMA Right ==
  ASSUME NEW d \in Words, NEW k \in Nat, k < Width
  PROVE  right_result(d, k) = d \div 2 ^ k /\ right_result(d, k) \in Words
<1> DEFINE v == d \div 2 ^ k
<1>1. v \in Words /\ v \in Int /\ v % Modulus = v
  <2>1. v \in Words
    BY HighPart, WidthAssumption
  <2> HIDE DEF v
  <2> QED BY <2>1, Widths
<1>2. ASSUME NEW i \in Bits
      PROVE  (IF i + k < Width THEN bit(d, i + k) ELSE 0) = bit(v, i)
  <2>1. i \in Nat /\ i + k \in Nat /\ d \in Int
    BY Widths, BitsFacts
  <2>2. bit(d, i + k) = bit(v, i)
    BY <2>1, BitFrom, Zenon
  <2>3. ~(i + k < Width) => bit(d, i + k) = 0
    BY <2>1, HighBit, WidthAssumption
  <2> QED BY <2>2, <2>3
<1> HIDE DEF v
<1>3. right_result(d, k) = concat([i \in Bits |-> bit(v, i)])
  BY <1>2 DEF right_result
<1> QED BY <1>1, <1>3, BitsOf DEF v

\* The bits of a signed number repeat the sign.
LEMMA SignedBit ==
  ASSUME NEW d \in Words, NEW j \in Nat
  PROVE  bit(signed(d), j) = bit(d, IF j < Width THEN j ELSE Width - 1)
<1> DEFINE h == Modulus \div 2
           q == 2 ^ j
           M == Modulus
<1>1. M \in Nat \ {0} /\ d \in 0 .. M - 1 /\ q \in Nat \ {0} /\ Width - 1 \in Nat
  BY Widths, PowersOfTwo, WidthAssumption
<1>2. SignCorrect(d)
  BY SignExact
<1>3. bit(d, Width - 1) \in {0, 1}
  BY <1>1, Bit
<1>4. CASE d < h
  <2>1. signed(d) = d
    BY <1>4 DEF signed
  <2>2. CASE j < Width
    BY <2>1, <2>2
  <2>3. CASE ~(j < Width)
    <3>1. bit(d, j) = 0
      BY <2>3, HighBit, WidthAssumption
    <3>2. bit(d, Width - 1) = 0
      BY <1>1, <1>2, <1>3, <2>1 DEF SignCorrect
    <3> QED BY <2>1, <2>3, <3>1, <3>2
  <2> QED BY <2>2, <2>3
<1>5. CASE ~(d < h)
  <2>1. signed(d) = d - M
    BY <1>5 DEF signed
  <2>2. CASE j < Width
    <3> DEFINE m == Width - j - 1
               u == 2 ^ m
    <3>1. m \in Nat /\ m + 1 \in Nat /\ Width = j + (m + 1)
      BY <2>2, WidthAssumption
    <3> HIDE DEF m
    <3>2. u \in Nat \ {0} /\ 2 ^ (m + 1) = 2 * u /\ 2 ^ (j + (m + 1)) = q * 2 ^ (m + 1)
      BY <3>1, PowersMultiply, PowersOfTwo
    <3>3. M = q * (2 * u)
      BY <3>1, <3>2 DEF Modulus
    <3> HIDE DEF q, u, M
    <3> DEFINE e == d \div q
               r == d % q
    <3>4. e \in Int /\ r \in 0 .. q - 1 /\ d = q * e + r
      BY <1>1, Divided
    <3> HIDE DEF e, r
    <3>5. d - M = q * (e - 2 * u) + r
      <4>1. q * (e - 2 * u) = q * e - q * (2 * u)
        BY <1>1, <3>2, <3>4
      <4> DEFINE f == q * e
                 l == q * (e - 2 * u)
      <4>2. f \in Int /\ l = f - M /\ d = f + r
        BY <1>1, <3>3, <3>4, <4>1
      <4> HIDE DEF f, l
      <4>3. d - M = l + r
        BY <1>1, <3>4, <4>2
      <4> QED BY <4>3 DEF l
    <3>6. (d - M) \div q = e - 2 * u
      <4>1. d - M \in Int /\ e - 2 * u \in Int
        BY <1>1, <3>2, <3>4
      <4> QED BY <1>1, <3>4, <3>5, <4>1, Quotient, Zenon
    <3>7. (e - 2 * u) % 2 = e % 2
      BY <3>2, <3>4
    <3> QED BY <2>1, <2>2, <3>6, <3>7 DEF bit, q, e
  <2>3. CASE ~(j < Width)
    <3>1. M <= q
      BY <2>3, HighBit, WidthAssumption
    <3> HIDE DEF q, M
    <3>2. d - M = q * (-1) + ((d - M) + q) /\ (d - M) + q \in 0 .. q - 1 /\ d - M \in Int
      BY <1>1, <3>1
    <3>3. (d - M) \div q = -1
      BY <1>1, <3>2, Quotient
    <3>4. (-1) % 2 = 1
      <4>1. -1 \in Int /\ 2 \in Nat \ {0} /\ 1 \in 0 .. 2 - 1 /\ -1 = 2 * (-1) + 1
        OBVIOUS
      <4> QED BY <4>1, Quotient, Zenon
    <3>5. bit(d - M, j) = 1
      BY <3>3, <3>4 DEF bit, q
    <3>6. bit(d, Width - 1) = 1
      BY <1>1, <1>2, <2>1 DEF SignCorrect
    <3> QED BY <2>1, <2>3, <3>5, <3>6
  <2> QED BY <2>2, <2>3
<1> QED BY <1>4, <1>5

\* An arithmetic shift: bit i of the result is bit i of the quotient of the signed number.
LEMMA Arithmetic ==
  ASSUME NEW d \in Words, NEW k \in Nat, k < Width
  PROVE  /\ arith_result(d, k) = (signed(d) \div 2 ^ k) % Modulus
         /\ arith_result(d, k) \in Words
<1> DEFINE x == signed(d)
           v == x \div 2 ^ k
           b == [i \in Bits |-> bit(v, i)]
<1>1. x \in Int
  BY Widths DEF signed
<1> HIDE DEF x
<1>2. v \in Int
  <2>1. 2 ^ k \in Nat \ {0}
    BY PowersOfTwo
  <2> QED BY <1>1, <2>1, Divided, Zenon
<1>3. ASSUME NEW i \in Bits
      PROVE  bit(d, IF i + k < Width THEN i + k ELSE Width - 1) = bit(v, i)
  <2>1. i \in Nat /\ i + k \in Nat
    BY BitsFacts
  <2>2. bit(x, i + k) = bit(v, i)
    BY <1>1, <2>1, BitFrom, Zenon
  <2>3. bit(signed(d), i + k) = bit(d, IF i + k < Width THEN i + k ELSE Width - 1)
    BY <2>1, SignedBit, Zenon
  <2> QED BY <2>2, <2>3 DEF x
<1> HIDE DEF v
<1>4. b \in [Bits -> {0, 1}]
  BY <1>2, BitsFacts, Bit
<1>5. arith_result(d, k) = concat(b)
  BY <1>3 DEF arith_result
<1>6. concat(b) \in Words
  <2> HIDE DEF b
  <2> QED BY <1>4, ConcatenationType
<1> QED BY <1>2, <1>5, <1>6, BitsOf DEF v, x

\* The bits that fall out on the right come back on the left.
LEMMA Rotated ==
  ASSUME NEW d \in Words, NEW k \in Nat, k < Width
  PROVE  /\ ror_result(d, k) = (d \div 2 ^ k) + (d % 2 ^ k) * 2 ^ (Width - k)
         /\ ror_result(d, k) \in Words
<1> DEFINE c == Width - k
           p == 2 ^ k
           s == 2 ^ c
           v == d \div p
           b == [i \in Bits |-> bit(d, (i + k) % Width)]
           g == [n \in 0 .. Width |-> IF n <= c THEN v % 2 ^ n ELSE v + (d % 2 ^ (n - c)) * s]
<1>1. c \in Nat \ {0} /\ c <= Width /\ Width = c + k
  BY WidthAssumption
<1>2. p \in Nat \ {0} /\ s \in Nat \ {0} /\ d \in Int
  BY <1>1, PowersOfTwo, Widths
<1>3. v \in Int /\ v % s = v /\ \A n \in Nat : v % 2 ^ n \in Int
  <2>1. v \in 0 .. s - 1 /\ v % s = v
    BY HighPart, WidthAssumption
  <2> HIDE DEF v
  <2>2. v \in Int
    BY <1>2, <2>1
  <2> QED BY <2>1, <2>2, PowersOfTwo, Divided
<1>4. ASSUME NEW i \in Bits
      PROVE  b[i] = IF i < c THEN bit(v, i) ELSE bit(d, i - c)
  <2>1. i \in Nat /\ i + k \in Nat /\ i < Width
    BY BitsFacts
  <2>2. CASE i < c
    <3>1. i + k \in 0 .. Width - 1 /\ i + k = Width * 0 + (i + k)
      BY <1>1, <2>1, <2>2
    <3>2. (i + k) % Width = i + k
      BY <2>1, <3>1, WidthAssumption, Quotient
    <3>3. bit(d, i + k) = bit(v, i)
      BY <1>2, <2>1, BitFrom, Zenon
    <3> QED BY <2>2, <3>2, <3>3
  <2>3. CASE ~(i < c)
    <3> DEFINE m == i - c
    <3>1. m \in 0 .. Width - 1 /\ i + k = Width * 1 + m
      BY <1>1, <2>1, <2>3
    <3>2. (i + k) % Width = m
      <4> HIDE DEF m
      <4> QED BY <2>1, <3>1, WidthAssumption, Quotient
    <3> QED BY <2>3, <3>2
  <2> QED BY <2>2, <2>3
<1>5. b \in [Bits -> {0, 1}]
  <2>1. ASSUME NEW i \in Bits PROVE b[i] \in {0, 1}
    <3>1. i \in Nat /\ (~(i < c) => i - c \in Nat)
      BY <1>1, BitsFacts
    <3> QED BY <1>2, <1>3, <1>4, <3>1, Bit
  <2>2. b = [i \in Bits |-> b[i]]
    OBVIOUS
  <2> HIDE DEF b
  <2> QED BY <2>1, <2>2
<1>6. g[0] = 0
  <2>1. v % 1 = 0 /\ 2 ^ 0 = 1 /\ 0 <= c
    BY <1>1, <1>3
  <2> QED BY <2>1, BitsFacts
\* From c on the first formula gives the same as the second.
<1>7. ASSUME NEW n \in Bits, ~(n < c) PROVE g[n] = v + (d % 2 ^ (n - c)) * s
  <2>1. n \in Nat
    BY BitsFacts
  <2>2. CASE n = c
    <3>1. d % 1 = 0 /\ 2 ^ 0 = 1 /\ n - c = 0 /\ 0 * s = 0 /\ v + 0 = v
      BY <1>1, <1>2, <1>3, <2>2
    <3>2. g[n] = v % s
      BY <1>1, <2>2, BitsFacts
    <3> HIDE DEF v, s, c, g
    <3> QED BY <1>3, <3>1, <3>2
  <2>3. CASE n # c
    <3>1. ~(n <= c)
      BY <1>1, <1>7, <2>1, <2>3
    <3> QED BY <3>1, BitsFacts
  <2> QED BY <2>2, <2>3
<1>8. ASSUME NEW n \in Bits PROVE g[n + 1] = g[n] + b[n] * 2 ^ n
  <2>1. n \in Nat
    BY BitsFacts
  <2>2. CASE n < c
    <3>1. n + 1 <= c /\ n <= c
      BY <1>1, <2>1, <2>2
    <3>2. g[n + 1] = v % 2 ^ (n + 1) /\ g[n] = v % 2 ^ n /\ b[n] = bit(v, n)
      BY <1>4, <2>2, <3>1, BitsFacts
    <3> HIDE DEF g, b, v
    <3> QED BY <1>3, <2>1, <3>2, Bit
  <2>3. CASE ~(n < c)
    <3> DEFINE m == n - c
               u == d % 2 ^ m
               e == bit(d, m)
               q == 2 ^ m
    <3>1. m \in Nat /\ (n + 1) - c = m + 1 /\ n = m + c /\ ~(n + 1 <= c)
      BY <1>1, <2>1, <2>3
    <3>2. g[n + 1] = v + (d % 2 ^ (m + 1)) * s
      BY <3>1, BitsFacts
    <3>3. g[n] = v + u * s /\ b[n] = e
      BY <1>4, <1>7, <2>3
    <3> HIDE DEF m, g, b, v
    <3>4. d % 2 ^ (m + 1) = u + e * q /\ e \in {0, 1} /\ q \in Nat \ {0}
      BY <1>2, <3>1, Bit
    <3>5. u \in Int
      BY <1>2, <3>4, Divided, Zenon
    <3>6. 2 ^ n = q * s
      BY <1>1, <3>1, PowersMultiply
    <3> HIDE DEF u, e, q, s, c
    <3>7. ASSUME NEW z \in {0, 1} PROVE (u + z * q) * s = u * s + z * (q * s)
      <4>1. (u + q) * s = u * s + q * s /\ q * s \in Int /\ u * s \in Int
        BY <1>2, <3>4, <3>5
      <4>2. CASE z = 0
        BY <3>4, <3>5, <4>1, <4>2
      <4>3. CASE z = 1
        BY <3>4, <3>5, <4>1, <4>3
      <4> QED BY <4>2, <4>3
    <3>8. g[n + 1] = v + (u * s + e * (q * s))
      BY <3>2, <3>4, <3>7
    <3>9. u * s \in Int /\ e * (q * s) \in Int
      <4>1. q * s \in Int /\ 0 * (q * s) = 0 /\ 1 * (q * s) = q * s
        BY <1>2, <3>4
      <4> QED BY <1>2, <3>4, <3>5, <4>1
    <3> DEFINE x == u * s
               y == e * (q * s)
    <3>10. /\ g[n + 1] = v + (x + y) /\ g[n] = v + x /\ x \in Int /\ y \in Int
           /\ b[n] * 2 ^ n = y
      BY <3>3, <3>6, <3>8, <3>9, Zenon
    <3> HIDE DEF x, y
    <3>11. g[n + 1] = g[n] + y
      BY <1>3, <3>10
    <3> QED BY <3>10, <3>11
  <2> QED BY <2>2, <2>3
<1>9. concat(b) = g[Width]
  <2> HIDE DEF b, g
  <2> QED BY <1>5, <1>6, <1>8, Concatenation, Zenon
<1>10. g[Width] = v + (d % p) * s
  <2>1. CASE k = 0
    <3>1. c = Width /\ d % 1 = 0 /\ 2 ^ 0 = 1 /\ 0 * s = 0 /\ v + 0 = v
      BY <1>1, <1>2, <1>3, <2>1
    <3>2. g[Width] = v % s
      BY <1>1, <3>1, BitsFacts
    <3> HIDE DEF v, s, c, g
    <3> QED BY <1>3, <2>1, <3>1, <3>2
  <2>2. CASE k # 0
    <3>1. ~(Width <= c) /\ Width - c = k
      BY <1>1, <2>2, WidthAssumption
    <3> QED BY <3>1, BitsFacts
  <2> QED BY <2>1, <2>2
<1>11. concat(b) \in Words
  <2> HIDE DEF b
  <2> QED BY <1>5, ConcatenationType
<1> QED BY <1>9, <1>10, <1>11 DEF ror_result

\* The amount that the low bits of the operand give.
LEMMA Amount ==
  ASSUME NEW n \in Int
  PROVE  n % Width \in Nat /\ n % Width < Width
<1>1. n % Width \in 0 .. Width - 1
  BY WidthAssumption, Divided, Zenon
<1> QED BY <1>1, WidthAssumption

\* The four outputs of the shifter.
LEMMA ShifterResults ==
  ASSUME NEW d \in Words, NEW n \in Int
  PROVE  LET k == n % Width
             p == 2 ^ k
             out(type) == shift_unit(d, n, type)
         IN  /\ out(0) = (d * p) % Modulus
             /\ out(1) = d \div p
             /\ out(2) = (signed(d) \div p) % Modulus
             /\ out(3) = (d \div p) + (d % p) * (Modulus \div p)
             /\ \A type \in 0 .. 3 : out(type) \in Words
<1> DEFINE k == n % Width
           out(type) == shift_unit(d, n, type)
<1>1. k \in Nat /\ k < Width /\ k <= Width
  BY Amount, WidthAssumption
<1>2. /\ out(0) = left_result(d, k) /\ out(1) = right_result(d, k)
      /\ out(2) = arith_result(d, k) /\ out(3) = ror_result(d, k)
  BY DEF shift_unit, shift_results, amount
<1> HIDE DEF k, out
<1>3. /\ out(0) = (d * 2 ^ k) % Modulus /\ out(1) = d \div 2 ^ k
      /\ out(2) = (signed(d) \div 2 ^ k) % Modulus
      /\ out(3) = (d \div 2 ^ k) + (d % 2 ^ k) * 2 ^ (Width - k)
      /\ out(0) \in Words /\ out(1) \in Words /\ out(2) \in Words /\ out(3) \in Words
  BY <1>1, <1>2, Left, Right, Arithmetic, Rotated, Zenon
<1>4. Modulus \div 2 ^ k = 2 ^ (Width - k)
  BY <1>1, Cut
<1>5. \A type \in 0 .. 3 : out(type) \in Words
  BY <1>3
<1> QED BY <1>3, <1>4, <1>5, Zenon DEF k, out

\* Rotating by the rest of the byte undoes a rotation.
LEMMA RotatedBack ==
  ASSUME NEW d \in Words, NEW n \in Int
  PROVE  shift_unit(shift_unit(d, n, 3), Width - (n % Width), 3) = d
<1> DEFINE k == n % Width
           p == 2 ^ k
           s == 2 ^ (Width - k)
           v == d \div p
           u == d % p
           r == shift_unit(d, n, 3)
           c == Width - k
           j == c % Width
<1>1. k \in Nat /\ k < Width /\ k <= Width /\ c \in Nat \ {0} /\ c <= Width /\ c \in Int
  <2>1. k \in Nat /\ k < Width
    BY Amount
  <2> HIDE DEF k
  <2> QED BY <2>1, WidthAssumption
<1>2. p \in Nat \ {0} /\ s \in Nat \ {0} /\ d \in Int /\ Modulus \div p = s
  BY <1>1, Cut, Widths
<1>3. r = v + u * s /\ r \in Words /\ r \in Int
  <2>1. r = v + u * (Modulus \div p) /\ r \in Words
    BY ShifterResults
  <2> HIDE DEF r, v, u, p, s
  <2> QED BY <1>2, <2>1, Widths
<1>4. v \in 0 .. s - 1
  <2> HIDE DEF k
  <2>1. d \div 2 ^ k \in 0 .. 2 ^ (Width - k) - 1
    BY <1>1, HighPart, Zenon
  <2> QED BY <2>1
<1>5. u \in 0 .. p - 1 /\ u \in Int /\ d = p * v + u /\ v \in Int
  BY <1>2, Divided, Zenon
<1>6. shift_unit(r, c, 3) = (r \div 2 ^ j) + (r % 2 ^ j) * (Modulus \div 2 ^ j)
  <2> HIDE DEF r, c
  <2> QED BY <1>1, <1>3, ShifterResults
<1>7. CASE k = 0
  <2>1. c = Width /\ j = 0 /\ p = 1
    <3> HIDE DEF k
    <3>1. c = Width /\ p = 2 ^ 0 /\ Width % Width = 0 /\ 2 ^ 0 = 1
      BY <1>7, WidthAssumption
    <3> QED BY <3>1
  <2>2. Modulus \div 2 ^ j = Modulus /\ 2 ^ j = 1
    BY <2>1, Widths
  <2> HIDE DEF r, c, j, v, u, p, s
  <2>3. r \div 1 = r /\ r % 1 = 0 /\ 0 * Modulus = 0 /\ r + 0 = r
    BY <1>3, Widths
  <2>4. shift_unit(r, c, 3) = r
    BY <1>6, <2>2, <2>3
  <2>5. u = 0 /\ 0 * s = 0 /\ 1 * v = v
    BY <1>2, <1>5, <2>1
  <2>6. r = d
    BY <1>3, <1>5, <2>1, <2>5
  <2> QED BY <2>4, <2>6 DEF r, c, k
<1>8. CASE k # 0
  <2>1. j = c
    <3>1. c \in 0 .. Width - 1 /\ c = Width * 0 + c
      BY <1>1, <1>8, WidthAssumption
    <3> HIDE DEF c
    <3> QED BY <1>1, <3>1, WidthAssumption, Quotient
  <2>2. 2 ^ j = s /\ Modulus \div 2 ^ j = p
    <3>1. Width - c = k
      BY <1>1, WidthAssumption
    <3>2. Modulus \div 2 ^ c = 2 ^ (Width - c)
      <4> HIDE DEF c
      <4> QED BY <1>1, Cut
    <3> QED BY <2>1, <3>1, <3>2
  <2> HIDE DEF r, j, v, u, p, s
  <2>3. r = s * u + v
    BY <1>2, <1>3, <1>5
  <2>4. r \div s = u /\ r % s = v
    BY <1>2, <1>3, <1>4, <1>5, <2>3, Quotient
  <2>5. shift_unit(r, c, 3) = u + v * p
    BY <1>6, <2>2, <2>4
  <2>6. u + v * p = p * v + u
    BY <1>2, <1>5
  <2> HIDE DEF c
  <2>7. shift_unit(r, c, 3) = d
    BY <1>5, <2>5, <2>6
  <2> QED BY <2>7 DEF r, c, k
<1> QED BY <1>7, <1>8

\* The shifter multiplies, divides and rotates by the amount in the low bits of its operand,
\* and a rotation loses no bit (shift_unit.v:9-80).
THEOREM ShifterExact == ShiftsExact
<1> SUFFICES ASSUME NEW a \in Words, NEW n \in Words
             PROVE  ShiftsCorrect(a, n) /\ RotateCorrect(a, n)
  BY DEF ShiftsExact
<1>1. n \in Int
  BY Widths
<1>2. ShiftsCorrect(a, n)
  BY <1>1, ShifterResults DEF ShiftsCorrect
<1>3. RotateCorrect(a, n)
  BY <1>1, ShifterResults, RotatedBack DEF RotateCorrect
<1> QED BY <1>2, <1>3

-----------------------------------------------------------------------------
(* The multiplier. *)

\* The sum of the partial products is the low byte of the product: up to bit m, it is a times
\* the low m bits of b (mult_unit.v:15-27).
THEOREM MultiplyExact == \A a, b \in Words : MultiplyCorrect(a, b)
<1> SUFFICES ASSUME NEW a \in Words, NEW b \in Words PROVE MultiplyCorrect(a, b)
  OBVIOUS
<1> DEFINE M == Modulus
           t == partial_products(a, b)
<1>1. M \in Nat \ {0} /\ a \in Int /\ b \in Int /\ b % M = b
  BY Widths
<1> HIDE DEF M
<1>2. ASSUME NEW i \in Bits
      PROVE  /\ t[i] = IF bit(b, i) = 1 THEN (a * 2 ^ i) % M ELSE 0
             /\ t[i] \in Int
  <2>1. i \in Nat /\ i < Width
    BY BitsFacts
  <2>2. left_result(a, i) = (a * 2 ^ i) % M /\ left_result(a, i) \in Int
    BY <2>1, Left, Widths DEF M
  <2> QED BY <2>2 DEF partial_products
<1>3. t \in [Bits -> Int]
  <2>1. t = [i \in Bits |-> t[i]]
    BY DEF partial_products
  <2> HIDE DEF t
  <2> QED BY <1>2, <2>1
<1> HIDE DEF t
<1>4. PICK f \in [0 .. Width -> Int] :
        /\ f[0] = 0 /\ \A n \in Bits : f[n + 1] = f[n] + t[n]
        /\ total(t) = f[Width]
  BY <1>3, PartialSums
<1> DEFINE S == {m \in Nat : m <= Width => f[m] % M = (a * (b % 2 ^ m)) % M}
<1>5. 0 \in S
  <2>1. b % 1 = 0 /\ 2 ^ 0 = 1 /\ a * 0 = 0
    BY <1>1
  <2> QED BY <1>4, <2>1
<1>6. ASSUME NEW m \in Nat, m \in S PROVE m + 1 \in S
  <2> SUFFICES ASSUME m + 1 <= Width PROVE f[m + 1] % M = (a * (b % 2 ^ (m + 1))) % M
    OBVIOUS
  <2> DEFINE q == 2 ^ m
             u == b % q
             w == b % 2 ^ (m + 1)
             e == bit(b, m)
             x == f[m]
             y == a * q
             z == a * u
  <2>1. m \in Bits /\ m <= Width /\ m \in 0 .. Width
    BY WidthAssumption DEF Bits
  <2>2. e \in {0, 1} /\ q \in Nat \ {0} /\ w = u + e * q
    BY <1>1, Bit
  <2>3. u \in Int
    BY <1>1, <2>2, Divided, Zenon
  <2>4. y \in Int /\ z \in Int /\ x \in Int
    BY <1>1, <1>4, <2>1, <2>2, <2>3
  <2>5. x % M = z % M
    BY <1>6, <2>1
  <2>6. f[m + 1] = x + t[m] /\ t[m] = IF e = 1 THEN y % M ELSE 0
    BY <1>2, <1>4, <2>1
  <2>7. CASE e = 0
    <3>1. w = u /\ f[m + 1] = x
      <4> HIDE DEF w, u, e, q, x
      <4> QED BY <2>2, <2>3, <2>4, <2>6, <2>7
    <3> QED BY <2>5, <3>1
  <2>8. CASE e = 1
    <3>1. a * w = z + y
      <4>1. w = u + q
        <5> HIDE DEF w, u, e, q
        <5> QED BY <2>2, <2>3, <2>8
      <4>2. a * (u + q) = a * u + a * q
        <5> HIDE DEF u, q
        <5> QED BY <1>1, <2>2, <2>3
      <4> QED BY <4>1, <4>2
    <3> HIDE DEF x, y, z, w, e
    <3>2. f[m + 1] = x + (y % M)
      BY <2>6, <2>8
    <3>3. ((y % M) + x) % M = (y + x) % M
      BY <1>1, <2>4, RemainderOfSum, Zenon
    <3>4. ((x % M) + y) % M = (x + y) % M /\ ((z % M) + y) % M = (z + y) % M
      BY <1>1, <2>4, RemainderOfSum, Zenon
    <3>5. y + x = x + y /\ (y % M) + x = x + (y % M)
      <4>1. y % M \in Int
        BY <1>1, <2>4, Divided, Zenon
      <4> QED BY <2>4, <4>1
    <3>6. f[m + 1] % M = (z + y) % M
      BY <2>5, <3>2, <3>3, <3>4, <3>5, Zenon
    <3> QED BY <3>1, <3>6 DEF w
  <2> QED BY <2>2, <2>7, <2>8
<1>7. Width \in S
  <2> HIDE DEF S
  <2> QED BY <1>5, <1>6, Induction, WidthAssumption
<1>8. f[Width] % M = (a * (b % M)) % M
  BY <1>7, WidthAssumption DEF M, Modulus
<1> QED BY <1>1, <1>4, <1>8 DEF MultiplyCorrect, mult_unit, sum_of, t, M

\* All units but the shifter compute what they promise on all bytes (alu.v:24-38).
THEOREM UnitsExact == ArithmeticExact
BY SubtractExact, MultiplyExact, LogicExact, SignExact DEF ArithmeticExact
=============================================================================
