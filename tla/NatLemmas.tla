------------------------------ MODULE NatLemmas ------------------------------
(***************************************************************************)
(* What the proofs of this project need of the natural numbers: least and  *)
(* greatest elements, induction and recursion over sets and functions (no  *)
(* lemma takes an operator), and division.                                 *)
(***************************************************************************)
EXTENDS Integers, FiniteSetsExt, WellFoundedInduction, TLAPS

(* Every non-empty set of naturals has a least element.                     *)
LEMMA LeastElement ==
  ASSUME NEW T \in SUBSET Nat, T # {}
  PROVE  \E n \in T : \A k \in T : n <= k
<1> DEFINE R == OpToRel(<, Nat)
<1>1. IsWellFoundedOn(R, Nat)
  BY NatLessThanWellFounded
<1>2. \A x, y \in Nat : <<y, x>> \in R <=> y < x
  BY DEF OpToRel
<1> HIDE DEF R
<1>3. PICK x \in T : \A y \in T : ~ (<<y, x>> \in R)
  BY <1>1, WFMin
<1>4. ASSUME NEW k \in T PROVE x <= k
  <2>1. x \in Nat /\ k \in Nat /\ ~ (k < x)
    BY <1>2, <1>3
  <2> QED BY <2>1
<1> QED
  BY <1>4

(* What Min of a set of naturals is: GetTag, FindSdt and Palloc look for    *)
(* the first of something.                                                  *)
LEMMA MinIsLeast ==
  ASSUME NEW T \in SUBSET Nat, T # {}
  PROVE  Min(T) \in T /\ \A k \in T : Min(T) <= k
  BY LeastElement DEF Min

(* What Max of a bounded set of naturals is.                                *)
LEMMA MaxIsGreatest ==
  ASSUME NEW T \in SUBSET Nat, T # {}, NEW n \in Nat, \A k \in T : k <= n
  PROVE  Max(T) \in T /\ \A k \in T : k <= Max(T)
<1> DEFINE U == {k \in Nat : k <= n /\ n - k \in T}
<1>1. U \in SUBSET Nat /\ U # {}
  <2>1. PICK t \in T : TRUE
    OBVIOUS
  <2>2. n - t \in Nat /\ n - (n - t) = t /\ n - t <= n
    BY <2>1
  <2>3. n - t \in U
    BY <2>2
  <2> QED BY <2>3
<1>2. PICK u \in U : \A k \in U : u <= k
  <2> HIDE DEF U
  <2> QED BY <1>1, LeastElement
<1>3. n - u \in T /\ n - u \in Nat
  BY <1>2
<1>4. ASSUME NEW k \in T PROVE k <= n - u
  <2>1. k \in Nat /\ k <= n
    OBVIOUS
  <2>2. n - k \in Nat /\ n - (n - k) = k /\ n - k <= n
    BY <2>1
  <2>3. n - k \in U
    BY <2>2
  <2>4. u <= n - k /\ u \in Nat
    BY <1>2, <2>3
  <2> QED BY <2>1, <2>4
<1> QED
  BY <1>3, <1>4 DEF Max

(* Induction over a set.                                                    *)
LEMMA NatSetInduction ==
  ASSUME NEW T, 0 \in T, \A n \in Nat : n \in T => n + 1 \in T
  PROVE  Nat \subseteq T
<1> DEFINE U == Nat \ T
<1> SUFFICES ASSUME U # {} PROVE FALSE
  OBVIOUS
<1>1. PICK n \in U : \A k \in U : n <= k
  BY LeastElement
<1>2. n # 0 /\ n - 1 \in Nat /\ n - 1 \notin U
  BY <1>1
<1> QED
  BY <1>1, <1>2

(* The values a step takes b to, one after the other.                       *)
Iterates(f, S, b, n, step) ==
  /\ f \in [0 .. n -> S] /\ f[0] = b
  /\ \A k \in 1 .. n : f[k] = step[<<k, f[k - 1]>>]

(* A function defined from each value to the next exists.                   *)
LEMMA RecursionExists ==
  ASSUME NEW S, NEW b \in S, NEW n \in Nat, NEW step \in [(1 .. n) \X S -> S]
  PROVE  \E f : Iterates(f, S, b, n, step)
<1> DEFINE Good(m, f) == /\ f \in [0 .. m -> S] /\ f[0] = b
                         /\ \A k \in 1 .. m : f[k] = step[<<k, f[k - 1]>>]
           T == {m \in Nat : m <= n => \E f : Good(m, f)}
<1>1. 0 \in T
  <2>1. Good(0, [k \in 0 .. 0 |-> b])
    OBVIOUS
  <2> QED BY <2>1
<1>2. ASSUME NEW m \in Nat, m \in T PROVE m + 1 \in T
  <2> SUFFICES ASSUME m + 1 <= n PROVE \E f : Good(m + 1, f)
    OBVIOUS
  <2>1. PICK f : Good(m, f)
    BY <1>2
  <2> DEFINE g == [k \in 0 .. m + 1 |-> IF k = m + 1 THEN step[<<m + 1, f[m]>>] ELSE f[k]]
  <2>2. f[m] \in S /\ step[<<m + 1, f[m]>>] \in S
    BY <2>1
  <2>3. g \in [0 .. m + 1 -> S] /\ g[0] = b
    BY <2>1, <2>2
  <2>4. ASSUME NEW k \in 1 .. m + 1 PROVE g[k] = step[<<k, g[k - 1]>>]
    <3>1. CASE k = m + 1
      <4>1. g[k] = step[<<m + 1, f[m]>>] /\ k - 1 = m /\ m # m + 1 /\ m \in 0 .. m + 1
        BY <3>1
      <4>2. g[m] = f[m]
        BY <4>1
      <4> QED BY <3>1, <4>1, <4>2
    <3>2. CASE k # m + 1
      <4>1. k \in 1 .. m /\ k - 1 \in 0 .. m /\ k - 1 # m + 1
        BY <3>2
      <4>2. g[k] = f[k] /\ g[k - 1] = f[k - 1]
        BY <4>1, <3>2
      <4> QED BY <4>1, <4>2, <2>1
    <3> QED BY <3>1, <3>2
  <2>5. Good(m + 1, g)
    BY <2>3, <2>4
  <2> QED BY <2>5
<1> HIDE DEF T
<1>3. Nat \subseteq T
  BY <1>1, <1>2, NatSetInduction
<1>4. \E f : Good(n, f)
  BY <1>3 DEF T
<1> QED
  BY <1>4 DEF Iterates

(* Division of naturals.                                                    *)
LEMMA DivDef ==
  ASSUME NEW x \in Nat, NEW d \in Nat \ {0}
  PROVE  /\ x \div d \in Nat /\ x % d \in 0 .. d - 1
         /\ x = d * (x \div d) + (x % d)
  BY Z3

(* A quotient and a remainder are the quotient and the remainder.           *)
LEMMA DivUnique ==
  ASSUME NEW x \in Nat, NEW d \in Nat \ {0}, NEW q \in Nat, NEW r \in 0 .. d - 1, x = d * q + r
  PROVE  x \div d = q /\ x % d = r
  BY Z3

(* Division of integers.                                                    *)
LEMMA IntDivDef ==
  ASSUME NEW x \in Int, NEW n \in Nat \ {0}
  PROVE  x \div n \in Int /\ x % n \in 0 .. n - 1 /\ x = n * (x \div n) + (x % n)
  OBVIOUS

(* Nothing between 0 and n is a multiple of n.                              *)
LEMMA NoMultiple ==
  ASSUME NEW n \in Nat \ {0}, NEW j \in Int, n * j \in 0 .. n - 1
  PROVE  j = 0
<1>1. CASE j >= 1
  <2>1. PICK m \in Nat : j = 1 + m
    <3>1. j - 1 \in Nat /\ j = 1 + (j - 1)
      BY <1>1
    <3> QED BY <3>1
  <2>2. n * (1 + m) = n + n * m /\ n * m \in Nat
    OBVIOUS
  <2> QED BY <2>1, <2>2
<1>2. CASE j <= -1
  <2>1. PICK m \in Nat : j = -1 - m
    <3>1. -1 - j \in Nat /\ j = -1 - (-1 - j)
      BY <1>2
    <3> QED BY <3>1
  <2>2. n * (-1 - m) = -n - n * m /\ n * m \in Nat
    OBVIOUS
  <2> QED BY <2>1, <2>2
<1> QED
  BY <1>1, <1>2

(* A multiple of n leaves no remainder, and nothing else does.              *)
LEMMA ModZero ==
  ASSUME NEW x \in Int, NEW n \in Nat \ {0}
  PROVE  x % n = 0 <=> \E k \in Int : x = n * k
<1> DEFINE q == x \div n  r == x % n
<1>1. q \in Int /\ r \in 0 .. n - 1 /\ x = n * q + r
  BY IntDivDef
<1> HIDE DEF q, r
<1>2. ASSUME NEW k \in Int, x = n * k PROVE r = 0
  <2>1. n * (k - q) = n * k - n * q /\ n * k \in Int /\ n * q \in Int
    BY <1>1
  <2>2. n * (k - q) = r /\ k - q \in Int
    BY <1>1, <1>2, <2>1
  <2>3. k - q = 0
    BY <1>1, <2>2, NoMultiple
  <2>4. n * 0 = 0
    OBVIOUS
  <2> QED BY <1>1, <2>2, <2>3, <2>4
<1>3. ASSUME r = 0 PROVE x = n * q
  <2>1. n * q \in Int
    BY <1>1
  <2> QED BY <1>1, <1>3, <2>1
<1> QED
  BY <1>1, <1>2, <1>3 DEF r

(* A number below a multiple of the divisor has a quotient below the factor. *)
LEMMA DivBound ==
  ASSUME NEW d \in Nat \ {0}, NEW x \in Nat, NEW s \in Nat, x < d * (s + 1)
  PROVE  x \div d <= s
<1> DEFINE q == x \div d
<1>1. q \in Nat /\ x % d \in 0 .. d - 1 /\ x = d * q + (x % d)
  BY DivDef
<1> HIDE DEF q
<1> SUFFICES ASSUME q >= s + 1 PROVE FALSE
  BY <1>1 DEF q
<1>2. PICK m \in Nat : q = s + 1 + m
  <2>1. q - (s + 1) \in Nat /\ q = s + 1 + (q - (s + 1))
    BY <1>1
  <2> QED BY <2>1
<1>3. d * q = d * (s + 1) + d * m /\ d * m \in Nat /\ d * (s + 1) \in Nat
  BY <1>1, <1>2
<1> QED
  BY <1>1, <1>3

(* A larger number has no smaller quotient.                                 *)
LEMMA DivMonotone ==
  ASSUME NEW d \in Nat \ {0}, NEW x \in Nat, NEW y \in Nat, x <= y
  PROVE  x \div d <= y \div d
<1> DEFINE s == y \div d
<1>1. s \in Nat /\ y % d \in 0 .. d - 1 /\ y = d * s + (y % d)
  BY DivDef
<1> HIDE DEF s
<1>2. d * (s + 1) = d * s + d /\ d * s \in Nat
  BY <1>1
<1>3. x < d * (s + 1)
  BY <1>1, <1>2
<1> QED
  BY <1>1, <1>3, DivBound DEF s

(* The quotient of a sum is at most one more than the sum of the quotients. *)
LEMMA DivSum ==
  ASSUME NEW d \in Nat \ {0}, NEW x \in Nat, NEW y \in Nat
  PROVE  (x + y) \div d <= (x \div d) + (y \div d) + 1
<1> DEFINE p == x \div d  q == y \div d
<1>1. p \in Nat /\ x % d \in 0 .. d - 1 /\ x = d * p + (x % d)
  BY DivDef
<1>2. q \in Nat /\ y % d \in 0 .. d - 1 /\ y = d * q + (y % d)
  BY DivDef
<1> HIDE DEF p, q
<1>3. d * (p + q + 1 + 1) = d * p + d * q + d + d /\ d * p \in Nat /\ d * q \in Nat
  BY <1>1, <1>2
<1>4. x + y < d * (p + q + 1 + 1) /\ p + q + 1 \in Nat /\ x + y \in Nat
  BY <1>1, <1>2, <1>3
<1>5. (x + y) \div d <= p + q + 1
  BY <1>4, DivBound
<1> QED
  BY <1>5 DEF p, q

(* Counting on from a number keeps the quotient until the remainder is 0.   *)
LEMMA DivStep ==
  ASSUME NEW d \in Nat \ {0}, NEW x \in Nat, (x + 1) % d # 0
  PROVE  (x + 1) \div d = x \div d
<1> DEFINE q == x \div d  r == x % d
<1>1. q \in Nat /\ r \in 0 .. d - 1 /\ x = d * q + r
  BY DivDef
<1> HIDE DEF q, r
<1>2. d * q \in Nat /\ d * (q + 1) = d * q + d
  BY <1>1
<1>3. CASE r = d - 1
  <2>1. x + 1 = d * (q + 1) + 0 /\ 0 \in 0 .. d - 1 /\ q + 1 \in Nat /\ x + 1 \in Nat
    BY <1>1, <1>2, <1>3
  <2>2. (x + 1) % d = 0
    BY <2>1, DivUnique
  <2> QED BY <2>2
<1>4. CASE r # d - 1
  <2>1. x + 1 = d * q + (r + 1) /\ r + 1 \in 0 .. d - 1 /\ x + 1 \in Nat
    BY <1>1, <1>2, <1>4
  <2>2. (x + 1) \div d = q
    BY <1>1, <2>1, DivUnique
  <2> QED BY <2>2 DEF q
<1> QED
  BY <1>3, <1>4

(* Dividing by a product is dividing by the one and then by the other, as   *)
(* pages are counted in blocks and blocks in bytes.                         *)
Nested(x, a, b) ==
  /\ a * b \in Nat \ {0}
  /\ x \div (a * b) = (x \div b) \div a
  /\ (x % (a * b)) \div b = (x \div b) % a
  /\ (x % (a * b)) % b = x % b

(* It is so for all of them.                                                *)
LEMMA DivNest ==
  ASSUME NEW x \in Nat, NEW a \in Nat \ {0}, NEW b \in Nat \ {0}
  PROVE  Nested(x, a, b)
<1> DEFINE c == a * b
           y == x \div b  z == x % b  q == y \div a  r == y % a
<1>1. y \in Nat /\ z \in 0 .. b - 1 /\ x = b * y + z
  BY DivDef
<1>2. q \in Nat /\ r \in 0 .. a - 1 /\ y = a * q + r
  <2> HIDE DEF y
  <2> QED BY <1>1, DivDef
<1>3. c \in Nat \ {0}
  <2>1. c \in Nat
    OBVIOUS
  <2>2. a * b # 0
    OBVIOUS
  <2> QED BY <2>1, <2>2
<1> HIDE DEF y, z, q, r
<1>4. x = c * q + (b * r + z)
  <2>1. b * (a * q + r) = (a * b) * q + b * r
    BY <1>2
  <2> QED BY <1>1, <1>2, <2>1
<1>5. b * r + z \in 0 .. c - 1
  <2>1. r + 1 <= a /\ r \in Nat
    BY <1>2
  <2>2. b * (r + 1) <= b * a
    <3>1. PICK m \in Nat : a = r + 1 + m
      <4>1. a - (r + 1) \in Nat /\ a = r + 1 + (a - (r + 1))
        BY <2>1
      <4> QED BY <4>1
    <3>2. b * a = b * (r + 1) + b * m /\ b * m \in Nat /\ b * (r + 1) \in Nat
      BY <2>1, <3>1
    <3> QED BY <3>2
  <2>3. b * (r + 1) = b * r + b /\ b * r \in Nat /\ b * a = c
    BY <2>1
  <2>4. c \in Nat
    BY <1>3
  <2> HIDE DEF c
  <2> QED BY <1>1, <2>2, <2>3, <2>4
<1> HIDE DEF c
<1>6. x \div c = q /\ x % c = b * r + z
  BY <1>2, <1>3, <1>4, <1>5, DivUnique
<1>7. r \in Nat /\ b * r + z \in Nat
  BY <1>2, <1>5
<1>8. (b * r + z) \div b = r /\ (b * r + z) % b = z
  BY <1>1, <1>7, DivUnique
<1>9. (x % c) \div b = r /\ (x % c) % b = z
  BY <1>6, <1>8, Zenon
<1> QED
  BY <1>3, <1>6, <1>9, Zenon DEF c, q, r, y, z, Nested
==============================================================================
