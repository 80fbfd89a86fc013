------------------------------ MODULE TextProofs ------------------------------
(***************************************************************************)
(* The text procedures: AddrUtil for every width and every input; Console  *)
(* for every frame buffer, message and number of messages; StrMemory for   *)
(* every memory, delimiter and order of calls.                             *)
(***************************************************************************)
EXTENDS Console, StrMemory, AddrUtil, NatLemmas, SequenceTheorems, FiniteSetTheorems

(* Powers, and the words that are made of bits.                             *)

(* p is the powers of b up to the n-th.                                     *)
Powers(p, b, n) == p = [k \in 0 .. n |-> IF k = 0 THEN 1 ELSE b * p[k - 1]]

(* The powers of a number are naturals, each the one before it times b.     *)
LEMMA PowersExist ==
  ASSUME NEW b \in Nat, NEW n \in Nat
  PROVE  \E p : Powers(p, b, n)
<1> DEFINE T == {m \in Nat : \E p : Powers(p, b, m)}
<1>1. 0 \in T
  <2>1. Powers([k \in 0 .. 0 |-> 1], b, 0)
    BY DEF Powers
  <2> QED BY <2>1
<1>2. ASSUME NEW m \in Nat, m \in T PROVE m + 1 \in T
  <2>1. PICK p : Powers(p, b, m)
    BY <1>2
  <2> DEFINE q == [k \in 0 .. m + 1 |-> IF k = m + 1 THEN b * p[m] ELSE p[k]]
  <2>2. ASSUME NEW k \in 0 .. m + 1 PROVE q[k] = IF k = 0 THEN 1 ELSE b * q[k - 1]
    <3>1. CASE k = m + 1
      <4>1. m \in 0 .. m + 1 /\ m # m + 1 /\ k # 0 /\ k - 1 = m
        BY <3>1
      <4> QED BY <3>1, <4>1
    <3>2. CASE k # m + 1
      <4>1. k \in 0 .. m /\ (k # 0 => k - 1 \in 0 .. m + 1 /\ k - 1 # m + 1)
        BY <3>2
      <4>2. p[k] = IF k = 0 THEN 1 ELSE b * p[k - 1]
        BY <2>1, <4>1 DEF Powers
      <4> QED BY <3>2, <4>1, <4>2
    <3> QED BY <3>1, <3>2
  <2>3. Powers(q, b, m + 1)
    BY <2>2 DEF Powers
  <2> QED BY <2>3
<1> HIDE DEF T
<1>3. n \in T
  BY <1>1, <1>2, NatSetInduction
<1> QED
  BY <1>3 DEF T

(* Two lists of powers agree as far as the shorter one goes.                *)
LEMMA PowersUnique ==
  ASSUME NEW b \in Nat, NEW m \in Nat, NEW n \in Nat, m <= n,
         NEW p, NEW q, Powers(p, b, m), Powers(q, b, n)
  PROVE  \A k \in 0 .. m : p[k] = q[k] /\ p[k] \in Nat
<1> DEFINE T == {k \in Nat : k <= m => p[k] = q[k] /\ p[k] \in Nat}
<1>1. 0 \in T
  BY DEF Powers
<1>2. ASSUME NEW k \in Nat, k \in T PROVE k + 1 \in T
  <2> SUFFICES ASSUME k + 1 <= m PROVE p[k + 1] = q[k + 1] /\ p[k + 1] \in Nat
    OBVIOUS
  <2>1. p[k + 1] = b * p[k] /\ q[k + 1] = b * q[k]
    <3>1. k + 1 \in 0 .. m /\ k + 1 \in 0 .. n /\ k + 1 # 0 /\ (k + 1) - 1 = k
      OBVIOUS
    <3> QED BY <3>1 DEF Powers
  <2>2. p[k] = q[k] /\ p[k] \in Nat
    BY <1>2
  <2> QED BY <2>1, <2>2
<1> HIDE DEF T
<1>3. Nat \subseteq T
  BY <1>1, <1>2, NatSetInduction
<1> QED
  BY <1>3 DEF T

(* Every function that grows like the powers is Power.                      *)
LEMMA PowerIs ==
  ASSUME NEW b \in Nat, NEW n \in Nat, NEW p, Powers(p, b, n)
  PROVE  \A k \in 0 .. n : Power(b, k) = p[k] /\ p[k] \in Nat
<1> TAKE k \in 0 .. n
<1> DEFINE q == CHOOSE q : Powers(q, b, k)
<1>1. Powers(q, b, k)
  BY PowersExist
<1>2. q[k] = p[k] /\ q[k] \in Nat
  <2> HIDE DEF q
  <2> QED BY <1>1, PowersUnique
<1>3. Power(b, k) = q[k]
  BY DEF Power, Powers
<1> QED BY <1>2, <1>3

(* Power is exponentiation.                                                 *)
LEMMA PowerStep ==
  ASSUME NEW b \in Nat, NEW n \in Nat
  PROVE  Power(b, n) \in Nat /\ Power(b, 0) = 1 /\ Power(b, n + 1) = b * Power(b, n)
<1>1. PICK p : Powers(p, b, n + 1)
  BY PowersExist
<1>2. /\ Power(b, n) = p[n] /\ p[n] \in Nat /\ Power(b, 0) = p[0]
      /\ Power(b, n + 1) = p[n + 1]
  BY <1>1, PowerIs
<1>3. p[0] = 1 /\ p[n + 1] = b * p[n]
  BY <1>1 DEF Powers
<1> QED BY <1>2, <1>3

(* Powers of two: how they grow, and what divides what.                     *)
LEMMA Doubling ==
  ASSUME NEW n \in Nat
  PROVE  /\ Power(2, n) \in Nat \ {0} /\ Power(2, 0) = 1
         /\ Power(2, n + 1) = 2 * Power(2, n)
<1> DEFINE T == {m \in Nat : Power(2, m) \in Nat \ {0}}
<1>1. 0 \in T
  BY PowerStep
<1>2. ASSUME NEW m \in Nat, m \in T PROVE m + 1 \in T
  <2>1. Power(2, m + 1) = 2 * Power(2, m) /\ Power(2, m) \in Nat \ {0}
    BY <1>2, PowerStep
  <2> QED BY <2>1
<1> HIDE DEF T
<1>3. n \in T
  BY <1>1, <1>2, NatSetInduction
<1> QED BY <1>3, PowerStep DEF T

(* The product of two powers of two.                                        *)
LEMMA PowerSum ==
  ASSUME NEW m \in Nat, NEW n \in Nat
  PROVE  Power(2, m + n) = Power(2, m) * Power(2, n)
<1> DEFINE T == {k \in Nat : Power(2, m + k) = Power(2, m) * Power(2, k)}
<1>1. 0 \in T
  BY Doubling
<1>2. ASSUME NEW k \in Nat, k \in T PROVE k + 1 \in T
  <2>1. /\ Power(2, k + 1) = 2 * Power(2, k) /\ m + (k + 1) = (m + k) + 1
        /\ Power(2, (m + k) + 1) = 2 * Power(2, m + k)
        /\ Power(2, k) \in Nat /\ Power(2, m) \in Nat
    BY Doubling
  <2>2. Power(2, m) * (2 * Power(2, k)) = 2 * (Power(2, m) * Power(2, k))
    BY <2>1
  <2>3. Power(2, m + (k + 1)) = Power(2, m) * Power(2, k + 1)
    BY <1>2, <2>1, <2>2
  <2> QED BY <2>3
<1> HIDE DEF T
<1>3. n \in T
  BY <1>1, <1>2, NatSetInduction
<1> QED BY <1>3 DEF T

(* What a bit counts for, and the sums of them up to each position.         *)
Weight(B, k) == IF k \in B THEN Power(2, k) ELSE 0
Sums(s, B, w) == s = [k \in 0 .. w |-> IF k = 0 THEN 0 ELSE s[k - 1] + Weight(B, k - 1)]

(* A bit weighs 0 or a power of two.                                        *)
LEMMA WeightNat ==
  ASSUME NEW B, NEW k \in Nat
  PROVE  Weight(B, k) \in Nat
BY Doubling DEF Weight

(* The sums of the bits below each place exist and are determined.          *)
LEMMA SumsExist ==
  ASSUME NEW B, NEW w \in Nat
  PROVE  \E s : Sums(s, B, w)
<1> DEFINE T == {m \in Nat : \E s : Sums(s, B, m)}
<1>1. 0 \in T
  <2>1. Sums([k \in 0 .. 0 |-> 0], B, 0)
    BY DEF Sums
  <2> QED BY <2>1
<1>2. ASSUME NEW m \in Nat, m \in T PROVE m + 1 \in T
  <2>1. PICK s : Sums(s, B, m)
    BY <1>2
  <2> DEFINE q == [k \in 0 .. m + 1 |-> IF k = m + 1 THEN s[m] + Weight(B, m) ELSE s[k]]
  <2>2. ASSUME NEW k \in 0 .. m + 1 PROVE q[k] = IF k = 0 THEN 0 ELSE q[k - 1] + Weight(B, k - 1)
    <3>1. CASE k = m + 1
      <4>1. m \in 0 .. m + 1 /\ m # m + 1 /\ k # 0 /\ k - 1 = m
        BY <3>1
      <4> QED BY <3>1, <4>1
    <3>2. CASE k # m + 1
      <4>1. k \in 0 .. m /\ (k # 0 => k - 1 \in 0 .. m + 1 /\ k - 1 # m + 1)
        BY <3>2
      <4>2. s[k] = IF k = 0 THEN 0 ELSE s[k - 1] + Weight(B, k - 1)
        BY <2>1, <4>1 DEF Sums
      <4> QED BY <3>2, <4>1, <4>2
    <3> QED BY <3>1, <3>2
  <2>3. Sums(q, B, m + 1)
    BY <2>2 DEF Sums
  <2> QED BY <2>3
<1> HIDE DEF T
<1>3. w \in T
  BY <1>1, <1>2, NatSetInduction
<1> QED
  BY <1>3 DEF T

(* Two such sums agree where both are defined.                              *)
LEMMA SumsUnique ==
  ASSUME NEW B, NEW m \in Nat, NEW n \in Nat, m <= n,
         NEW p, NEW q, Sums(p, B, m), Sums(q, B, n)
  PROVE  \A k \in 0 .. m : p[k] = q[k] /\ p[k] \in Nat
<1> DEFINE T == {k \in Nat : k <= m => p[k] = q[k] /\ p[k] \in Nat}
<1>1. 0 \in T
  BY DEF Sums
<1>2. ASSUME NEW k \in Nat, k \in T PROVE k + 1 \in T
  <2> SUFFICES ASSUME k + 1 <= m PROVE p[k + 1] = q[k + 1] /\ p[k + 1] \in Nat
    OBVIOUS
  <2>1. p[k + 1] = p[k] + Weight(B, k) /\ q[k + 1] = q[k] + Weight(B, k)
    <3>1. k + 1 \in 0 .. m /\ k + 1 \in 0 .. n /\ k + 1 # 0 /\ (k + 1) - 1 = k
      OBVIOUS
    <3> QED BY <3>1 DEF Sums
  <2>2. p[k] = q[k] /\ p[k] \in Nat
    BY <1>2
  <2> QED BY <2>1, <2>2, WeightNat
<1> HIDE DEF T
<1>3. Nat \subseteq T
  BY <1>1, <1>2, NatSetInduction
<1> QED
  BY <1>3 DEF T

(* So OfBits is the last one of them.                                       *)
LEMMA OfBitsIs ==
  ASSUME NEW B, NEW n \in Nat, NEW p, Sums(p, B, n)
  PROVE  \A k \in 0 .. n : OfBits(k, B) = p[k] /\ p[k] \in Nat
<1> TAKE k \in 0 .. n
<1> DEFINE q == CHOOSE q : Sums(q, B, k)
<1>1. Sums(q, B, k)
  BY SumsExist
<1>2. q[k] = p[k] /\ q[k] \in Nat
  <2> HIDE DEF q
  <2> QED BY <1>1, SumsUnique
<1>3. OfBits(k, B) = q[k]
  BY Zenon DEF OfBits, Sums, Weight
<1> QED BY <1>2, <1>3

(* A word is the sum of what its bits count for.                            *)
LEMMA OfBitsStep ==
  ASSUME NEW B, NEW w \in Nat
  PROVE  /\ OfBits(w, B) \in Nat /\ OfBits(0, B) = 0
         /\ OfBits(w + 1, B) = OfBits(w, B) + Weight(B, w)
<1>1. PICK p : Sums(p, B, w + 1)
  BY SumsExist
<1>2. /\ OfBits(w, B) = p[w] /\ p[w] \in Nat /\ OfBits(0, B) = p[0]
      /\ OfBits(w + 1, B) = p[w + 1]
  BY <1>1, OfBitsIs
<1>3. p[0] = 0 /\ p[w + 1] = p[w] + Weight(B, w)
  <2>1. w + 1 \in 0 .. w + 1 /\ w + 1 # 0 /\ (w + 1) - 1 = w /\ 0 \in 0 .. w + 1
    OBVIOUS
  <2> QED BY <1>1, <2>1 DEF Sums
<1> QED BY <1>2, <1>3

(* Only the bits of the word count.                                         *)
LEMMA OfBitsSame ==
  ASSUME NEW B, NEW C, NEW w \in Nat, \A k \in 0 .. w - 1 : k \in B <=> k \in C
  PROVE  OfBits(w, B) = OfBits(w, C)
<1> DEFINE T == {m \in Nat : m <= w => OfBits(m, B) = OfBits(m, C)}
<1>1. 0 \in T
  BY OfBitsStep
<1>2. ASSUME NEW m \in Nat, m \in T PROVE m + 1 \in T
  <2> SUFFICES ASSUME m + 1 <= w PROVE OfBits(m + 1, B) = OfBits(m + 1, C)
    OBVIOUS
  <2>1. m \in B <=> m \in C
    OBVIOUS
  <2>2. Weight(B, m) = Weight(C, m)
    BY <2>1 DEF Weight
  <2> QED BY <1>2, <2>2, OfBitsStep
<1> HIDE DEF T
<1>3. w \in T
  BY <1>1, <1>2, NatSetInduction
<1> QED BY <1>3 DEF T

(* The bits from h on, and those below it.                                  *)
LEMMA HighBits ==
  ASSUME NEW B, NEW C, NEW h \in Nat, NEW w \in Nat, h <= w,
         \A k \in h .. w - 1 : k \in B <=> k \in C
  PROVE  OfBits(w, B) - OfBits(h, B) = OfBits(w, C) - OfBits(h, C)
<1> DEFINE T == {m \in Nat : h + m <= w =>
                   OfBits(h + m, B) - OfBits(h, B) = OfBits(h + m, C) - OfBits(h, C)}
<1>1. 0 \in T
  BY OfBitsStep
<1>2. ASSUME NEW m \in Nat, m \in T PROVE m + 1 \in T
  <2> SUFFICES ASSUME h + (m + 1) <= w
               PROVE  OfBits(h + (m + 1), B) - OfBits(h, B)
                        = OfBits(h + (m + 1), C) - OfBits(h, C)
    OBVIOUS
  <2>1. h + m \in B <=> h + m \in C
    OBVIOUS
  <2>2. Weight(B, h + m) = Weight(C, h + m)
    BY <2>1 DEF Weight
  <2>3. h + (m + 1) = (h + m) + 1 /\ h + m \in Nat
    OBVIOUS
  <2>4. /\ OfBits(h + (m + 1), B) = OfBits(h + m, B) + Weight(B, h + m)
        /\ OfBits(h + (m + 1), C) = OfBits(h + m, C) + Weight(C, h + m)
        /\ OfBits(h + m, B) \in Nat /\ OfBits(h + m, C) \in Nat
        /\ OfBits(h, B) \in Nat /\ OfBits(h, C) \in Nat
    BY <2>3, OfBitsStep
  <2>5. OfBits(h + m, B) - OfBits(h, B) = OfBits(h + m, C) - OfBits(h, C)
    BY <1>2
  <2> QED BY <2>2, <2>4, <2>5, WeightNat
<1> HIDE DEF T
<1>3. w - h \in T
  BY <1>1, <1>2, NatSetInduction
<1> QED BY <1>3 DEF T

(* No bit and every bit.                                                    *)
LEMMA AllBits ==
  ASSUME NEW w \in Nat
  PROVE  OfBits(w, {}) = 0 /\ OfBits(w, Nat) = Power(2, w) - 1
<1> DEFINE T == {m \in Nat : OfBits(m, {}) = 0 /\ OfBits(m, Nat) = Power(2, m) - 1}
<1>1. 0 \in T
  BY OfBitsStep, Doubling
<1>2. ASSUME NEW m \in Nat, m \in T PROVE m + 1 \in T
  <2>1. Weight({}, m) = 0 /\ Weight(Nat, m) = Power(2, m)
    BY DEF Weight
  <2> QED BY <1>2, <2>1, OfBitsStep, Doubling
<1> HIDE DEF T
<1>3. w \in T
  BY <1>1, <1>2, NatSetInduction
<1> QED BY <1>3 DEF T

(* A word of w bits is less than the w-th power of two.                     *)
LEMMA OfBitsBound ==
  ASSUME NEW B, NEW w \in Nat
  PROVE  OfBits(w, B) \in 0 .. Power(2, w) - 1
<1> DEFINE T == {m \in Nat : OfBits(m, B) \in 0 .. Power(2, m) - 1}
<1>1. 0 \in T
  BY OfBitsStep, Doubling
<1>2. ASSUME NEW m \in Nat, m \in T PROVE m + 1 \in T
  <2>1. Weight(B, m) = 0 \/ Weight(B, m) = Power(2, m)
    BY DEF Weight
  <2> QED BY <1>2, <2>1, OfBitsStep, Doubling
<1> HIDE DEF T
<1>3. w \in T
  BY <1>1, <1>2, NatSetInduction
<1> QED BY <1>3 DEF T

(* The last bits of a number and the next one make the remainder.           *)
LEMMA NextRemainder ==
  ASSUME NEW x \in Nat, NEW w \in Nat
  PROVE  x % Power(2, w + 1) =
           (x % Power(2, w)) + (IF (x \div Power(2, w)) % 2 = 1 THEN Power(2, w) ELSE 0)
<1> DEFINE a == Power(2, w)
<1>1. a \in Nat \ {0} /\ Power(2, w + 1) = 2 * a
  BY Doubling
<1> HIDE DEF a
<1> DEFINE q == x \div a  r == x % a
<1>2. q \in Nat /\ r \in 0 .. a - 1 /\ x = a * q + r
  BY <1>1, DivDef
<1> HIDE DEF q, r
<1> DEFINE d == q \div 2  c == q % 2
<1>3. d \in Nat /\ c \in 0 .. 1 /\ q = 2 * d + c
  BY <1>2
<1> HIDE DEF d, c
<1>4. x = (2 * a) * d + (a * c + r)
  <2>1. a * q = a * (2 * d + c)
    BY <1>3
  <2>2. a * (2 * d + c) = (2 * a) * d + a * c
    BY <1>1, <1>3
  <2>3. a * q \in Nat /\ (2 * a) * d \in Nat /\ a * c \in Nat
    BY <1>1, <1>2, <1>3
  <2> QED BY <1>2, <2>1, <2>2, <2>3
<1>5. a * c + r \in 0 .. (2 * a) - 1
  <2>1. c = 0 \/ c = 1
    BY <1>3
  <2> QED BY <1>1, <1>2, <2>1
<1>6. x % (2 * a) = a * c + r
  <2>1. 2 * a \in Nat \ {0}
    BY <1>1
  <2> QED BY <1>3, <1>4, <1>5, <2>1, DivUnique
<1>7. x % (2 * a) = r + (IF c = 1 THEN a ELSE 0)
  <2>1. c = 0 \/ c = 1
    BY <1>3
  <2> QED BY <1>1, <1>2, <1>6, <2>1
<1> QED
  BY <1>1, <1>7 DEF c, q, r, a

(* A number is the word of its bits: the remainder of the division.         *)
LEMMA OfItsBits ==
  ASSUME NEW x \in Nat, NEW w \in Nat, NEW v \in Nat, w <= v
  PROVE  OfBits(w, Bits(v, x)) = x % Power(2, w)
<1> DEFINE B == Bits(v, x)
           T == {m \in Nat : m <= v => OfBits(m, B) = x % Power(2, m)}
<1>1. 0 \in T
  <2>1. x % 1 = 0
    OBVIOUS
  <2> QED BY <2>1, OfBitsStep, Doubling
<1>2. ASSUME NEW m \in Nat, m \in T PROVE m + 1 \in T
  <2> SUFFICES ASSUME m + 1 <= v PROVE OfBits(m + 1, B) = x % Power(2, m + 1)
    OBVIOUS
  <2>1. m \in B <=> (x \div Power(2, m)) % 2 = 1
    BY DEF Bits
  <2> HIDE DEF B
  <2>2. Weight(B, m) = IF (x \div Power(2, m)) % 2 = 1 THEN Power(2, m) ELSE 0
    BY <2>1 DEF Weight
  <2> QED BY <1>2, <2>2, OfBitsStep, NextRemainder
<1> HIDE DEF T
<1>3. w \in T
  BY <1>1, <1>2, NatSetInduction
<1> QED BY <1>3 DEF T

(* The last k bits of the word of a set are the word of the set up to k.    *)
LEMMA OfBitsMod ==
  ASSUME NEW C, NEW k \in Nat, NEW w \in Nat, k <= w
  PROVE  OfBits(w, C) % Power(2, k) = OfBits(k, C)
<1> DEFINE a == Power(2, k)
           T == {m \in Nat : \E q \in Nat : OfBits(k + m, C) = a * q + OfBits(k, C)}
<1>1. a \in Nat \ {0} /\ OfBits(k, C) \in 0 .. a - 1
  BY Doubling, OfBitsBound
<1>2. 0 \in T
  <2>1. OfBits(k + 0, C) = a * 0 + OfBits(k, C)
    BY <1>1
  <2> QED BY <2>1
<1>3. ASSUME NEW m \in Nat, m \in T PROVE m + 1 \in T
  <2>1. PICK q \in Nat : OfBits(k + m, C) = a * q + OfBits(k, C)
    BY <1>3
  <2>2. /\ k + m \in Nat /\ k + (m + 1) = (k + m) + 1
        /\ Power(2, k + m) = a * Power(2, m) /\ Power(2, m) \in Nat
    BY PowerSum, Doubling
  <2>3. OfBits(k + (m + 1), C) = OfBits(k + m, C) + Weight(C, k + m)
    BY <2>2, OfBitsStep
  <2>4. PICK e \in Nat : Weight(C, k + m) = a * e
    <3>1. CASE k + m \in C
      BY <2>2, <3>1 DEF Weight
    <3>2. CASE k + m \notin C
      <4>1. Weight(C, k + m) = a * 0
        BY <1>1, <3>2 DEF Weight
      <4> QED BY <4>1
    <3> QED BY <3>1, <3>2
  <2>5. a * (q + e) = a * q + a * e /\ a * q \in Nat /\ a * e \in Nat
    BY <1>1
  <2>6. OfBits(k + (m + 1), C) = a * (q + e) + OfBits(k, C) /\ q + e \in Nat
    BY <1>1, <2>1, <2>3, <2>4, <2>5
  <2> QED BY <2>6
<1>4. w - k \in Nat /\ k + (w - k) = w
  OBVIOUS
<1> HIDE DEF T
<1>5. w - k \in T
  BY <1>2, <1>3, <1>4, NatSetInduction
<1>6. PICK q \in Nat : OfBits(w, C) = a * q + OfBits(k, C)
  BY <1>4, <1>5 DEF T
<1> HIDE DEF a
<1>7. OfBits(w, C) \in Nat
  BY OfBitsStep
<1>8. OfBits(w, C) % a = OfBits(k, C)
  BY <1>1, <1>6, <1>7, DivUnique
<1> QED BY <1>8 DEF a

(* Equal sums of which one part is equal have the other part equal.         *)
LEMMA SameRest ==
  ASSUME NEW a \in Nat, NEW b \in Nat, NEW c \in Nat, NEW d \in Nat,
         a = c, a + b = c + d
  PROVE  b = d
OBVIOUS

(* The bits of the word of a set are the set.                               *)
LEMMA BitsOfWord ==
  ASSUME NEW w \in Nat, NEW C \in SUBSET (0 .. w - 1)
  PROVE  Bits(w, OfBits(w, C)) = C
<1> DEFINE x == OfBits(w, C)  B == Bits(w, x)
<1>1. x \in Nat
  BY OfBitsStep
<1>2. ASSUME NEW k \in 0 .. w - 1 PROVE k \in B <=> k \in C
  <2>1. /\ k \in Nat /\ k + 1 \in Nat /\ k <= w /\ k + 1 <= w
    OBVIOUS
  <2>2. OfBits(k, B) = OfBits(k, C) /\ OfBits(k + 1, B) = OfBits(k + 1, C)
    <3> HIDE DEF x
    <3>1. OfBits(k, B) = x % Power(2, k) /\ OfBits(k + 1, B) = x % Power(2, k + 1)
      BY <1>1, <2>1, OfItsBits
    <3>2. x % Power(2, k) = OfBits(k, C) /\ x % Power(2, k + 1) = OfBits(k + 1, C)
      BY <2>1, OfBitsMod DEF x
    <3> QED BY <3>1, <3>2
  <2> HIDE DEF B
  <2>3. Weight(B, k) = Weight(C, k)
    <3>1. /\ OfBits(k + 1, B) = OfBits(k, B) + Weight(B, k)
          /\ OfBits(k + 1, C) = OfBits(k, C) + Weight(C, k)
          /\ OfBits(k, B) \in Nat /\ Weight(B, k) \in Nat /\ Weight(C, k) \in Nat
      BY <2>1, OfBitsStep, WeightNat
    <3>2. OfBits(k, C) \in Nat /\ OfBits(k, B) = OfBits(k, C)
      BY <2>2, <3>1
    <3>3. OfBits(k, B) + Weight(B, k) = OfBits(k, C) + Weight(C, k)
      BY <2>2, <3>1
    <3> QED BY Zenon, <3>1, <3>2, <3>3, SameRest
  <2>4. Power(2, k) \in Nat \ {0}
    BY <2>1, Doubling
  <2> HIDE DEF x
  <2> QED BY <2>3, <2>4 DEF Weight
<1>3. B \subseteq 0 .. w - 1
  BY DEF Bits
<1> HIDE DEF B, x
<1>4. B = C
  BY <1>2, <1>3
<1> QED BY <1>4 DEF B, x

(* A mask of the bits from h on, and one of those below.                    *)
LEMMA Masks ==
  ASSUME NEW h \in Nat, NEW w \in Nat, h <= w
  PROVE  LET high == Power(2, w) - Power(2, h)  low == Power(2, h) - 1
         IN /\ Bits(w, high) = h .. w - 1 /\ Bits(w, low) = 0 .. h - 1
            /\ Not(w, high) = low /\ Not(w, low) = high
<1> DEFINE high == Power(2, w) - Power(2, h)  low == Power(2, h) - 1
           Hi == h .. w - 1  Lo == 0 .. h - 1  E == {}
<1>1. Power(2, w) \in Nat /\ Power(2, h) \in Nat
  BY Doubling
<1>9. /\ OfBits(w, Nat) = Power(2, w) - 1 /\ OfBits(h, Nat) = Power(2, h) - 1
      /\ OfBits(w, E) = 0 /\ OfBits(h, E) = 0
  BY AllBits
<1>2. OfBits(w, Hi) = high
  <2>1. OfBits(w, Hi) - OfBits(h, Hi) = OfBits(w, Nat) - OfBits(h, Nat)
    BY HighBits
  <2>2. OfBits(h, Hi) = OfBits(h, E)
    BY OfBitsSame
  <2>3. OfBits(w, Hi) \in Nat /\ OfBits(h, Hi) \in Nat
    BY OfBitsStep
  <2> HIDE DEF Hi, E
  <2> QED BY <1>1, <1>9, <2>1, <2>2, <2>3
<1>3. OfBits(w, Lo) = low
  <2>1. OfBits(w, Lo) - OfBits(h, Lo) = OfBits(w, E) - OfBits(h, E)
    BY HighBits
  <2>2. OfBits(h, Lo) = OfBits(h, Nat)
    BY OfBitsSame
  <2>3. OfBits(w, Lo) \in Nat /\ OfBits(h, Lo) \in Nat
    BY OfBitsStep
  <2> HIDE DEF Lo, E
  <2> QED BY <1>1, <1>9, <2>1, <2>2, <2>3
<1>4. Hi \subseteq 0 .. w - 1 /\ Lo \subseteq 0 .. w - 1
  OBVIOUS
<1>5. (0 .. w - 1) \ Hi = Lo /\ (0 .. w - 1) \ Lo = Hi
  OBVIOUS
<1> HIDE DEF Hi, Lo, high, low
<1>6. Bits(w, high) = Hi /\ Bits(w, low) = Lo
  BY <1>2, <1>3, <1>4, BitsOfWord
<1>7. Not(w, high) = low /\ Not(w, low) = high
  BY <1>2, <1>3, <1>5, <1>6 DEF Not
<1> QED BY <1>6, <1>7 DEF Hi, Lo, high, low

(* What masking does to a number.                                           *)
LEMMA Masked ==
  ASSUME NEW h \in Nat, NEW w \in Nat, h <= w, NEW x \in 0 .. Power(2, w) - 1
  PROVE  LET high == Power(2, w) - Power(2, h)  low == Power(2, h) - 1
         IN /\ Or(w, x, high) = (x % Power(2, h)) + high
            /\ And(w, x, low) = x % Power(2, h)
            /\ And(w, x, high) = x - (x % Power(2, h))
<1> DEFINE high == Power(2, w) - Power(2, h)  low == Power(2, h) - 1
           Hi == h .. w - 1  Lo == 0 .. h - 1  E == {}  B == Bits(w, x)
           r == x % Power(2, h)
<1>1. Power(2, w) \in Nat \ {0} /\ Power(2, h) \in Nat \ {0} /\ x \in Nat
  BY Doubling
<1>2. r \in Nat
  <2> DEFINE a == Power(2, h)
  <2>1. a \in Nat \ {0}
    BY <1>1
  <2> HIDE DEF a
  <2>2. x % a \in Nat
    BY <1>1, <2>1, DivDef
  <2> QED BY <2>2 DEF a
<1>3. OfBits(h, B) = r /\ OfBits(w, B) = x
  <2>1. OfBits(h, B) = r /\ OfBits(w, B) = x % Power(2, w)
    BY <1>1, OfItsBits
  <2>2. x % Power(2, w) = x
    <3> DEFINE a == Power(2, w)
    <3>1. a \in Nat \ {0} /\ x = a * 0 + x /\ x \in 0 .. a - 1
      BY <1>1
    <3> HIDE DEF a
    <3>2. x % a = x
      BY <1>1, <3>1, DivUnique
    <3> QED BY <3>2 DEF a
  <2> QED BY <2>1, <2>2
<1>4. Bits(w, high) = Hi /\ Bits(w, low) = Lo
  BY Masks
<1>9. /\ OfBits(w, Nat) = Power(2, w) - 1 /\ OfBits(h, Nat) = Power(2, h) - 1
      /\ OfBits(w, E) = 0 /\ OfBits(h, E) = 0
  BY AllBits
<1>5. B \subseteq 0 .. w - 1
  BY DEF Bits
<1> HIDE DEF B, r
<1>6. Or(w, x, high) = r + high
  <2>1. Or(w, x, high) = OfBits(w, B \cup Hi)
    BY <1>4 DEF Or, B
  <2>2. OfBits(w, B \cup Hi) - OfBits(h, B \cup Hi) = OfBits(w, Nat) - OfBits(h, Nat)
    BY <1>5, HighBits
  <2>3. OfBits(h, B \cup Hi) = OfBits(h, B)
    BY OfBitsSame
  <2>4. OfBits(w, B \cup Hi) \in Nat /\ OfBits(h, B \cup Hi) \in Nat
    BY OfBitsStep
  <2> HIDE DEF Hi, Lo, E
  <2> QED BY <1>1, <1>2, <1>3, <1>9, <2>1, <2>2, <2>3, <2>4
<1>7. And(w, x, low) = r
  <2>1. And(w, x, low) = OfBits(w, B \cap Lo)
    BY <1>4 DEF And, B
  <2>2. OfBits(w, B \cap Lo) - OfBits(h, B \cap Lo) = OfBits(w, E) - OfBits(h, E)
    BY HighBits
  <2>3. OfBits(h, B \cap Lo) = OfBits(h, B)
    BY OfBitsSame
  <2>4. OfBits(w, B \cap Lo) \in Nat /\ OfBits(h, B \cap Lo) \in Nat
    BY OfBitsStep
  <2> HIDE DEF Hi, Lo, E
  <2> QED BY <1>1, <1>2, <1>3, <1>9, <2>1, <2>2, <2>3, <2>4
<1>8. And(w, x, high) = x - r
  <2>1. And(w, x, high) = OfBits(w, B \cap Hi)
    BY <1>4 DEF And, B
  <2>2. OfBits(w, B \cap Hi) - OfBits(h, B \cap Hi) = OfBits(w, B) - OfBits(h, B)
    BY HighBits
  <2>3. OfBits(h, B \cap Hi) = OfBits(h, E)
    BY OfBitsSame
  <2>4. OfBits(w, B \cap Hi) \in Nat /\ OfBits(h, B \cap Hi) \in Nat
    BY OfBitsStep
  <2> HIDE DEF Hi, Lo, E
  <2> QED BY <1>1, <1>2, <1>3, <1>9, <2>1, <2>2, <2>3, <2>4
<1> QED BY <1>6, <1>7, <1>8 DEF r

-----------------------------------------------------------------------------
(* AddrUtil: addresses and pages of any width.                              *)

(* The powers the conversions are about, and what divides what.             *)
LEMMA AddressSizes ==
  \E u, v \in Nat \ {0} :
    LET W == Power(2, WordBits)  H == Power(2, HalfBits)  P == Power(2, PageBits)
    IN /\ W \in Nat \ {0} /\ H \in Nat \ {0} /\ P \in Nat \ {0}
       /\ W = H * (2 * u) /\ W = P * v /\ v = Power(2, WordBits - PageBits)
       /\ \E e \in Nat \ {0} : H = 16 * e
<1>1. /\ WordBits \in Nat /\ HalfBits \in Nat /\ PageBits \in Nat
      /\ 4 <= PageBits /\ PageBits < HalfBits /\ HalfBits < WordBits
  BY AddrAssumption
<1>2. /\ WordBits - PageBits \in Nat /\ PageBits + (WordBits - PageBits) = WordBits
      /\ WordBits - HalfBits - 1 \in Nat
      /\ HalfBits + ((WordBits - HalfBits - 1) + 1) = WordBits
      /\ HalfBits - 4 \in Nat /\ 4 + (HalfBits - 4) = HalfBits
      /\ (WordBits - HalfBits - 1) + 1 \in Nat
  BY <1>1
<1>3. Power(2, 4) = 16
  <2>1. /\ Power(2, 0) = 1 /\ Power(2, 0 + 1) = 2 * Power(2, 0)
        /\ Power(2, 1 + 1) = 2 * Power(2, 1) /\ Power(2, 2 + 1) = 2 * Power(2, 2)
        /\ Power(2, 3 + 1) = 2 * Power(2, 3)
    BY Doubling
  <2> QED BY <2>1
<1>4. /\ Power(2, WordBits) = Power(2, PageBits) * Power(2, WordBits - PageBits)
      /\ Power(2, WordBits)
           = Power(2, HalfBits) * Power(2, (WordBits - HalfBits - 1) + 1)
      /\ Power(2, HalfBits) = Power(2, 4) * Power(2, HalfBits - 4)
      /\ Power(2, (WordBits - HalfBits - 1) + 1) = 2 * Power(2, WordBits - HalfBits - 1)
  <2>1. Power(2, WordBits) = Power(2, PageBits) * Power(2, WordBits - PageBits)
    BY <1>1, <1>2, PowerSum
  <2>2. Power(2, WordBits) = Power(2, HalfBits) * Power(2, (WordBits - HalfBits - 1) + 1)
    BY <1>1, <1>2, PowerSum
  <2>3. Power(2, HalfBits) = Power(2, 4) * Power(2, HalfBits - 4)
    BY <1>1, <1>2, PowerSum
  <2> QED BY <1>2, <2>1, <2>2, <2>3, Doubling
<1>5. /\ Power(2, WordBits) \in Nat \ {0} /\ Power(2, HalfBits) \in Nat \ {0}
      /\ Power(2, PageBits) \in Nat \ {0} /\ Power(2, WordBits - PageBits) \in Nat \ {0}
      /\ Power(2, WordBits - HalfBits - 1) \in Nat \ {0}
      /\ Power(2, HalfBits - 4) \in Nat \ {0}
  BY <1>1, <1>2, Doubling
<1> QED BY <1>3, <1>4, <1>5

-----------------------------------------------------------------------------
(* The addresses of vaddr.c.                                                *)

(* A word of a number of any sign is in range.                              *)
LEMMA ModRange ==
  ASSUME NEW x \in Int, NEW d \in Nat \ {0}
  PROVE  x % d \in 0 .. d - 1
  BY Z3

(* The conversions and the alignments are these operations of arithmetic.   *)
LEMMA Conversions ==
  ASSUME NEW x \in 0 .. Power(2, WordBits) - 1
  PROVE  LET W == Power(2, WordBits)  H == Power(2, HalfBits)  P == Power(2, PageBits)
         IN /\ EnsureHigher(x) = (x % H) + (W - H) /\ EnsureLower(x) = x % H
            /\ PageAlignDown(x) = x - (x % P)
            /\ PageAlignUp(x) = ((x + P - 1) % W) - (((x + P - 1) % W) % P)
<1> DEFINE W == Power(2, WordBits)  H == Power(2, HalfBits)  P == Power(2, PageBits)
           y == (x + P - 1) % W
<1>1. /\ WordBits \in Nat /\ HalfBits \in Nat /\ PageBits \in Nat
      /\ HalfBits <= WordBits /\ PageBits <= WordBits
  BY AddrAssumption
<1>2. W \in Nat \ {0} /\ H \in Nat \ {0} /\ P \in Nat \ {0}
  BY AddressSizes
<1>3. Not(WordBits, W - H) = H - 1 /\ Not(WordBits, P - 1) = W - P
  BY <1>1, Masks
<1>4. EnsureHigher(x) = (x % H) + (W - H) /\ EnsureLower(x) = x % H
  <2>1. /\ Or(WordBits, x, W - H) = (x % H) + (W - H)
        /\ And(WordBits, x, H - 1) = x % H
    BY <1>1, Masked
  <2> QED BY <1>3, <2>1 DEF EnsureHigher, EnsureLower, VADDR_HIGHER
<1>5. PageAlignDown(x) = x - (x % P)
  <2>1. And(WordBits, x, W - P) = x - (x % P)
    BY <1>1, Masked
  <2> QED BY <1>3, <2>1 DEF PageAlignDown, AlignDown
<1>6. PageAlignUp(x) = y - (y % P)
  <2>1. x + P - 1 \in Int /\ y = Word(WordBits, x + P - 1)
    BY <1>2 DEF Word
  <2>2. y \in 0 .. W - 1
    <3> HIDE DEF W, P
    <3> QED BY <1>2, <2>1, ModRange
  <2>3. And(WordBits, y, W - P) = y - (y % P)
    <3> HIDE DEF y
    <3> QED BY <1>1, <2>2, Masked
  <2> HIDE DEF W, y
  <2>4. PageAlignUp(x) = And(WordBits, y, W - P)
    BY <1>3, <2>1 DEF PageAlignUp, AlignUp
  <2> QED BY <2>3, <2>4
<1> QED BY <1>4, <1>5, <1>6

(* A number below the divisor is its remainder.                             *)
LEMMA ModSmall ==
  ASSUME NEW d \in Nat \ {0}, NEW x \in 0 .. d - 1
  PROVE  x % d = x /\ x \div d = 0
<1>1. x \in Nat /\ x = d * 0 + x
  OBVIOUS
<1> QED BY <1>1, DivUnique

(* The remainder of a number above a multiple of the divisor.               *)
LEMMA ModAbove ==
  ASSUME NEW d \in Nat \ {0}, NEW q \in Nat, NEW r \in 0 .. d - 1
  PROVE  (d * q + r) % d = r /\ (d * q + r) \div d = q
<1>1. d * q \in Nat /\ d * q + r \in Nat
  OBVIOUS
<1> QED BY <1>1, DivUnique

(* ThereAndBack in numbers: W words, H of them in the lower half.           *)
LEMMA There ==
  ASSUME NEW addr0 \in 0 .. Power(2, WordBits) - 1
  PROVE  /\ addr0 < Power(2, HalfBits) =>
              /\ EnsureHigher(addr0) = OffsetHigher(addr0)
              /\ EnsureLower(EnsureHigher(addr0)) = addr0
              /\ OffsetLower(OffsetHigher(addr0)) = addr0
         /\ EnsureHigher(EnsureHigher(addr0)) = EnsureHigher(addr0)
         /\ EnsureLower(addr0) < Power(2, HalfBits)
         /\ ~PtrIsUser(EnsureHigher(addr0))
         /\ addr0 % 16 = 0 => (PtrIsUser(addr0) <=> addr0 = EnsureLower(addr0))
<1> DEFINE W == Power(2, WordBits)  H == Power(2, HalfBits)  r == addr0 % H
           hi == r + (W - H)
<1>1. PICK u \in Nat \ {0} : /\ W \in Nat \ {0} /\ H \in Nat \ {0} /\ W = H * (2 * u)
                             /\ \E e \in Nat \ {0} : H = 16 * e
  BY AddressSizes
<1>2. PICK e \in Nat \ {0} : H = 16 * e
  BY <1>1
<1>3. EnsureHigher(addr0) = hi /\ EnsureLower(addr0) = r
  BY Conversions
<1>4. W - H = H * (2 * u - 1) /\ 2 * u - 1 \in Nat /\ W - H >= H
  <2> HIDE DEF W, H
  <2>1. H * (2 * u - 1) = H * (2 * u) - H /\ H * (2 * u) = H * u + H * u
    BY <1>1
  <2>2. H * u >= H
    BY <1>1
  <2> QED BY <1>1, <2>1, <2>2
<1>5. /\ addr0 \in Nat /\ r \in 0 .. H - 1 /\ addr0 = H * (addr0 \div H) + r
      /\ addr0 \div H \in Nat
  <2> HIDE DEF W, H
  <2>1. addr0 \in Nat
    BY <1>1 DEF W
  <2> QED BY <1>1, <2>1, DivDef
<1>6. hi \in 0 .. W - 1 /\ hi % H = r
  <2> HIDE DEF W, H, r
  <2>1. hi \in 0 .. W - 1 /\ hi = H * (2 * u - 1) + r
    BY <1>1, <1>4, <1>5
  <2>2. (H * (2 * u - 1) + r) % H = r
    BY <1>1, <1>4, <1>5, ModAbove
  <2> QED BY <2>1, <2>2
<1>7. EnsureHigher(hi) = hi /\ EnsureLower(hi) = r
  <2>1. EnsureHigher(hi) = (hi % H) + (W - H) /\ EnsureLower(hi) = hi % H
    <3> DEFINE z == hi
    <3>1. z \in 0 .. W - 1
      BY <1>6
    <3> HIDE DEF z
    <3>2. EnsureHigher(z) = (z % H) + (W - H) /\ EnsureLower(z) = z % H
      BY <3>1, Conversions
    <3> QED BY <3>2 DEF z
  <2> QED BY <1>6, <2>1
<1>8. addr0 < H => r = addr0
  <2> HIDE DEF W
  <2> SUFFICES ASSUME addr0 < H PROVE r = addr0
    OBVIOUS
  <2> DEFINE h == H
  <2>0. h \in Nat \ {0} /\ addr0 < h
    BY <1>1
  <2>1. h \in Nat \ {0} /\ addr0 \in 0 .. h - 1 /\ addr0 = h * 0 + addr0
    <3> HIDE DEF h
    <3> QED BY <1>5, <2>0
  <2> HIDE DEF h
  <2>2. addr0 % h = addr0
    BY <1>5, <2>1, DivUnique
  <2> QED BY <2>2 DEF h
<1>9. ASSUME addr0 < H PROVE OffsetHigher(addr0) = hi /\ OffsetLower(hi) = addr0
  <2>1. /\ OffsetHigher(addr0) = (addr0 + (W - H)) % W
        /\ OffsetLower(hi) = (hi - (W - H)) % W
    BY DEF OffsetHigher, OffsetLower, VADDR_HIGHER, Word
  <2>2. /\ addr0 + (W - H) = hi /\ hi - (W - H) = addr0
    <3> HIDE DEF W, H, r
    <3> QED BY <1>1, <1>5, <1>8, <1>9
  <2>3. hi % W = hi /\ addr0 % W = addr0
    <3> DEFINE w == W
    <3>1. w \in Nat \ {0} /\ hi \in 0 .. w - 1 /\ addr0 \in 0 .. w - 1
      BY <1>1, <1>6
    <3> HIDE DEF w, hi
    <3>2. hi \in Nat /\ hi = w * 0 + hi /\ addr0 \in Nat /\ addr0 = w * 0 + addr0
      BY <3>1
    <3>3. hi % w = hi /\ addr0 % w = addr0
      BY <3>1, <3>2, DivUnique
    <3> QED BY <3>3 DEF w
  <2> HIDE DEF W, H, r, hi
  <2> QED BY <2>1, <2>2, <2>3
<1>10. ~PtrIsUser(hi)
  <2>1. PtrIsUser(hi) <=> hi <= H - 16
    BY DEF PtrIsUser
  <2> HIDE DEF W, H, r
  <2> QED BY <1>1, <1>4, <1>5, <2>1
<1>11. ASSUME addr0 % 16 = 0 PROVE PtrIsUser(addr0) <=> addr0 = r
  <2>1. PtrIsUser(addr0) <=> addr0 <= H - 16
    BY DEF PtrIsUser
  <2>2. addr0 = 16 * (addr0 \div 16) /\ addr0 \div 16 \in Nat
    BY <1>5, <1>11
  <2> HIDE DEF W, H, r
  <2>3. addr0 <= H - 16 <=> addr0 < H
    BY <1>2, <1>5, <2>2
  <2> QED BY <1>1, <1>5, <1>8, <2>1, <2>3
<1>12. r < H
  <2> HIDE DEF H, r
  <2> QED BY <1>1, <1>5
<1> HIDE DEF W, H, r, hi
<1>13. addr0 < H => /\ EnsureHigher(addr0) = OffsetHigher(addr0)
                    /\ EnsureLower(EnsureHigher(addr0)) = addr0
                    /\ OffsetLower(OffsetHigher(addr0)) = addr0
  BY <1>3, <1>7, <1>8, <1>9
<1>14. /\ EnsureHigher(EnsureHigher(addr0)) = EnsureHigher(addr0)
       /\ EnsureLower(addr0) < H /\ ~PtrIsUser(EnsureHigher(addr0))
       /\ addr0 % 16 = 0 => (PtrIsUser(addr0) <=> addr0 = EnsureLower(addr0))
  BY <1>3, <1>7, <1>10, <1>11, <1>12
<1> QED BY <1>13, <1>14 DEF H

(* AlignsNearest in numbers: the multiple of the page size next below and   *)
(* the one next above.                                                      *)
LEMMA Nearest ==
  ASSUME NEW x \in 0 .. Power(2, WordBits) - 1
  PROVE  LET page == Power(2, PageBits)
             pages == {n * page : n \in 0 .. Power(2, WordBits - PageBits)}
         IN /\ PageAlignDown(x) = CHOOSE p \in pages : p <= x /\ x < p + page
            /\ PageAlignUp(x) =
                 Word(WordBits, CHOOSE p \in pages : x <= p /\ p < x + page)
<1> DEFINE W == Power(2, WordBits)  P == Power(2, PageBits)
           v == Power(2, WordBits - PageBits)
           pages == {n * P : n \in 0 .. v}
           Below(p) == p <= x /\ x < p + P
           Above(p) == x <= p /\ p < x + P
<1>1. W \in Nat \ {0} /\ P \in Nat \ {0} /\ v \in Nat \ {0} /\ W = P * v /\ x \in 0 .. W - 1
  BY AddressSizes
<1>2. /\ PageAlignDown(x) = x - (x % P)
      /\ PageAlignUp(x) = ((x + P - 1) % W) - (((x + P - 1) % W) % P)
  BY Conversions
<1>3. PageAlignDown(x) = CHOOSE p \in pages : Below(p)
  <2> DEFINE q == x \div P  r == x % P
  <2>1. x \in Nat /\ q \in Nat /\ r \in 0 .. P - 1 /\ x = P * q + r
    <3> HIDE DEF P, W
    <3> QED BY <1>1, DivDef
  <2>2. q <= v
    <3> HIDE DEF P, W, v
    <3>1. P * (v + 1) = P * v + P
      BY <1>1
    <3> QED BY <1>1, <2>1, <3>1, DivBound
  <2>3. PageAlignDown(x) = q * P
    <3> HIDE DEF P, W, v, q, r
    <3>1. q * P = P * q /\ P * q \in Nat
      BY <1>1, <2>1
    <3>2. PageAlignDown(x) = x - r
      BY <1>2 DEF r
    <3> QED BY <2>1, <3>1, <3>2
  <2>4. q * P \in pages /\ Below(q * P)
    <3>1. q * P \in pages
      BY <2>1, <2>2
    <3> HIDE DEF P, W, v, q, r, pages
    <3>2. q * P = P * q /\ P * q \in Nat
      BY <1>1, <2>1
    <3> QED BY <1>1, <2>1, <3>1, <3>2
  <2>5. ASSUME NEW p \in pages, Below(p) PROVE p = q * P
    <3>1. PICK n \in 0 .. v : p = n * P
      OBVIOUS
    <3> HIDE DEF P, W, v, r, pages
    <3>2. n \in Nat /\ n * P = P * n /\ P * n \in Nat
      BY <1>1
    <3>3. x - P * n \in 0 .. P - 1 /\ x = P * n + (x - P * n)
      BY <1>1, <2>1, <2>5, <3>1, <3>2
    <3>4. x \div P = n
      BY <1>1, <2>1, <3>2, <3>3, DivUnique
    <3> QED BY <3>1, <3>4
  <2> HIDE DEF pages, Below, q
  <2> QED BY <2>3, <2>4, <2>5
<1>4. PageAlignUp(x) = Word(WordBits, CHOOSE p \in pages : Above(p))
  <2> DEFINE z == x + P - 1  s == z \div P  t == z % P
  <2>1. /\ x \in Nat /\ z \in Nat /\ s \in Nat /\ t \in 0 .. P - 1 /\ z = P * s + t
        /\ s * P = P * s /\ P * s \in Nat /\ x + P - 1 = z
    <3> HIDE DEF P, W
    <3>1. x \in Nat /\ z \in Nat
      BY <1>1
    <3> HIDE DEF z
    <3>2. s \in Nat /\ t \in 0 .. P - 1 /\ z = P * s + t
      BY <1>1, <3>1, DivDef
    <3> HIDE DEF s, t
    <3> QED BY <1>1, <3>1, <3>2 DEF z
  <2>2. s <= v
    <3> HIDE DEF P, W, v
    <3>1. P * (v + 1) = P * v + P
      BY <1>1
    <3>2. z < P * (v + 1)
      BY <1>1, <2>1, <3>1
    <3> HIDE DEF z
    <3> QED BY <1>1, <2>1, <3>2, DivBound
  <2>3. s * P \in pages /\ Above(s * P)
    <3>1. s * P \in pages
      BY <2>1, <2>2
    <3> HIDE DEF P, W, v, s, t, pages
    <3> QED BY <1>1, <2>1, <3>1
  <2>4. ASSUME NEW p \in pages, Above(p) PROVE p = s * P
    <3>1. PICK n \in 0 .. v : p = n * P
      OBVIOUS
    <3> HIDE DEF P, W, v, t, pages
    <3>2. n \in Nat /\ n * P = P * n /\ P * n \in Nat
      BY <1>1
    <3>3. z - P * n \in 0 .. P - 1 /\ z = P * n + (z - P * n)
      BY <1>1, <2>1, <2>4, <3>1, <3>2
    <3> HIDE DEF z
    <3>4. z \div P = n
      BY <1>1, <2>1, <3>2, <3>3, DivUnique
    <3> QED BY <3>1, <3>4 DEF z
  <2>5. (CHOOSE p \in pages : Above(p)) = s * P
    <3> HIDE DEF pages, Above, s
    <3> QED BY <2>3, <2>4
  <2>6. PageAlignUp(x) = (z % W) - ((z % W) % P)
    BY <1>2
  <2>7. Word(WordBits, s * P) = (s * P) % W
    BY DEF Word
  <2> HIDE DEF P, W, v, s, t, z
  <2>8. CASE s < v
    <3>1. P * (s + 1) = P * s + P /\ P * (s + 1) <= P * v
      <4>1. PICK m \in Nat : v = (s + 1) + m
        <5>1. v - (s + 1) \in Nat /\ v = (s + 1) + (v - (s + 1))
          BY <1>1, <2>1, <2>8
        <5> QED BY <5>1
      <4>2. P * v = P * (s + 1) + P * m /\ P * m \in Nat
        BY <1>1, <2>1, <4>1
      <4> QED BY <1>1, <2>1, <4>2
    <3>2. z \in 0 .. W - 1 /\ s * P \in 0 .. W - 1
      BY <1>1, <2>1, <3>1
    <3>3. z % W = z /\ (s * P) % W = s * P
      <4> DEFINE y == s * P
      <4>1. z = W * 0 + z /\ y \in Nat /\ y = W * 0 + y /\ y \in 0 .. W - 1
        BY <1>1, <2>1, <3>2
      <4> HIDE DEF y
      <4>2. z % W = z /\ y % W = y
        BY <1>1, <3>2, <4>1, ModSmall
      <4> QED BY <4>2 DEF y
    <3>4. z % P = t
      BY <1>1, <2>1, DivUnique
    <3>5. z - t = s * P
      BY <2>1, <1>1
    <3> QED BY <2>5, <2>6, <2>7, <3>3, <3>4, <3>5
  <2>9. CASE s = v
    <3>1. z = W * 1 + t /\ t \in 0 .. W - 1 /\ t \in Nat /\ t = P * 0 + t
      <4>1. P * v >= P
        BY <1>1
      <4> QED BY <1>1, <2>1, <2>9, <4>1
    <3>2. z % W = t /\ t % P = t
      BY <1>1, <2>1, <3>1, DivUnique
    <3>3. (s * P) % W = 0
      <4>1. s * P = W * 1 + 0 /\ 0 \in 0 .. W - 1 /\ s * P \in Nat
        BY <1>1, <2>1, <2>9
      <4> QED BY <1>1, <4>1, DivUnique
    <3>4. t - t = 0
      BY <3>1
    <3> QED BY <2>5, <2>6, <2>7, <3>2, <3>3, <3>4
  <2> QED BY <1>1, <2>1, <2>2, <2>8, <2>9
<1> QED BY <1>3, <1>4

(* addrutil.c:6-44: whatever sequence of conversions and alignments an      *)
(* address has been through, and however wide words, halves and pages are,  *)
(* it goes to the higher half and back the same and aligns to the nearest   *)
(* page.                                                                    *)
THEOREM AddressesRightHolds == AddrSpec => []AddressesRight
<1> DEFINE InWord == addr \in 0 .. Power(2, WordBits) - 1
<1>1. AddrInit => InWord
  BY DEF AddrInit
<1>2. InWord /\ [AddrNext]_addr => InWord'
  <2> SUFFICES ASSUME InWord, AddrNext PROVE InWord'
    OBVIOUS
  <2> DEFINE W == Power(2, WordBits)  H == Power(2, HalfBits)  P == Power(2, PageBits)
  <2>1. /\ W \in Nat \ {0} /\ H \in Nat \ {0} /\ P \in Nat \ {0} /\ H <= W
    <3>1. PICK u \in Nat \ {0} : /\ W \in Nat \ {0} /\ H \in Nat \ {0}
                                 /\ P \in Nat \ {0} /\ W = H * (2 * u)
      BY AddressSizes
    <3> HIDE DEF W, H, P
    <3>2. H * (2 * u) = H + H * (2 * u - 1) /\ H * (2 * u - 1) \in Nat
      BY <3>1
    <3> QED BY <3>1, <3>2
  <2>2. /\ EnsureHigher(addr) = (addr % H) + (W - H) /\ EnsureLower(addr) = addr % H
        /\ PageAlignDown(addr) = addr - (addr % P)
        /\ PageAlignUp(addr) = ((addr + P - 1) % W) - (((addr + P - 1) % W) % P)
    BY Conversions
  <2>3. OffsetHigher(addr) = (addr + (W - H)) % W /\ OffsetLower(addr) = (addr - (W - H)) % W
    BY DEF OffsetHigher, OffsetLower, VADDR_HIGHER, Word
  <2>4. addr' \in {OffsetHigher(addr), OffsetLower(addr), EnsureHigher(addr),
                   EnsureLower(addr), PageAlignUp(addr), PageAlignDown(addr)}
    BY DEF AddrNext
  <2>5. addr \in 0 .. W - 1
    OBVIOUS
  <2> HIDE DEF W, H, P
  <2>6. /\ addr \in Nat /\ addr + (W - H) \in Int /\ addr - (W - H) \in Int
        /\ addr + P - 1 \in Int
    BY <2>1, <2>5
  <2>7. /\ OffsetHigher(addr) \in 0 .. W - 1 /\ OffsetLower(addr) \in 0 .. W - 1
    BY <2>1, <2>3, <2>6, ModRange
  <2>8. /\ EnsureHigher(addr) \in 0 .. W - 1 /\ EnsureLower(addr) \in 0 .. W - 1
    <3> DEFINE r == addr % H
    <3>1. r \in 0 .. H - 1
      BY <2>1, <2>6, ModRange
    <3> HIDE DEF r
    <3>2. r + (W - H) \in 0 .. W - 1 /\ r \in 0 .. W - 1
      BY <2>1, <3>1
    <3> QED BY <2>2, <3>2 DEF r
  <2>9. /\ PageAlignDown(addr) \in 0 .. W - 1 /\ PageAlignUp(addr) \in 0 .. W - 1
    <3>1. ASSUME NEW y \in 0 .. W - 1 PROVE y - (y % P) \in 0 .. W - 1
      <4>0. y \in Nat
        BY <2>1
      <4>1. /\ y \in Nat /\ y \div P \in Nat /\ y % P \in 0 .. P - 1
            /\ y = P * (y \div P) + (y % P)
        BY <2>1, <4>0, DivDef
      <4>2. P * (y \div P) \in Nat
        BY <2>1, <4>1
      <4> DEFINE r == y % P  m == P * (y \div P)
      <4>3. y = m + r /\ m \in Nat /\ r \in 0 .. P - 1
        BY <4>1, <4>2
      <4> HIDE DEF r, m
      <4>4. y - r \in 0 .. W - 1
        BY <2>1, <4>3
      <4> QED BY <4>4 DEF r
    <3> DEFINE z == (addr + P - 1) % W
    <3>2. z \in 0 .. W - 1
      BY <2>1, <2>6, ModRange
    <3> HIDE DEF z
    <3>3. z - (z % P) \in 0 .. W - 1 /\ addr - (addr % P) \in 0 .. W - 1
      BY <2>5, <3>1, <3>2
    <3> QED BY <2>2, <3>3 DEF z
  <2>10. addr' \in 0 .. W - 1
    BY <2>4, <2>7, <2>8, <2>9
  <2> QED BY <2>10 DEF W
<1>3. InWord => AddressesRight
  <2> SUFFICES ASSUME InWord PROVE AddressesRight
    OBVIOUS
  <2>1. ThereAndBack
    BY There DEF ThereAndBack
  <2>2. AlignsNearest
    BY Nearest DEF AlignsNearest
  <2> QED BY <2>1, <2>2 DEF AddressesRight
<1> QED BY <1>1, <1>2, <1>3, PTL DEF AddrSpec

-----------------------------------------------------------------------------
(* Sequences, and the digits of a number.                                   *)

(* A function on 1 .. n is a sequence of length n, and what Append and      *)
(* concatenation make of such functions.                                    *)
LEMMA SeqIs ==
  ASSUME NEW n \in Nat, NEW f, f = [k \in 1 .. n |-> f[k]]
  PROVE  /\ f \in Seq({f[k] : k \in 1 .. n}) /\ Len(f) = n
         /\ DOMAIN f = 1 .. n
<1>1. f \in [1 .. n -> {f[k] : k \in 1 .. n}]
  OBVIOUS
<1> QED BY <1>1, SeqDef

(* Append, as a function.                                                   *)
LEMMA AppendIs ==
  ASSUME NEW n \in Nat, NEW f, f = [k \in 1 .. n |-> f[k]], NEW x
  PROVE  Append(f, x) = [k \in 1 .. n + 1 |-> IF k = n + 1 THEN x ELSE f[k]]
<1>1. f \in Seq({f[k] : k \in 1 .. n}) /\ Len(f) = n
  BY SeqIs
<1> DEFINE g == Append(f, x)
<1>2. g = [k \in 1 .. n + 1 |-> g[k]]
  BY <1>1
<1>3. ASSUME NEW k \in 1 .. n + 1 PROVE g[k] = IF k = n + 1 THEN x ELSE f[k]
  BY <1>1
<1> HIDE DEF g
<1> QED BY <1>2, <1>3 DEF g

(* Concatenation, as a function.                                            *)
LEMMA ConcatIs ==
  ASSUME NEW m \in Nat, NEW n \in Nat, NEW f, NEW g,
         f = [k \in 1 .. m |-> f[k]], g = [k \in 1 .. n |-> g[k]]
  PROVE  f \o g = [k \in 1 .. m + n |-> IF k <= m THEN f[k] ELSE g[k - m]]
<1>1. /\ f \in Seq({f[k] : k \in 1 .. m}) /\ Len(f) = m
      /\ g \in Seq({g[k] : k \in 1 .. n}) /\ Len(g) = n
  BY SeqIs
<1>2. f \o g = [k \in 1 .. Len(f) + Len(g) |-> IF k <= Len(f) THEN f[k] ELSE g[k - Len(f)]]
  OBVIOUS
<1> QED BY <1>1, <1>2

(* Powers are positive and grow.                                            *)
LEMMA PowerPositive ==
  ASSUME NEW b \in Nat \ {0}, NEW n \in Nat
  PROVE  Power(b, n) \in Nat \ {0}
<1> DEFINE T == {m \in Nat : Power(b, m) \in Nat \ {0}}
<1>1. 0 \in T
  BY PowerStep
<1>2. ASSUME NEW m \in Nat, m \in T PROVE m + 1 \in T
  <2>1. Power(b, m + 1) = b * Power(b, m) /\ Power(b, m) \in Nat \ {0}
    BY <1>2, PowerStep
  <2> QED BY <2>1
<1> HIDE DEF T
<1>3. n \in T
  BY <1>1, <1>2, NatSetInduction
<1> QED BY <1>3 DEF T

(* A higher power is not smaller.                                           *)
LEMMA PowerGrows ==
  ASSUME NEW b \in Nat \ {0}, NEW m \in Nat, NEW n \in Nat, m <= n
  PROVE  Power(b, m) <= Power(b, n)
<1> DEFINE T == {k \in Nat : Power(b, m) <= Power(b, m + k)}
<1>1. 0 \in T
  <2>1. m + 0 = m /\ Power(b, m) \in Nat
    BY PowerStep
  <2> QED BY <2>1
<1>2. ASSUME NEW k \in Nat, k \in T PROVE k + 1 \in T
  <2>1. /\ Power(b, (m + k) + 1) = b * Power(b, m + k) /\ m + (k + 1) = (m + k) + 1
        /\ Power(b, m + k) \in Nat /\ Power(b, m) \in Nat
    <3>1. m + k \in Nat /\ m + (k + 1) = (m + k) + 1 /\ b \in Nat
      OBVIOUS
    <3> QED BY <3>1, PowerStep
  <2>2. b * Power(b, m + k) >= Power(b, m + k)
    <3> DEFINE x == Power(b, m + k)
    <3>1. x \in Nat
      BY <2>1
    <3> HIDE DEF x
    <3>2. b * x >= x
      BY <3>1
    <3> QED BY <3>2 DEF x
  <2> QED BY <1>2, <2>1, <2>2
<1> HIDE DEF T
<1>3. n - m \in T /\ m + (n - m) = n
  BY <1>1, <1>2, NatSetInduction
<1> QED BY <1>3 DEF T

(* The digits of a number in base b, from the numbers they are made of: as  *)
(* many as it takes.                                                        *)
DigitCount(n, v, b) ==
  n \in Nat \ {0} /\ v < Power(b, n) /\ (n = 1 \/ Power(b, n - 1) <= v)
Numerals(cs, v, b) ==
  \E n : /\ DigitCount(n, v, b)
         /\ cs = [k \in 1 .. n |-> Digit((v \div Power(b, n - k)) % b)]

(* A number has one number of digits.                                       *)
LEMMA DigitCountUnique ==
  ASSUME NEW v \in Nat, NEW b \in Nat \ {0}, NEW m, NEW n,
         DigitCount(m, v, b), DigitCount(n, v, b)
  PROVE  m = n
<1>1. ASSUME NEW x, NEW y, DigitCount(x, v, b), DigitCount(y, v, b), x < y PROVE FALSE
  <2>1. x \in Nat /\ y - 1 \in Nat /\ x <= y - 1 /\ y # 1
    BY <1>1 DEF DigitCount
  <2>2. Power(b, x) <= Power(b, y - 1) /\ v < Power(b, x) /\ Power(b, y - 1) <= v
    BY <1>1, <2>1, PowerGrows DEF DigitCount
  <2>3. Power(b, x) \in Nat /\ Power(b, y - 1) \in Nat
    BY <2>1, PowerStep
  <2> QED BY <2>2, <2>3
<1>2. m \in Nat /\ n \in Nat
  BY DEF DigitCount
<1> QED BY <1>1, <1>2

(* The values of Digits' recursion up to i.                                 *)
DigitsUpTo(d, b, i) ==
  d = [j \in 0 .. i |-> IF j < b THEN <<Digit(j)>> ELSE Append(d[j \div b], Digit(j % b))]

(* A number of two digits loses one when divided by the base.               *)
LEMMA QuotientLess ==
  ASSUME NEW b \in Nat, b > 1, NEW j \in Nat, j >= b
  PROVE  j \div b \in 0 .. j - 1 /\ j \div b >= 1
<1>1. b \in Nat \ {0}
  OBVIOUS
<1> DEFINE q == j \div b  r == j % b
<1>2. q \in Nat /\ r \in 0 .. b - 1 /\ j = b * q + r
  BY <1>1, DivDef
<1> HIDE DEF q, r
<1>3. q >= 1
  BY <1>2
<1>4. b * q >= 2 * q
  BY <1>2
<1> QED BY <1>2, <1>3, <1>4 DEF q

(* The recursion of Digits has a solution.                                  *)
LEMMA DigitsExist ==
  ASSUME NEW b \in Nat, b > 1, NEW i \in Nat
  PROVE  \E d : DigitsUpTo(d, b, i)
<1> DEFINE T == {m \in Nat : \E d : DigitsUpTo(d, b, m)}
<1>1. 0 \in T
  <2>1. DigitsUpTo([j \in 0 .. 0 |-> <<Digit(j)>>], b, 0)
    BY DEF DigitsUpTo
  <2> QED BY <2>1
<1>2. ASSUME NEW m \in Nat, m \in T PROVE m + 1 \in T
  <2>1. PICK d : DigitsUpTo(d, b, m)
    BY <1>2
  <2> DEFINE Next1(f, j) == IF j < b THEN <<Digit(j)>> ELSE Append(f[j \div b], Digit(j % b))
             q == [j \in 0 .. m + 1 |-> IF j = m + 1 THEN Next1(d, m + 1) ELSE d[j]]
  <2>2. ASSUME NEW j \in 0 .. m + 1 PROVE q[j] = Next1(q, j)
    <3>1. j >= b => q[j \div b] = d[j \div b]
      <4> SUFFICES ASSUME j >= b PROVE q[j \div b] = d[j \div b]
        OBVIOUS
      <4> DEFINE p == j \div b
      <4>0. j \in Nat
        OBVIOUS
      <4>1. p \in 0 .. j - 1
        BY <4>0, QuotientLess
      <4> HIDE DEF p
      <4>2. p \in 0 .. m + 1 /\ p # m + 1
        BY <4>1
      <4>3. q[p] = d[p]
        BY <4>2
      <4> QED BY <4>3 DEF p
    <3>2. j < b \/ j >= b
      OBVIOUS
    <3>3. Next1(q, j) = Next1(d, j)
      <4> HIDE DEF q
      <4> QED BY <3>1, <3>2
    <3>4. CASE j = m + 1
      BY <3>3, <3>4
    <3>5. CASE j # m + 1
      <4>1. j \in 0 .. m
        BY <3>5
      <4>2. d[j] = Next1(d, j)
        BY <2>1, <4>1 DEF DigitsUpTo
      <4> HIDE DEF Next1
      <4>3. q[j] = d[j]
        BY <3>5
      <4> QED BY <3>3, <4>2, <4>3
    <3> QED BY <3>4, <3>5
  <2>3. DigitsUpTo(q, b, m + 1)
    BY <2>2 DEF DigitsUpTo
  <2> QED BY <2>3
<1> HIDE DEF T
<1>3. i \in T
  BY <1>1, <1>2, NatSetInduction
<1> QED BY <1>3 DEF T

(* One more digit behind the numeral of the quotient.                       *)
LEMMA OneMoreDigit ==
  ASSUME NEW b \in Nat, b > 1, NEW j \in Nat, j >= b, NEW cs, Numerals(cs, j \div b, b)
  PROVE  Numerals(Append(cs, Digit(j % b)), j, b)
<1> DEFINE q == j \div b
<1>1. PICK n : /\ DigitCount(n, q, b)
               /\ cs = [k \in 1 .. n |-> Digit((q \div Power(b, n - k)) % b)]
  BY DEF Numerals
<1>2. b \in Nat \ {0} /\ n \in Nat \ {0}
  BY <1>1 DEF DigitCount
<1>3. q \in Nat /\ q >= 1 /\ j % b \in 0 .. b - 1 /\ j = b * q + (j % b)
  BY <1>2, DivDef, QuotientLess
<1>4. DigitCount(n + 1, j, b)
  <2> DEFINE B == Power(b, n)  r == j % b
  <2>1. Power(b, n + 1) = b * B /\ B \in Nat
    BY <1>2, PowerStep
  <2>2. q < B
    BY <1>1 DEF DigitCount
  <2>3. r \in 0 .. b - 1 /\ j = b * q + r
    BY <1>3
  <2>5. B <= j
    <3>1. CASE n = 1
      <4>1. B = b
        <5>1. Power(b, 0 + 1) = b * Power(b, 0) /\ Power(b, 0) = 1
          BY <1>2, PowerStep
        <5> QED BY <1>2, <3>1, <5>1
      <4> QED BY <4>1
    <3>2. CASE n # 1
      <4> DEFINE A == Power(b, n - 1)
      <4>1. A <= q /\ A \in Nat /\ Power(b, (n - 1) + 1) = b * A /\ n - 1 \in Nat /\ (n - 1) + 1 = n
        BY <1>1, <1>2, <3>2, PowerStep DEF DigitCount
      <4>2. B = b * A
        BY <4>1
      <4> HIDE DEF A, B, q, r
      <4>3. b * A <= b * q /\ b * q \in Nat /\ b * A \in Nat
        BY <1>2, <1>3, <4>1
      <4> QED BY <2>3, <4>2, <4>3
    <3> QED BY <3>1, <3>2
  <2> HIDE DEF q, r, B
  <2>4. j < b * B
    <3>1. b * (q + 1) <= b * B
      <4>1. PICK s \in Nat : B = (q + 1) + s
        <5>1. B - (q + 1) \in Nat /\ B = (q + 1) + (B - (q + 1))
          BY <1>3, <2>1, <2>2
        <5> QED BY <5>1
      <4>2. b * B = b * (q + 1) + b * s /\ b * s \in Nat /\ b * (q + 1) \in Nat
        BY <1>2, <1>3, <4>1
      <4> QED BY <4>2
    <3>2. b * (q + 1) = b * q + b /\ b * q \in Nat
      BY <1>2, <1>3
    <3> QED BY <2>1, <2>3, <3>1, <3>2
  <2> QED BY <1>2, <2>1, <2>4, <2>5 DEF DigitCount, B
<1>5. Append(cs, Digit(j % b))
        = [k \in 1 .. n + 1 |-> Digit((j \div Power(b, (n + 1) - k)) % b)]
  <2>1. Append(cs, Digit(j % b))
          = [k \in 1 .. n + 1 |-> IF k = n + 1 THEN Digit(j % b) ELSE cs[k]]
    <3> HIDE DEF q
    <3>1. cs = [k \in 1 .. n |-> cs[k]]
      BY <1>1
    <3> QED BY <3>1, <1>2, AppendIs
  <2>2. ASSUME NEW k \in 1 .. n + 1
        PROVE  (IF k = n + 1 THEN Digit(j % b) ELSE cs[k])
                 = Digit((j \div Power(b, (n + 1) - k)) % b)
    <3>1. CASE k = n + 1
      <4>1. Power(b, (n + 1) - k) = 1 /\ j \div 1 = j
        BY <1>2, <3>1, PowerStep
      <4> QED BY <3>1, <4>1
    <3>2. CASE k # n + 1
      <4>1. k \in 1 .. n /\ n - k \in Nat /\ (n + 1) - k = (n - k) + 1
        BY <1>2, <3>2
      <4> DEFINE A == Power(b, n - k)
      <4>2. A \in Nat \ {0} /\ Power(b, (n + 1) - k) = b * A
        BY <1>2, <4>1, PowerPositive, PowerStep
      <4>3. j \div (b * A) = q \div A
        <5> HIDE DEF A
        <5> QED BY <1>2, <4>2, DivNest
      <4>4. cs[k] = Digit((q \div A) % b)
        BY <1>1, <4>1
      <4> HIDE DEF A, q
      <4> QED BY <3>2, <4>2, <4>3, <4>4
    <3> QED BY <3>1, <3>2
  <2> HIDE DEF q
  <2> QED BY <2>1, <2>2
<1> QED BY <1>4, <1>5 DEF Numerals

(* utos (strutil.c:36-42): the digits are the numeral of the number.        *)
LEMMA DigitsAre ==
  ASSUME NEW b \in Nat, b > 1, NEW v \in Nat
  PROVE  Numerals(Digits(v, b), v, b)
<1> DEFINE d == CHOOSE d : DigitsUpTo(d, b, v)
           T == {m \in Nat : \A j \in 0 .. m : j <= v => Numerals(d[j], j, b)}
<1>1. DigitsUpTo(d, b, v)
  BY DigitsExist
<1>2. Digits(v, b) = d[v]
  BY DEF Digits, DigitsUpTo
<1> HIDE DEF d
<1>3. ASSUME NEW j \in 0 .. v,
             j >= b => Numerals(d[j \div b], j \div b, b)
      PROVE  Numerals(d[j], j, b)
  <2>1. d[j] = IF j < b THEN <<Digit(j)>> ELSE Append(d[j \div b], Digit(j % b))
    BY <1>1 DEF DigitsUpTo
  <2>2. CASE j >= b
    <3>1. ~(j < b)
      BY <2>2
    <3>2. d[j] = Append(d[j \div b], Digit(j % b))
      BY <2>1, <3>1
    <3>3. Numerals(Append(d[j \div b], Digit(j % b)), j, b)
      BY <1>3, <2>2, OneMoreDigit
    <3> QED BY <3>2, <3>3
  <2>3. CASE j < b
    <3>1. d[j] = <<Digit(j)>>
      BY <2>1, <2>3
    <3>2. Power(b, 0) = 1 /\ Power(b, 0 + 1) = b * Power(b, 0) /\ j \div 1 = j
      BY PowerStep
    <3>3. j % b = j
      <4>1. b \in Nat \ {0} /\ j \in 0 .. b - 1
        BY <2>3
      <4> QED BY <4>1, ModSmall
    <3>4. DigitCount(1, j, b)
      <4>1. Power(b, 1) = b
        BY <3>2
      <4> QED BY <2>3, <4>1 DEF DigitCount
    <3>5. <<Digit(j)>> = [k \in 1 .. 1 |-> Digit((j \div Power(b, 1 - k)) % b)]
      <4>1. ASSUME NEW k \in 1 .. 1 PROVE Digit((j \div Power(b, 1 - k)) % b) = Digit(j)
        <5>1. 1 - k = 0
          OBVIOUS
        <5> QED BY <3>2, <3>3, <5>1
      <4>2. <<Digit(j)>> = [k \in 1 .. 1 |-> Digit(j)]
        OBVIOUS
      <4> QED BY <4>1, <4>2
    <3> QED BY <3>1, <3>4, <3>5 DEF Numerals
  <2> QED BY <2>2, <2>3
<1>4. 0 \in T
  <2>1. ASSUME NEW j \in 0 .. 0 PROVE Numerals(d[j], j, b)
    <3>1. j \in 0 .. v /\ ~(j >= b)
      OBVIOUS
    <3> QED BY <1>3, <3>1
  <2> QED BY <2>1
<1>5. ASSUME NEW m \in Nat, m \in T PROVE m + 1 \in T
  <2>1. ASSUME NEW j \in 0 .. m + 1, j <= v PROVE Numerals(d[j], j, b)
    <3>1. CASE j = m + 1
      <4>1. j \in 0 .. v
        BY <2>1
      <4>2. j >= b => Numerals(d[j \div b], j \div b, b)
        <5> SUFFICES ASSUME j >= b PROVE Numerals(d[j \div b], j \div b, b)
          OBVIOUS
        <5> DEFINE p == j \div b
        <5>0. j \in Nat
          OBVIOUS
        <5>1. p \in 0 .. j - 1
          BY <5>0, QuotientLess
        <5> HIDE DEF p
        <5>2. p \in 0 .. m /\ p <= v
          BY <2>1, <3>1, <5>1
        <5> HIDE DEF d
        <5>3. Numerals(d[p], p, b)
          BY <1>5, <5>2
        <5> QED BY <5>3 DEF p
      <4> QED BY <1>3, <4>1, <4>2
    <3>2. CASE j # m + 1
      BY <1>5, <2>1, <3>2
    <3> QED BY <3>1, <3>2
  <2> QED BY <2>1
<1> HIDE DEF T
<1>6. v \in T
  BY <1>4, <1>5, NatSetInduction
<1>7. v \in 0 .. v
  OBVIOUS
<1> QED BY <1>2, <1>6, <1>7 DEF T

-----------------------------------------------------------------------------
(* The terminal: every operation of it leaves the screen as it should be.   *)

(* The terminal fits the frame buffer, and holds two lines of two.          *)
LEMMA Sizes ==
  /\ Width \in Nat /\ Width >= 2 /\ Height \in Nat /\ Height >= 1
  /\ 8 * Width + 16 <= FbWidth /\ 16 * Height + 16 <= FbHeight
  /\ Width * Height \in Nat /\ Width * (Height - 1) \in Nat
  /\ Width * Height = Width * (Height - 1) + Width
  /\ Cells = 0 .. Width * Height - 1
<1>1. FbWidth \in Nat /\ FbHeight \in Nat /\ FbWidth >= 32 /\ FbHeight >= 32
  BY ConsoleAssumption
<1>2. /\ Width \in Nat /\ Width >= 2 /\ 8 * Width + 16 <= FbWidth
      /\ Height \in Nat /\ Height >= 1 /\ 16 * Height + 16 <= FbHeight
  BY <1>1 DEF Width, Height
<1>3. /\ Width * Height \in Nat /\ Width * (Height - 1) \in Nat
      /\ Width * Height = Width * (Height - 1) + Width
  BY <1>2
<1> QED BY <1>2, <1>3 DEF Cells

(* What a place p of the roll shows, where blank was at boot, and a screen  *)
(* whose first cell shows the roll's place top * Width.                     *)
Want(ink, p, blank) ==
  IF p \in DOMAIN ink THEN ink[p] ELSE IF p \notin Cells THEN Dark ELSE blank
Image(b, m, ink, top) ==
  /\ b = [i \in Cells |-> Want(ink, i + top * Width, Junk)]
  /\ m = [i \in Cells |-> Want(ink, i + top * Width, IF top = 0 THEN Boot ELSE Junk)]
  /\ \A p \in DOMAIN ink : p \in Nat /\ p < top * Width + Width * Height

(* terminal_scroll: the screen shows the next line of the roll.             *)
LEMMA ImageScrolls ==
  ASSUME NEW b, NEW m, NEW ink, NEW top \in Nat, Image(b, m, ink, top)
  PROVE  LET sc == [i \in Cells |-> IF i + Width \in Cells THEN b[i + Width] ELSE Dark]
         IN Image(sc, sc, ink, top + 1)
<1> DEFINE sc == [i \in Cells |-> IF i + Width \in Cells THEN b[i + Width] ELSE Dark]
           tw == top * Width  uw == (top + 1) * Width  size == Width * Height
<1>1. /\ tw \in Nat /\ uw = tw + Width /\ size \in Nat /\ Width \in Nat /\ Width > 0
      /\ Cells = 0 .. size - 1
  BY Sizes
<1>2. \A p \in DOMAIN ink : p \in Nat /\ p < tw + size
  BY DEF Image
<1> HIDE DEF tw, uw, size
<1>3. ASSUME NEW i \in Cells
      PROVE  (IF i + Width \in Cells THEN b[i + Width] ELSE Dark) = Want(ink, i + uw, Junk)
  <2>1. i + uw = (i + Width) + tw
    BY <1>1
  <2>2. CASE i + Width \in Cells
    <3>1. b[i + Width] = Want(ink, (i + Width) + tw, Junk)
      BY <2>2 DEF Image, tw
    <3> QED BY <2>1, <2>2, <3>1
  <2>3. CASE i + Width \notin Cells
    <3>1. i + uw \notin Cells /\ ~(i + uw < tw + size)
      BY <1>1, <2>3
    <3>2. i + uw \notin DOMAIN ink
      BY <1>2, <3>1
    <3> QED BY <2>3, <3>1, <3>2 DEF Want
  <2> QED BY <2>2, <2>3
<1>4. sc = [i \in Cells |-> Want(ink, i + uw, Junk)]
  BY <1>3
<1>5. \A p \in DOMAIN ink : p \in Nat /\ p < uw + size
  BY <1>1, <1>2
<1>6. top + 1 # 0
  OBVIOUS
<1> HIDE DEF sc
<1>7. Image(sc, sc, ink, top + 1)
  BY <1>4, <1>5, <1>6 DEF Image, uw, size
<1> QED BY <1>7 DEF sc

(* framebuffer_putpixel: the cell drawn shows the character at its place.   *)
LEMMA ImageDrawn ==
  ASSUME NEW b, NEW m, NEW ink, NEW top \in Nat, Image(b, m, ink, top),
         NEW k \in Cells, NEW v
  PROVE  Image([b EXCEPT ![k] = v], [m EXCEPT ![k] = v],
               [i \in DOMAIN ink \cup {k + top * Width} |->
                  IF i = k + top * Width THEN v ELSE ink[i]], top)
<1> DEFINE tw == top * Width  size == Width * Height  p == k + top * Width
           jnk == [i \in DOMAIN ink \cup {p} |-> IF i = p THEN v ELSE ink[i]]
<1>1. tw \in Nat /\ size \in Nat /\ Cells = 0 .. size - 1 /\ p = k + tw /\ p \in Nat /\ p < tw + size
  <2>1. tw \in Nat /\ size \in Nat /\ Cells = 0 .. size - 1
    BY Sizes
  <2> QED BY <2>1
<1>2. /\ b = [i \in Cells |-> Want(ink, i + tw, Junk)]
      /\ m = [i \in Cells |-> Want(ink, i + tw, IF top = 0 THEN Boot ELSE Junk)]
      /\ \A q \in DOMAIN ink : q \in Nat /\ q < tw + size
  BY DEF Image
<1> HIDE DEF tw, size, p
<1>3. ASSUME NEW i \in Cells, NEW blank
      PROVE  Want(jnk, i + tw, blank) = IF i = k THEN v ELSE Want(ink, i + tw, blank)
  <2>1. i = k <=> i + tw = p
    BY <1>1
  <2>2. CASE i = k
    BY <2>1, <2>2 DEF Want
  <2>3. CASE i # k
    BY <2>1, <2>3 DEF Want
  <2> QED BY <2>2, <2>3
<1>4. \A q \in DOMAIN jnk : q \in Nat /\ q < tw + size
  BY <1>1, <1>2
<1> HIDE DEF jnk
<1>5. [b EXCEPT ![k] = v] = [i \in Cells |-> Want(jnk, i + tw, Junk)]
  BY <1>2, <1>3
<1>6. [m EXCEPT ![k] = v] = [i \in Cells |-> Want(jnk, i + tw, IF top = 0 THEN Boot ELSE Junk)]
  BY <1>2, <1>3
<1>7. Image([b EXCEPT ![k] = v], [m EXCEPT ![k] = v], jnk, top)
  BY <1>4, <1>5, <1>6 DEF Image, tw, size
<1> QED BY <1>7 DEF jnk, p

(* A terminal has these fields, and what the assignments to its fields      *)
(* make of it.                                                              *)
Shape(t, r, x, fg, log, paper, b, m) ==
  t = [isready |-> r, chr_index |-> x, fg |-> fg, log |-> log, paper |-> paper,
       fb_buffer |-> b, fb_mmio |-> m]

(* What a record of this shape has in its fields.                           *)
LEMMA ShapeFields ==
  ASSUME NEW t, NEW r, NEW x, NEW fg, NEW log, NEW paper, NEW b, NEW m,
         Shape(t, r, x, fg, log, paper, b, m)
  PROVE  /\ t.isready = r /\ t.chr_index = x /\ t.fg = fg /\ t.log = log /\ t.paper = paper
         /\ t.fb_buffer = b /\ t.fb_mmio = m
         /\ Shape(t, t.isready, t.chr_index, t.fg, t.log, t.paper, t.fb_buffer, t.fb_mmio)
BY DEF Shape

(* The cursor moves, and the shape stays.                                   *)
LEMMA ShapeAdvances ==
  ASSUME NEW t, NEW r, NEW x, NEW fg, NEW log, NEW paper, NEW b, NEW m,
         Shape(t, r, x, fg, log, paper, b, m), NEW log2, NEW paper2, NEW u,
         u = [t EXCEPT !.chr_index = @ + 1, !.log = log2, !.paper = paper2]
  PROVE  Shape(u, r, x + 1, fg, log2, paper2, b, m)
BY DEF Shape

(* The screen scrolls, and the shape stays.                                 *)
LEMMA ShapeScrolls ==
  ASSUME NEW t, NEW r, NEW x, NEW fg, NEW log, NEW paper, NEW b, NEW m,
         Shape(t, r, x, fg, log, paper, b, m), NEW b2, NEW w, NEW u,
         u = [t EXCEPT !.fb_buffer = b2, !.fb_mmio = b2, !.chr_index = @ - w]
  PROVE  Shape(u, r, x - w, fg, log, paper, b2, b2)
BY DEF Shape

(* A line ends, and the shape stays.                                        *)
LEMMA ShapeNewline ==
  ASSUME NEW t, NEW r, NEW x, NEW fg, NEW log, NEW paper, NEW b, NEW m,
         Shape(t, r, x, fg, log, paper, b, m), NEW w, NEW u,
         u = [t EXCEPT !.chr_index = @ + w - (@ % w)]
  PROVE  Shape(u, r, x + w - (x % w), fg, log, paper, b, m)
BY DEF Shape

(* A glyph is drawn, and the shape stays.                                   *)
LEMMA ShapeDrawn ==
  ASSUME NEW t, NEW r, NEW x, NEW fg, NEW log, NEW paper, NEW b, NEW m,
         Shape(t, r, x, fg, log, paper, b, m), NEW i, NEW v, NEW u,
         u = [t EXCEPT !.fb_buffer[i] = v, !.fb_mmio[i] = v]
  PROVE  Shape(u, r, x, fg, log, paper, [b EXCEPT ![i] = v], [m EXCEPT ![i] = v])
BY DEF Shape

(* A colour is chosen, and the shape stays.                                 *)
LEMMA ShapeColoured ==
  ASSUME NEW t, NEW r, NEW x, NEW fg, NEW log, NEW paper, NEW b, NEW m,
         Shape(t, r, x, fg, log, paper, b, m), NEW fg2, NEW u, u = [t EXCEPT !.fg = fg2]
  PROVE  Shape(u, r, x, fg2, log, paper, b, m)
BY DEF Shape

(* A terminal: the screen is the end of the roll, the cursor at its end,    *)
(* scrolled no further than the last line needs.                            *)
Terminal(t) ==
  /\ Shape(t, t.isready, t.chr_index, t.fg, t.log, t.paper, t.fb_buffer, t.fb_mmio)
  /\ t.paper = [at |-> t.paper.at, ink |-> t.paper.ink]
  /\ t.isready \in BOOLEAN /\ t.chr_index \in 0 .. Width * Height
  /\ ~t.isready => t.chr_index = 0 /\ t.paper.at = 0
RollAt(t, top) ==
  /\ Image(t.fb_buffer, t.fb_mmio, t.paper.ink, top)
  /\ t.paper.at = t.chr_index + top * Width
  /\ top > 0 => t.chr_index >= Width * (Height - 1)
TermOK(t) == Terminal(t) /\ \E top \in Nat : RollAt(t, top)

(* Where the cursor goes: behind the next cell, on the last line of the     *)
(* screen if that is full, a newline on to the beginning of a line.         *)
LEMMA NewlineMoves ==
  ASSUME NEW x \in Nat, NEW top \in Nat, x < Width * Height
  PROVE  LET y == x + Width - (x % Width)
         IN /\ y \in 0 .. Width * Height /\ y > x
            /\ ((x + top * Width) \div Width + 1) * Width = y + top * Width
<1> DEFINE W == Width  H == Height  q == x \div W  r == x % W
<1>1. W \in Nat \ {0} /\ H \in Nat /\ W * H \in Nat
  BY Sizes
<1> HIDE DEF W, H
<1>2. q \in Nat /\ r \in 0 .. W - 1 /\ x = W * q + r
  BY <1>1, DivDef
<1> HIDE DEF q, r
<1>3. (x + top * W) \div W = q + top
  <2>1. W * (q + top) = W * q + top * W /\ W * q \in Nat /\ top * W \in Nat
    BY <1>1, <1>2
  <2>2. x + top * W = W * (q + top) + r /\ x + top * W \in Nat /\ q + top \in Nat
    BY <1>2, <2>1
  <2> QED BY <1>1, <1>2, <2>2, DivUnique
<1>4. (q + top + 1) * W = W * q + W + top * W /\ W * q \in Nat /\ top * W \in Nat
  BY <1>1, <1>2
<1>5. q + 1 <= H
  <2> SUFFICES ASSUME H <= q PROVE FALSE
    BY <1>1, <1>2
  <2>1. PICK s \in Nat : q = H + s
    <3>1. q - H \in Nat /\ q = H + (q - H)
      BY <1>1, <1>2
    <3> QED BY <3>1
  <2>2. W * q = W * H + W * s /\ W * s \in Nat
    BY <1>1, <2>1
  <2> QED BY <1>1, <1>2, <2>2 DEF W, H
<1>6. W * q + W <= W * H
  <2>1. PICK s \in Nat : H = (q + 1) + s
    <3>1. H - (q + 1) \in Nat /\ H = (q + 1) + (H - (q + 1))
      BY <1>1, <1>2, <1>5
    <3> QED BY <3>1
  <2>2. W * H = (W * q + W) + W * s /\ W * s \in Nat
    BY <1>1, <1>2, <2>1
  <2> QED BY <1>1, <1>4, <2>2
<1>7. LET y == x + W - r
      IN y \in 0 .. W * H /\ y > x /\ y + top * W = (q + top + 1) * W
  BY <1>1, <1>2, <1>4, <1>6
<1> QED BY <1>3, <1>7 DEF W, H, r

(* Room for a character: the cursor goes one cell further, and the screen   *)
(* scrolls if that cell is below it.                                        *)
Advanced(t, log, paper) == [t EXCEPT !.chr_index = @ + 1, !.log = log, !.paper = paper]
Fitted(at) == IF at.chr_index >= Width * Height THEN TerminalScroll(at) ELSE at
Fits(t, f, x, b, m, log, paper, top) ==
  /\ Shape(f, t.isready, x, t.fg, log, paper, b, m)
  /\ x \in 0 .. Width * Height - 1
  /\ Image(b, m, t.paper.ink, top)
  /\ t.paper.at + 1 = x + top * Width
  /\ top > 0 => x >= Width * (Height - 1)

(* After room was made, the cursor is on the screen and the copies agree.   *)
LEMMA RoomFor ==
  ASSUME NEW t, TermOK(t), NEW log, NEW paper
  PROVE  \E top \in Nat : \E x, b, m :
           Fits(t, Fitted(Advanced(t, log, paper)), x, b, m, log, paper, top)
<1> DEFINE at == Advanced(t, log, paper)  fit == Fitted(at)
           x == t.chr_index + 1  W == Width  size == Width * Height  low == Width * (Height - 1)
<1>1. PICK top \in Nat : RollAt(t, top)
  BY DEF TermOK
<1>2. Shape(at, t.isready, x, t.fg, log, paper, t.fb_buffer, t.fb_mmio)
  <2>1. Shape(t, t.isready, t.chr_index, t.fg, t.log, t.paper, t.fb_buffer, t.fb_mmio)
    BY DEF TermOK, Terminal
  <2>2. at = [t EXCEPT !.chr_index = @ + 1, !.log = log, !.paper = paper]
    BY DEF Advanced
  <2> HIDE DEF at
  <2> QED BY <2>1, <2>2, ShapeAdvances
<1>3. /\ W \in Nat /\ W >= 2 /\ size \in Nat /\ low \in Nat /\ size = low + W
      /\ t.chr_index \in 0 .. size
  BY Sizes DEF TermOK, Terminal
<1>4. /\ t.paper.at = t.chr_index + top * W /\ (top > 0 => t.chr_index >= low)
      /\ top * W \in Nat /\ (top + 1) * W = top * W + W
  BY <1>1, <1>3 DEF RollAt
<1>5. at.chr_index = x /\ at.fb_buffer = t.fb_buffer
  BY <1>2, ShapeFields
<1>6. fit = IF x >= size THEN TerminalScroll(at) ELSE at
  BY <1>5 DEF Fitted
<1>7. Image(t.fb_buffer, t.fb_mmio, t.paper.ink, top)
  BY <1>1 DEF RollAt
<1> HIDE DEF at, fit
<1>8. x \in Nat /\ x \in 0 .. size + 1 /\ t.paper.at + 1 = x + top * W
  <2> DEFINE tw == top * W
  <2>1. tw \in Nat /\ t.paper.at = t.chr_index + tw
    BY <1>4
  <2> HIDE DEF size, low, W, tw
  <2>2. x \in Nat /\ x \in 0 .. size + 1 /\ t.paper.at + 1 = x + tw
    BY <1>3, <2>1
  <2> QED BY <2>2 DEF tw
<1>9. CASE x < size
  <2>1. fit = at
    BY <1>3, <1>6, <1>8, <1>9
  <2>2. /\ x \in 0 .. size - 1 /\ (top > 0 => x >= low)
    <3> HIDE DEF size, low, W
    <3> QED BY <1>3, <1>4, <1>8, <1>9 DEF x
  <2> HIDE DEF x
  <2>3. Fits(t, fit, x, t.fb_buffer, t.fb_mmio, log, paper, top)
    BY <1>2, <1>7, <1>8, <2>1, <2>2 DEF Fits
  <2> QED BY <2>3 DEF fit, at
<1>10. CASE x >= size
  <2> DEFINE sc == [i \in Cells |-> IF i + Width \in Cells THEN t.fb_buffer[i + Width] ELSE Dark]
             y == x - Width
  <2>1. fit = [at EXCEPT !.fb_buffer = sc, !.fb_mmio = sc, !.chr_index = @ - Width]
    BY <1>5, <1>6, <1>10 DEF TerminalScroll, Scrolled
  <2>2. Image(sc, sc, t.paper.ink, top + 1)
    BY <1>7, ImageScrolls
  <2> HIDE DEF sc
  <2>3. Shape(fit, t.isready, y, t.fg, log, paper, sc, sc)
    BY <1>2, <2>1, ShapeScrolls
  <2>4. /\ y \in 0 .. size - 1 /\ t.paper.at + 1 = y + (top + 1) * W /\ y >= low
    <3> DEFINE tw == top * W  uw == (top + 1) * W
    <3>1. tw \in Nat /\ uw = tw + W
      BY <1>4
    <3>2. t.paper.at + 1 = x + tw
      BY <1>8
    <3> HIDE DEF size, low, tw, uw, x
    <3>3. y \in 0 .. size - 1 /\ t.paper.at + 1 = y + uw /\ y >= low
      BY <1>3, <1>8, <1>10, <3>1, <3>2
    <3> QED BY <3>3 DEF uw
  <2>5. top + 1 \in Nat
    OBVIOUS
  <2> HIDE DEF y, x
  <2>6. Fits(t, fit, y, sc, sc, log, paper, top + 1)
    BY <2>2, <2>3, <2>4 DEF Fits
  <2> QED BY <2>5, <2>6 DEF fit, at
<1> QED BY <1>3, <1>8, <1>9, <1>10

(* terminal_putchar (terminal.c:40): whatever character, the screen goes on *)
(* showing the end of the roll, and the character is logged.                *)
Printed(t, u, log) ==
  TermOK(u) /\ u.isready = t.isready /\ u.fg = t.fg /\ u.log = log

(* terminal_putchar (terminal.c:40) of any character.                       *)
LEMMA PutcharPrints ==
  ASSUME NEW t, TermOK(t), NEW c
  PROVE  Printed(t, TerminalPutchar(t, c),
                 IF t.isready THEN Append(t.log, Shown(c, t.fg)) ELSE t.log)
<1>0. CASE ~t.isready
  BY <1>0 DEF TerminalPutchar, Printed
<1> SUFFICES ASSUME t.isready
             PROVE  Printed(t, TerminalPutchar(t, c), Append(t.log, Shown(c, t.fg)))
  BY <1>0
<1> DEFINE v == Shown(c, t.fg)
           log == Append(t.log, v)  paper == OnPaper(t.paper, v)
           fit == Fitted(Advanced(t, log, paper))
           u == TerminalPutchar(t, c)
<1>1. u = IF c = Newline THEN [fit EXCEPT !.chr_index = @ + Width - (@ % Width)]
          ELSE PutCell(fit, fit.chr_index, Shown(c, fit.fg))
  BY DEF TerminalPutchar, Advanced, Fitted
<1>2. PICK top \in Nat : \E x, b, m : Fits(t, fit, x, b, m, log, paper, top)
  BY RoomFor
<1>3. PICK k, b, m : Fits(t, fit, k, b, m, log, paper, top)
  BY <1>2
<1>4. v[1] = Newline <=> c = Newline
  BY DEF Shown, Dark, Newline, Blank
<1>5. t.paper = [at |-> t.paper.at, ink |-> t.paper.ink] /\ t.isready = TRUE
  BY DEF TermOK, Terminal
<1> DEFINE size == Width * Height  low == Width * (Height - 1)
           tw == top * Width
<1>6. /\ k \in 0 .. size - 1 /\ t.paper.at + 1 = k + tw /\ (top > 0 => k >= low)
      /\ Image(b, m, t.paper.ink, top)
      /\ Shape(fit, t.isready, k, t.fg, log, paper, b, m)
  BY <1>3 DEF Fits
<1>7. /\ Width \in Nat /\ Width >= 2 /\ size \in Nat /\ low \in Nat /\ size = low + Width
      /\ tw \in Nat /\ Cells = 0 .. size - 1
  BY Sizes
<1>10. fit.chr_index = k /\ fit.fg = t.fg
  <2> HIDE DEF fit, log, paper, v
  <2>1. Shape(fit, t.isready, k, t.fg, log, paper, b, m)
    BY <1>6
  <2> QED BY <2>1 DEF Shape
<1> HIDE DEF v, log, fit, u
<1>8. CASE c = Newline
  <2> DEFINE y == k + Width - (k % Width)
  <2>1. Shape(u, t.isready, y, t.fg, log, paper, b, m)
    <3>1. u = [fit EXCEPT !.chr_index = @ + Width - (@ % Width)]
      BY <1>1, <1>8
    <3> QED BY <1>6, <3>1, ShapeNewline
  <2>2. paper = [at |-> ((t.paper.at + 1) \div Width + 1) * Width, ink |-> t.paper.ink]
    BY <1>4, <1>5, <1>8 DEF OnPaper
  <2>3. y \in 0 .. size /\ y > k /\ ((k + tw) \div Width + 1) * Width = y + tw
    <3>1. k \in Nat /\ k < size
      BY <1>6, <1>7
    <3> QED BY <3>1, NewlineMoves
  <2> HIDE DEF y, paper
  <2>4. /\ u.isready = t.isready /\ u.chr_index = y /\ u.fg = t.fg /\ u.log = log
        /\ u.paper = paper /\ u.fb_buffer = b /\ u.fb_mmio = m
        /\ Shape(u, u.isready, u.chr_index, u.fg, u.log, u.paper, u.fb_buffer, u.fb_mmio)
    BY <2>1 DEF Shape
  <2>5. paper.at = y + top * Width /\ paper.ink = t.paper.ink
        /\ paper = [at |-> paper.at, ink |-> paper.ink]
    BY <1>6, <2>2, <2>3
  <2>6. top > 0 => y >= low
    <3> HIDE DEF low, size, tw
    <3> QED BY <1>6, <1>7, <2>3
  <2>7. RollAt(u, top)
    BY <1>6, <2>4, <2>5, <2>6 DEF RollAt
  <2>8. Terminal(u)
    BY <1>5, <2>3, <2>4, <2>5 DEF Terminal
  <2>9. TermOK(u)
    BY <2>7, <2>8 DEF TermOK
  <2> QED BY <2>4, <2>9 DEF Printed, u, log, v
<1>9. CASE c # Newline
  <2> DEFINE b2 == [b EXCEPT ![k] = v]  m2 == [m EXCEPT ![k] = v]
             ink2 == [i \in DOMAIN t.paper.ink \cup {k + tw} |->
                        IF i = k + tw THEN v ELSE t.paper.ink[i]]
  <2>1. Shape(u, t.isready, k, t.fg, log, paper, b2, m2)
    <3>1. u = [fit EXCEPT !.fb_buffer[k] = v, !.fb_mmio[k] = v]
      BY <1>1, <1>9, <1>10 DEF PutCell, v
    <3> QED BY <1>6, <3>1, ShapeDrawn
  <2>2. paper = [at |-> k + tw, ink |-> ink2]
    BY <1>4, <1>5, <1>6, <1>9 DEF OnPaper
  <2>3. Image(b2, m2, ink2, top)
    <3>1. k \in Cells
      BY <1>6, <1>7
    <3> QED BY <1>6, <3>1, ImageDrawn
  <2> HIDE DEF b2, m2, ink2, paper
  <2>4. /\ u.isready = t.isready /\ u.chr_index = k /\ u.fg = t.fg /\ u.log = log
        /\ u.paper = paper /\ u.fb_buffer = b2 /\ u.fb_mmio = m2
        /\ Shape(u, u.isready, u.chr_index, u.fg, u.log, u.paper, u.fb_buffer, u.fb_mmio)
    BY <2>1 DEF Shape
  <2>5. paper.at = k + top * Width /\ paper.ink = ink2
        /\ paper = [at |-> paper.at, ink |-> paper.ink]
    BY <2>2
  <2>6. RollAt(u, top)
    BY <1>6, <2>3, <2>4, <2>5 DEF RollAt
  <2>7. k \in 0 .. size
    <3> HIDE DEF size
    <3> QED BY <1>6, <1>7
  <2>8. Terminal(u)
    BY <1>5, <2>4, <2>5, <2>7 DEF Terminal
  <2>9. TermOK(u)
    BY <2>6, <2>8 DEF TermOK
  <2> QED BY <2>4, <2>9 DEF Printed, u, log, v
<1> QED BY <1>8, <1>9

-----------------------------------------------------------------------------
(* Sequences of whatever: appended, joined one behind another, cut.         *)

(* s is a sequence, of whatever.                                            *)
IsSeq(s) == Len(s) \in Nat /\ s = [k \in 1 .. Len(s) |-> s[k]]
Elems(s) == {s[k] : k \in 1 .. Len(s)}

(* A sequence of elements of S.                                             *)
LEMMA SeqInSet ==
  ASSUME NEW s, IsSeq(s), NEW S, Elems(s) \subseteq S
  PROVE  s \in Seq(S)
<1>1. s \in [1 .. Len(s) -> S]
  BY DEF IsSeq, Elems
<1> QED BY <1>1, SeqDef DEF IsSeq

(* And back.                                                                *)
LEMMA SetInSeq ==
  ASSUME NEW S, NEW s \in Seq(S)
  PROVE  IsSeq(s)
<1>1. Len(s) \in Nat /\ s \in [1 .. Len(s) -> S]
  BY LenProperties
<1> QED BY <1>1 DEF IsSeq

(* A function on 1 .. n is a sequence.                                      *)
LEMMA FunctionIsSeq ==
  ASSUME NEW n \in Nat, NEW s, s = [k \in 1 .. n |-> s[k]]
  PROVE  IsSeq(s) /\ Len(s) = n /\ DOMAIN s = 1 .. n
<1>1. Len(s) = n /\ DOMAIN s = 1 .. n
  BY SeqIs
<1> QED BY <1>1 DEF IsSeq

(* Sequences with the same elements are the same.                           *)
LEMMA SeqSame ==
  ASSUME NEW s, NEW t, IsSeq(s), IsSeq(t), Len(s) = Len(t),
         \A k \in 1 .. Len(s) : s[k] = t[k]
  PROVE  s = t
<1>1. [k \in 1 .. Len(s) |-> s[k]] = [k \in 1 .. Len(t) |-> t[k]]
  OBVIOUS
<1> QED BY <1>1 DEF IsSeq

(* The places of a sequence.                                                *)
LEMMA SeqDomain ==
  ASSUME NEW s, IsSeq(s)
  PROVE  DOMAIN s = 1 .. Len(s)
<1>1. DOMAIN [k \in 1 .. Len(s) |-> s[k]] = 1 .. Len(s)
  OBVIOUS
<1> QED BY <1>1 DEF IsSeq

(* The empty sequence, and what it adds.                                    *)
LEMMA SeqEmpty ==
  /\ IsSeq(<< >>) /\ Len(<< >>) = 0
  /\ \A s : IsSeq(s) => s \o << >> = s /\ << >> \o s = s
  /\ \A s : IsSeq(s) /\ Len(s) = 0 => s = << >>
<1>1. IsSeq(<< >>) /\ Len(<< >>) = 0
  BY SetInSeq, EmptySeq
<1>2. ASSUME NEW s, IsSeq(s) PROVE s \o << >> = s /\ << >> \o s = s
  <2>1. s \in Seq(Elems(s))
    BY <1>2, SeqInSet
  <2> QED BY <2>1, ConcatEmptySeq
<1>3. ASSUME NEW s, IsSeq(s), Len(s) = 0 PROVE s = << >>
  BY <1>1, <1>3, SeqSame
<1> QED BY <1>1, <1>2, <1>3

(* One sequence behind another.                                             *)
LEMMA SeqConcat ==
  ASSUME NEW s, NEW t, IsSeq(s), IsSeq(t)
  PROVE  /\ IsSeq(s \o t) /\ Len(s \o t) = Len(s) + Len(t)
         /\ \A k \in 1 .. Len(s) + Len(t) :
              (s \o t)[k] = IF k <= Len(s) THEN s[k] ELSE t[k - Len(s)]
<1>1. s \in Seq(Elems(s) \cup Elems(t)) /\ t \in Seq(Elems(s) \cup Elems(t))
  BY SeqInSet
<1>2. IsSeq(s \o t)
  BY <1>1, ConcatProperties, SetInSeq
<1> QED BY <1>1, <1>2, ConcatProperties

(* Where the parentheses are does not matter.                               *)
LEMMA SeqAssociative ==
  ASSUME NEW s, NEW t, NEW u, IsSeq(s), IsSeq(t), IsSeq(u)
  PROVE  (s \o t) \o u = s \o (t \o u)
<1> DEFINE S == Elems(s) \cup Elems(t) \cup Elems(u)
<1>1. s \in Seq(S) /\ t \in Seq(S) /\ u \in Seq(S)
  BY SeqInSet
<1> QED BY <1>1, ConcatAssociative

(* A sequence of one element.                                               *)
LEMMA SeqOne ==
  ASSUME NEW x
  PROVE  IsSeq(<<x>>) /\ Len(<<x>>) = 1 /\ <<x>>[1] = x
<1>1. <<x>> \in Seq({x})
  OBVIOUS
<1> QED BY <1>1, SetInSeq

(* One element more.                                                        *)
LEMMA SeqAppend ==
  ASSUME NEW s, IsSeq(s), NEW x
  PROVE  /\ IsSeq(Append(s, x)) /\ Len(Append(s, x)) = Len(s) + 1
         /\ Append(s, x) = s \o <<x>>
         /\ Append(s, x)[Len(s) + 1] = x
         /\ \A k \in 1 .. Len(s) : Append(s, x)[k] = s[k]
<1> DEFINE S == Elems(s) \cup {x}
<1>1. s \in Seq(S) /\ x \in S
  BY SeqInSet
<1> HIDE DEF S
<1>2. /\ Append(s, x) \in Seq(S) /\ Len(Append(s, x)) = Len(s) + 1
      /\ \A k \in 1 .. Len(s) : Append(s, x)[k] = s[k]
      /\ Append(s, x)[Len(s) + 1] = x
  BY <1>1, AppendProperties
<1>3. IsSeq(Append(s, x))
  BY <1>2, SetInSeq
<1>4. /\ IsSeq(s \o <<x>>) /\ Len(s \o <<x>>) = Len(s) + 1
      /\ \A k \in 1 .. Len(s) + 1 : (s \o <<x>>)[k] = IF k <= Len(s) THEN s[k] ELSE <<x>>[k - Len(s)]
  BY SeqOne, SeqConcat
<1>5. ASSUME NEW k \in 1 .. Len(s) + 1 PROVE Append(s, x)[k] = (s \o <<x>>)[k]
  <2>1. Len(s) \in Nat
    BY DEF IsSeq
  <2>2. CASE k <= Len(s)
    BY <1>2, <1>4, <2>1, <2>2
  <2>3. CASE k = Len(s) + 1
    <3>1. ~(k <= Len(s)) /\ k - Len(s) = 1
      BY <2>1, <2>3
    <3> QED BY <1>2, <1>4, <2>3, <3>1, SeqOne
  <2> QED BY <2>1, <2>2, <2>3
<1>6. Append(s, x) = s \o <<x>>
  BY <1>2, <1>3, <1>4, <1>5, SeqSame
<1> QED BY <1>2, <1>3, <1>6

(* The first k of a sequence, one more each time.                           *)
Taken(s, k) == [j \in 1 .. k |-> s[j]]
LEMMA TakenOneMore ==
  ASSUME NEW s, NEW k \in Nat
  PROVE  /\ IsSeq(Taken(s, k)) /\ Len(Taken(s, k)) = k
         /\ Taken(s, k + 1) = Append(Taken(s, k), s[k + 1])
         /\ Taken(s, 0) = << >>
<1>1. /\ Taken(s, k) = [j \in 1 .. k |-> Taken(s, k)[j]]
      /\ Taken(s, 0) = [j \in 1 .. 0 |-> Taken(s, 0)[j]]
  BY DEF Taken
<1>2. /\ IsSeq(Taken(s, k)) /\ Len(Taken(s, k)) = k
      /\ IsSeq(Taken(s, 0)) /\ Len(Taken(s, 0)) = 0
  BY <1>1, FunctionIsSeq
<1>3. Append(Taken(s, k), s[k + 1])
        = [j \in 1 .. k + 1 |-> IF j = k + 1 THEN s[k + 1] ELSE Taken(s, k)[j]]
  BY <1>1, AppendIs
<1>4. Append(Taken(s, k), s[k + 1]) = Taken(s, k + 1)
  BY <1>3 DEF Taken
<1> QED BY <1>2, <1>4, SeqEmpty

(* Ink on paper, character by character.                                    *)
LEMMA InSeq ==
  ASSUME NEW s, IsSeq(s), NEW fg
  PROVE  IsSeq(In(s, fg)) /\ Len(In(s, fg)) = Len(s)
         /\ \A k \in 1 .. Len(s) : In(s, fg)[k] = Shown(s[k], fg)
<1>1. DOMAIN s = 1 .. Len(s) /\ Len(s) \in Nat
  BY SeqDomain DEF IsSeq
<1>2. In(s, fg) = [k \in 1 .. Len(s) |-> In(s, fg)[k]]
  BY <1>1 DEF In
<1>3. \A k \in 1 .. Len(s) : In(s, fg)[k] = Shown(s[k], fg)
  BY <1>1 DEF In
<1> QED BY <1>1, <1>2, <1>3, FunctionIsSeq

(* Coloured text, cut in two.                                               *)
LEMMA InConcat ==
  ASSUME NEW s, NEW t, IsSeq(s), IsSeq(t), NEW fg
  PROVE  In(s \o t, fg) = In(s, fg) \o In(t, fg)
<1> DEFINE a == In(s \o t, fg)  b == In(s, fg) \o In(t, fg)
<1>0. Len(s) \in Nat /\ Len(t) \in Nat
  BY DEF IsSeq
<1>1. /\ IsSeq(s \o t) /\ Len(s \o t) = Len(s) + Len(t)
      /\ \A k \in 1 .. Len(s) + Len(t) :
           (s \o t)[k] = IF k <= Len(s) THEN s[k] ELSE t[k - Len(s)]
  BY SeqConcat
<1>2. /\ IsSeq(a) /\ Len(a) = Len(s) + Len(t)
      /\ \A k \in 1 .. Len(s) + Len(t) : a[k] = Shown((s \o t)[k], fg)
  BY <1>1, InSeq
<1>3. /\ IsSeq(In(s, fg)) /\ Len(In(s, fg)) = Len(s) /\ IsSeq(In(t, fg)) /\ Len(In(t, fg)) = Len(t)
      /\ \A k \in 1 .. Len(s) : In(s, fg)[k] = Shown(s[k], fg)
      /\ \A k \in 1 .. Len(t) : In(t, fg)[k] = Shown(t[k], fg)
  BY InSeq
<1>4. /\ IsSeq(b) /\ Len(b) = Len(s) + Len(t)
      /\ \A k \in 1 .. Len(s) + Len(t) :
           b[k] = IF k <= Len(s) THEN In(s, fg)[k] ELSE In(t, fg)[k - Len(s)]
  BY <1>3, SeqConcat
<1> HIDE DEF a, b
<1>5. ASSUME NEW k \in 1 .. Len(s) + Len(t) PROVE a[k] = b[k]
  <2>1. CASE k <= Len(s)
    <3>1. k \in 1 .. Len(s)
      BY <1>0, <2>1
    <3> QED BY <1>1, <1>2, <1>3, <1>4, <2>1, <3>1
  <2>2. CASE ~(k <= Len(s))
    <3>1. k - Len(s) \in 1 .. Len(t)
      BY <1>0, <2>2
    <3> QED BY <1>1, <1>2, <1>3, <1>4, <2>2, <3>1
  <2> QED BY <2>1, <2>2
<1> QED BY <1>2, <1>4, <1>5, SeqSame DEF a, b

(* Coloured text, one character longer.                                     *)
LEMMA InAppend ==
  ASSUME NEW s, IsSeq(s), NEW x, NEW fg
  PROVE  In(Append(s, x), fg) = Append(In(s, fg), Shown(x, fg))
<1>1. IsSeq(<<x>>) /\ IsSeq(In(s, fg)) /\ Append(s, x) = s \o <<x>>
  BY SeqOne, InSeq, SeqAppend
<1>2. In(<<x>>, fg) = <<Shown(x, fg)>>
  <2>1. IsSeq(In(<<x>>, fg)) /\ Len(In(<<x>>, fg)) = 1 /\ In(<<x>>, fg)[1] = Shown(x, fg)
    BY <1>1, InSeq, SeqOne
  <2>2. IsSeq(<<Shown(x, fg)>>) /\ Len(<<Shown(x, fg)>>) = 1 /\ <<Shown(x, fg)>>[1] = Shown(x, fg)
    BY SeqOne
  <2>3. \A k \in 1 .. 1 : k = 1
    OBVIOUS
  <2> QED BY <2>1, <2>2, <2>3, SeqSame
<1>3. In(s \o <<x>>, fg) = In(s, fg) \o <<Shown(x, fg)>>
  <2> DEFINE o == <<x>>
  <2>1. IsSeq(o)
    BY <1>1
  <2> HIDE DEF o
  <2>2. In(s \o o, fg) = In(s, fg) \o In(o, fg)
    BY <2>1, InConcat
  <2> QED BY <1>2, <2>2 DEF o
<1>4. Append(In(s, fg), Shown(x, fg)) = In(s, fg) \o <<Shown(x, fg)>>
  BY <1>1, SeqAppend
<1> QED BY <1>1, <1>3, <1>4

-----------------------------------------------------------------------------
(* puts and the conversions of printf.                                      *)

(* puts: the terminal after each character.                                 *)
PutsUpTo(f, t, cs, n) ==
  f = [k \in 0 .. n |-> IF k = 0 THEN t ELSE TerminalPutchar(f[k - 1], cs[k])]

(* The recursion of puts has a solution.                                    *)
LEMMA PutsExist ==
  ASSUME NEW t, NEW cs, NEW n \in Nat
  PROVE  \E f : PutsUpTo(f, t, cs, n)
<1> DEFINE T == {m \in Nat : \E f : PutsUpTo(f, t, cs, m)}
<1>1. 0 \in T
  <2>1. PutsUpTo([k \in 0 .. 0 |-> t], t, cs, 0)
    BY DEF PutsUpTo
  <2> QED BY <2>1
<1>2. ASSUME NEW m \in Nat, m \in T PROVE m + 1 \in T
  <2>1. PICK f : PutsUpTo(f, t, cs, m)
    BY <1>2
  <2> DEFINE One(g, k) == IF k = 0 THEN t ELSE TerminalPutchar(g[k - 1], cs[k])
             q == [k \in 0 .. m + 1 |-> IF k = m + 1 THEN One(f, k) ELSE f[k]]
  <2>2. ASSUME NEW k \in 0 .. m + 1 PROVE q[k] = One(q, k)
    <3>1. k # 0 => q[k - 1] = f[k - 1]
      BY DEF PutsUpTo
    <3>2. One(q, k) = One(f, k)
      <4> HIDE DEF q
      <4> QED BY <3>1
    <3>3. CASE k = m + 1
      BY <3>2, <3>3
    <3>4. CASE k # m + 1
      <4>1. k \in 0 .. m
        BY <3>4
      <4>2. f[k] = One(f, k)
        BY <2>1, <4>1 DEF PutsUpTo
      <4> HIDE DEF One
      <4>3. q[k] = f[k]
        BY <3>4
      <4> QED BY <3>2, <4>2, <4>3
    <3> QED BY <3>3, <3>4
  <2>3. PutsUpTo(q, t, cs, m + 1)
    BY <2>2 DEF PutsUpTo
  <2> QED BY <2>3
<1> HIDE DEF T
<1>3. n \in T
  BY <1>1, <1>2, NatSetInduction
<1> QED BY <1>3 DEF T

(* printf.c:112-129: the characters appear one after the other.             *)
LEMMA PutsPrints ==
  ASSUME NEW t, TermOK(t), IsSeq(t.log), NEW cs, IsSeq(cs)
  PROVE  Printed(t, Puts(t, cs), IF t.isready THEN t.log \o In(cs, t.fg) ELSE t.log)
<1> DEFINE n == Len(cs)
           f == CHOOSE f : PutsUpTo(f, t, cs, n)
           Log(k) == IF t.isready THEN t.log \o In(Taken(cs, k), t.fg) ELSE t.log
           T == {k \in Nat : k <= n => Printed(t, f[k], Log(k))}
<1>0. n \in Nat /\ cs = Taken(cs, n)
  BY DEF IsSeq, Taken
<1>1. PutsUpTo(f, t, cs, n)
  BY <1>0, PutsExist
<1>2. Puts(t, cs) = f[n]
  BY DEF Puts, PutsUpTo
<1> HIDE DEF f, n
<1>3. \A k \in 0 .. n : f[k] = IF k = 0 THEN t ELSE TerminalPutchar(f[k - 1], cs[k])
  BY <1>1 DEF PutsUpTo
<1>4. ASSUME NEW k \in Nat
      PROVE  /\ IsSeq(Log(k))
             /\ t.isready => Log(k + 1) = Append(Log(k), Shown(cs[k + 1], t.fg))
             /\ ~t.isready => Log(k + 1) = Log(k)
  <2> DEFINE tk == Taken(cs, k)  a == In(tk, t.fg)  x == Shown(cs[k + 1], t.fg)  l == t.log
             o == <<x>>
  <2>1. /\ IsSeq(tk) /\ Taken(cs, k + 1) = Append(tk, cs[k + 1])
    BY TakenOneMore
  <2> HIDE DEF tk
  <2>2. IsSeq(a) /\ In(Taken(cs, k + 1), t.fg) = Append(a, x)
    <3>1. IsSeq(a)
      BY <2>1, InSeq
    <3>2. In(Append(tk, cs[k + 1]), t.fg) = Append(a, x)
      BY <2>1, InAppend
    <3> QED BY <2>1, <3>1, <3>2
  <2> HIDE DEF a
  <2>3. IsSeq(l) /\ IsSeq(l \o a) /\ IsSeq(o) /\ Append(a, x) = a \o o
    BY <2>2, SeqConcat, SeqOne, SeqAppend
  <2>4. l \o Append(a, x) = Append(l \o a, x)
    <3>2. Append(l \o a, x) = (l \o a) \o o
      BY <2>3, SeqAppend
    <3> HIDE DEF l, o
    <3>1. (l \o a) \o o = l \o (a \o o)
      BY <2>2, <2>3, SeqAssociative
    <3> QED BY <2>3, <3>1, <3>2
  <2> HIDE DEF x
  <2>5. t.isready => Log(k) = l \o a /\ Log(k + 1) = l \o Append(a, x)
    BY <2>2 DEF a, tk
  <2>6. ~t.isready => Log(k) = l /\ Log(k + 1) = l
    OBVIOUS
  <2> QED BY <2>3, <2>4, <2>5, <2>6 DEF x
<1>5. Log(0) = t.log
  <2>1. Taken(cs, 0) = << >>
    BY TakenOneMore
  <2>2. In(<< >>, t.fg) = << >>
    BY InSeq, SeqEmpty
  <2> QED BY <2>1, <2>2, SeqEmpty
<1> HIDE DEF Log
<1>6. 0 \in T
  <2>1. f[0] = t
    BY <1>0, <1>3
  <2> QED BY <1>5, <2>1 DEF Printed
<1>7. ASSUME NEW k \in Nat, k \in T PROVE k + 1 \in T
  <2> SUFFICES ASSUME k + 1 <= n PROVE Printed(t, f[k + 1], Log(k + 1))
    OBVIOUS
  <2>1. Printed(t, f[k], Log(k))
    BY <1>0, <1>7
  <2>2. f[k + 1] = TerminalPutchar(f[k], cs[k + 1])
    <3>1. k + 1 \in 0 .. n /\ k + 1 # 0 /\ (k + 1) - 1 = k
      BY <1>0
    <3> QED BY <1>3, <3>1
  <2> DEFINE g == f[k]
  <2> HIDE DEF g
  <2>3. TermOK(g) /\ g.isready = t.isready /\ g.fg = t.fg /\ g.log = Log(k)
    BY <2>1 DEF Printed, g
  <2>4. Printed(g, TerminalPutchar(g, cs[k + 1]),
                IF g.isready THEN Append(g.log, Shown(cs[k + 1], g.fg)) ELSE g.log)
    BY <2>3, PutcharPrints
  <2>5. (IF g.isready THEN Append(g.log, Shown(cs[k + 1], g.fg)) ELSE g.log) = Log(k + 1)
    BY <1>4, <2>3
  <2> QED BY <2>2, <2>3, <2>4, <2>5 DEF Printed, g
<1> HIDE DEF T
<1>8. n \in T
  BY <1>0, <1>6, <1>7, NatSetInduction
<1> QED BY <1>0, <1>2, <1>8 DEF T, Log

(* The larger one of two.                                                   *)
LEMMA MaxOfTwo ==
  ASSUME NEW a \in Int, NEW b \in Int
  PROVE  Max({a, b}) = IF a >= b THEN a ELSE b
<1> DEFINE m == IF a >= b THEN a ELSE b
<1>1. m \in {a, b} /\ \A y \in {a, b} : m >= y
  OBVIOUS
<1>2. \A x \in {a, b} : (\A y \in {a, b} : x >= y) => x = m
  OBVIOUS
<1> HIDE DEF m
<1>3. Max({a, b}) = m
  BY <1>1, <1>2 DEF Max
<1> QED BY <1>3 DEF m

(* A larger base has larger powers.                                         *)
LEMMA PowerOfLarger ==
  ASSUME NEW b \in Nat, b >= 2, NEW n \in Nat
  PROVE  Power(2, n) <= Power(b, n)
<1> DEFINE T == {m \in Nat : Power(2, m) <= Power(b, m)}
<1>1. 0 \in T
  BY PowerStep, Doubling
<1>2. ASSUME NEW m \in Nat, m \in T PROVE m + 1 \in T
  <2> DEFINE x == Power(2, m)  y == Power(b, m)
  <2>1. /\ x \in Nat /\ y \in Nat /\ x <= y
        /\ Power(2, m + 1) = 2 * x /\ Power(b, m + 1) = b * y
    BY <1>2, PowerStep, Doubling
  <2> HIDE DEF x, y
  <2>2. 2 * y <= b * y
    BY <2>1
  <2>3. b * y \in Nat
    BY <2>1
  <2>4. 2 * x <= b * y
    BY <2>1, <2>2, <2>3
  <2> QED BY <2>1, <2>4
<1> HIDE DEF T
<1>3. n \in T
  BY <1>1, <1>2, NatSetInduction
<1> QED BY <1>3 DEF T

(* The digits utos writes are bytes.                                        *)
LEMMA DigitsSeq ==
  ASSUME NEW b \in Nat, b > 1, NEW v \in Nat
  PROVE  /\ IsSeq(Digits(v, b)) /\ Len(Digits(v, b)) >= 1
         /\ \A k \in 1 .. Len(Digits(v, b)) :
              Digits(v, b)[k] \in Nat /\ Digits(v, b)[k] >= 48
         /\ DigitCount(Len(Digits(v, b)), v, b)
         /\ Digits(v, b) = [k \in 1 .. Len(Digits(v, b)) |->
                              Digit((v \div Power(b, Len(Digits(v, b)) - k)) % b)]
<1> DEFINE cs == Digits(v, b)
<1>1. PICK n : /\ DigitCount(n, v, b)
               /\ cs = [k \in 1 .. n |-> Digit((v \div Power(b, n - k)) % b)]
  BY DigitsAre DEF Numerals
<1>2. n \in Nat /\ n >= 1
  BY <1>1 DEF DigitCount
<1> HIDE DEF cs
<1>3. cs = [k \in 1 .. n |-> cs[k]]
  BY <1>1
<1>4. IsSeq(cs) /\ Len(cs) = n
  BY <1>2, <1>3, FunctionIsSeq
<1>5. ASSUME NEW k \in 1 .. n PROVE cs[k] \in Nat /\ cs[k] >= 48
  <2> DEFINE x == (v \div Power(b, n - k)) % b
  <2>1. cs[k] = Digit(x)
    BY <1>1
  <2>2. x \in Nat
    <3> DEFINE p == Power(b, n - k)
    <3>1. p \in Nat \ {0}
      <4>1. n - k \in Nat /\ b \in Nat \ {0}
        BY <1>2
      <4> QED BY <4>1, PowerPositive
    <3> HIDE DEF p
    <3>2. v \div p \in Nat
      BY <3>1, DivDef
    <3> DEFINE q == v \div p
    <3> HIDE DEF q
    <3>3. q \in Nat /\ b \in Nat \ {0}
      BY <3>2 DEF q
    <3>4. q % b \in 0 .. b - 1
      BY ONLY <3>3, DivDef
    <3> QED BY <3>3, <3>4 DEF q, p
  <2> HIDE DEF x
  <2> QED BY <2>1, <2>2 DEF Digit
<1> QED BY <1>1, <1>2, <1>4, <1>5 DEF cs

(* What a number means is what utos writes, for numbers of IntBits bits and *)
(* those of few digits.                                                     *)
LEMMA NumeralFits ==
  ASSUME NEW b \in Nat, b > 1, NEW v \in Nat, Len(Digits(v, b)) <= IntBits
  PROVE  Numeral(v, b) = Digits(v, b)
<1> DEFINE n == Len(Digits(v, b))
           C(k) == v < Power(b, k) /\ (k = 1 \/ Power(b, k - 1) <= v)
           c == CHOOSE k \in 1 .. IntBits : C(k)
<1>1. IntBits \in Nat /\ b \in Nat \ {0}
  BY ConsoleAssumption
<1>2. /\ DigitCount(n, v, b)
      /\ Digits(v, b) = [k \in 1 .. n |-> Digit((v \div Power(b, n - k)) % b)]
  BY DigitsSeq
<1>4. n <= IntBits
  OBVIOUS
<1> HIDE DEF n
<1>3. n \in Nat \ {0} /\ C(n)
  BY <1>2 DEF DigitCount
<1>5. n \in 1 .. IntBits
  BY <1>1, <1>3, <1>4
<1> HIDE DEF C
<1>6. c \in 1 .. IntBits /\ C(c)
  BY <1>3, <1>5
<1>7. Numeral(v, b) = [k \in 1 .. c |-> Digit((v \div Power(b, c - k)) % b)]
  BY DEF Numeral, C
<1> HIDE DEF c
<1>8. DigitCount(c, v, b)
  BY <1>6 DEF DigitCount, C
<1>9. c = n
  BY <1>1, <1>2, <1>8, DigitCountUnique
<1> QED BY <1>2, <1>7, <1>9

(* A number below a power has no more digits than that.                     *)
LEMMA FewDigits ==
  ASSUME NEW b \in Nat, b > 1, NEW v \in Nat, NEW m \in Nat \ {0}, v < Power(b, m)
  PROVE  Len(Digits(v, b)) <= m
<1> DEFINE n == Len(Digits(v, b))
<1>1. DigitCount(n, v, b)
  BY DigitsSeq
<1> HIDE DEF n
<1>2. n \in Nat \ {0} /\ (n = 1 \/ Power(b, n - 1) <= v)
  BY <1>1 DEF DigitCount
<1> SUFFICES ASSUME n > m PROVE FALSE
  BY <1>2 DEF n
<1>3. n # 1 /\ n - 1 \in Nat /\ m <= n - 1 /\ b \in Nat \ {0}
  BY <1>2
<1>4. Power(b, m) <= Power(b, n - 1) /\ Power(b, n - 1) <= v
  BY <1>2, <1>3, PowerGrows
<1>5. Power(b, m) \in Nat /\ Power(b, n - 1) \in Nat
  BY <1>3, PowerPositive
<1> QED BY <1>4, <1>5

(* A word has the digits that Numeral writes.                               *)
LEMMA NumeralIs ==
  ASSUME NEW b \in Nat, b > 1, NEW v \in 0 .. Power(2, IntBits) - 1
  PROVE  Numeral(v, b) = Digits(v, b)
<1>1. IntBits \in Nat \ {0} /\ v \in Nat /\ v < Power(2, IntBits) /\ b >= 2 /\ b \in Nat \ {0}
  <2>1. IntBits \in Nat /\ IntBits >= 8 /\ Power(2, IntBits) \in Nat
    BY ConsoleAssumption, Doubling
  <2> QED BY <2>1
<1>2. Power(2, IntBits) <= Power(b, IntBits)
  BY <1>1, PowerOfLarger
<1>3. v < Power(b, IntBits)
  <2>1. Power(2, IntBits) \in Nat /\ Power(b, IntBits) \in Nat
    BY <1>1, PowerPositive
  <2> QED BY <1>1, <1>2, <2>1
<1> QED BY <1>1, <1>3, FewDigits, NumeralFits

(* Padding a sequence: nothing if it is long enough.                        *)
LEMMA PadSeq ==
  ASSUME NEW cs, IsSeq(cs), NEW n \in Int, NEW c
  PROVE  /\ IsSeq(PadLeft(cs, n, c))
         /\ Len(PadLeft(cs, n, c)) = IF n >= Len(cs) THEN n ELSE Len(cs)
         /\ n <= Len(cs) => PadLeft(cs, n, c) = cs
         /\ \A k \in 1 .. Len(PadLeft(cs, n, c)) :
              PadLeft(cs, n, c)[k]
                = IF k <= Len(PadLeft(cs, n, c)) - Len(cs) THEN c
                  ELSE cs[k - (Len(PadLeft(cs, n, c)) - Len(cs))]
<1> DEFINE l == Len(cs)  m == Max({n - l, 0})  pad == [k \in 1 .. m |-> c]
<1>1. l \in Nat
  BY DEF IsSeq
<1>2. m = IF n - l >= 0 THEN n - l ELSE 0
  BY <1>1, MaxOfTwo
<1>3. m \in Nat
  BY <1>1, <1>2
<1> HIDE DEF m
<1>4. IsSeq(pad) /\ Len(pad) = m /\ \A k \in 1 .. m : pad[k] = c
  BY <1>3, FunctionIsSeq
<1>5. PadLeft(cs, n, c) = pad \o cs
  BY DEF PadLeft, m
<1> HIDE DEF pad
<1>6. /\ IsSeq(pad \o cs) /\ Len(pad \o cs) = m + l
      /\ \A k \in 1 .. m + l : (pad \o cs)[k] = IF k <= m THEN pad[k] ELSE cs[k - m]
  BY <1>4, SeqConcat
<1>7. n <= l => pad = << >>
  <2> SUFFICES ASSUME n <= l PROVE pad = << >>
    OBVIOUS
  <2>1. m = 0
    BY <1>1, <1>2
  <2> QED BY <1>4, <2>1, SeqEmpty
<1>8. n <= l => pad \o cs = cs
  BY <1>7, SeqEmpty
<1> DEFINE p == pad \o cs
<1> HIDE DEF p
<1>9. Len(p) = IF n >= l THEN n ELSE l
  BY <1>1, <1>2, <1>6 DEF p
<1>10. ASSUME NEW k \in 1 .. Len(p)
       PROVE  p[k] = IF k <= Len(p) - l THEN c ELSE cs[k - (Len(p) - l)]
  <2>1. Len(p) = m + l /\ Len(p) - l = m
    BY <1>1, <1>3, <1>6 DEF p
  <2>2. k \in 1 .. m + l
    BY <2>1
  <2>3. p[k] = IF k <= m THEN pad[k] ELSE cs[k - m]
    BY <1>6, <2>2 DEF p
  <2>4. k <= m => pad[k] = c
    BY <1>3, <1>4, <2>2
  <2> QED BY <2>1, <2>3, <2>4
<1> QED BY <1>5, <1>6, <1>8, <1>9, <1>10 DEF p

(* What a format may hold, by conversion.                                   *)
LEMMA ElementKinds ==
  ASSUME NEW e \in FmtElements
  PROVE  \/ e[1] \in {"put", "s", "S"} /\ e[2] \in Seq(1 .. 255)
         \/ e[1] = "c" /\ \E c \in 1 .. 255 : e[2] = <<c>>
         \/ e[1] \in {"a", "x"} /\ \E v \in 0 .. Power(2, IntBits) - 1 : e[2] = <<v>>
         \/ /\ e[1] \in {"d", "b"}
            /\ \E v \in -Power(2, IntBits - 1) .. Power(2, IntBits - 1) - 1 : e[2] = <<v>>
<1>1. CASE e \in {"put", "s", "S"} \X Seq(1 .. 255)
  <2>1. e[1] \in {"put", "s", "S"} /\ e[2] \in Seq(1 .. 255)
    BY <1>1
  <2> QED BY <2>1
<1>2. CASE e \in {"c"} \X {<<c>> : c \in 1 .. 255}
  <2>1. e[1] = "c" /\ e[2] \in {<<c>> : c \in 1 .. 255}
    BY <1>2
  <2> QED BY <2>1
<1>3. CASE e \in {"a", "x"} \X {<<v>> : v \in 0 .. Power(2, IntBits) - 1}
  <2>1. e[1] \in {"a", "x"} /\ e[2] \in {<<v>> : v \in 0 .. Power(2, IntBits) - 1}
    BY <1>3
  <2> QED BY <2>1
<1>4. CASE e \in {"d", "b"} \X {<<v>> : v \in -Power(2, IntBits - 1) .. Power(2, IntBits - 1) - 1}
  <2>1. /\ e[1] \in {"d", "b"}
        /\ e[2] \in {<<v>> : v \in -Power(2, IntBits - 1) .. Power(2, IntBits - 1) - 1}
    BY <1>4
  <2> QED BY <2>1
<1> QED BY <1>1, <1>2, <1>3, <1>4 DEF FmtElements

(* An int printed as size_t.                                                *)
LEMMA IntPrinted ==
  ASSUME NEW v \in -Power(2, IntBits - 1) .. Power(2, IntBits - 1) - 1
  PROVE  /\ SizeT(v) = IF v < 0 THEN v + Power(2, IntBits) ELSE v
         /\ SizeT(v) \in 0 .. Power(2, IntBits) - 1
<1> DEFINE h == Power(2, IntBits - 1)  w == Power(2, IntBits)
           u == IF v < 0 THEN v + w ELSE v
<1>1. h \in Nat \ {0} /\ w \in Nat \ {0} /\ w = 2 * h
  <2>1. IntBits \in Nat /\ IntBits >= 8
    BY ConsoleAssumption
  <2>2. IntBits - 1 \in Nat /\ IntBits = (IntBits - 1) + 1
    BY <2>1
  <2> DEFINE n == IntBits - 1
  <2> HIDE DEF n
  <2>3. Power(2, n) \in Nat \ {0} /\ Power(2, n + 1) = 2 * Power(2, n)
    BY <2>2, Doubling DEF n
  <2> QED BY <2>2, <2>3 DEF n
<1>2. SizeT(v) = v % w
  BY DEF SizeT, Word
<1> HIDE DEF h, w
<1>3. v \in -h .. h - 1
  BY DEF h
<1>4. u \in 0 .. w - 1
  BY <1>1, <1>3
<1>5. v % w = u
  <2>1. CASE v >= 0
    <3>1. v \in 0 .. w - 1
      BY <1>1, <1>3, <2>1
    <3> QED BY <1>1, <1>3, <2>1, <3>1, ModSmall
  <2>2. CASE v < 0
    <3>1. v % w \in 0 .. w - 1 /\ v = w * (v \div w) + (v % w) /\ v \div w \in Int
      BY <1>1, <1>3, Z3
    <3>2. u = v + w
      BY <2>2
    <3> DEFINE q == v \div w  r == v % w
    <3> HIDE DEF q, r, u
    <3>3. q \in Int /\ r \in 0 .. w - 1 /\ v = w * q + r /\ u \in 0 .. w - 1
      BY <1>4, <3>1 DEF q, r
    <3>4. ~(q >= 0)
      <4> SUFFICES ASSUME q >= 0 PROVE FALSE
        OBVIOUS
      <4>1. w * q \in Nat
        BY <1>1, <3>3
      <4> QED BY <1>1, <1>3, <2>2, <3>3, <4>1
    <3>5. ~(q <= -2)
      <4> SUFFICES ASSUME q <= -2 PROVE FALSE
        OBVIOUS
      <4>1. PICK s \in Nat : q = -2 - s
        <5>1. -2 - q \in Nat /\ q = -2 - (-2 - q)
          BY <3>3
        <5> QED BY <5>1
      <4>2. w * q = (-2) * w - w * s /\ w * s \in Nat
        BY <1>1, <4>1
      <4> QED BY <1>1, <1>3, <3>3, <4>2
    <3>6. q = -1
      BY <3>3, <3>4, <3>5
    <3>7. w * q = -w
      BY <1>1, <3>6
    <3> QED BY <1>1, <1>3, <3>2, <3>3, <3>7 DEF r
  <2> QED BY <1>1, <1>3, <2>1, <2>2
<1> QED BY <1>2, <1>4, <1>5 DEF w

(* What a conversion leaves in the buffer is what it means.                 *)
LEMMA ConvertedMeans ==
  ASSUME NEW e \in FmtElements, NEW b
  PROVE  /\ e[1] # "put" => Converted(b, e[1], e[2]) = Meaning(e[1], e[2])
         /\ e[1] = "put" => e[2] = Meaning(e[1], e[2])
         /\ IsSeq(Meaning(e[1], e[2]))
<1>0. IntBits \in Nat /\ IntBits >= 8 /\ IntBits \div 4 \in Nat
  <2>1. IntBits \in Nat /\ IntBits >= 8
    BY ConsoleAssumption
  <2> QED BY <2>1, DivDef
<1>1. ASSUME NEW v \in 0 .. Power(2, IntBits) - 1, NEW base \in {2, 10, 16}
      PROVE  /\ IsSeq(Numeral(v, base)) /\ Numeral(v, base) = Digits(v, base)
             /\ UtosDigits(v, base, 0) = Numeral(v, base)
  <2>1. base \in Nat /\ base > 1 /\ v \in Nat
    <3>1. Power(2, IntBits) \in Nat
      BY <1>0, Doubling
    <3> QED BY <3>1
  <2>2. Numeral(v, base) = Digits(v, base) /\ IsSeq(Digits(v, base)) /\ Len(Digits(v, base)) >= 1
    BY <2>1, NumeralIs, DigitsSeq
  <2>3. PadLeft(Digits(v, base), 0, Digit(0)) = Digits(v, base)
    <3>1. 0 <= Len(Digits(v, base))
      BY <2>2 DEF IsSeq
    <3> QED BY <2>2, <3>1, PadSeq
  <2> QED BY <2>2, <2>3 DEF UtosDigits
<1>2. ASSUME NEW cs, IsSeq(cs) PROVE IsSeq(<<Zero, 120>> \o cs) /\ << >> \o cs = cs
  <2>1. IsSeq(<<Zero, 120>>)
    <3>1. <<Zero, 120>> \in Seq({Zero, 120})
      OBVIOUS
    <3> QED BY <3>1, SetInSeq
  <2> DEFINE zx == <<Zero, 120>>
  <2> HIDE DEF zx
  <2>2. IsSeq(zx \o cs)
    BY <1>2, <2>1, SeqConcat DEF zx
  <2> QED BY <1>2, <2>2, SeqEmpty DEF zx
<1>3. CASE e[1] \in {"put", "s", "S"} /\ e[2] \in Seq(1 .. 255)
  <2>1. IsSeq(e[2])
    BY <1>3, SetInSeq
  <2>2. Meaning(e[1], e[2]) = e[2]
    BY <1>3 DEF Meaning
  <2>3. e[1] = "s" => Converted(b, e[1], e[2]) = e[2]
    BY DEF Converted
  <2>4. ASSUME e[1] = "S" PROVE Converted(b, e[1], e[2]) = e[2]
    <3> DEFINE arg == e[2]
               bytes == [k \in DOMAIN arg |-> arg[k] % 256]
    <3>1. arg \in Seq(1 .. 255)
      BY <1>3
    <3> HIDE DEF arg, bytes
    <3>2. DOMAIN arg = 1 .. Len(arg) /\ Len(arg) \in Nat /\ \A k \in DOMAIN arg : arg[k] \in 1 .. 255
      <4> DEFINE S == 1 .. 255
      <4>1. arg \in Seq(S)
        BY <3>1
      <4> HIDE DEF S
      <4>2. Len(arg) \in Nat /\ arg \in [1 .. Len(arg) -> S]
        BY <4>1, LenProperties
      <4> QED BY <4>2 DEF S
    <3>3. \A k \in DOMAIN arg : arg[k] % 256 = arg[k]
      <4> TAKE k \in DOMAIN arg
      <4>1. arg[k] \in 0 .. 256 - 1
        BY <3>2
      <4> QED BY <4>1, ModSmall
    <3>4. IsSeq(arg)
      BY <3>1, SetInSeq
    <3>5. bytes = arg
      BY <3>2, <3>3, <3>4 DEF IsSeq, bytes
    <3>6. {k \in DOMAIN bytes : bytes[k] = NUL} = {}
      <4>1. \A k \in DOMAIN bytes : bytes[k] # NUL
        <5>1. \A k \in DOMAIN arg : arg[k] # NUL
          <6> TAKE k \in DOMAIN arg
          <6> DEFINE c == arg[k]
          <6>1. c \in 1 .. 255
            BY <3>2
          <6> HIDE DEF c
          <6>2. c # NUL
            BY <6>1 DEF NUL
          <6> QED BY <6>2 DEF c
        <5> QED BY <3>5, <5>1
      <4> QED BY <4>1
    <3>7. Converted(b, "S", arg)
            = (IF {k \in DOMAIN bytes : bytes[k] = NUL} = {} THEN bytes
               ELSE SubSeq(bytes, 1, Min({k \in DOMAIN bytes : bytes[k] = NUL}) - 1))
      BY DEF Converted, bytes
    <3> QED BY <2>4, <3>5, <3>6, <3>7 DEF arg
  <2> QED BY <1>3, <2>1, <2>2, <2>3, <2>4
<1>4. CASE e[1] = "c" /\ \E c \in 1 .. 255 : e[2] = <<c>>
  <2>1. PICK c \in 1 .. 255 : e[2] = <<c>>
    BY <1>4
  <2>2. e[2][1] # NUL /\ IsSeq(e[2])
    BY <2>1, SeqOne DEF NUL
  <2>3. Meaning(e[1], e[2]) = e[2]
    BY <1>4 DEF Meaning
  <2>4. Converted(b, e[1], e[2]) = e[2]
    BY <1>4, <2>2 DEF Converted
  <2> QED BY <1>4, <2>2, <2>3, <2>4
<1>5. CASE e[1] \in {"a", "x"} /\ \E v \in 0 .. Power(2, IntBits) - 1 : e[2] = <<v>>
  <2>1. PICK v \in 0 .. Power(2, IntBits) - 1 : e[2] = <<v>>
    BY <1>5
  <2> DEFINE arg == e[2]  zx == <<Zero, 120>>
  <2>2. arg[1] = v
    BY <2>1
  <2>3. IsSeq(Numeral(v, 16)) /\ Numeral(v, 16) = Digits(v, 16)
        /\ UtosDigits(v, 16, 0) = Numeral(v, 16)
    BY <1>1
  <2> HIDE DEF arg
  <2>4. \A n : Utos(v, 16, n) = zx \o UtosDigits(v, 16, n)
    BY DEF Utos, Zero
  <2>5. UtosDigits(v, 16, IntBits \div 4) = PadLeft(Numeral(v, 16), IntBits \div 4, Zero)
    <3>1. Digit(0) = Zero
      BY DEF Digit, Zero
    <3> QED BY <2>3, <3>1 DEF UtosDigits
  <2>6. IsSeq(PadLeft(Numeral(v, 16), IntBits \div 4, Zero))
    BY <1>0, <2>3, PadSeq
  <2> DEFINE num == Numeral(v, 16)  pad == PadLeft(Numeral(v, 16), IntBits \div 4, Zero)
  <2>7. e[1] = "a" => Meaning(e[1], arg) = zx \o pad /\ Converted(b, e[1], arg) = Utos(v, 16, IntBits \div 4)
    BY <2>2 DEF Meaning, Converted
  <2>8. e[1] = "x" => Meaning(e[1], arg) = zx \o num /\ Converted(b, e[1], arg) = Utos(v, 16, 0)
    BY <2>2 DEF Meaning, Converted
  <2>9. IsSeq(zx \o num) /\ IsSeq(zx \o pad)
    BY <1>2, <2>3, <2>6
  <2> HIDE DEF num, pad, zx
  <2>10. Utos(v, 16, IntBits \div 4) = zx \o pad /\ Utos(v, 16, 0) = zx \o num
    BY <2>3, <2>4, <2>5 DEF num, pad
  <2> QED BY <1>5, <2>7, <2>8, <2>9, <2>10 DEF arg
<1>6. CASE /\ e[1] \in {"d", "b"}
           /\ \E v \in -Power(2, IntBits - 1) .. Power(2, IntBits - 1) - 1 : e[2] = <<v>>
  <2>1. PICK v \in -Power(2, IntBits - 1) .. Power(2, IntBits - 1) - 1 : e[2] = <<v>>
    BY <1>6
  <2> DEFINE arg == e[2]  u == SizeT(v)
  <2>2. arg[1] = v
    BY <2>1
  <2>3. u \in 0 .. Power(2, IntBits) - 1 /\ u = IF v < 0 THEN v + Power(2, IntBits) ELSE v
    BY IntPrinted
  <2> HIDE DEF arg, u
  <2>4. \A base \in {2, 10} : /\ IsSeq(Numeral(u, base))
                              /\ Utos(u, base, 0) = << >> \o UtosDigits(u, base, 0)
                              /\ UtosDigits(u, base, 0) = Numeral(u, base)
    <3> TAKE base \in {2, 10}
    <3>1. base \in {2, 10, 16} /\ base # 16
      OBVIOUS
    <3>2. IsSeq(Numeral(u, base)) /\ UtosDigits(u, base, 0) = Numeral(u, base)
      BY <1>1, <2>3, <3>1
    <3>3. Utos(u, base, 0) = << >> \o UtosDigits(u, base, 0)
      BY <3>1 DEF Utos
    <3> QED BY <3>2, <3>3
  <2>5. \A base \in {2, 10} : IsSeq(Numeral(u, base)) /\ Utos(u, base, 0) = Numeral(u, base)
    BY <1>2, <2>4
  <2>6. e[1] = "d" => /\ Meaning(e[1], arg) = Numeral(u, 10)
                      /\ Converted(b, e[1], arg) = Utos(u, 10, 0)
    BY <2>2, <2>3 DEF Meaning, Converted, u
  <2>7. e[1] = "b" => /\ Meaning(e[1], arg) = Numeral(u, 2)
                      /\ Converted(b, e[1], arg) = Utos(u, 2, 0)
    BY <2>2, <2>3 DEF Meaning, Converted, u
  <2> QED BY <1>6, <2>5, <2>6, <2>7 DEF arg
<1> QED BY <1>3, <1>4, <1>5, <1>6, ElementKinds

-----------------------------------------------------------------------------
(* A string that printf puts together from its parts.                       *)

(* The partial results of joining the first n sequences of ss.              *)
JoinedOne(f, ss, sep, k) ==
  CASE k = 0 -> << >> [] k = 1 -> ss[1] [] OTHER -> f[k - 1] \o sep \o ss[k]
JoinedUpTo(f, ss, sep, n) == f = [k \in 0 .. n |-> JoinedOne(f, ss, sep, k)]

(* The recursion of Joined has a solution.                                  *)
LEMMA JoinsExist ==
  ASSUME NEW ss, NEW sep, NEW n \in Nat
  PROVE  \E f : JoinedUpTo(f, ss, sep, n)
<1> DEFINE T == {m \in Nat : \E f : JoinedUpTo(f, ss, sep, m)}
<1>1. 0 \in T
  <2>1. JoinedUpTo([k \in 0 .. 0 |-> << >>], ss, sep, 0)
    BY DEF JoinedUpTo, JoinedOne
  <2> QED BY <2>1
<1>2. ASSUME NEW m \in Nat, m \in T PROVE m + 1 \in T
  <2>1. PICK f : JoinedUpTo(f, ss, sep, m)
    BY <1>2
  <2> DEFINE q == [k \in 0 .. m + 1 |-> IF k = m + 1 THEN JoinedOne(f, ss, sep, k) ELSE f[k]]
  <2>2. ASSUME NEW k \in 0 .. m + 1 PROVE q[k] = JoinedOne(q, ss, sep, k)
    <3>1. k # 0 => q[k - 1] = f[k - 1]
      OBVIOUS
    <3>2. JoinedOne(q, ss, sep, k) = JoinedOne(f, ss, sep, k)
      <4> HIDE DEF q
      <4> QED BY <3>1 DEF JoinedOne
    <3>3. CASE k = m + 1
      BY <3>2, <3>3
    <3>4. CASE k # m + 1
      <4>1. k \in 0 .. m
        BY <3>4
      <4>2. f[k] = JoinedOne(f, ss, sep, k)
        BY <2>1, <4>1 DEF JoinedUpTo
      <4>3. q[k] = f[k]
        BY <3>4
      <4> QED BY <3>2, <4>2, <4>3
    <3> QED BY <3>3, <3>4
  <2>3. JoinedUpTo(q, ss, sep, m + 1)
    BY <2>2 DEF JoinedUpTo
  <2> QED BY <2>3
<1> HIDE DEF T
<1>3. n \in T
  BY <1>1, <1>2, NatSetInduction
<1> QED BY <1>3 DEF T

(* Joined is the last one of the partial results.                           *)
LEMMA JoinedIs ==
  ASSUME NEW ss, Len(ss) \in Nat, NEW sep
  PROVE  \E f : JoinedUpTo(f, ss, sep, Len(ss)) /\ Joined(ss, sep) = f[Len(ss)]
<1> DEFINE n == Len(ss)  f == CHOOSE f : JoinedUpTo(f, ss, sep, n)
<1>1. JoinedUpTo(f, ss, sep, n)
  BY JoinsExist
<1>2. Joined(ss, sep) = f[n]
  BY DEF Joined, JoinedUpTo, JoinedOne
<1> HIDE DEF f
<1> QED BY <1>1, <1>2

(* Partial results depend on the sequences joined so far only.              *)
LEMMA JoinsSame ==
  ASSUME NEW ss, NEW tt, NEW sep, NEW m \in Nat, NEW n \in Nat, m <= n,
         NEW f, NEW g, JoinedUpTo(f, ss, sep, m), JoinedUpTo(g, tt, sep, n),
         \A k \in 1 .. m : ss[k] = tt[k]
  PROVE  f[m] = g[m]
<1> DEFINE T == {k \in Nat : k <= m => f[k] = g[k]}
<1>1. \A k \in 0 .. m : f[k] = JoinedOne(f, ss, sep, k) /\ g[k] = JoinedOne(g, tt, sep, k)
  <2>1. \A k \in 0 .. m : f[k] = JoinedOne(f, ss, sep, k)
    BY DEF JoinedUpTo
  <2>2. \A k \in 0 .. n : g[k] = JoinedOne(g, tt, sep, k)
    BY DEF JoinedUpTo
  <2> QED BY <2>1, <2>2
<1>2. 0 \in T
  BY <1>1 DEF JoinedOne
<1>3. ASSUME NEW k \in Nat, k \in T PROVE k + 1 \in T
  <2> SUFFICES ASSUME k + 1 <= m PROVE f[k + 1] = g[k + 1]
    OBVIOUS
  <2>1. f[k] = g[k] /\ ss[k + 1] = tt[k + 1]
    BY <1>3
  <2>2. (k + 1) - 1 = k /\ k + 1 # 0 /\ k + 1 \in 0 .. m
    OBVIOUS
  <2>3. JoinedOne(f, ss, sep, k + 1) = JoinedOne(g, tt, sep, k + 1)
    <3>1. CASE k + 1 = 1
      <4>1. ss[1] = tt[1]
        BY <2>1, <3>1
      <4>2. \A h, s : JoinedOne(h, s, sep, 1) = s[1]
        BY DEF JoinedOne
      <4> QED BY <3>1, <4>1, <4>2
    <3>2. CASE k + 1 # 1
      <4>1. \A h, s : JoinedOne(h, s, sep, k + 1) = h[k] \o sep \o s[k + 1]
        BY <2>2, <3>2 DEF JoinedOne
      <4> QED BY <2>1, <4>1
    <3> QED BY <3>1, <3>2
  <2> QED BY <1>1, <2>2, <2>3
<1> HIDE DEF T
<1>4. m \in T
  BY <1>2, <1>3, NatSetInduction
<1> QED BY <1>4 DEF T

(* Joining sequences gives a sequence, step by step.                        *)
LEMMA JoinedSteps ==
  ASSUME NEW ss, Len(ss) \in Nat, NEW sep, IsSeq(sep), \A k \in 1 .. Len(ss) : IsSeq(ss[k]),
         NEW f, JoinedUpTo(f, ss, sep, Len(ss))
  PROVE  /\ f[0] = << >>
         /\ Len(ss) > 0 => f[1] = ss[1]
         /\ \A k \in 1 .. Len(ss) : k > 1 => f[k] = f[k - 1] \o sep \o ss[k]
         /\ \A k \in 0 .. Len(ss) : IsSeq(f[k])
<1> DEFINE n == Len(ss)  T == {k \in Nat : k <= n => IsSeq(f[k])}
<1>1. \A k \in 0 .. n : f[k] = JoinedOne(f, ss, sep, k)
  BY DEF JoinedUpTo
<1>2. f[0] = << >>
  BY <1>1 DEF JoinedOne
<1>3. n > 0 => f[1] = ss[1]
  BY <1>1 DEF JoinedOne
<1>4. \A k \in 1 .. n : k > 1 => f[k] = f[k - 1] \o sep \o ss[k]
  <2> SUFFICES ASSUME NEW k \in 1 .. n, k > 1 PROVE f[k] = f[k - 1] \o sep \o ss[k]
    OBVIOUS
  <2>1. k # 0 /\ k # 1 /\ k \in 0 .. n
    OBVIOUS
  <2>2. JoinedOne(f, ss, sep, k) = f[k - 1] \o sep \o ss[k]
    BY <2>1, Zenon DEF JoinedOne
  <2> QED BY <1>1, <2>1, <2>2
<1>5. 0 \in T
  BY <1>2, SeqEmpty
<1>6. ASSUME NEW k \in Nat, k \in T PROVE k + 1 \in T
  <2> SUFFICES ASSUME k + 1 <= n PROVE IsSeq(f[k + 1])
    OBVIOUS
  <2>1. IsSeq(f[k]) /\ IsSeq(ss[k + 1]) /\ (k + 1) - 1 = k
    BY <1>6
  <2>2. CASE k = 0
    BY <1>3, <2>1, <2>2
  <2>3. CASE k # 0
    <3>1. f[k + 1] = f[k] \o sep \o ss[k + 1]
      <4>1. k + 1 \in 1 .. n /\ k + 1 > 1
        BY <2>3
      <4>2. f[k + 1] = f[(k + 1) - 1] \o sep \o ss[k + 1]
        BY <1>4, <4>1, Zenon
      <4> QED BY <2>1, <4>2, Zenon
    <3>2. IsSeq(f[k] \o sep)
      BY <2>1, SeqConcat
    <3> DEFINE a == f[k] \o sep  b == ss[k + 1]
    <3>3. IsSeq(a) /\ IsSeq(b)
      BY <2>1, <3>2
    <3> HIDE DEF a, b
    <3>4. IsSeq(a \o b)
      BY <3>3, SeqConcat
    <3> QED BY <3>1, <3>4 DEF a, b
  <2> QED BY <2>2, <2>3
<1> HIDE DEF T
<1>7. \A k \in 0 .. n : k \in T
  BY <1>5, <1>6, NatSetInduction
<1>8. \A k \in 0 .. n : IsSeq(f[k])
  BY <1>7 DEF T
<1> QED BY <1>2, <1>3, <1>4, <1>8

(* One more sequence at the end.                                            *)
JoinsMore(ss, sep, s) ==
  Joined(Append(ss, s), sep) = IF ss = << >> THEN s ELSE Joined(ss, sep) \o sep \o s
LEMMA JoinedAppend ==
  ASSUME NEW ss, IsSeq(ss), NEW sep, IsSeq(sep), \A k \in 1 .. Len(ss) : IsSeq(ss[k]),
         NEW s, IsSeq(s)
  PROVE  /\ IsSeq(Joined(ss, sep))
         /\ JoinsMore(ss, sep, s)
<1> DEFINE n == Len(ss)  tt == Append(ss, s)
<1>1. n \in Nat
  BY DEF IsSeq
<1>2. /\ IsSeq(tt) /\ Len(tt) = n + 1 /\ tt[n + 1] = s
      /\ \A k \in 1 .. n : tt[k] = ss[k]
  BY SeqAppend
<1>3. PICK f : JoinedUpTo(f, ss, sep, n) /\ Joined(ss, sep) = f[n]
  BY <1>1, JoinedIs
<1> HIDE DEF tt
<1>4. PICK g : JoinedUpTo(g, tt, sep, Len(tt)) /\ Joined(tt, sep) = g[Len(tt)]
  BY <1>1, <1>2, JoinedIs
<1>5. IsSeq(f[n])
  <2>1. Len(ss) \in Nat /\ JoinedUpTo(f, ss, sep, Len(ss)) /\ n \in 0 .. Len(ss)
    BY <1>1, <1>3
  <2>2. \A k \in 0 .. Len(ss) : IsSeq(f[k])
    BY <2>1, JoinedSteps
  <2> QED BY <2>1, <2>2
<1>6. f[n] = g[n]
  BY <1>1, <1>2, <1>3, <1>4, JoinsSame
<1>7. \A k \in 1 .. Len(tt) : IsSeq(tt[k])
  BY <1>1, <1>2
<1>8. /\ Len(tt) > 0 => g[1] = tt[1]
      /\ \A k \in 1 .. Len(tt) : k > 1 => g[k] = g[k - 1] \o sep \o tt[k]
  <2>1. Len(tt) \in Nat /\ JoinedUpTo(g, tt, sep, Len(tt))
    BY <1>1, <1>2, <1>4
  <2> HIDE DEF n
  <2>2. /\ Len(tt) > 0 => g[1] = tt[1]
        /\ \A k \in 1 .. Len(tt) : k > 1 => g[k] = g[k - 1] \o sep \o tt[k]
    BY <1>7, <2>1, JoinedSteps, Zenon
  <2> QED BY <2>2
<1>9. CASE n = 0
  <2>1. ss = << >>
    BY <1>9, SeqEmpty
  <2>2. g[1] = s
    BY <1>2, <1>8, <1>9
  <2>3. Joined(tt, sep) = s
    BY <1>2, <1>4, <1>9, <2>2
  <2> QED BY <1>3, <1>5, <2>1, <2>3 DEF tt, JoinsMore
<1>10. CASE n # 0
  <2>1. ss # << >>
    BY <1>10, SeqEmpty
  <2>2. n + 1 \in 1 .. Len(tt) /\ n + 1 > 1 /\ (n + 1) - 1 = n
    BY <1>1, <1>2, <1>10
  <2>3. g[n + 1] = g[n] \o sep \o s
    BY <1>2, <1>8, <2>2
  <2>4. Joined(tt, sep) = f[n] \o sep \o s
    BY <1>2, <1>4, <1>6, <2>3
  <2> QED BY <1>3, <1>5, <2>1, <2>4 DEF tt, JoinsMore
<1> QED BY <1>9, <1>10

(* printf's state between two conversions, and an element whose conversion  *)
(* says what it means.                                                      *)
OutOK(o) ==
  /\ o = [term |-> o.term, buf |-> o.buf, overrun |-> o.overrun]
  /\ TermOK(o.term) /\ IsSeq(o.term.log) /\ o.overrun \in BOOLEAN
Sound(e) ==
  /\ e[1] # "put" => \A b : Converted(b, e[1], e[2]) = Meaning(e[1], e[2])
  /\ e[1] = "put" => e[2] = Meaning(e[1], e[2])
  /\ IsSeq(Meaning(e[1], e[2]))
\* p is o after cs was printed.
Says(o, p, cs) ==
  /\ OutOK(p) /\ p.term.isready = o.term.isready /\ p.term.fg = o.term.fg
  /\ p.term.log = IF o.term.isready THEN o.term.log \o cs ELSE o.term.log

(* Every conversion of a format says what it means.                         *)
LEMMA SoundElements ==
  /\ \A e \in FmtElements : Sound(e)
  /\ \A cs : IsSeq(cs) => Sound(<<"put", cs>>) /\ Sound(<<"s", cs>>)
<1>1. ASSUME NEW e \in FmtElements PROVE Sound(e)
  <2>1. IsSeq(Meaning(e[1], e[2]))
    BY ConvertedMeans
  <2>2. e[1] # "put" => \A b : Converted(b, e[1], e[2]) = Meaning(e[1], e[2])
    BY ConvertedMeans
  <2>3. e[1] = "put" => e[2] = Meaning(e[1], e[2])
    BY ConvertedMeans
  <2> QED BY <2>1, <2>2, <2>3 DEF Sound
<1>2. ASSUME NEW cs, IsSeq(cs) PROVE Sound(<<"put", cs>>) /\ Sound(<<"s", cs>>)
  <2>1. Meaning("put", cs) = cs /\ Meaning("s", cs) = cs /\ \A b : Converted(b, "s", cs) = cs
    BY DEF Meaning, Converted
  <2> DEFINE x == <<"put", cs>>  y == <<"s", cs>>
  <2>2. x[1] = "put" /\ x[2] = cs /\ y[1] = "s" /\ y[2] = cs
    OBVIOUS
  <2> HIDE DEF x, y
  <2>3. Sound(x)
    BY <1>2, <2>1, <2>2 DEF Sound
  <2>4. Sound(y)
    BY <1>2, <2>1, <2>2 DEF Sound
  <2> QED BY <2>3, <2>4 DEF x, y
<1> QED BY <1>1, <1>2

(* puts says the text it is given.                                          *)
LEMMA PutsSays ==
  ASSUME NEW o, OutOK(o), NEW cs, IsSeq(cs), NEW p,
         p = [term |-> Puts(o.term, cs), buf |-> p.buf, overrun |-> p.overrun],
         p.overrun \in BOOLEAN
  PROVE  Says(o, p, In(cs, o.term.fg))
<1> DEFINE t == o.term  u == Puts(t, cs)
           log == IF t.isready THEN t.log \o In(cs, t.fg) ELSE t.log
<1>1. TermOK(t) /\ IsSeq(t.log)
  BY DEF OutOK
<1>2. p.term = u
  <2>1. p.term = [term |-> u, buf |-> p.buf, overrun |-> p.overrun].term
    OBVIOUS
  <2> HIDE DEF u
  <2> QED BY <2>1
<1> HIDE DEF t
<1>3. Printed(t, u, log)
  BY <1>1, PutsPrints
<1>4. IsSeq(log)
  BY <1>1, InSeq, SeqConcat
<1> HIDE DEF u, log
<1>5. TermOK(u) /\ u.isready = t.isready /\ u.fg = t.fg /\ u.log = log
  BY <1>3 DEF Printed
<1>6. OutOK(p)
  BY <1>2, <1>4, <1>5 DEF OutOK, u, t
<1> QED BY <1>2, <1>5, <1>6 DEF Says, log, t

(* One element of a format: its meaning is printed.                         *)
LEMMA ElementSays ==
  ASSUME NEW o, OutOK(o), NEW e, Sound(e)
  PROVE  /\ Says(o, Element(o, e), In(Meaning(e[1], e[2]), o.term.fg))
         /\ o.overrun => Element(o, e).overrun
<1> DEFINE p == Element(o, e)  m == Meaning(e[1], e[2])
<1>1. IsSeq(m)
  BY DEF Sound
<1>0. o = [term |-> o.term, buf |-> o.buf, overrun |-> o.overrun] /\ o.overrun \in BOOLEAN
  BY DEF OutOK
<1> HIDE DEF m
<1>2. CASE e[1] = "put"
  <2>1. e[2] = m
    BY <1>2 DEF Sound, m
  <2>2. p = [o EXCEPT !.term = Puts(@, e[2])]
    BY <1>2 DEF Element
  <2> HIDE DEF p
  <2>3. p = [o EXCEPT !.term = Puts(o.term, m)]
    BY <2>1, <2>2
  <2> DEFINE t == o.term  b == o.buf  r == o.overrun  u == Puts(o.term, m)
  <2>4. o = [term |-> t, buf |-> b, overrun |-> r]
    BY <1>0
  <2>5. p = [o EXCEPT !.term = u]
    BY <2>3
  <2> HIDE DEF t, b, r, u
  <2>6. p = [term |-> u, buf |-> b, overrun |-> r]
    BY <2>4, <2>5
  <2>7. p.buf = b /\ p.overrun = r
    BY <2>6
  <2>8. Says(o, p, In(m, o.term.fg))
    BY <1>0, <1>1, <2>6, <2>7, PutsSays DEF u, r
  <2> QED BY <2>7, <2>8 DEF p, m, r
<1>3. CASE e[1] # "put"
  <2> DEFINE b == Converted(o.buf, e[1], e[2])  r == o.overrun \/ Len(b) >= IntBits
             u == Puts(o.term, b)
  <2>1. b = m
    BY <1>3 DEF Sound, m
  <2>2. p = [term |-> u, buf |-> b, overrun |-> r]
    BY <1>3 DEF Element
  <2>3. r \in BOOLEAN /\ (o.overrun => r)
    OBVIOUS
  <2> HIDE DEF p, b, r
  <2>4. u = Puts(o.term, m)
    BY <2>1
  <2> HIDE DEF u
  <2>5. p.buf = b /\ p.overrun = r
    BY <2>2
  <2>6. Says(o, p, In(m, o.term.fg))
    BY <1>1, <2>2, <2>3, <2>4, <2>5, PutsSays
  <2> QED BY <2>3, <2>5, <2>6 DEF p, m
<1> QED BY <1>2, <1>3

(* What is said in two parts is said.                                       *)
LEMMA SaysMore ==
  ASSUME NEW o, IsSeq(o.term.log), NEW p, NEW q, NEW cs, NEW ds, IsSeq(cs), IsSeq(ds),
         Says(o, p, cs), Says(p, q, ds)
  PROVE  Says(o, q, cs \o ds)
<1>1. o.term.isready => p.term.log = o.term.log \o cs /\ q.term.log = (o.term.log \o cs) \o ds
  BY DEF Says
<1>2. (o.term.log \o cs) \o ds = o.term.log \o (cs \o ds)
  <2> DEFINE l == o.term.log
  <2>1. IsSeq(l)
    OBVIOUS
  <2> HIDE DEF l
  <2>2. (l \o cs) \o ds = l \o (cs \o ds)
    BY <2>1, SeqAssociative
  <2> QED BY <2>2 DEF l
<1>3. ~o.term.isready => q.term.log = o.term.log
  BY DEF Says
<1> QED BY <1>1, <1>2, <1>3 DEF Says

-----------------------------------------------------------------------------
(* printf: the head of a message, its time stamp, its text.                 *)

(* terminal_setcolor (terminal.c:34) changes the colour and nothing else.   *)
LEMMA ColourSet ==
  ASSUME NEW t, TermOK(t), NEW fg
  PROVE  LET u == TerminalSetcolor(t, fg)
         IN TermOK(u) /\ u.isready = t.isready /\ u.fg = fg /\ u.log = t.log
<1> DEFINE u == TerminalSetcolor(t, fg)
<1>1. Shape(t, t.isready, t.chr_index, t.fg, t.log, t.paper, t.fb_buffer, t.fb_mmio)
  BY DEF TermOK, Terminal
<1>2. u = [t EXCEPT !.fg = fg]
  BY DEF TerminalSetcolor
<1> HIDE DEF u
<1>3. Shape(u, t.isready, t.chr_index, fg, t.log, t.paper, t.fb_buffer, t.fb_mmio)
  BY <1>1, <1>2, ShapeColoured
<1>4. /\ u.isready = t.isready /\ u.chr_index = t.chr_index /\ u.fg = fg /\ u.log = t.log
      /\ u.paper = t.paper /\ u.fb_buffer = t.fb_buffer /\ u.fb_mmio = t.fb_mmio
  BY <1>3 DEF Shape
<1>5. Terminal(u)
  BY <1>3, <1>4 DEF TermOK, Terminal
<1>6. \A top : RollAt(t, top) => RollAt(u, top)
  BY <1>4 DEF RollAt
<1>7. TermOK(u)
  BY <1>5, <1>6 DEF TermOK
<1> QED BY <1>4, <1>7 DEF u

(* Nothing is said by nothing.                                              *)
LEMMA SaysNothing ==
  ASSUME NEW o, OutOK(o)
  PROVE  Says(o, o, << >>)
<1>1. o.term.log \o << >> = o.term.log
  BY SeqEmpty DEF OutOK
<1> QED BY <1>1 DEF Says

(* The elements of a format, one after the other.                           *)
BodyOne(g, o, fmt, k) == IF k = 0 THEN o ELSE Element(g[k - 1], fmt[k])
BodyUpTo(f, o, fmt, n) == f = [k \in 0 .. n |-> BodyOne(f, o, fmt, k)]

(* The recursion over a format has a solution.                              *)
LEMMA BodyExists ==
  ASSUME NEW o, NEW fmt, NEW n \in Nat
  PROVE  \E f : BodyUpTo(f, o, fmt, n)
<1> DEFINE T == {m \in Nat : \E f : BodyUpTo(f, o, fmt, m)}
<1>1. 0 \in T
  <2>1. BodyUpTo([k \in 0 .. 0 |-> o], o, fmt, 0)
    BY DEF BodyUpTo, BodyOne
  <2> QED BY <2>1
<1>2. ASSUME NEW m \in Nat, m \in T PROVE m + 1 \in T
  <2>1. PICK f : BodyUpTo(f, o, fmt, m)
    BY <1>2
  <2> DEFINE q == [k \in 0 .. m + 1 |-> IF k = m + 1 THEN BodyOne(f, o, fmt, k) ELSE f[k]]
  <2>2. ASSUME NEW k \in 0 .. m + 1 PROVE q[k] = BodyOne(q, o, fmt, k)
    <3>1. k # 0 => q[k - 1] = f[k - 1]
      OBVIOUS
    <3>2. BodyOne(q, o, fmt, k) = BodyOne(f, o, fmt, k)
      <4> HIDE DEF q
      <4> QED BY <3>1 DEF BodyOne
    <3>3. CASE k = m + 1
      BY <3>2, <3>3
    <3>4. CASE k # m + 1
      <4>1. k \in 0 .. m
        BY <3>4
      <4>2. f[k] = BodyOne(f, o, fmt, k)
        BY <2>1, <4>1 DEF BodyUpTo
      <4>3. q[k] = f[k]
        BY <3>4
      <4> QED BY <3>2, <4>2, <4>3
    <3> QED BY <3>3, <3>4
  <2>3. BodyUpTo(q, o, fmt, m + 1)
    BY <2>2 DEF BodyUpTo
  <2> QED BY <2>3
<1> HIDE DEF T
<1>3. n \in T
  BY <1>1, <1>2, NatSetInduction
<1> QED BY <1>3 DEF T

(* Joining with nothing in between.                                         *)
JoinsPlainly(f, ss, n) ==
  /\ f[0] = << >>
  /\ \A k \in 1 .. n : f[k] = f[k - 1] \o ss[k]
  /\ \A k \in 0 .. n : IsSeq(f[k])

(* Text joined in one colour is joined text in that colour.                 *)
LEMMA JoinedPlain ==
  ASSUME NEW ss, NEW n \in Nat, Len(ss) = n, \A k \in 1 .. n : IsSeq(ss[k])
  PROVE  \E f : Joined(ss, << >>) = f[n] /\ JoinsPlainly(f, ss, n)
<1> DEFINE sep == << >>
<1>5. IsSeq(sep)
  BY SeqEmpty
<1> HIDE DEF sep
<1>6. PICK f : JoinedUpTo(f, ss, sep, Len(ss)) /\ Joined(ss, sep) = f[Len(ss)]
  BY JoinedIs
<1>7. /\ f[0] = << >>
      /\ Len(ss) > 0 => f[1] = ss[1]
      /\ \A k \in 1 .. Len(ss) : k > 1 => f[k] = f[k - 1] \o sep \o ss[k]
      /\ \A k \in 0 .. Len(ss) : IsSeq(f[k])
  BY <1>5, <1>6, JoinedSteps
<1>8. ASSUME NEW k \in 1 .. n PROVE f[k] = f[k - 1] \o ss[k]
  <2>1. k \in 1 .. Len(ss) /\ k - 1 \in 0 .. Len(ss) /\ IsSeq(ss[k])
    OBVIOUS
  <2>2. CASE k = 1
    <3>1. f[1] = ss[1] /\ << >> \o ss[1] = ss[1]
      BY <1>7, <2>1, <2>2, SeqEmpty
    <3>2. k - 1 = 0
      BY <2>2
    <3> QED BY <1>7, <2>2, <3>1, <3>2
  <2>3. CASE k > 1
    <3>1. f[k] = f[k - 1] \o sep \o ss[k]
      BY <1>7, <2>1, <2>3, Zenon
    <3>2. f[k - 1] \o sep = f[k - 1]
      BY <1>7, <2>1, SeqEmpty DEF sep
    <3> QED BY <3>1, <3>2, Zenon
  <2>4. k = 1 \/ k > 1
    OBVIOUS
  <2> QED BY <2>2, <2>3, <2>4, Zenon
<1>9. \A k \in 1 .. n : f[k] = f[k - 1] \o ss[k]
  BY <1>8
<1>10. Joined(ss, sep) = f[n] /\ JoinsPlainly(f, ss, n)
  BY <1>6, <1>7, <1>9, Zenon DEF JoinsPlainly
<1> QED BY <1>10, Zenon DEF sep

(* What the elements of a format mean.                                      *)
Meanings(fmt) == [k \in DOMAIN fmt |-> Meaning(fmt[k][1], fmt[k][2])]

(* The meanings of the parts of a format are sequences.                     *)
LEMMA MeaningsAre ==
  ASSUME NEW fmt, IsSeq(fmt), \A k \in 1 .. Len(fmt) : Sound(fmt[k])
  PROVE  /\ Len(Meanings(fmt)) = Len(fmt)
         /\ \A k \in 1 .. Len(fmt) : /\ Meanings(fmt)[k] = Meaning(fmt[k][1], fmt[k][2])
                                     /\ IsSeq(Meanings(fmt)[k])
<1> DEFINE ss == Meanings(fmt)  n == Len(fmt)
<1>1. n \in Nat /\ DOMAIN fmt = 1 .. n
  BY SeqDomain DEF IsSeq
<1>2. ss = [k \in 1 .. n |-> Meaning(fmt[k][1], fmt[k][2])]
  BY <1>1 DEF Meanings
<1> HIDE DEF ss
<1>3. \A k \in 1 .. n : ss[k] = Meaning(fmt[k][1], fmt[k][2])
  BY <1>2
<1>4. ss = [k \in 1 .. n |-> ss[k]]
  BY <1>2
<1>5. Len(ss) = n
  BY <1>1, <1>4, FunctionIsSeq
<1>6. \A k \in 1 .. n : IsSeq(ss[k])
  BY <1>3 DEF Sound
<1> QED BY <1>3, <1>5, <1>6 DEF ss

(* What a format says, in white.                                            *)
LEMMA BodySays ==
  ASSUME NEW o, OutOK(o), o.term.fg = White, NEW fmt, IsSeq(fmt),
         \A k \in 1 .. Len(fmt) : Sound(fmt[k])
  PROVE  /\ Says(o, Body(o, fmt), In(Joined(Meanings(fmt), << >>), White))
         /\ IsSeq(Joined(Meanings(fmt), << >>))
         /\ o.overrun => Body(o, fmt).overrun
<1> DEFINE n == Len(fmt)  ss == Meanings(fmt)
           f == CHOOSE f : BodyUpTo(f, o, fmt, n)  last == f[n]
<1>1. n \in Nat
  BY DEF IsSeq
<1>2. BodyUpTo(f, o, fmt, n)
  BY <1>1, BodyExists
<1>3. Body(o, fmt) = [f[n] EXCEPT !.term = TerminalSetcolor(@, White)]
  BY DEF Body, BodyUpTo, BodyOne
<1>4. /\ Len(ss) = n
      /\ \A k \in 1 .. n : ss[k] = Meaning(fmt[k][1], fmt[k][2]) /\ IsSeq(ss[k])
  BY MeaningsAre
<1> HIDE DEF f, n, ss
<1>5. PICK g : Joined(ss, << >>) = g[n] /\ JoinsPlainly(g, ss, n)
  BY <1>1, <1>4, JoinedPlain
<1>6. /\ g[0] = << >> /\ \A k \in 1 .. n : g[k] = g[k - 1] \o ss[k]
      /\ \A k \in 0 .. n : IsSeq(g[k])
  BY <1>5 DEF JoinsPlainly
<1>7. \A k \in 0 .. n : f[k] = BodyOne(f, o, fmt, k)
  BY <1>2 DEF BodyUpTo
<1> DEFINE S(k) == Says(o, f[k], In(g[k], White)) /\ (o.overrun => f[k].overrun)
           T == {k \in Nat : k <= n => S(k)}
<1>8. 0 \in T
  <2>1. f[0] = o
    BY <1>1, <1>7 DEF BodyOne
  <2>2. In(g[0], White) = << >>
    <3> DEFINE e == << >>
    <3>1. IsSeq(e) /\ Len(e) = 0
      BY SeqEmpty
    <3> HIDE DEF e
    <3>2. IsSeq(In(e, White)) /\ Len(In(e, White)) = 0
      BY <3>1, InSeq
    <3>3. In(e, White) = << >>
      BY <3>2, SeqEmpty
    <3>4. g[0] = e
      BY <1>6 DEF e
    <3> QED BY <3>3, <3>4
  <2>3. Says(o, o, << >>)
    BY SaysNothing
  <2> QED BY <2>1, <2>2, <2>3
<1>9. ASSUME NEW k \in Nat, k \in T PROVE k + 1 \in T
  <2> SUFFICES ASSUME k + 1 <= n PROVE S(k + 1)
    OBVIOUS
  <2>1. S(k)
    BY <1>1, <1>9
  <2>2. /\ k + 1 \in 1 .. n /\ k + 1 \in 0 .. n /\ k \in 0 .. n /\ k + 1 # 0 /\ (k + 1) - 1 = k
    BY <1>1
  <2> DEFINE p == f[k]  e == fmt[k + 1]  q == f[k + 1]
  <2>3. q = Element(p, e)
    BY <1>7, <2>2 DEF BodyOne
  <2>4. Sound(e)
    BY <2>2 DEF n
  <2>5. ss[k + 1] = Meaning(e[1], e[2]) /\ IsSeq(ss[k + 1])
    BY <1>4, <2>2
  <2>6. g[k + 1] = g[k] \o ss[k + 1] /\ IsSeq(g[k])
    <3>1. g[k + 1] = g[(k + 1) - 1] \o ss[k + 1]
      BY <1>6, <2>2, Zenon
    <3> QED BY <1>6, <2>2, <3>1, Zenon
  <2>7. Says(o, p, In(g[k], White)) /\ (o.overrun => p.overrun)
    BY <2>1
  <2> HIDE DEF p, e, q
  <2>8. OutOK(p) /\ p.term.fg = White
    BY <2>7 DEF Says
  <2>9. Says(p, q, In(ss[k + 1], White)) /\ (p.overrun => q.overrun)
    <3>1. /\ Says(p, Element(p, e), In(Meaning(e[1], e[2]), p.term.fg))
          /\ p.overrun => Element(p, e).overrun
      BY <2>4, <2>8, ElementSays
    <3> QED BY <2>3, <2>5, <2>8, <3>1, Zenon
  <2> DEFINE a == In(g[k], White)  b == In(ss[k + 1], White)
  <2>10. IsSeq(a) /\ IsSeq(b) /\ In(g[k] \o ss[k + 1], White) = a \o b
    <3>1. IsSeq(a) /\ IsSeq(b)
      BY <2>5, <2>6, InSeq
    <3> DEFINE x == g[k]  y == ss[k + 1]
    <3>2. IsSeq(x) /\ IsSeq(y)
      BY <2>5, <2>6
    <3> HIDE DEF x, y
    <3>3. In(x \o y, White) = In(x, White) \o In(y, White)
      BY <3>2, InConcat
    <3> QED BY <3>1, <3>3 DEF x, y
  <2>11. Says(o, p, a) /\ Says(p, q, b)
    BY <2>7, <2>9
  <2>12. In(g[k + 1], White) = a \o b
    BY <2>6, <2>10, Zenon
  <2>13. IsSeq(o.term.log)
    BY DEF OutOK
  <2> HIDE DEF a, b
  <2>14. Says(o, q, a \o b)
    BY <2>10, <2>11, <2>13, SaysMore
  <2> QED BY <2>7, <2>9, <2>12, <2>14, Zenon DEF q
<1> HIDE DEF T
<1>10. n \in T
  BY <1>1, <1>8, <1>9, NatSetInduction
<1>11. S(n)
  BY <1>1, <1>10 DEF T
<1> DEFINE cs == In(g[n], White)
<1>12. Says(o, last, cs) /\ (o.overrun => last.overrun)
  BY <1>11
<1> HIDE DEF cs, last
<1>13. Body(o, fmt) = [last EXCEPT !.term = TerminalSetcolor(@, White)]
  BY <1>3 DEF last
<1> DEFINE p == Body(o, fmt)  t == last.term  u == TerminalSetcolor(t, White)
           b == last.buf  r == last.overrun
<1>14. last = [term |-> t, buf |-> b, overrun |-> r] /\ TermOK(t) /\ IsSeq(t.log) /\ r \in BOOLEAN
  BY <1>12 DEF Says, OutOK
<1>15. TermOK(u) /\ u.isready = t.isready /\ u.fg = White /\ u.log = t.log
  BY <1>14, ColourSet
<1>16. p = [last EXCEPT !.term = u]
  BY <1>13
<1> HIDE DEF p, t, u, b, r
<1>17. p = [term |-> u, buf |-> b, overrun |-> r]
  BY <1>14, <1>16
<1>18. p.term = u /\ p.buf = b /\ p.overrun = r
  BY <1>17
<1>19. OutOK(p)
  BY <1>14, <1>15, <1>17, <1>18 DEF OutOK
<1>20. Says(o, p, cs)
  BY <1>12, <1>15, <1>18, <1>19 DEF Says, t
<1>21. o.overrun => p.overrun
  BY <1>12, <1>18 DEF r
<1>22. cs = In(Joined(ss, << >>), White) /\ IsSeq(Joined(ss, << >>))
  <2>1. n \in 0 .. n
    BY <1>1
  <2> QED BY <1>5, <1>6, <2>1, Zenon DEF cs
<1> QED BY <1>20, <1>21, <1>22, Zenon DEF p, ss

(* Memory u is m after cs was written from d on.                            *)
Poked(u, m, d, cs) ==
  /\ DOMAIN u = DOMAIN m
  /\ \A i \in DOMAIN m : i \in Int =>
       u[i] = IF d <= i /\ i < d + Len(cs) THEN cs[i - d + 1] ELSE m[i]

(* What Poke writes, and what it leaves.                                    *)
LEMMA PokeAt ==
  ASSUME NEW m, NEW d \in Int, NEW cs, IsSeq(cs)
  PROVE  Poked(Poke(m, d, cs), m, d, cs)
<1>1. Len(cs) \in Nat /\ DOMAIN cs = 1 .. Len(cs)
  BY SeqDomain DEF IsSeq
<1>2. DOMAIN Poke(m, d, cs) = DOMAIN m
  BY DEF Poke
<1>3. ASSUME NEW i \in DOMAIN m, i \in Int
      PROVE  Poke(m, d, cs)[i] = IF d <= i /\ i < d + Len(cs) THEN cs[i - d + 1] ELSE m[i]
  <2>1. Poke(m, d, cs)[i] = IF i - d + 1 \in DOMAIN cs THEN cs[i - d + 1] ELSE m[i]
    BY DEF Poke
  <2>2. i - d + 1 \in DOMAIN cs <=> d <= i /\ i < d + Len(cs)
    BY <1>1, <1>3
  <2> QED BY <2>1, <2>2
<1> QED BY <1>2, <1>3 DEF Poked

(* utos without padding.                                                    *)
LEMMA UtosPlain ==
  ASSUME NEW v \in Nat, NEW b \in {2, 10}
  PROVE  Utos(v, b, 0) = Digits(v, b)
<1>1. b \in Nat /\ b > 1 /\ b # 16
  OBVIOUS
<1> DEFINE ds == Digits(v, b)
<1>2. IsSeq(ds) /\ Len(ds) >= 1
  BY <1>1, DigitsSeq
<1> HIDE DEF ds
<1>3. PadLeft(ds, 0, Digit(0)) = ds
  <2>1. 0 <= Len(ds)
    BY <1>2 DEF IsSeq
  <2> QED BY <1>2, <2>1, PadSeq
<1>4. << >> \o ds = ds
  BY <1>2, SeqEmpty
<1>5. Utos(v, b, 0) = << >> \o PadLeft(ds, 0, Digit(0))
  BY <1>1 DEF Utos, UtosDigits, ds
<1> QED BY <1>3, <1>4, <1>5 DEF ds

(* A string that ends at place n is the n bytes before.                     *)
LEMMA StringTo ==
  ASSUME NEW m, NEW s \in Nat, NEW n \in Nat, DOMAIN m \subseteq Nat, s + n \in DOMAIN m,
         m[s + n] = NUL, \A i \in DOMAIN m : i >= s /\ i < s + n => m[i] # NUL
  PROVE  StrLen(m, s) = n /\ Chars(m, s) = [k \in 1 .. n |-> m[s + k - 1]]
<1> DEFINE N == {i \in DOMAIN m : i >= s /\ m[i] = NUL}
<1>1. N \in SUBSET Nat /\ s + n \in N /\ \A i \in N : s + n <= i
  OBVIOUS
<1>2. StrLen(m, s) = Min(N) - s
  BY DEF StrLen
<1> HIDE DEF N
<1>3. Min(N) \in N /\ \A i \in N : Min(N) <= i
  BY <1>1, MinIsLeast
<1>4. Min(N) = s + n
  <2>1. Min(N) \in Nat /\ s + n <= Min(N) /\ Min(N) <= s + n
    BY <1>1, <1>3
  <2> QED BY <2>1
<1>5. StrLen(m, s) = n
  BY <1>2, <1>4
<1> QED BY <1>5 DEF Chars

(* The string at s: its end, its length, its bytes.                         *)
LEMMA StringIsSeq ==
  ASSUME NEW m, NEW s \in Nat, DOMAIN m \subseteq Nat, Terminated(m, s)
  PROVE  /\ StrLen(m, s) \in Nat /\ s + StrLen(m, s) \in DOMAIN m
         /\ m[s + StrLen(m, s)] = NUL
         /\ \A i \in DOMAIN m : i >= s /\ i < s + StrLen(m, s) => m[i] # NUL
         /\ IsSeq(Chars(m, s)) /\ Len(Chars(m, s)) = StrLen(m, s)
         /\ \A k \in 1 .. StrLen(m, s) : Chars(m, s)[k] = m[s + k - 1]
<1> DEFINE N == {i \in DOMAIN m : i >= s /\ m[i] = NUL}  l == StrLen(m, s)  cs == Chars(m, s)
<1>1. N \in SUBSET Nat /\ N # {}
  BY DEF Terminated
<1>2. l = Min(N) - s
  BY DEF StrLen
<1>3. Min(N) \in N /\ \A i \in N : Min(N) <= i
  <2> HIDE DEF N
  <2> QED BY <1>1, MinIsLeast
<1> DEFINE e == Min(N)
<1>4. e \in DOMAIN m /\ e \in Nat /\ e >= s /\ m[e] = NUL
  BY <1>3
<1>5. \A i \in DOMAIN m : i >= s /\ m[i] = NUL => e <= i
  BY <1>3
<1> HIDE DEF e
<1>6. l = e - s
  BY <1>2 DEF e
<1>7. cs = [k \in 1 .. l |-> m[s + k - 1]]
  BY DEF Chars
<1> HIDE DEF l, N
<1>8. l \in Nat /\ s + l = e
  BY <1>4, <1>6
<1>9. \A i \in DOMAIN m : i >= s /\ i < s + l => m[i] # NUL
  <2> SUFFICES ASSUME NEW i \in DOMAIN m, i >= s, i < s + l, m[i] = NUL PROVE FALSE
    OBVIOUS
  <2>1. e <= i /\ i \in Nat
    BY <1>5
  <2> QED BY <1>4, <1>8, <2>1
<1>10. IsSeq(cs) /\ Len(cs) = l /\ \A k \in 1 .. l : cs[k] = m[s + k - 1]
  <2> HIDE DEF cs
  <2>1. \A k \in 1 .. l : cs[k] = m[s + k - 1]
    BY <1>7
  <2>2. cs = [k \in 1 .. l |-> cs[k]]
    BY <1>7
  <2> QED BY <1>8, <2>1, <2>2, FunctionIsSeq
<1> QED BY <1>4, <1>8, <1>9, <1>10 DEF l, cs

(* A number of at most m digits, printed.                                   *)
Short(v, b, m) ==
  /\ IsSeq(Digits(v, b)) /\ Len(Digits(v, b)) \in 1 .. m
  /\ \A k \in 1 .. Len(Digits(v, b)) :
       Digits(v, b)[k] \in Nat /\ Digits(v, b)[k] >= 48
  /\ Numeral(v, b) = Digits(v, b) /\ Utos(v, b, 0) = Digits(v, b)

(* A number that is small enough has few digits.                            *)
LEMMA ShortNumber ==
  ASSUME NEW b \in {2, 10}, NEW v \in Nat, NEW m \in Nat \ {0}, m <= 8, v < Power(b, m)
  PROVE  Short(v, b, m)
<1> DEFINE ds == Digits(v, b)
<1>1. b \in Nat /\ b > 1
  OBVIOUS
<1>2. Len(ds) <= m
  BY <1>1, FewDigits
<1>3. IsSeq(ds) /\ Len(ds) >= 1
  BY <1>1, DigitsSeq
<1>4. \A k \in 1 .. Len(ds) : ds[k] \in Nat /\ ds[k] >= 48
  BY <1>1, DigitsSeq
<1>5. Utos(v, b, 0) = ds
  BY UtosPlain
<1>6. Len(ds) \in Nat
  BY <1>3 DEF IsSeq
<1>7. Len(ds) <= IntBits
  <2>1. IntBits \in Nat /\ IntBits >= 8
    BY ConsoleAssumption
  <2> HIDE DEF ds
  <2> QED BY <1>2, <1>6, <2>1
<1>8. Numeral(v, b) = ds
  BY <1>1, <1>7, NumeralFits
<1> HIDE DEF ds
<1>9. Len(ds) \in 1 .. m
  BY <1>2, <1>3, <1>6
<1> QED BY <1>3, <1>4, <1>5, <1>8, <1>9 DEF ds, Short

(* Four digits for a number below 10000.                                    *)
LEMMA FourDigits ==
  ASSUME NEW v \in Nat, v < 10000
  PROVE  Short(v, 10, 4)
<1> DEFINE ten == 10  four == 4
<1>1. Power(ten, 4) = 10000
  <2> DEFINE P(n) == Power(ten, n)
  <2>1. \A n \in Nat : P(0) = 1 /\ P(n + 1) = ten * P(n) /\ P(n) \in Nat
    BY PowerStep
  <2>2. P(0 + 1) = ten * P(0) /\ P(1 + 1) = ten * P(1) /\ P(2 + 1) = ten * P(2) /\ P(3 + 1) = ten * P(3)
    BY <2>1
  <2>3. 0 + 1 = 1 /\ 1 + 1 = 2 /\ 2 + 1 = 3 /\ 3 + 1 = 4
    OBVIOUS
  <2>4. P(0) = 1
    BY <2>1
  <2> HIDE DEF P
  <2>5. P(1) = 10 /\ P(2) = 100 /\ P(3) = 1000 /\ P(4) = 10000
    BY <2>2, <2>3, <2>4
  <2> QED BY <2>5 DEF P
<1>2. ten \in {2, 10} /\ four \in Nat \ {0} /\ four <= 8 /\ v < Power(ten, four)
  BY <1>1
<1> HIDE DEF ten, four
<1>3. Short(v, ten, four)
  BY <1>2, ShortNumber
<1> QED BY <1>3 DEF ten, four

(* The buffer after each of timer_format's writes.                          *)
StampOf(b, sec, frac) ==
  LET clear == Poke(Poke(b, 0, [k \in 1 .. 4 |-> Blank]), 5, [k \in 1 .. 4 |-> Zero])
      left  == Poke(clear, 4 - Len(sec), Append(sec, NUL))
  IN Poke(Poke(left, 4, <<Dot>>), 9 - Len(frac), Append(frac, NUL))
StampByte(sec, frac, i) ==
  IF i < 4 - Len(sec) THEN Blank
  ELSE IF i < 4 THEN sec[i - (4 - Len(sec)) + 1]
  ELSE IF i = 4 THEN Dot
  ELSE IF i < 9 - Len(frac) THEN Zero
  ELSE frac[i - (9 - Len(frac)) + 1]
Stamped(ts, sec, frac) ==
  /\ DOMAIN ts = 0 .. 15 /\ ts[9] = NUL
  /\ Len(sec) <= 4 /\ Len(frac) <= 4 => \A i \in 0 .. 8 : ts[i] = StampByte(sec, frac, i)

(* What utos writes is a sequence.                                          *)
LEMMA UtosSeq ==
  ASSUME NEW v \in Nat, NEW b \in {2, 10}
  PROVE  IsSeq(Utos(v, b, 0))
<1>1. b \in Nat /\ b > 1
  OBVIOUS
<1>2. IsSeq(Digits(v, b))
  BY <1>1, DigitsSeq
<1> QED BY <1>2, UtosPlain

(* The bytes of a time stamp, from its seconds and its fraction.            *)
LEMMA StampBytes ==
  ASSUME NEW b, DOMAIN b = 0 .. 15, NEW sec, NEW frac, IsSeq(sec), IsSeq(frac)
  PROVE  Stamped(StampOf(b, sec, frac), sec, frac)
<1> DEFINE n == Len(sec)  m == Len(frac)
           bl == [k \in 1 .. 4 |-> Blank]  ze == [k \in 1 .. 4 |-> Zero]
           sn == Append(sec, NUL)  fn == Append(frac, NUL)  dot == <<Dot>>
           b1 == Poke(b, 0, bl)  b2 == Poke(b1, 5, ze)  b3 == Poke(b2, 4 - n, sn)
           b4 == Poke(b3, 4, dot)  ts == Poke(b4, 9 - m, fn)
<1>1. n \in Nat /\ m \in Nat
  BY DEF IsSeq
<1>2. /\ IsSeq(bl) /\ Len(bl) = 4 /\ \A k \in 1 .. 4 : bl[k] = Blank
      /\ IsSeq(ze) /\ Len(ze) = 4 /\ \A k \in 1 .. 4 : ze[k] = Zero
  BY FunctionIsSeq
<1>3. /\ IsSeq(sn) /\ Len(sn) = n + 1 /\ sn[n + 1] = NUL /\ \A k \in 1 .. n : sn[k] = sec[k]
      /\ IsSeq(fn) /\ Len(fn) = m + 1 /\ fn[m + 1] = NUL /\ \A k \in 1 .. m : fn[k] = frac[k]
  BY SeqAppend
<1>4. IsSeq(dot) /\ Len(dot) = 1 /\ dot[1] = Dot
  BY SeqOne
<1> HIDE DEF n, m, bl, ze, sn, fn, dot, b1, b2, b3, b4, ts
<1>5. /\ DOMAIN b1 = 0 .. 15
      /\ \A i \in 0 .. 15 : b1[i] = IF 0 <= i /\ i < 4 THEN bl[i + 1] ELSE b[i]
  <2>1. Poked(b1, b, 0, bl)
    BY <1>2, PokeAt DEF b1
  <2> QED BY <1>2, <2>1 DEF Poked
<1>6. /\ DOMAIN b2 = 0 .. 15
      /\ \A i \in 0 .. 15 : b2[i] = IF 5 <= i /\ i < 9 THEN ze[i - 4] ELSE b1[i]
  <2>1. Poked(b2, b1, 5, ze)
    BY <1>2, PokeAt DEF b2
  <2> QED BY <1>2, <1>5, <2>1 DEF Poked
<1>7. /\ DOMAIN b3 = 0 .. 15
      /\ \A i \in 0 .. 15 :
           b3[i] = IF 4 - n <= i /\ i < 5 THEN sn[i - (4 - n) + 1] ELSE b2[i]
  <2>1. 4 - n \in Int
    BY <1>1
  <2>2. Poked(b3, b2, 4 - n, sn)
    BY <1>3, <2>1, PokeAt DEF b3
  <2>3. (4 - n) + Len(sn) = 5
    BY <1>1, <1>3
  <2> QED BY <1>6, <2>2, <2>3 DEF Poked
<1>8. /\ DOMAIN b4 = 0 .. 15
      /\ \A i \in 0 .. 15 : b4[i] = IF i = 4 THEN Dot ELSE b3[i]
  <2>1. Poked(b4, b3, 4, dot)
    BY <1>4, PokeAt DEF b4
  <2> QED BY <1>4, <1>7, <2>1 DEF Poked
<1>9. /\ DOMAIN ts = 0 .. 15
      /\ \A i \in 0 .. 15 :
           ts[i] = IF 9 - m <= i /\ i < 10 THEN fn[i - (9 - m) + 1] ELSE b4[i]
  <2>1. 9 - m \in Int
    BY <1>1
  <2>2. Poked(ts, b4, 9 - m, fn)
    BY <1>3, <2>1, PokeAt DEF ts
  <2>3. (9 - m) + Len(fn) = 10
    BY <1>1, <1>3
  <2>4. DOMAIN ts = 0 .. 15
    BY <1>8, <2>2 DEF Poked
  <2>5. ASSUME NEW i \in 0 .. 15
        PROVE  ts[i] = IF 9 - m <= i /\ i < 10 THEN fn[i - (9 - m) + 1] ELSE b4[i]
    <3>1. i \in DOMAIN b4 /\ i \in Int
      BY <1>8
    <3>2. ts[i] = IF 9 - m <= i /\ i < (9 - m) + Len(fn) THEN fn[i - (9 - m) + 1] ELSE b4[i]
      BY <2>2, <3>1 DEF Poked
    <3> QED BY <2>3, <3>2
  <2> QED BY <2>4, <2>5
<1>10. ts[9] = NUL
  <2>1. 9 - (9 - m) + 1 = m + 1 /\ 9 - m <= 9
    BY <1>1
  <2> QED BY <1>3, <1>9, <2>1
<1>11. ASSUME n <= 4, m <= 4, NEW i \in 0 .. 8
       PROVE  ts[i] = IF i < 4 - n THEN Blank
                      ELSE IF i < 4 THEN sec[i - (4 - n) + 1]
                      ELSE IF i = 4 THEN Dot
                      ELSE IF i < 9 - m THEN Zero
                      ELSE frac[i - (9 - m) + 1]
  <2>0. i \in 0 .. 15 /\ 5 <= 9 - m
    BY <1>1, <1>11
  <2>1. CASE i < 4 - n
    <3>1. ts[i] = b4[i] /\ b4[i] = b3[i] /\ b3[i] = b2[i]
      BY <1>1, <1>7, <1>8, <1>9, <2>0, <2>1
    <3>2. b2[i] = b1[i] /\ b1[i] = bl[i + 1] /\ i + 1 \in 1 .. 4
      BY <1>1, <1>5, <1>6, <2>0, <2>1
    <3> QED BY <1>2, <2>1, <3>1, <3>2
  <2>2. CASE ~(i < 4 - n) /\ i < 4
    <3>1. ts[i] = b4[i] /\ b4[i] = b3[i] /\ b3[i] = sn[i - (4 - n) + 1]
      BY <1>1, <1>7, <1>8, <1>9, <2>0, <2>2
    <3>2. i - (4 - n) + 1 \in 1 .. n
      BY <1>1, <2>2
    <3> QED BY <1>3, <2>2, <3>1, <3>2
  <2>3. CASE i = 4
    <3>1. ts[i] = b4[i] /\ b4[i] = Dot
      BY <1>1, <1>8, <1>9, <2>0, <2>3
    <3> QED BY <1>1, <2>3, <3>1
  <2>4. CASE i > 4 /\ i < 9 - m
    <3>1. ts[i] = b4[i] /\ b4[i] = b3[i] /\ b3[i] = b2[i]
      BY <1>1, <1>7, <1>8, <1>9, <2>0, <2>4
    <3>2. b2[i] = ze[i - 4] /\ i - 4 \in 1 .. 4
      BY <1>1, <1>6, <2>0, <2>4
    <3> QED BY <1>1, <1>2, <2>4, <3>1, <3>2
  <2>5. CASE i > 4 /\ ~(i < 9 - m)
    <3>1. ts[i] = fn[i - (9 - m) + 1]
      BY <1>1, <1>9, <2>0, <2>5
    <3>2. i - (9 - m) + 1 \in 1 .. m
      BY <1>1, <2>5
    <3> QED BY <1>1, <1>3, <2>5, <3>1, <3>2
  <2> QED BY <2>1, <2>2, <2>3, <2>4, <2>5
<1>12. Stamped(ts, sec, frac)
  BY <1>9, <1>10, <1>11 DEF Stamped, StampByte, n, m
<1>13. ts = StampOf(b, sec, frac)
  BY Zenon DEF StampOf, ts, b4, b3, b2, b1, n, m, bl, ze, sn, fn, dot
<1> QED BY <1>12, <1>13

(* timer_format (timer.c): the stamp is a string again, and up to 9999      *)
(* seconds it says the time.                                                *)
LEMMA StampSays ==
  ASSUME NEW b, DOMAIN b = 0 .. 15, NEW time \in Nat
  PROVE  LET ts == TimerFormat(b, time)
         IN /\ DOMAIN ts = 0 .. 15 /\ IsSeq(Chars(ts, 0))
            /\ time < 100000000 =>
                 Chars(ts, 0) = StampMeaning(time) /\ IsSeq(StampMeaning(time))
<1> DEFINE ts == TimerFormat(b, time)  s == time \div 10000  f == time % 10000
           sec == Utos(s, 10, 0)  frac == Utos(f, 10, 0)
           n == Len(sec)  m == Len(frac)
<1>1. s \in Nat /\ f \in 0 .. 9999 /\ time = 10000 * s + f
  BY DivDef
<1>2. IsSeq(sec) /\ IsSeq(frac) /\ f < 10000 /\ f \in Nat
  <2>1. f \in Nat /\ f < 10000 /\ s \in Nat
    BY <1>1
  <2> DEFINE ten == 10
  <2>2. ten \in {2, 10}
    OBVIOUS
  <2> HIDE DEF ten, s, f
  <2>3. IsSeq(Utos(s, ten, 0)) /\ IsSeq(Utos(f, ten, 0))
    BY <2>1, <2>2, UtosSeq
  <2> QED BY <2>1, <2>3 DEF ten
<1> DEFINE Byte(i) == IF i < 4 - n THEN Blank
                      ELSE IF i < 4 THEN sec[i - (4 - n) + 1]
                      ELSE IF i = 4 THEN Dot
                      ELSE IF i < 9 - m THEN Zero
                      ELSE frac[i - (9 - m) + 1]
<1>3. /\ DOMAIN ts = 0 .. 15 /\ ts[9] = NUL
      /\ n <= 4 /\ m <= 4 => \A i \in 0 .. 8 : ts[i] = Byte(i)
  <2>1. ts = StampOf(b, sec, frac)
    BY DEF TimerFormat, StampOf
  <2> HIDE DEF ts, sec, frac
  <2>2. Stamped(ts, sec, frac)
    BY <1>2, <2>1, StampBytes
  <2> QED BY <2>2 DEF Stamped, StampByte
<1> HIDE DEF ts, s, f
<1>4. IsSeq(Chars(ts, 0))
  <2> DEFINE z == 0
  <2>1. z \in Nat /\ DOMAIN ts \subseteq Nat /\ 9 \in DOMAIN ts /\ 9 >= z
    BY <1>3
  <2> HIDE DEF z
  <2>2. Terminated(ts, z)
    BY <1>3, <2>1 DEF Terminated
  <2>3. IsSeq(Chars(ts, z))
    BY <2>1, <2>2, StringIsSeq
  <2> QED BY <2>3 DEF z
<1>5. ASSUME time < 100000000 PROVE Chars(ts, 0) = StampMeaning(time) /\ IsSeq(StampMeaning(time))
  <2>1. s < 10000
    BY <1>1, <1>5
  <2>2. /\ n \in 1 .. 4 /\ m \in 1 .. 4
        /\ sec = Numeral(s, 10) /\ frac = Numeral(f, 10)
        /\ \A k \in 1 .. n : sec[k] \in Nat /\ sec[k] >= 48
        /\ \A k \in 1 .. m : frac[k] \in Nat /\ frac[k] >= 48
    <3>1. Short(s, 10, 4) /\ Short(f, 10, 4)
      BY <1>1, <1>2, <2>1, FourDigits
    <3>2. sec = Digits(s, 10) /\ frac = Digits(f, 10)
      BY <3>1 DEF Short
    <3> HIDE DEF sec, frac
    <3> QED BY <3>1, <3>2 DEF Short
  <2> HIDE DEF sec, frac, n, m
  <2> DEFINE l == PadLeft(sec, 4, Blank)  r == PadLeft(frac, 4, Zero)  dot == <<Dot>>
  <2>3. /\ IsSeq(l) /\ Len(l) = 4
        /\ \A k \in 1 .. 4 : l[k] = IF k <= 4 - n THEN Blank ELSE sec[k - (4 - n)]
    <3> DEFINE four == 4
    <3>1. four \in Int /\ four >= Len(sec)
      BY <2>2 DEF n
    <3> HIDE DEF four
    <3>2. /\ IsSeq(PadLeft(sec, four, Blank)) /\ Len(PadLeft(sec, four, Blank)) = four
      BY <1>2, <3>1, PadSeq
    <3>3. \A k \in 1 .. Len(PadLeft(sec, four, Blank)) :
              PadLeft(sec, four, Blank)[k]
                = IF k <= Len(PadLeft(sec, four, Blank)) - Len(sec) THEN Blank
                  ELSE sec[k - (Len(PadLeft(sec, four, Blank)) - Len(sec))]
      BY <1>2, <3>1, PadSeq
    <3> QED BY <3>2, <3>3 DEF four, n
  <2>4. /\ IsSeq(r) /\ Len(r) = 4
        /\ \A k \in 1 .. 4 : r[k] = IF k <= 4 - m THEN Zero ELSE frac[k - (4 - m)]
    <3> DEFINE four == 4
    <3>1. four \in Int /\ four >= Len(frac)
      BY <2>2 DEF m
    <3> HIDE DEF four
    <3>2. /\ IsSeq(PadLeft(frac, four, Zero)) /\ Len(PadLeft(frac, four, Zero)) = four
      BY <1>2, <3>1, PadSeq
    <3>3. \A k \in 1 .. Len(PadLeft(frac, four, Zero)) :
              PadLeft(frac, four, Zero)[k]
                = IF k <= Len(PadLeft(frac, four, Zero)) - Len(frac) THEN Zero
                  ELSE frac[k - (Len(PadLeft(frac, four, Zero)) - Len(frac))]
      BY <1>2, <3>1, PadSeq
    <3> QED BY <3>2, <3>3 DEF four, m
  <2>5. IsSeq(dot) /\ Len(dot) = 1 /\ dot[1] = Dot
    BY SeqOne
  <2>6. StampMeaning(time) = l \o dot \o r
    BY <2>2 DEF StampMeaning, s, f
  <2> HIDE DEF l, r, dot
  <2>7. /\ IsSeq(l \o dot) /\ Len(l \o dot) = 5
        /\ \A k \in 1 .. 5 : (l \o dot)[k] = IF k <= 4 THEN l[k] ELSE dot[k - 4]
    <3>1. /\ IsSeq(l \o dot) /\ Len(l \o dot) = Len(l) + Len(dot)
          /\ \A k \in 1 .. Len(l) + Len(dot) :
               (l \o dot)[k] = IF k <= Len(l) THEN l[k] ELSE dot[k - Len(l)]
      BY <2>3, <2>5, SeqConcat
    <3> QED BY <2>3, <2>5, <3>1
  <2> DEFINE ld == l \o dot  all == ld \o r
  <2> HIDE DEF ld
  <2>8. /\ IsSeq(all) /\ Len(all) = 9
        /\ \A k \in 1 .. 9 : all[k] = IF k <= 5 THEN ld[k] ELSE r[k - 5]
    <3>1. /\ IsSeq(all) /\ Len(all) = Len(ld) + Len(r)
          /\ \A k \in 1 .. Len(ld) + Len(r) :
               all[k] = IF k <= Len(ld) THEN ld[k] ELSE r[k - Len(ld)]
      BY <2>4, <2>7, SeqConcat DEF ld
    <3> QED BY <2>4, <2>7, <3>1 DEF ld
  <2> HIDE DEF all
  <2>9. ASSUME NEW i \in 0 .. 8 PROVE all[i + 1] = Byte(i)
    <3>1. CASE i < 4
      <4>1. all[i + 1] = l[i + 1]
        BY <2>7, <2>8, <3>1 DEF ld
      <4>2. i + 1 <= 4 - n <=> i < 4 - n
        BY <2>2
      <4>3. (i + 1) - (4 - n) = i - (4 - n) + 1
        BY <2>2
      <4> QED BY <2>2, <2>3, <3>1, <4>1, <4>2, <4>3
    <3>2. CASE i = 4
      <4>1. all[5] = ld[5] /\ ld[5] = dot[1]
        BY <2>7, <2>8 DEF ld
      <4>2. Byte(4) = Dot
        BY <2>2
      <4> QED BY <2>5, <3>2, <4>1, <4>2
    <3>3. CASE i > 4
      <4>1. all[i + 1] = r[i - 4]
        BY <2>8, <3>3
      <4>2. i - 4 <= 4 - m <=> i < 9 - m
        BY <2>2
      <4>3. (i - 4) - (4 - m) = i - (9 - m) + 1
        BY <2>2
      <4>4. ~(i < 4 - n) /\ ~(i < 4) /\ i # 4 /\ i - 4 \in 1 .. 4
        BY <2>2, <3>3
      <4> QED BY <2>4, <4>1, <4>2, <4>3, <4>4
    <3> QED BY <3>1, <3>2, <3>3
  <2>10. ASSUME NEW i \in 0 .. 8 PROVE Byte(i) # NUL
    <3>1. Blank # NUL /\ Dot # NUL /\ Zero # NUL
      BY DEF Blank, Dot, Zero, NUL
    <3>2. \A k \in 1 .. n : sec[k] # NUL
      BY <2>2 DEF NUL
    <3>3. \A k \in 1 .. m : frac[k] # NUL
      BY <2>2 DEF NUL
    <3>4. i >= 4 - n /\ i < 4 => i - (4 - n) + 1 \in 1 .. n
      BY <2>2
    <3>5. i >= 9 - m /\ i > 4 => i - (9 - m) + 1 \in 1 .. m
      BY <2>2
    <3>6. /\ i < 4 - n \/ i >= 4 - n
          /\ i < 9 - m \/ i >= 9 - m
          /\ i < 4 \/ i = 4 \/ i > 4
      BY <2>2
    <3> QED BY <3>1, <3>2, <3>3, <3>4, <3>5, <3>6
  <2>11. \A i \in 0 .. 8 : ts[i] = Byte(i)
    BY <1>3, <2>2
  <2> HIDE DEF Byte
  <2> DEFINE z == 0  l0 == StrLen(ts, z)  cs == Chars(ts, z)
  <2>12. /\ l0 \in Nat /\ z + l0 \in DOMAIN ts /\ ts[z + l0] = NUL
         /\ \A i \in DOMAIN ts : i >= z /\ i < z + l0 => ts[i] # NUL
         /\ IsSeq(cs) /\ Len(cs) = l0 /\ \A k \in 1 .. l0 : cs[k] = ts[z + k - 1]
    <3>1. z \in Nat /\ DOMAIN ts \subseteq Nat /\ 9 \in DOMAIN ts /\ 9 >= z
      BY <1>3
    <3> HIDE DEF z
    <3>2. Terminated(ts, z)
      BY <1>3, <3>1 DEF Terminated
    <3> QED BY <3>1, <3>2, StringIsSeq
  <2> HIDE DEF l0, cs
  <2>13. l0 = 9
    <3>1. ~(l0 < 9)
      <4> SUFFICES ASSUME l0 < 9 PROVE FALSE
        OBVIOUS
      <4>1. l0 \in 0 .. 8 /\ z + l0 = l0
        BY <2>12
      <4> QED BY <2>10, <2>11, <2>12, <4>1
    <3>2. ~(l0 > 9)
      <4> SUFFICES ASSUME l0 > 9 PROVE FALSE
        OBVIOUS
      <4>1. 9 \in DOMAIN ts /\ 9 >= z /\ 9 < z + l0
        BY <1>3, <2>12
      <4> QED BY <1>3, <2>12, <4>1
    <3> QED BY <2>12, <3>1, <3>2
  <2>14. cs = [k \in 1 .. 9 |-> ts[k - 1]]
    <3>1. cs = [k \in 1 .. 9 |-> cs[k]]
      BY <2>12, <2>13 DEF IsSeq
    <3>2. \A k \in 1 .. 9 : cs[k] = ts[k - 1]
      BY <2>12, <2>13
    <3> QED BY <3>1, <3>2
  <2>15. \A k \in 1 .. 9 : ts[k - 1] = all[k]
    <3> TAKE k \in 1 .. 9
    <3>1. k - 1 \in 0 .. 8 /\ (k - 1) + 1 = k
      OBVIOUS
    <3>2. all[(k - 1) + 1] = Byte(k - 1) /\ ts[k - 1] = Byte(k - 1)
      BY <2>9, <2>11, <3>1
    <3> QED BY <3>1, <3>2
  <2>16. all = [k \in 1 .. 9 |-> all[k]]
    BY <2>8 DEF IsSeq
  <2>17. Chars(ts, 0) = all
    BY <2>14, <2>15, <2>16 DEF cs
  <2> QED BY <2>6, <2>8, <2>17 DEF all, ld
<1> QED BY <1>3, <1>4, <1>5 DEF ts

(* What printf says before a message.                                       *)
HeadText(level, s) ==
  In(<<40>> \o s \o <<41, Blank, 91>>, White)
    \o In(<<Letter[level]>>, Colour[level]) \o In(<<93, Blank>>, White)
HeadFmt(s) == << <<"put", <<40>> >>, <<"s", s>>, <<"put", <<41, Blank>> >> >>

(* Sequences of one, two, three and more characters.                        *)
LEMMA FewChars ==
  /\ \A c : IsSeq(<<c>>) /\ Len(<<c>>) = 1
  /\ \A c, d : IsSeq(<<c, d>>) /\ Len(<<c, d>>) = 2
  /\ \A c, d, e : IsSeq(<<c, d, e>>) /\ <<c, d>> \o <<e>> = <<c, d, e>>
<1>1. ASSUME NEW c, NEW d PROVE IsSeq(<<c, d>>) /\ Len(<<c, d>>) = 2
  <2>1. <<c, d>> \in Seq({c, d})
    OBVIOUS
  <2> QED BY <2>1, SetInSeq
<1>2. ASSUME NEW c, NEW d, NEW e PROVE IsSeq(<<c, d, e>>) /\ <<c, d>> \o <<e>> = <<c, d, e>>
  <2>1. <<c, d, e>> \in Seq({c, d, e})
    OBVIOUS
  <2>2. IsSeq(<<c, d, e>>)
    BY <2>1, SetInSeq
  <2> DEFINE a == <<c, d>>  b == <<e>>  x == <<c, d, e>>
  <2>3. /\ IsSeq(a) /\ Len(a) = 2 /\ IsSeq(b) /\ Len(b) = 1 /\ IsSeq(x) /\ Len(x) = 3
        /\ a[1] = c /\ a[2] = d /\ b[1] = e /\ x[1] = c /\ x[2] = d /\ x[3] = e
    <3>1. IsSeq(a) /\ IsSeq(b) /\ IsSeq(x)
      BY <1>1, <2>2, SeqOne
    <3>2. /\ Len(a) = 2 /\ Len(b) = 1 /\ Len(x) = 3
          /\ a[1] = c /\ a[2] = d /\ b[1] = e /\ x[1] = c /\ x[2] = d /\ x[3] = e
      OBVIOUS
    <3> QED BY <3>1, <3>2
  <2> HIDE DEF a, b, x
  <2>4. /\ IsSeq(a \o b) /\ Len(a \o b) = Len(a) + Len(b)
        /\ \A k \in 1 .. Len(a) + Len(b) :
             (a \o b)[k] = IF k <= Len(a) THEN a[k] ELSE b[k - Len(a)]
    BY <2>3, SeqConcat
  <2> DEFINE y == a \o b
  <2> HIDE DEF y
  <2>5. /\ IsSeq(y) /\ Len(y) = 3
        /\ \A k \in 1 .. 3 : y[k] = IF k <= 2 THEN a[k] ELSE b[k - 2]
    BY <2>3, <2>4 DEF y
  <2>6. \A k \in 1 .. 3 : k = 1 \/ k = 2 \/ k = 3
    OBVIOUS
  <2>7. \A k \in 1 .. 3 : y[k] = x[k]
    BY <2>3, <2>5, <2>6
  <2>8. y = x
    BY <2>3, <2>5, <2>7, SeqSame
  <2> QED BY <2>2, <2>8 DEF y, a, b, x
<1> QED BY <1>1, <1>2, SeqOne

(* The time in its parentheses.                                             *)
LEMMA HeadJoined ==
  ASSUME NEW s, IsSeq(s)
  PROVE  /\ IsSeq(HeadFmt(s)) /\ Len(HeadFmt(s)) = 3
         /\ \A k \in 1 .. 3 : Sound(HeadFmt(s)[k])
         /\ Joined(Meanings(HeadFmt(s)), << >>) = <<40>> \o s \o <<41, Blank>>
<1> DEFINE fmt == HeadFmt(s)  ss == Meanings(fmt)
           a == <<40>>  c == <<41, Blank>>
           e1 == <<"put", a>>  e2 == <<"s", s>>  e3 == <<"put", c>>
<1>1. IsSeq(a) /\ IsSeq(c)
  BY FewChars
<1>2. fmt = <<e1, e2, e3>>
  BY DEF HeadFmt
<1>3. Sound(e1) /\ Sound(e2) /\ Sound(e3)
  BY <1>1, SoundElements
<1>4. Meaning(e1[1], e1[2]) = a /\ Meaning(e2[1], e2[2]) = s /\ Meaning(e3[1], e3[2]) = c
  BY DEF Meaning
<1> HIDE DEF fmt, e1, e2, e3, a, c, ss
<1>5. IsSeq(fmt) /\ Len(fmt) = 3 /\ fmt[1] = e1 /\ fmt[2] = e2 /\ fmt[3] = e3
  <2>1. Len(<<e1, e2, e3>>) = 3 /\ IsSeq(<<e1, e2, e3>>)
    BY FewChars
  <2> QED BY <1>2, <2>1
<1>6. \A k \in 1 .. 3 : Sound(fmt[k])
  <2>1. \A k \in 1 .. 3 : k = 1 \/ k = 2 \/ k = 3
    OBVIOUS
  <2> QED BY <1>3, <1>5, <2>1
<1>7. /\ Len(ss) = 3 /\ ss[1] = a /\ ss[2] = s /\ ss[3] = c
      /\ \A k \in 1 .. 3 : IsSeq(ss[k])
  <2>1. /\ Len(ss) = Len(fmt)
        /\ \A k \in 1 .. Len(fmt) : ss[k] = Meaning(fmt[k][1], fmt[k][2]) /\ IsSeq(ss[k])
    BY <1>5, <1>6, MeaningsAre DEF ss
  <2>2. 1 \in 1 .. 3 /\ 2 \in 1 .. 3 /\ 3 \in 1 .. 3
    OBVIOUS
  <2> QED BY <1>4, <1>5, <2>1, <2>2
<1>8. PICK f : Joined(ss, << >>) = f[3] /\ JoinsPlainly(f, ss, 3)
  BY <1>7, JoinedPlain
<1>9. f[0] = << >> /\ f[1] = f[0] \o a /\ f[2] = f[1] \o s /\ f[3] = f[2] \o c
  <2>1. f[0] = << >> /\ \A k \in 1 .. 3 : f[k] = f[k - 1] \o ss[k]
    BY <1>8 DEF JoinsPlainly
  <2>2. f[1] = f[1 - 1] \o ss[1] /\ f[2] = f[2 - 1] \o ss[2] /\ f[3] = f[3 - 1] \o ss[3]
    <3>1. 1 \in 1 .. 3 /\ 2 \in 1 .. 3 /\ 3 \in 1 .. 3
      OBVIOUS
    <3> QED BY <2>1, <3>1, Zenon
  <2>3. 1 - 1 = 0 /\ 2 - 1 = 1 /\ 3 - 1 = 2
    OBVIOUS
  <2> QED BY <1>7, <2>1, <2>2, <2>3
<1>10. << >> \o a = a
  BY <1>1, SeqEmpty
<1>11. f[3] = a \o s \o c
  BY <1>9, <1>10, Zenon
<1>12. Joined(ss, << >>) = a \o s \o c
  BY <1>8, <1>11, Zenon
<1> QED BY <1>5, <1>6, <1>12 DEF a, c, ss, fmt

(* Terminal u is t after cs was put on it.                                  *)
Shows(t, u, cs) ==
  /\ TermOK(u) /\ IsSeq(u.log) /\ u.isready = t.isready
  /\ u.log = IF t.isready THEN t.log \o cs ELSE t.log

(* puts shows the text it is given.                                         *)
LEMMA PutsShows ==
  ASSUME NEW t, TermOK(t), IsSeq(t.log), NEW cs, IsSeq(cs)
  PROVE  Shows(t, Puts(t, cs), In(cs, t.fg)) /\ Puts(t, cs).fg = t.fg
<1> DEFINE u == Puts(t, cs)  log == IF t.isready THEN t.log \o In(cs, t.fg) ELSE t.log
<1>1. Printed(t, u, log)
  BY PutsPrints
<1>2. IsSeq(log)
  BY InSeq, SeqConcat
<1> HIDE DEF u, log
<1>3. TermOK(u) /\ u.isready = t.isready /\ u.fg = t.fg /\ u.log = log
  BY <1>1 DEF Printed
<1> QED BY <1>2, <1>3 DEF Shows, u, log

(* A colour shows nothing.                                                  *)
LEMMA ColourShows ==
  ASSUME NEW t, NEW u, NEW cs, Shows(t, u, cs), NEW fg
  PROVE  Shows(t, TerminalSetcolor(u, fg), cs) /\ TerminalSetcolor(u, fg).fg = fg
<1> DEFINE w == TerminalSetcolor(u, fg)
<1>1. TermOK(u) /\ IsSeq(u.log)
  BY DEF Shows
<1>2. TermOK(w) /\ w.isready = u.isready /\ w.fg = fg /\ w.log = u.log
  BY <1>1, ColourSet
<1> HIDE DEF w
<1> QED BY <1>1, <1>2 DEF Shows, w

(* What is shown in two parts is shown.                                     *)
LEMMA ShowsMore ==
  ASSUME NEW t, IsSeq(t.log), NEW u, NEW cs, IsSeq(cs), Shows(t, u, cs), NEW ds, IsSeq(ds)
  PROVE  /\ Shows(t, Puts(u, ds), cs \o In(ds, u.fg)) /\ Puts(u, ds).fg = u.fg
         /\ IsSeq(cs \o In(ds, u.fg))
<1> DEFINE w == Puts(u, ds)  l == t.log  es == In(ds, u.fg)
<1>1. TermOK(u) /\ IsSeq(u.log)
  BY DEF Shows
<1>2. Shows(u, w, es) /\ w.fg = u.fg
  BY <1>1, PutsShows
<1>3. IsSeq(es) /\ IsSeq(l)
  BY InSeq
<1> HIDE DEF w, l, es
<1>4. IsSeq(cs \o es)
  BY <1>3, SeqConcat
<1>5. (l \o cs) \o es = l \o (cs \o es)
  BY <1>3, SeqAssociative
<1>6. t.isready => u.log = l \o cs /\ w.log = (l \o cs) \o es
  BY <1>2 DEF Shows, l
<1>7. ~t.isready => w.log = l
  BY <1>2 DEF Shows, l
<1>8. Shows(t, w, cs \o es)
  BY <1>2, <1>5, <1>6, <1>7 DEF Shows, l
<1> QED BY <1>2, <1>4, <1>8 DEF w, es

(* The parts of the head, joined.                                           *)
LEMMA HeadWords ==
  ASSUME NEW level, NEW s, IsSeq(s)
  PROVE  /\ IsSeq(HeadText(level, s))
         /\ In(<<40>> \o s \o <<41, Blank>>, White) \o In(<<91>>, White)
              \o In(<<Letter[level]>>, Colour[level]) \o In(<<93, Blank>>, White)
              = HeadText(level, s)
         /\ IsSeq(In(<<40>> \o s \o <<41, Blank>>, White))
<1> DEFINE a == <<40>>  b == <<41, Blank>>  c == <<91>>  bc == <<41, Blank, 91>>
           tag == In(<<Letter[level]>>, Colour[level])  last == In(<<93, Blank>>, White)
<1>1. /\ IsSeq(a) /\ IsSeq(b) /\ IsSeq(c) /\ IsSeq(bc) /\ b \o c = bc
      /\ IsSeq(<<Letter[level]>>) /\ IsSeq(<<93, Blank>>)
  BY FewChars
<1>2. IsSeq(tag) /\ IsSeq(last)
  BY <1>1, InSeq
<1>3. HeadText(level, s) = In(a \o s \o bc, White) \o tag \o last
  BY DEF HeadText
<1> HIDE DEF a, b, c, bc, tag, last
<1> DEFINE hs == a \o s
<1>4. IsSeq(hs)
  BY <1>1, SeqConcat
<1> HIDE DEF hs
<1>5. IsSeq(hs \o b) /\ IsSeq(hs \o bc)
  BY <1>1, <1>4, SeqConcat
<1>6. hs \o bc = (hs \o b) \o c
  <2>1. (hs \o b) \o c = hs \o (b \o c)
    <3>1. IsSeq(b) /\ IsSeq(c)
      BY <1>1
    <3> QED BY <1>4, <3>1, SeqAssociative, SMTT(30)
  <2> QED BY <1>1, <2>1, Zenon
<1> DEFINE x == hs \o b  y == hs \o bc
<1>0. IsSeq(x) /\ IsSeq(y)
  BY <1>5
<1> HIDE DEF x, y
<1>7. In(y, White) = In(x, White) \o In(c, White)
  <2>1. In(x \o c, White) = In(x, White) \o In(c, White)
    BY <1>0, <1>1, InConcat
  <2> QED BY <1>6, <2>1 DEF x, y
<1>8. IsSeq(In(x, White)) /\ IsSeq(In(y, White))
  BY <1>0, InSeq
<1> DEFINE p == In(y, White)
<1> HIDE DEF p
<1>9. IsSeq(p \o tag)
  BY <1>2, <1>8, SeqConcat DEF p
<1> DEFINE q == p \o tag
<1> HIDE DEF q
<1>10. IsSeq(q \o last)
  BY <1>2, <1>9, SeqConcat DEF q
<1>11. HeadText(level, s) = q \o last
  BY <1>3 DEF q, p, y, hs
<1>12. In(a \o s \o b, White) \o In(c, White) = p
  BY <1>7 DEF p, x, hs
<1>13. In(a \o s \o b, White) \o In(c, White) \o tag \o last = q \o last
  BY <1>12 DEF q
<1> QED BY <1>8, <1>10, <1>11, <1>13 DEF x, hs, a, b, c, tag, last

(* kprintf_header: the time, and the level in its colour.                   *)
LEMMA HeaderSays ==
  ASSUME NEW o, OutOK(o), o.term.fg = White, NEW level, NEW ts, IsSeq(Chars(ts, 0))
  PROVE  Says(o, Header(o, level, ts), HeadText(level, Chars(ts, 0)))
<1> DEFINE s == Chars(ts, 0)  time == Body(o, HeadFmt(s))
           words == In(<<40>> \o s \o <<41, Blank>>, White)
           t == o.term  u == time.term
           open == Puts(u, <<91>>)  col == TerminalSetcolor(open, Colour[level])
           tagged == Puts(col, <<Letter[level]>>)  tag == TerminalSetcolor(tagged, White)
           end == Puts(tag, <<93, Blank>>)
           p == Header(o, level, ts)
           c1 == In(<<91>>, White)  c2 == In(<<Letter[level]>>, Colour[level])
           c3 == In(<<93, Blank>>, White)
<1>1. p = [time EXCEPT !.term = end]
  BY DEF Header, HeadFmt, TagColour, AfterTag
<1>2. IsSeq(s)
  OBVIOUS
<1> HIDE DEF s
<1>3. Says(o, time, words)
  <2>1. /\ IsSeq(HeadFmt(s)) /\ Len(HeadFmt(s)) = 3
        /\ \A k \in 1 .. 3 : Sound(HeadFmt(s)[k])
        /\ Joined(Meanings(HeadFmt(s)), << >>) = <<40>> \o s \o <<41, Blank>>
    BY <1>2, HeadJoined
  <2> DEFINE fmt == HeadFmt(s)
  <2> HIDE DEF fmt
  <2>2. Says(o, Body(o, fmt), In(Joined(Meanings(fmt), << >>), White))
    <3>1. IsSeq(fmt) /\ \A k \in 1 .. Len(fmt) : Sound(fmt[k])
      BY <2>1 DEF fmt
    <3> QED BY <3>1, BodySays
  <2> QED BY <2>1, <2>2 DEF fmt
<1>4. IsSeq(words)
  BY <1>2, HeadWords
<1>5. /\ OutOK(time) /\ u.isready = t.isready /\ u.fg = White
      /\ u.log = IF t.isready THEN t.log \o words ELSE t.log
  BY <1>3 DEF Says
<1> HIDE DEF time, words
<1>6. Shows(t, u, words) /\ IsSeq(t.log)
  BY <1>5 DEF Shows, OutOK
<1>7. IsSeq(<<91>>) /\ IsSeq(<<Letter[level]>>) /\ IsSeq(<<93, Blank>>)
  BY FewChars
<1> DEFINE s1 == <<91>>  s2 == <<Letter[level]>>  s3 == <<93, Blank>>  blue == Colour[level]
<1> HIDE DEF t, u
<1>8. Shows(t, open, words \o c1) /\ open.fg = White /\ IsSeq(words \o c1)
  <2>1. IsSeq(s1)
    BY <1>7
  <2> HIDE DEF s1
  <2>2. Shows(t, Puts(u, s1), words \o In(s1, White)) /\ Puts(u, s1).fg = White
        /\ IsSeq(words \o In(s1, White))
    BY <1>4, <1>5, <1>6, <2>1, ShowsMore
  <2> QED BY <2>2 DEF s1
<1> DEFINE d1 == words \o c1
<1> HIDE DEF open, d1
<1>9. Shows(t, col, d1) /\ col.fg = blue
  BY <1>8, ColourShows DEF d1
<1> HIDE DEF col
<1>10. Shows(t, tagged, d1 \o c2) /\ IsSeq(d1 \o c2)
  <2>1. IsSeq(s2) /\ IsSeq(d1)
    BY <1>7, <1>8 DEF d1
  <2> HIDE DEF s2, blue
  <2>2. Shows(t, Puts(col, s2), d1 \o In(s2, blue)) /\ IsSeq(d1 \o In(s2, blue))
    BY <1>6, <1>9, <2>1, ShowsMore
  <2> QED BY <2>2 DEF s2, blue
<1> DEFINE d2 == d1 \o c2
<1> HIDE DEF tagged, d2
<1>11. Shows(t, tag, d2) /\ tag.fg = White
  BY <1>10, ColourShows DEF d2
<1> HIDE DEF tag
<1>12. Shows(t, end, d2 \o c3) /\ end.fg = White /\ IsSeq(d2 \o c3)
  <2>1. IsSeq(s3) /\ IsSeq(d2)
    BY <1>7, <1>10 DEF d2
  <2> HIDE DEF s3
  <2>2. /\ Shows(t, Puts(tag, s3), d2 \o In(s3, White)) /\ Puts(tag, s3).fg = White
        /\ IsSeq(d2 \o In(s3, White))
    BY <1>6, <1>11, <2>1, ShowsMore
  <2> QED BY <2>2 DEF s3
<1>13. d2 \o c3 = HeadText(level, s)
  BY <1>2, HeadWords DEF d2, d1, words
<1> DEFINE d3 == d2 \o c3
<1> HIDE DEF end, d3
<1> DEFINE b == time.buf  r == time.overrun
<1>14. time = [term |-> u, buf |-> b, overrun |-> r] /\ r \in BOOLEAN
  BY <1>5 DEF OutOK, u
<1> HIDE DEF b, r, p
<1>15. p = [term |-> end, buf |-> b, overrun |-> r]
  BY <1>1, <1>14
<1>16. p.term = end /\ p.buf = b /\ p.overrun = r
  BY <1>15
<1>17. TermOK(end) /\ IsSeq(end.log) /\ end.isready = t.isready /\ end.fg = White
       /\ end.log = IF t.isready THEN t.log \o d3 ELSE t.log
  BY <1>12 DEF Shows, d3
<1>18. OutOK(p)
  BY <1>14, <1>15, <1>16, <1>17 DEF OutOK
<1>19. Says(o, p, d3)
  BY <1>16, <1>17, <1>18 DEF Says, t
<1>20. d3 = HeadText(level, s)
  BY <1>13 DEF d3
<1> QED BY <1>19, <1>20 DEF p, s

(* A whole message.                                                         *)
MessageText(level, fmt, s) ==
  (IF level = "NONE" THEN << >> ELSE HeadText(level, s))
    \o In(Joined(Meanings(fmt), << >>), White)

(* printf (printf.c) says head and text, in their colours.                  *)
LEMMA FormatSays ==
  ASSUME NEW o, OutOK(o), o.term.fg = White, NEW level, NEW ts, IsSeq(Chars(ts, 0)),
         NEW fmt, IsSeq(fmt), \A k \in 1 .. Len(fmt) : Sound(fmt[k])
  PROVE  /\ Says(o, Format(o, level, fmt, ts), MessageText(level, fmt, Chars(ts, 0)))
         /\ IsSeq(MessageText(level, fmt, Chars(ts, 0)))
<1> DEFINE s == Chars(ts, 0)  m == Joined(Meanings(fmt), << >>)  body == In(m, White)
           h == IF level = "NONE" THEN o ELSE Header(o, level, ts)
           head == IF level = "NONE" THEN << >> ELSE HeadText(level, s)
           p == Body(h, fmt)
<1>1. Says(o, h, head) /\ IsSeq(head)
  <2>1. CASE level = "NONE"
    BY <2>1, SaysNothing, SeqEmpty
  <2>2. CASE level # "NONE"
    <3>1. Says(o, Header(o, level, ts), HeadText(level, s)) /\ IsSeq(HeadText(level, s))
      BY HeaderSays, HeadWords
    <3> QED BY <2>2, <3>1
  <2> QED BY <2>1, <2>2
<1>2. Format(o, level, fmt, ts) = p
  BY DEF Format
<1>3. MessageText(level, fmt, s) = head \o body
  BY DEF MessageText
<1> HIDE DEF h, head, p
<1>4. OutOK(h) /\ h.term.fg = White
  BY <1>1 DEF Says
<1>5. Says(h, p, body) /\ IsSeq(m)
  BY <1>4, BodySays DEF p
<1> HIDE DEF m
<1>6. IsSeq(body)
  BY <1>5, InSeq
<1> HIDE DEF body
<1>7. IsSeq(o.term.log)
  BY DEF OutOK
<1>8. Says(o, p, head \o body)
  BY <1>1, <1>5, <1>6, <1>7, SaysMore
<1>9. IsSeq(head \o body)
  BY <1>1, <1>6, SeqConcat
<1> QED BY <1>2, <1>3, <1>8, <1>9 DEF s

-----------------------------------------------------------------------------
(* The messages of the kernel, and what is on the roll after them.          *)

(* Messages, one after the other.                                           *)
AllOne(g, o, ms, ts, k) ==
  IF k = 0 THEN o ELSE Format(g[k - 1], ms[k].level, ms[k].fmt, ts)
AllUpTo(f, o, ms, ts, n) == f = [k \in 0 .. n |-> AllOne(f, o, ms, ts, k)]
Proper(ms) ==
  IsSeq(ms) /\ \A k \in 1 .. Len(ms) :
                 IsSeq(ms[k].fmt) /\ \A j \in 1 .. Len(ms[k].fmt) : Sound(ms[k].fmt[j])
Texts(ms, s) == [k \in DOMAIN ms |-> MessageText(ms[k].level, ms[k].fmt, s)]

(* The recursion over the messages has a solution.                          *)
LEMMA AllExist ==
  ASSUME NEW o, NEW ms, NEW ts, NEW n \in Nat
  PROVE  \E f : AllUpTo(f, o, ms, ts, n)
<1> DEFINE T == {m \in Nat : \E f : AllUpTo(f, o, ms, ts, m)}
<1>1. 0 \in T
  <2>1. AllUpTo([k \in 0 .. 0 |-> o], o, ms, ts, 0)
    BY DEF AllUpTo, AllOne
  <2> QED BY <2>1
<1>2. ASSUME NEW m \in Nat, m \in T PROVE m + 1 \in T
  <2>1. PICK f : AllUpTo(f, o, ms, ts, m)
    BY <1>2
  <2> DEFINE q == [k \in 0 .. m + 1 |-> IF k = m + 1 THEN AllOne(f, o, ms, ts, k) ELSE f[k]]
  <2>2. ASSUME NEW k \in 0 .. m + 1 PROVE q[k] = AllOne(q, o, ms, ts, k)
    <3>1. k # 0 => q[k - 1] = f[k - 1]
      OBVIOUS
    <3>2. AllOne(q, o, ms, ts, k) = AllOne(f, o, ms, ts, k)
      <4> HIDE DEF q
      <4> QED BY <3>1 DEF AllOne
    <3>3. CASE k = m + 1
      BY <3>2, <3>3
    <3>4. CASE k # m + 1
      <4>1. k \in 0 .. m
        BY <3>4
      <4>2. f[k] = AllOne(f, o, ms, ts, k)
        BY <2>1, <4>1 DEF AllUpTo
      <4>3. q[k] = f[k]
        BY <3>4
      <4> QED BY <3>2, <4>2, <4>3
    <3> QED BY <3>3, <3>4
  <2>3. AllUpTo(q, o, ms, ts, m + 1)
    BY <2>2 DEF AllUpTo
  <2> QED BY <2>3
<1> HIDE DEF T
<1>3. n \in T
  BY <1>1, <1>2, NatSetInduction
<1> QED BY <1>3 DEF T

(* All messages are said, in their order.                                   *)
LEMMA AllSays ==
  ASSUME NEW o, OutOK(o), o.term.fg = White, NEW ms, Proper(ms), NEW ts, IsSeq(Chars(ts, 0)),
         NEW f, AllUpTo(f, o, ms, ts, Len(ms))
  PROVE  /\ Says(o, f[Len(ms)], Joined(Texts(ms, Chars(ts, 0)), << >>))
         /\ IsSeq(Joined(Texts(ms, Chars(ts, 0)), << >>))
<1> DEFINE n == Len(ms)  s == Chars(ts, 0)  ss == Texts(ms, s)
           Text(k) == MessageText(ms[k].level, ms[k].fmt, s)
<1>1. n \in Nat /\ DOMAIN ms = 1 .. n
  <2>1. IsSeq(ms)
    BY DEF Proper
  <2> QED BY <2>1, SeqDomain DEF IsSeq
<1>2. \A k \in 0 .. n : f[k] = AllOne(f, o, ms, ts, k)
  BY DEF AllUpTo
<1>3. \A k \in 1 .. n : IsSeq(ms[k].fmt) /\ \A j \in 1 .. Len(ms[k].fmt) : Sound(ms[k].fmt[j])
  BY DEF Proper
<1>4. ss = [k \in 1 .. n |-> Text(k)]
  BY <1>1 DEF Texts
<1>5. \A k \in 1 .. n : IsSeq(Text(k))
  <2> TAKE k \in 1 .. n
  <2>1. IsSeq(ms[k].fmt) /\ \A j \in 1 .. Len(ms[k].fmt) : Sound(ms[k].fmt[j])
    BY <1>3
  <2> QED BY <2>1, FormatSays
<1> HIDE DEF ss, n
<1>6. Len(ss) = n /\ \A k \in 1 .. n : ss[k] = Text(k) /\ IsSeq(ss[k])
  <2> HIDE DEF Text
  <2>1. \A k \in 1 .. n : ss[k] = Text(k)
    BY <1>4
  <2>2. ss = [k \in 1 .. n |-> ss[k]]
    BY <1>4
  <2>3. Len(ss) = n
    BY <1>1, <2>2, FunctionIsSeq
  <2> QED BY <1>5, <2>1, <2>3
<1>7. PICK g : Joined(ss, << >>) = g[n] /\ JoinsPlainly(g, ss, n)
  BY <1>1, <1>6, JoinedPlain
<1>8. /\ g[0] = << >> /\ \A k \in 1 .. n : g[k] = g[k - 1] \o ss[k]
      /\ \A k \in 0 .. n : IsSeq(g[k])
  BY <1>7 DEF JoinsPlainly
<1> DEFINE T == {k \in Nat : k <= n => Says(o, f[k], g[k])}
<1>9. 0 \in T
  <2>1. f[0] = o
    BY <1>1, <1>2 DEF AllOne
  <2>2. Says(o, o, << >>)
    BY SaysNothing
  <2> QED BY <1>8, <2>1, <2>2
<1>10. ASSUME NEW k \in Nat, k \in T PROVE k + 1 \in T
  <2> SUFFICES ASSUME k + 1 <= n PROVE Says(o, f[k + 1], g[k + 1])
    OBVIOUS
  <2>1. /\ k + 1 \in 1 .. n /\ k + 1 \in 0 .. n /\ k \in 0 .. n /\ k + 1 # 0 /\ (k + 1) - 1 = k
    BY <1>1
  <2> DEFINE p == f[k]  q == f[k + 1]  level == ms[k + 1].level  fmt == ms[k + 1].fmt
             a == g[k]  b == ss[k + 1]
  <2>2. Says(o, p, a) /\ IsSeq(a) /\ IsSeq(b) /\ b = Text(k + 1)
    BY <1>1, <1>6, <1>8, <1>10, <2>1
  <2>3. q = Format(p, level, fmt, ts)
    BY <1>2, <2>1 DEF AllOne
  <2>4. g[k + 1] = a \o b
    <3>1. g[k + 1] = g[(k + 1) - 1] \o ss[k + 1]
      BY <1>8, <2>1, Zenon
    <3> QED BY <2>1, <3>1, Zenon
  <2>5. IsSeq(fmt) /\ \A j \in 1 .. Len(fmt) : Sound(fmt[j])
    BY <1>3, <2>1
  <2>6. b = MessageText(level, fmt, s)
    BY <2>2
  <2> HIDE DEF p, q, level, fmt, a, b, s, Text
  <2>7. OutOK(p) /\ p.term.fg = White
    BY <2>2 DEF Says
  <2>8. Says(p, q, b)
    <3>1. Says(p, Format(p, level, fmt, ts), MessageText(level, fmt, Chars(ts, 0)))
      BY <2>5, <2>7, FormatSays
    <3> QED BY <2>3, <2>6, <3>1 DEF s
  <2>9. IsSeq(o.term.log)
    BY DEF OutOK
  <2>10. Says(o, q, a \o b)
    BY <2>2, <2>8, <2>9, SaysMore
  <2> QED BY <2>4, <2>10, Zenon DEF q
<1> HIDE DEF T
<1>11. n \in T
  BY <1>1, <1>9, <1>10, NatSetInduction
<1>12. Says(o, f[n], g[n])
  BY <1>1, <1>11 DEF T
<1>13. n \in 0 .. n
  BY <1>1
<1>14. IsSeq(g[n])
  BY <1>8, <1>13
<1> QED BY <1>7, <1>12, <1>14, Zenon DEF n, ss, s

(* The log of the last step is begun anew.                                  *)
LEMMA LogBegun ==
  ASSUME NEW t, TermOK(t), NEW u, u = [t EXCEPT !.log = << >>]
  PROVE  TermOK(u) /\ u.isready = t.isready /\ u.fg = t.fg /\ u.log = << >>
<1>1. Shape(t, t.isready, t.chr_index, t.fg, t.log, t.paper, t.fb_buffer, t.fb_mmio)
  BY DEF TermOK, Terminal
<1>2. Shape(u, t.isready, t.chr_index, t.fg, << >>, t.paper, t.fb_buffer, t.fb_mmio)
  BY <1>1 DEF Shape
<1> DEFINE e == << >>
<1> HIDE DEF e
<1>3. Shape(u, t.isready, t.chr_index, t.fg, e, t.paper, t.fb_buffer, t.fb_mmio)
  BY <1>2 DEF e
<1>4. /\ u.isready = t.isready /\ u.chr_index = t.chr_index /\ u.fg = t.fg /\ u.log = e
      /\ u.paper = t.paper /\ u.fb_buffer = t.fb_buffer /\ u.fb_mmio = t.fb_mmio
  BY <1>3 DEF Shape
<1>5. Terminal(u)
  BY <1>3, <1>4 DEF TermOK, Terminal
<1>6. \A top : RollAt(t, top) => RollAt(u, top)
  BY <1>4 DEF RollAt
<1>7. TermOK(u)
  BY <1>5, <1>6 DEF TermOK
<1> QED BY <1>4, <1>7 DEF e

(* Time is written as it is meant whenever it is written at all.            *)
LEMMA TextsMean ==
  ASSUME NEW ms, Proper(ms), NEW time, NEW s,
         (\E k \in DOMAIN ms : ms[k].level # "NONE") => s = StampMeaning(time)
  PROVE  Texts(ms, s) =
           [k \in DOMAIN ms |-> MessageMeaning(ms[k].level, ms[k].fmt, time)]
<1>1. ASSUME NEW k \in DOMAIN ms
      PROVE  MessageText(ms[k].level, ms[k].fmt, s) =
               MessageMeaning(ms[k].level, ms[k].fmt, time)
  <2> DEFINE level == ms[k].level  fmt == ms[k].fmt
  <2>1. level # "NONE" => s = StampMeaning(time)
    BY <1>1
  <2> HIDE DEF level, fmt
  <2>2. MessageText(level, fmt, s) = MessageMeaning(level, fmt, time)
    <3>1. CASE level = "NONE"
      BY <3>1, Zenon DEF MessageText, MessageMeaning, Meanings
    <3>2. CASE level # "NONE"
      BY <2>1, <3>2, Zenon DEF MessageText, MessageMeaning, Meanings, HeadText
    <3> QED BY <3>1, <3>2
  <2> QED BY <2>2 DEF level, fmt
<1> QED BY <1>1, Zenon DEF Texts

(* The messages of a step: what the terminal was given is what they mean.   *)
LEMMA PrintAllRight ==
  ASSUME NEW t, TermOK(t), t.fg = White, overrun \in BOOLEAN, DOMAIN stamp = 0 .. 15,
         elapsed \in Nat, NEW ms, Proper(ms), PrintAll(t, ms)
  PROVE  /\ TermOK(term') /\ term'.fg = White /\ term'.isready = t.isready
         /\ IsSeq(term'.log) /\ overrun' \in BOOLEAN /\ DOMAIN stamp' = 0 .. 15
         /\ ~overrun' => term'.log = meant'
<1> DEFINE ts == TimerFormat(stamp, elapsed)
           t0 == [t EXCEPT !.log = << >>]
           o == [term |-> t0, buf |-> buf, overrun |-> overrun]
           n == Len(ms)
           stamped == \E k \in DOMAIN ms : ms[k].level # "NONE"
           f == CHOOSE g : AllUpTo(g, o, ms, ts, n)
           s == Chars(ts, 0)
           all == Joined(Texts(ms, s), << >>)
           mean == Joined([k \in DOMAIN ms |->
                             MessageMeaning(ms[k].level, ms[k].fmt, elapsed)], << >>)
           late == elapsed >= 100000000
<1>1. n \in Nat
  BY DEF Proper, IsSeq
<1>2. /\ term' = f[n].term /\ buf' = f[n].buf
      /\ overrun' = (f[n].overrun \/ (stamped /\ late))
      /\ stamp' = (IF stamped THEN ts ELSE stamp)
      /\ meant' = (IF t.isready THEN mean ELSE << >>)
  BY DEF PrintAll, AllUpTo, AllOne
<1>3. AllUpTo(f, o, ms, ts, n)
  BY <1>1, AllExist
<1>4. DOMAIN ts = 0 .. 15 /\ IsSeq(s) /\ (~late => s = StampMeaning(elapsed))
  BY StampSays
<1>5. TermOK(t0) /\ t0.isready = t.isready /\ t0.fg = White /\ t0.log = << >>
  BY LogBegun
<1>6. IsSeq(<< >>) /\ \A x : IsSeq(x) => << >> \o x = x
  BY SeqEmpty
<1> HIDE DEF f, ts, t0, late
<1>7. o.term = t0 /\ o.buf = buf /\ o.overrun = overrun
  OBVIOUS
<1> HIDE DEF o
<1>8. OutOK(o) /\ o.term.fg = White
  <2>1. IsSeq(t0.log)
    BY <1>5, <1>6
  <2>2. o = [term |-> o.term, buf |-> o.buf, overrun |-> o.overrun]
    BY <1>7 DEF o
  <2> QED BY <1>5, <1>7, <2>1, <2>2 DEF OutOK
<1>9. Says(o, f[n], all) /\ IsSeq(all)
  <2>1. AllUpTo(f, o, ms, ts, Len(ms)) /\ IsSeq(Chars(ts, 0))
    BY <1>3, <1>4
  <2> HIDE DEF n
  <2>2. Says(o, f[Len(ms)], Joined(Texts(ms, Chars(ts, 0)), << >>))
    BY <1>8, <2>1, AllSays
  <2>3. IsSeq(Joined(Texts(ms, Chars(ts, 0)), << >>))
    BY <1>8, <2>1, AllSays
  <2> QED BY <2>2, <2>3, Zenon DEF n
<1> DEFINE q == f[n]
<1> HIDE DEF all, mean, n, q, stamped
<1>10. /\ TermOK(q.term) /\ IsSeq(q.term.log) /\ q.overrun \in BOOLEAN
       /\ q.term.isready = t.isready /\ q.term.fg = White
       /\ q.term.log = IF t.isready THEN all ELSE << >>
  <2>1. Says(o, q, all)
    BY <1>9 DEF q
  <2>2. q.term.log = IF o.term.isready THEN o.term.log \o all ELSE o.term.log
    BY <2>1 DEF Says
  <2>3. << >> \o all = all
    BY <1>6, <1>9
  <2>4. q.term.log = IF t.isready THEN all ELSE << >>
    BY <1>5, <1>7, <2>2, <2>3, Zenon
  <2> QED BY <1>5, <1>7, <1>8, <2>1, <2>4 DEF Says, OutOK
<1>11. stamped \in BOOLEAN
  BY DEF stamped
<1>12. ASSUME ~overrun', t.isready PROVE all = mean
  <2>1. ~(stamped /\ late)
    BY <1>2, <1>12
  <2>2. stamped => s = StampMeaning(elapsed)
    BY <1>4, <2>1
  <2>3. Texts(ms, s) =
          [k \in DOMAIN ms |-> MessageMeaning(ms[k].level, ms[k].fmt, elapsed)]
    <3>1. (\E k \in DOMAIN ms : ms[k].level # "NONE") => s = StampMeaning(elapsed)
      BY <2>2 DEF stamped
    <3> HIDE DEF s
    <3> QED BY <3>1, TextsMean
  <2> QED BY <2>3 DEF all, mean
<1>13. ~overrun' => term'.log = meant'
  <2>1. term' = q.term
    BY <1>2 DEF q
  <2> QED BY <1>2, <1>10, <1>12, <2>1, Zenon
<1>14. overrun' \in BOOLEAN
  BY <1>2, <1>10, <1>11 DEF q
<1>15. DOMAIN stamp' = 0 .. 15
  BY <1>2, <1>4
<1>16. term' = q.term
  BY <1>2 DEF q
<1> QED BY <1>10, <1>13, <1>14, <1>15, <1>16, Zenon

-----------------------------------------------------------------------------
(* The steps of Console, and its invariant.                                 *)

Has(t, r, x, fg, log, paper, b, m) ==
  /\ t.isready = r /\ t.chr_index = x /\ t.fg = fg /\ t.log = log /\ t.paper = paper
  /\ t.fb_buffer = b /\ t.fb_mmio = m

Reset(v, t, x, fg) == v = [t EXCEPT !.chr_index = x, !.fg = fg]
Readied(u, w) == u = [w EXCEPT !.isready = TRUE]

(* The cursor goes back, and the shape stays.                               *)
LEMMA ShapeReset ==
  ASSUME NEW t, NEW r, NEW x, NEW fg, NEW log, NEW paper, NEW b, NEW m,
         Shape(t, r, x, fg, log, paper, b, m), NEW z, NEW fg2, NEW u,
         Reset(u, t, z, fg2)
  PROVE  Shape(u, r, z, fg2, log, paper, b, m) /\ u.isready = r
BY DEF Shape, Reset

(* The terminal gets ready, and the shape stays.                            *)
LEMMA ShapeReady ==
  ASSUME NEW t, NEW r, NEW x, NEW fg, NEW log, NEW paper, NEW b, NEW m,
         Shape(t, r, x, fg, log, paper, b, m), NEW u, Readied(u, t)
  PROVE  Shape(u, TRUE, x, fg, log, paper, b, m) /\ Has(u, TRUE, x, fg, log, paper, b, m)
BY DEF Shape, Has, Readied

(* terminal_initialize: the terminal gets ready where it stands.            *)
LEMMA GetsReady ==
  ASSUME NEW t, TermOK(t), ~t.isready, NEW z, z = 0, NEW fg, fg = White,
         NEW v, Reset(v, t, z, fg), NEW w, w = TerminalClear(v), NEW u, Readied(u, w)
  PROVE  TermOK(u) /\ u.isready /\ u.fg = White
<1>1. Shape(t, t.isready, t.chr_index, t.fg, t.log, t.paper, t.fb_buffer, t.fb_mmio)
  BY DEF TermOK, Terminal
<1>2. Shape(v, t.isready, z, fg, t.log, t.paper, t.fb_buffer, t.fb_mmio)
  BY <1>1, ShapeReset
<1>3. v.isready = t.isready
  BY <1>1, ShapeReset
<1>4. w = v
  BY <1>3 DEF TerminalClear
<1>5. Shape(w, t.isready, z, fg, t.log, t.paper, t.fb_buffer, t.fb_mmio)
  BY <1>2, <1>4
<1>6. /\ Shape(u, TRUE, z, fg, t.log, t.paper, t.fb_buffer, t.fb_mmio)
      /\ Has(u, TRUE, z, fg, t.log, t.paper, t.fb_buffer, t.fb_mmio)
  BY <1>5, ShapeReady
<1>7. /\ u.isready = TRUE /\ u.chr_index = z /\ u.fg = fg /\ u.log = t.log
       /\ u.paper = t.paper /\ u.fb_buffer = t.fb_buffer /\ u.fb_mmio = t.fb_mmio
  BY <1>6 DEF Has
<1>8. /\ t.chr_index = z /\ t.paper = [at |-> t.paper.at, ink |-> t.paper.ink]
       /\ t.chr_index \in 0 .. Width * Height
  BY DEF TermOK, Terminal
<1>9. Terminal(u)
  BY <1>6, <1>7, <1>8 DEF Terminal
<1>10. \A top : RollAt(t, top) => RollAt(u, top)
  BY <1>7, <1>8 DEF RollAt
<1>11. TermOK(u)
  BY <1>9, <1>10 DEF TermOK
<1> QED BY <1>7, <1>11

(* Every message is one that Proper describes.                              *)
LEMMA GivenMessages ==
  ASSUME NEW msg \in Messages
  PROVE  Proper(<<msg>>)
<1>1. msg.fmt \in Seq(FmtElements)
  BY MessageAssumption
<1>2. IsSeq(msg.fmt) /\ \A j \in 1 .. Len(msg.fmt) : msg.fmt[j] \in FmtElements
  <2> HIDE DEF FmtElements
  <2> DEFINE g == msg.fmt
  <2> HIDE DEF g
  <2>1. g \in Seq(FmtElements)
    BY <1>1 DEF g
  <2>2. IsSeq(g) /\ \A j \in 1 .. Len(g) : g[j] \in FmtElements
    BY <2>1, SetInSeq, ElementOfSeq
  <2> QED BY <2>2 DEF g
<1>3. \A j \in 1 .. Len(msg.fmt) : Sound(msg.fmt[j])
  BY <1>2, SoundElements
<1> DEFINE ms == <<msg>>
<1>4. IsSeq(ms) /\ Len(ms) = 1
  BY FewChars
<1>5. ms[1] = msg
  OBVIOUS
<1> HIDE DEF ms
<1>6. \A k \in 1 .. Len(ms) : ms[k] = msg
  BY <1>4, <1>5
<1>7. Proper(ms)
  BY <1>2, <1>3, <1>4, <1>6 DEF Proper
<1> QED BY <1>7 DEF ms

(* What terminal_initialize says of itself.                                 *)
LEMMA FirstMessages ==
  Proper(<< [level |-> "INFO",
             fmt |-> << <<"put", <<84>> >>, <<"d", <<Width>> >>,
                        <<"put", <<120>> >>, <<"d", <<Height>> >>,
                        <<"put", <<Newline>> >> >>],
            [level |-> "OKAY", fmt |-> << <<"put", <<70, Newline>> >> >>] >>)
<1> DEFINE W == Width  H == Height
           e1 == <<"put", <<84>> >>  e2 == <<"d", <<W>> >>  e3 == <<"put", <<120>> >>
           e4 == <<"d", <<H>> >>  e5 == <<"put", <<Newline>> >>
           e6 == <<"put", <<70, Newline>> >>
           g == <<e1, e2, e3, e4, e5>>  h == <<e6>>
           m1 == [level |-> "INFO", fmt |-> g]  m2 == [level |-> "OKAY", fmt |-> h]
           ms == <<m1, m2>>
<1>1. Sound(e1) /\ Sound(e3) /\ Sound(e5) /\ Sound(e6)
  <2>1. IsSeq(<<84>>) /\ IsSeq(<<120>>) /\ IsSeq(<<Newline>>) /\ IsSeq(<<70, Newline>>)
    BY FewChars
  <2> DEFINE a == <<84>>  b == <<120>>  c == <<Newline>>  d == <<70, Newline>>
  <2>2. IsSeq(a) /\ IsSeq(b) /\ IsSeq(c) /\ IsSeq(d)
    BY <2>1
  <2> HIDE DEF a, b, c, d
  <2>3. Sound(<<"put", a>>) /\ Sound(<<"put", b>>) /\ Sound(<<"put", c>>) /\ Sound(<<"put", d>>)
    BY <2>2, SoundElements
  <2> QED BY <2>3 DEF a, b, c, d
<1>2. Sound(e2) /\ Sound(e4)
  <2> DEFINE p == Power(2, IntBits - 1)
  <2>1. p \in Nat
    <3>1. IntBits - 1 \in Nat
      BY ConsoleAssumption
    <3> QED BY <3>1, PowerPositive
  <2>2. FbWidth \in 0 .. p - 1 /\ FbHeight \in 0 .. p - 1
    BY ConsoleAssumption
  <2> HIDE DEF p, W, H
  <2>3. W \in 0 .. p - 1 /\ H \in 0 .. p - 1
    BY <2>1, <2>2, Sizes DEF W, H
  <2>4. W \in -p .. p - 1 /\ H \in -p .. p - 1
    BY <2>1, <2>3
  <2>5. \A v \in -p .. p - 1 : <<"d", <<v>> >> \in FmtElements
    <3> TAKE v \in -p .. p - 1
    <3> DEFINE D == {<<x>> : x \in -p .. p - 1}
    <3>1. <<v>> \in D
      OBVIOUS
    <3> HIDE DEF D
    <3>2. <<"d", <<v>> >> \in {"d", "b"} \X D
      BY <3>1
    <3>3. {"d", "b"} \X D \subseteq FmtElements
      BY DEF FmtElements, D, p
    <3> QED BY <3>2, <3>3
  <2>6. e2 \in FmtElements /\ e4 \in FmtElements
    BY <2>4, <2>5
  <2> QED BY <2>6, SoundElements
<1> HIDE DEF e1, e2, e3, e4, e5, e6
<1>3. IsSeq(g) /\ \A j \in 1 .. Len(g) : Sound(g[j])
  <2>1. g = [k \in 1 .. 5 |-> g[k]]
    OBVIOUS
  <2>2. g[1] = e1 /\ g[2] = e2 /\ g[3] = e3 /\ g[4] = e4 /\ g[5] = e5
    OBVIOUS
  <2> HIDE DEF g
  <2>3. IsSeq(g) /\ Len(g) = 5
    BY <2>1, FunctionIsSeq
  <2>4. \A j \in 1 .. 5 : Sound(g[j])
    <3> TAKE j \in 1 .. 5
    <3>1. j = 1 \/ j = 2 \/ j = 3 \/ j = 4 \/ j = 5
      OBVIOUS
    <3> QED BY <1>1, <1>2, <2>2, <3>1, Zenon
  <2> QED BY <2>3, <2>4
<1>4. IsSeq(h) /\ \A j \in 1 .. Len(h) : Sound(h[j])
  <2>1. IsSeq(h) /\ Len(h) = 1
    BY FewChars
  <2>2. h[1] = e6
    OBVIOUS
  <2> HIDE DEF h
  <2> QED BY <1>1, <2>1, <2>2
<1> HIDE DEF g, h
<1>5. m1.fmt = g /\ m2.fmt = h
  OBVIOUS
<1> HIDE DEF m1, m2
<1>6. IsSeq(ms) /\ Len(ms) = 2
  BY FewChars
<1>7. ms[1] = m1 /\ ms[2] = m2
  OBVIOUS
<1> HIDE DEF ms
<1>8. ASSUME NEW k \in 1 .. 2
      PROVE  IsSeq(ms[k].fmt) /\ \A j \in 1 .. Len(ms[k].fmt) : Sound(ms[k].fmt[j])
  <2>1. k = 1 \/ k = 2
    OBVIOUS
  <2>2. ms[k].fmt = g \/ ms[k].fmt = h
    BY <1>5, <1>7, <2>1
  <2> QED BY <1>3, <1>4, <2>2
<1>9. Proper(ms)
  BY <1>6, <1>8 DEF Proper
<1> QED BY <1>9 DEF ms, m1, m2, g, h, e1, e2, e3, e4, e5, e6

(* The invariant of the console.                                            *)
ConInv ==
  /\ TermOK(term) /\ IsSeq(term.log) /\ term.fg = White
  /\ overrun \in BOOLEAN /\ DOMAIN stamp = 0 .. 15
  /\ elapsed \in Moments \cup {0} /\ prints \in 0 .. MaxPrints
  /\ ~overrun => term.log = meant

(* The console is in order before its first message.                        *)
LEMMA ConInvInit == ConInit => ConInv
<1> SUFFICES ASSUME ConInit PROVE ConInv
  OBVIOUS
<1> DEFINE no == << >>  z == 0  ink == [i \in {} |-> Dark]  paper == [at |-> z, ink |-> ink]
           b == [i \in Cells |-> Junk]  m == [i \in Cells |-> Boot]
<1>1. Shape(term, FALSE, z, White, no, paper, b, m)
  BY DEF ConInit, Shape
<1>2. z \in Nat /\ z = 0 /\ IsSeq(no) /\ meant = no /\ DOMAIN ink = {}
  BY SeqEmpty DEF ConInit
<1>3. paper.at = z /\ paper.ink = ink /\ paper = [at |-> z, ink |-> ink]
  OBVIOUS
<1>4. Width * Height \in Nat /\ Width \in Nat
  BY Sizes
<1>5. \A i \in Cells : i + z * Width = i /\ i + z * Width \in Cells
  BY <1>4 DEF Cells
<1>6. Image(b, m, ink, z)
  <2>1. \A i \in Cells : \A k : Want(ink, i + z * Width, k) = k
    <3> TAKE i \in Cells
    <3> TAKE k
    <3>1. i + z * Width \in Cells /\ i + z * Width \notin DOMAIN ink
      BY <1>2, <1>5
    <3> HIDE DEF ink, z
    <3> QED BY <3>1 DEF Want
  <2>2. b = [i \in Cells |-> Want(ink, i + z * Width, Junk)]
    BY <2>1
  <2>3. m = [i \in Cells |-> Want(ink, i + z * Width, IF z = 0 THEN Boot ELSE Junk)]
    BY <2>1
  <2> HIDE DEF ink, z, b, m
  <2> QED BY <1>2, <2>2, <2>3 DEF Image
<1> HIDE DEF no, z, ink, paper, b, m
<1>7. /\ term.isready = FALSE /\ term.chr_index = z /\ term.fg = White /\ term.log = no
      /\ term.paper = paper /\ term.fb_buffer = b /\ term.fb_mmio = m
  BY <1>1 DEF Shape
<1>8. Terminal(term)
  <2> DEFINE t == term
  <2>1. Shape(t, t.isready, t.chr_index, t.fg, t.log, t.paper, t.fb_buffer, t.fb_mmio)
    BY <1>1, ShapeFields
  <2>2. t.paper = [at |-> t.paper.at, ink |-> t.paper.ink]
    BY <1>3, <1>7
  <2>3. t.isready \in BOOLEAN /\ t.chr_index \in 0 .. Width * Height
    <3> DEFINE N == Width * Height
    <3>1. N \in Nat
      BY <1>4
    <3>2. t.isready = FALSE /\ t.chr_index = z
      BY <1>7
    <3> HIDE DEF N, t
    <3>3. t.isready \in BOOLEAN
      BY <3>2, Zenon
    <3>4. t.chr_index \in 0 .. N
      BY <1>2, <3>1, <3>2
    <3> QED BY <3>3, <3>4 DEF N
  <2>4. t.chr_index = 0 /\ t.paper.at = 0
    BY <1>2, <1>3, <1>7
  <2> HIDE DEF t
  <2>5. Terminal(t)
    BY <2>1, <2>2, <2>3, <2>4 DEF Terminal
  <2> QED BY <2>5 DEF t
<1>9. RollAt(term, z)
  BY <1>2, <1>3, <1>4, <1>6, <1>7 DEF RollAt
<1>10. TermOK(term)
  BY <1>2, <1>8, <1>9 DEF TermOK
<1>11. MaxPrints \in Nat
  BY ConsoleAssumption
<1>12. /\ overrun = FALSE /\ DOMAIN stamp = 0 .. 15 /\ elapsed = 0 /\ prints = 0
  BY DEF ConInit
<1>13. overrun \in BOOLEAN /\ elapsed \in Moments \cup {0} /\ prints \in 0 .. MaxPrints
  <2>1. overrun \in BOOLEAN
    BY <1>12, Zenon
  <2>2. elapsed \in Moments \cup {0}
    BY <1>12
  <2>3. prints \in 0 .. MaxPrints
    BY <1>11, <1>12
  <2> QED BY <2>1, <2>2, <2>3
<1> QED BY <1>2, <1>7, <1>10, <1>12, <1>13, Zenon DEF ConInv

(* A step of the console leaves it in order.                                *)
LEMMA ConInvNext == ConInv /\ [ConNext]_convars => ConInv'
<1> SUFFICES ASSUME ConInv, [ConNext]_convars PROVE ConInv'
  OBVIOUS
<1>0. elapsed \in Nat /\ Moments \subseteq Nat /\ MaxPrints \in Nat
  BY ConsoleAssumption DEF ConInv
<1>1. ASSUME NEW t, TermOK(t), t.fg = White, NEW ms, Proper(ms), PrintAll(t, ms),
             UNCHANGED elapsed, prints' \in 0 .. MaxPrints
      PROVE  ConInv'
  <2>1. overrun \in BOOLEAN /\ DOMAIN stamp = 0 .. 15
    BY DEF ConInv
  <2>2. /\ TermOK(term') /\ term'.fg = White /\ IsSeq(term'.log) /\ overrun' \in BOOLEAN
        /\ DOMAIN stamp' = 0 .. 15 /\ (~overrun' => term'.log = meant')
    BY <1>0, <1>1, <2>1, PrintAllRight
  <2> QED BY <1>1, <2>2, Zenon DEF ConInv
<1>2. CASE TerminalInitialize
  <2> DEFINE z == 0  v == [term EXCEPT !.chr_index = 0, !.fg = White]
             w == TerminalClear(v)  u == [w EXCEPT !.isready = TRUE]
             ms == << [level |-> "INFO",
                       fmt |-> << <<"put", <<84>> >>, <<"d", <<Width>> >>,
                                  <<"put", <<120>> >>, <<"d", <<Height>> >>,
                                  <<"put", <<Newline>> >> >>],
                      [level |-> "OKAY", fmt |-> << <<"put", <<70, Newline>> >> >>] >>
  <2>1. Reset(v, term, z, White) /\ Readied(u, w)
    BY DEF Reset, Readied
  <2>2. PrintAll(u, ms)
    BY <1>2, Zenon DEF TerminalInitialize
  <2>3. ~term.isready /\ UNCHANGED <<elapsed, prints>>
    BY <1>2 DEF TerminalInitialize
  <2>4. Proper(ms)
    BY FirstMessages
  <2>5. w = TerminalClear(v) /\ z = 0
    OBVIOUS
  <2> HIDE DEF z, v, w, u, ms
  <2>6. TermOK(term)
    BY DEF ConInv
  <2>7. TermOK(u) /\ u.fg = White
    <3> DEFINE fg == White  t == term
    <3>1. fg = White /\ Reset(v, t, z, fg) /\ Readied(u, w)
      BY <2>1
    <3>0. TermOK(t) /\ ~t.isready
      BY <2>3, <2>6
    <3> HIDE DEF fg, t
    <3>2. TermOK(u) /\ u.fg = White
      BY <2>5, <3>0, <3>1, GetsReady
    <3> QED BY <3>2
  <2>8. prints' \in 0 .. MaxPrints
    BY <2>3 DEF ConInv
  <2> QED BY <1>1, <2>2, <2>3, <2>4, <2>7, <2>8
<1>3. CASE Printf
  <2>1. PICK msg \in Messages : PrintAll(term, <<msg>>)
    BY <1>3 DEF Printf
  <2>2. prints < MaxPrints /\ prints' = prints + 1 /\ UNCHANGED elapsed
    BY <1>3 DEF Printf
  <2>3. prints' \in 0 .. MaxPrints
    BY <1>0, <2>2 DEF ConInv
  <2>4. Proper(<<msg>>)
    BY GivenMessages
  <2>5. TermOK(term) /\ term.fg = White
    BY DEF ConInv
  <2> DEFINE t == term  ms == <<msg>>
  <2>6. TermOK(t) /\ t.fg = White /\ Proper(ms) /\ PrintAll(t, ms)
    BY <2>1, <2>4, <2>5
  <2> HIDE DEF t, ms
  <2> QED BY <1>1, <2>2, <2>3, <2>6
<1>4. CASE TimerTick
  <2>1. elapsed' \in Moments \cup {0}
    BY <1>4 DEF TimerTick
  <2>2. UNCHANGED <<term, buf, overrun, stamp, meant, prints>>
    BY <1>4 DEF TimerTick
  <2> QED BY <2>1, <2>2 DEF ConInv, TermOK, Terminal, RollAt
<1>5. CASE UNCHANGED convars
  BY <1>5 DEF convars, ConInv, TermOK, Terminal, RollAt
<1> QED BY <1>2, <1>3, <1>4, <1>5 DEF ConNext

(* So it always is.                                                         *)
LEMMA ConInvHolds == ConSpec => []ConInv
BY ConInvInit, ConInvNext, PTL DEF ConSpec

(* SaysWhatIsMeant: whatever printf's buffer still holds, the terminal      *)
(* gets the time, the level in its colour and the arguments in white.       *)
THEOREM SaysWhatIsMeantHolds == ConSpec => []SaysWhatIsMeant
<1>1. ConInv => SaysWhatIsMeant
  BY DEF ConInv, SaysWhatIsMeant
<1> QED BY <1>1, ConInvHolds, PTL

-----------------------------------------------------------------------------
(* The pixels: each row of each cell has its own place.                     *)

(* What a terminal shows of the roll.                                       *)
LEMMA TerminalShows ==
  ASSUME TermOK(term)
  PROVE  ScreenShowsTail /\ CopyIsScreen
<1> DEFINE t == term  x == t.chr_index  paper == t.paper  b == t.fb_buffer  m == t.fb_mmio
           ink == paper.ink
<1>1. PICK top \in Nat : RollAt(t, top)
  BY DEF TermOK
<1>2. /\ Image(b, m, ink, top) /\ paper.at = x + top * Width
      /\ top > 0 => x >= Width * (Height - 1)
  BY <1>1 DEF RollAt
<1>3. x \in Nat /\ Width \in Nat \ {0}
  <2>1. x \in 0 .. Width * Height
    BY DEF TermOK, Terminal
  <2> QED BY <2>1, Sizes
<1> DEFINE at == paper.at
<1>4. (at - x) \div Width = top
  <2>1. at - x = Width * top + 0 /\ at - x \in Nat
    BY <1>2, <1>3
  <2>2. 0 \in 0 .. Width - 1
    BY <1>3
  <2> DEFINE z == 0  d == at - x
  <2> HIDE DEF z, d
  <2>3. d = Width * top + z /\ d \in Nat /\ z \in 0 .. Width - 1
    BY <2>1, <2>2 DEF z, d
  <2>4. d \div Width = top
    BY <1>3, <2>3, DivUnique
  <2> QED BY <2>4 DEF d
<1> DEFINE blank == IF top = 0 THEN Boot ELSE Junk
<1>5. ASSUME NEW i \in Cells
      PROVE  m[i] = Want(ink, i + top * Width, blank) /\ b[i] = Want(ink, i + top * Width, Junk)
  BY <1>2 DEF Image
<1>6. ASSUME NEW i \in Cells
      PROVE  m[i] = IF i + top * Width \in DOMAIN ink THEN ink[i + top * Width]
                    ELSE IF i + top * Width \notin Cells THEN Dark
                    ELSE IF top = 0 THEN Boot ELSE Junk
  BY <1>5 DEF Want
<1>7. ScreenShowsTail
  <2> DEFINE up == (at - x) \div Width
  <2>1. up = top
    BY <1>4
  <2> HIDE DEF up
  <2>2. up >= 0 /\ at = x + up * Width /\ (up > 0 => x >= Width * (Height - 1))
    BY <1>2, <2>1
  <2>3. \A i \in Cells : m[i] = IF i + up * Width \in DOMAIN ink THEN ink[i + up * Width]
                                ELSE IF i + up * Width \notin Cells THEN Dark
                                ELSE IF up = 0 THEN Boot ELSE Junk
    BY <1>6, <2>1
  <2> QED BY <2>2, <2>3, Zenon DEF ScreenShowsTail, up
<1>8. CopyIsScreen
  <2> SUFFICES ASSUME NEW i \in Cells
               PROVE  m[i] = b[i] \/ (m[i] = Boot /\ b[i] = Junk)
    BY DEF CopyIsScreen
  <2> DEFINE p == i + top * Width
  <2>1. m[i] = Want(ink, p, blank) /\ b[i] = Want(ink, p, Junk)
    BY <1>5
  <2> HIDE DEF p, m, b, ink
  <2> QED BY <2>1 DEF Want
<1> QED BY <1>7, <1>8

(* The frame buffer is walked row by row, and no row runs into the next.    *)
Place(x, y) == (y * FbPitch) \div 4 + x
LEMMA RowsApart ==
  ASSUME NEW y \in Nat, NEW v \in Nat, y < v
  PROVE  /\ (y * FbPitch) \div 4 \in Nat /\ (v * FbPitch) \div 4 \in Nat
         /\ (v * FbPitch) \div 4 >= (y * FbPitch) \div 4 + FbWidth
         /\ 4 * ((y * FbPitch) \div 4) + FbPitch <= v * FbPitch
<1> DEFINE yp == y * FbPitch  vp == v * FbPitch
<1>1. FbPitch \in Nat /\ FbWidth \in Nat /\ FbPitch >= 4 * FbWidth
  BY ConsoleAssumption
<1>2. PICK s \in Nat : v = y + 1 + s
  <2>1. v - (y + 1) \in Nat /\ v = y + 1 + (v - (y + 1))
    OBVIOUS
  <2> QED BY <2>1
<1>3. vp = yp + FbPitch + s * FbPitch /\ s * FbPitch \in Nat /\ yp \in Nat /\ vp \in Nat
  BY <1>1, <1>2
<1> HIDE DEF yp, vp
<1> DEFINE sp == s * FbPitch
<1>4. sp \in Nat /\ vp = yp + FbPitch + sp
  BY <1>3
<1> HIDE DEF sp
<1>5. /\ yp \div 4 \in Nat /\ vp \div 4 \in Nat /\ vp \div 4 >= yp \div 4 + FbWidth
      /\ 4 * (yp \div 4) + FbPitch <= vp
  BY <1>1, <1>3, <1>4
<1> QED BY <1>5 DEF yp, vp

(* Pixels of the frame buffer lie apart.                                    *)
LEMMA PlacesApart ==
  ASSUME NEW x \in 0 .. FbWidth - 1, NEW y \in Nat, NEW u \in 0 .. FbWidth - 1, NEW v \in Nat,
         Place(x, y) = Place(u, v)
  PROVE  x = u /\ y = v
<1> DEFINE r == (y * FbPitch) \div 4  s == (v * FbPitch) \div 4
<1>1. FbWidth \in Nat
  BY ConsoleAssumption
<1>2. r + x = s + u
  BY DEF Place
<1>3. y < v => r \in Nat /\ s \in Nat /\ s >= r + FbWidth
  BY RowsApart
<1>4. v < y => r \in Nat /\ s \in Nat /\ r >= s + FbWidth
  BY RowsApart
<1>5. y = v => r = s
  OBVIOUS
<1>6. r \in Nat
  BY RowsApart
<1> HIDE DEF r, s
<1>7. ~(y < v) /\ ~(v < y)
  BY <1>1, <1>2, <1>3, <1>4
<1>8. y = v
  BY <1>7
<1> QED BY <1>2, <1>5, <1>6, <1>8

(* Where the pixel ix, iy of a cell lies: off the border.                   *)
GlyphX(i, ix) == (i % Width) * 8 + ix + 8
GlyphY(i, iy) == (i \div Width) * 16 + iy + 8

(* Every row of a glyph lies inside the frame buffer.                       *)
LEMMA GlyphLies ==
  ASSUME NEW i \in Cells, NEW ix \in 0 .. 7, NEW iy \in 0 .. 15
  PROVE  /\ GlyphX(i, ix) \in 8 .. FbWidth - 9 /\ GlyphY(i, iy) \in 8 .. FbHeight - 9
         /\ PixelAt((i % Width) * 8 + ix, (i \div Width) * 16 + iy)
              = Place(GlyphX(i, ix), GlyphY(i, iy))
<1> DEFINE q == i \div Width  r == i % Width  size == Width * Height
<1>1. /\ Width \in Nat \ {0} /\ Height \in Nat /\ size \in Nat
      /\ 8 * Width + 16 <= FbWidth /\ 16 * Height + 16 <= FbHeight
      /\ i \in Nat /\ i < size
  BY Sizes
<1>2. q \in Nat /\ r \in 0 .. Width - 1 /\ i = Width * q + r
  BY <1>1, DivDef
<1> HIDE DEF q, r
<1>3. q < Height
  <2> SUFFICES ASSUME Height <= q PROVE FALSE
    BY <1>1, <1>2
  <2>1. PICK s \in Nat : q = Height + s
    <3>1. q - Height \in Nat /\ q = Height + (q - Height)
      BY <1>1, <1>2
    <3> QED BY <3>1
  <2>2. Width * q = size + Width * s /\ Width * s \in Nat /\ Width * q \in Nat
    BY <1>1, <2>1
  <2> HIDE DEF size
  <2> QED BY <1>1, <1>2, <2>2
<1>4. r * 8 + ix + 8 \in 8 .. FbWidth - 9 /\ q * 16 + iy + 8 \in 8 .. FbHeight - 9
  <2>1. FbWidth \in Nat /\ FbHeight \in Nat
    BY ConsoleAssumption
  <2>2. r * 8 + ix + 8 >= 8 /\ r * 8 + ix + 8 <= FbWidth - 9
    BY <1>1, <1>2, <2>1
  <2>3. q * 16 + iy + 8 >= 8 /\ q * 16 + iy + 8 <= FbHeight - 9
    BY <1>1, <1>2, <1>3, <2>1
  <2>4. r * 8 + ix + 8 \in Int /\ q * 16 + iy + 8 \in Int
    BY <1>2
  <2> QED BY <2>1, <2>2, <2>3, <2>4
<1>5. PixelAt(r * 8 + ix, q * 16 + iy) = Place(r * 8 + ix + 8, q * 16 + iy + 8)
  <2> DEFINE x == r * 8 + ix  y == q * 16 + iy  row == ((y + 8) * FbPitch) \div 4
  <2>1. x \in Nat /\ y \in Nat
    BY <1>2
  <2> HIDE DEF x, y
  <2>2. row \in Nat
    BY <2>1, RowsApart
  <2>3. row + x + 8 = row + (x + 8)
    <3> HIDE DEF row
    <3> QED BY <2>1, <2>2
  <2>4. PixelAt(x, y) = Place(x + 8, y + 8)
    BY <2>3 DEF PixelAt, Place
  <2> QED BY <2>4 DEF x, y
<1> QED BY <1>4, <1>5 DEF GlyphX, GlyphY, q, r

(* A word of the border.                                                    *)
LEMMA BorderLies ==
  ASSUME NEW w \in Border
  PROVE  \E x \in 0 .. FbWidth - 1, y \in 0 .. FbHeight - 1 :
           /\ w = Place(x, y)
           /\ x \notin 8 .. FbWidth - 9 \/ y \notin 8 .. FbHeight - 9
<1>1. FbWidth \in Nat /\ FbHeight \in Nat /\ FbWidth >= 32 /\ FbHeight >= 32
  BY ConsoleAssumption
<1>2. ASSUME NEW x \in 0 .. FbWidth - 1, NEW y \in 0 .. FbHeight - 1
      PROVE  PixelAt(x - 8, y - 8) = Place(x, y)
  <2>1. (y - 8) + 8 = y
    BY <1>1, <1>2
  <2> DEFINE row == (y * FbPitch) \div 4
  <2>2. row \in Nat
    <3>1. y \in Nat
      BY <1>1
    <3> QED BY <3>1, RowsApart
  <2> HIDE DEF row
  <2>3. row + (x - 8) + 8 = row + x
    BY <1>1, <2>2
  <2> QED BY <2>1, <2>3 DEF PixelAt, Place, row
<1>3. CASE \E x \in 0 .. FbWidth - 1, y \in 0 .. 7 : w = PixelAt(x - 8, y - 8)
  <2>1. PICK x \in 0 .. FbWidth - 1, y \in 0 .. 7 : w = PixelAt(x - 8, y - 8)
    BY <1>3
  <2>2. y \in 0 .. FbHeight - 1 /\ y \notin 8 .. FbHeight - 9
    BY <1>1
  <2> QED BY <1>2, <2>1, <2>2
<1>4. CASE \E x \in 0 .. FbWidth - 1, y \in 0 .. 7 : w = PixelAt(x - 8, y - 16 + FbHeight)
  <2>1. PICK x \in 0 .. FbWidth - 1, y \in 0 .. 7 : w = PixelAt(x - 8, y - 16 + FbHeight)
    BY <1>4
  <2> DEFINE v == y - 8 + FbHeight
  <2>2. v \in 0 .. FbHeight - 1 /\ v \notin 8 .. FbHeight - 9 /\ y - 16 + FbHeight = v - 8
    BY <1>1
  <2> HIDE DEF v
  <2>3. w = PixelAt(x - 8, v - 8)
    BY <2>1, <2>2
  <2> QED BY <1>2, <2>2, <2>3
<1>5. CASE \E x \in 0 .. 7, y \in 0 .. FbHeight - 1 : w = PixelAt(x - 8, y - 8)
  <2>1. PICK x \in 0 .. 7, y \in 0 .. FbHeight - 1 : w = PixelAt(x - 8, y - 8)
    BY <1>5
  <2>2. x \in 0 .. FbWidth - 1 /\ x \notin 8 .. FbWidth - 9
    BY <1>1
  <2> QED BY <1>2, <2>1, <2>2
<1>6. CASE \E x \in 0 .. 7, y \in 0 .. FbHeight - 1 : w = PixelAt(x - 16 + FbWidth, y - 8)
  <2>1. PICK x \in 0 .. 7, y \in 0 .. FbHeight - 1 : w = PixelAt(x - 16 + FbWidth, y - 8)
    BY <1>6
  <2> DEFINE u == x - 8 + FbWidth
  <2>2. u \in 0 .. FbWidth - 1 /\ u \notin 8 .. FbWidth - 9 /\ x - 16 + FbWidth = u - 8
    BY <1>1
  <2> HIDE DEF u
  <2>3. w = PixelAt(u - 8, y - 8)
    BY <2>1, <2>2
  <2> QED BY <1>2, <2>2, <2>3
<1>7. \/ \E x \in 0 .. FbWidth - 1, y \in 0 .. 7 : w = PixelAt(x - 8, y - 8)
      \/ \E x \in 0 .. FbWidth - 1, y \in 0 .. 7 : w = PixelAt(x - 8, y - 16 + FbHeight)
      \/ \E x \in 0 .. 7, y \in 0 .. FbHeight - 1 : w = PixelAt(x - 8, y - 8)
      \/ \E x \in 0 .. 7, y \in 0 .. FbHeight - 1 : w = PixelAt(x - 16 + FbWidth, y - 8)
  BY DEF Border
<1> QED BY <1>3, <1>4, <1>5, <1>6, <1>7

(* framebuffer_putpixel: every cell has its own words of the frame buffer,  *)
(* none of the border's.                                                    *)
LEMMA CellsApart == GlyphsApart
<1>0. FbWidth \in Nat /\ FbHeight \in Nat /\ FbPitch \in Nat /\ FbPitch >= 4 * FbWidth
  BY ConsoleAssumption
<1>1. ASSUME NEW i \in Cells, NEW w \in Glyph(i)
      PROVE  \E ix \in 0 .. 7, iy \in 0 .. 15 : w = Place(GlyphX(i, ix), GlyphY(i, iy))
  <2>1. PICK ix \in 0 .. 7, iy \in 0 .. 15 :
          w = PixelAt((i % Width) * 8 + ix, (i \div Width) * 16 + iy)
    BY <1>1 DEF Glyph
  <2>2. w = Place(GlyphX(i, ix), GlyphY(i, iy))
    BY <2>1, GlyphLies
  <2> QED BY <2>2
<1>2. ASSUME NEW i \in Cells, NEW w \in Glyph(i)
      PROVE  w \notin Border /\ ~(4 * w >= FbHeight * FbPitch)
  <2>1. PICK ix \in 0 .. 7, iy \in 0 .. 15 : w = Place(GlyphX(i, ix), GlyphY(i, iy))
    BY <1>1, <1>2
  <2> DEFINE x == GlyphX(i, ix)  y == GlyphY(i, iy)
  <2>2. x \in 8 .. FbWidth - 9 /\ y \in 8 .. FbHeight - 9
    BY GlyphLies
  <2> HIDE DEF x, y
  <2>3. /\ w = Place(x, y) /\ x \in 0 .. FbWidth - 1 /\ y \in 0 .. FbHeight - 1 /\ y \in Nat
        /\ y < FbHeight
    BY <1>0, <2>1, <2>2 DEF x, y
  <2>4. w \notin Border
    <3> SUFFICES ASSUME w \in Border PROVE FALSE
      OBVIOUS
    <3>1. PICK u \in 0 .. FbWidth - 1, v \in 0 .. FbHeight - 1 :
            /\ w = Place(u, v)
            /\ u \notin 8 .. FbWidth - 9 \/ v \notin 8 .. FbHeight - 9
      BY BorderLies
    <3>2. v \in Nat /\ Place(x, y) = Place(u, v)
      BY <1>0, <2>3, <3>1
    <3>3. x = u /\ y = v
      BY <2>3, <3>2, PlacesApart
    <3> QED BY <2>2, <3>1, <3>3
  <2>5. 4 * w < FbHeight * FbPitch
    <3> DEFINE row == (y * FbPitch) \div 4  end == FbHeight * FbPitch
    <3>1. row \in Nat /\ 4 * row + FbPitch <= end
      BY <1>0, <2>3, RowsApart
    <3>2. w = row + x
      BY <2>3 DEF Place
    <3>3. end \in Nat
      BY <1>0
    <3> HIDE DEF row, end
    <3>4. 4 * w < end
      BY <1>0, <2>3, <3>1, <3>2, <3>3
    <3> QED BY <3>4 DEF end
  <2>6. w \in Int /\ FbHeight * FbPitch \in Nat
    <3>1. w = (y * FbPitch) \div 4 + x
      BY <2>3 DEF Place
    <3>2. (y * FbPitch) \div 4 \in Nat
      BY <1>0, <2>3, RowsApart
    <3> QED BY <1>0, <2>3, <3>1, <3>2
  <2> DEFINE end == FbHeight * FbPitch
  <2> HIDE DEF end
  <2>7. ~(4 * w >= end)
    BY <2>5, <2>6 DEF end
  <2> QED BY <2>4, <2>7 DEF end
<1>3. ASSUME NEW i \in Cells, NEW j \in Cells \ {i} PROVE Glyph(i) \cap Glyph(j) = {}
  <2> SUFFICES ASSUME NEW w, w \in Glyph(i), w \in Glyph(j) PROVE FALSE
    OBVIOUS
  <2>1. PICK ix \in 0 .. 7, iy \in 0 .. 15 : w = Place(GlyphX(i, ix), GlyphY(i, iy))
    BY <1>1
  <2>2. PICK jx \in 0 .. 7, jy \in 0 .. 15 : w = Place(GlyphX(j, jx), GlyphY(j, jy))
    BY <1>1
  <2> DEFINE x == GlyphX(i, ix)  y == GlyphY(i, iy)  u == GlyphX(j, jx)  v == GlyphY(j, jy)
  <2>3. /\ x \in 8 .. FbWidth - 9 /\ y \in 8 .. FbHeight - 9
        /\ u \in 8 .. FbWidth - 9 /\ v \in 8 .. FbHeight - 9
    BY GlyphLies
  <2>4. Place(x, y) = Place(u, v)
    BY <2>1, <2>2
  <2>5. x = u /\ y = v
    <3> HIDE DEF x, y, u, v
    <3>1. /\ x \in 0 .. FbWidth - 1 /\ u \in 0 .. FbWidth - 1 /\ y \in Nat /\ v \in Nat
      BY <1>0, <2>3
    <3> QED BY <2>4, <3>1, PlacesApart
  <2>6. Width \in Nat \ {0} /\ i \in Nat /\ j \in Nat /\ i # j
    BY Sizes
  <2> DEFINE qi == i \div Width  ri == i % Width  qj == j \div Width  rj == j % Width
  <2>7. /\ qi \in Nat /\ ri \in 0 .. Width - 1 /\ i = Width * qi + ri
        /\ qj \in Nat /\ rj \in 0 .. Width - 1 /\ j = Width * qj + rj
    BY <2>6, DivDef
  <2>8. ri * 8 + ix + 8 = rj * 8 + jx + 8 /\ qi * 16 + iy + 8 = qj * 16 + jy + 8
    BY <2>5 DEF GlyphX, GlyphY
  <2> HIDE DEF qi, ri, qj, rj
  <2>9. ri = rj /\ qi = qj
    BY <2>6, <2>7, <2>8
  <2> QED BY <2>6, <2>7, <2>9
<1>4. ASSUME NEW i \in Cells PROVE i \notin Amiss
  <2>1. Pixels[i] = Glyph(i) /\ \A j \in Cells \ {i} : Pixels[j] = Glyph(j)
    BY DEF Pixels
  <2>2. \A w \in Pixels[i] : w \notin Border /\ ~(4 * w >= FbHeight * FbPitch)
    BY <1>2, <2>1
  <2>3. \A j \in Cells \ {i} : Pixels[i] \cap Pixels[j] = {}
    BY <1>3, <2>1
  <2> QED BY <2>2, <2>3, Zenon DEF Amiss
<1>5. Amiss \subseteq Cells
  BY Zenon DEF Amiss
<1> QED BY <1>4, <1>5 DEF GlyphsApart

(* The screen at every moment: what was printed last, in both copies, in    *)
(* cells that do not touch.                                                 *)
THEOREM ScreenRightHolds == ConSpec => []ScreenRight
<1>1. ConInv => ScreenRight
  <2> SUFFICES ASSUME ConInv PROVE ScreenRight
    OBVIOUS
  <2>1. TermOK(term)
    BY DEF ConInv
  <2>2. Terminal(term) /\ \E top \in Nat : RollAt(term, top)
    BY <2>1 DEF TermOK
  <2>3. DOMAIN term.fb_buffer = Cells /\ DOMAIN term.fb_mmio = Cells
    BY <2>2 DEF RollAt, Image
  <2>4. term.isready \in BOOLEAN /\ term.chr_index \in 0 .. Width * Height
    BY <2>2 DEF Terminal
  <2>5. ConTypeOK
    BY <2>3, <2>4 DEF ConTypeOK, ConInv
  <2> QED BY <2>1, <2>5, TerminalShows, CellsApart DEF ScreenRight
<1> QED BY <1>1, ConInvHolds, PTL

-----------------------------------------------------------------------------
(* strtok, trim_and_terminate and the copying procedures on memory.         *)

(* strtok cuts at e: the token is what stood before, and with the rest it   *)
(* is the string.                                                           *)
TokenCut(m, p, d, e, u) ==
  /\ DOMAIN u = DOMAIN m /\ IsSeq(Chars(m, p)) /\ IsSeq(Chars(u, p))
  /\ \A k \in DOMAIN Chars(u, p) : Chars(u, p)[k] # d
  /\ m[e] = NUL => Chars(u, p) = Chars(m, p)
  /\ m[e] # NUL => /\ e + 1 \in DOMAIN m /\ Terminated(u, e + 1) /\ IsSeq(Chars(u, e + 1))
                   /\ Chars(u, p) \o (<<d>> \o Chars(u, e + 1)) = Chars(m, p)

EndsAt(m, p, d, e) == e = Min({i \in Addresses : i >= p /\ m[i] \in {NUL, d}})

(* strtok (strutil.c:72) cuts one token off.                                *)
LEMMA CutsToken ==
  ASSUME NEW m, DOMAIN m = Addresses, NEW p \in Nat, Terminated(m, p), NEW d, d # NUL,
         NEW e, EndsAt(m, p, d, e), NEW u, Poked(u, m, e, <<NUL>>)
  PROVE  e \in Addresses /\ TokenCut(m, p, d, e, u)
<1> DEFINE N == {i \in Addresses : i >= p /\ m[i] \in {NUL, d}}
           l == StrLen(m, p)  cs == Chars(m, p)
<1>1. MemBytes \in Nat /\ Addresses \subseteq Nat /\ Addresses = 0 .. MemBytes - 1
  BY MemAssumption DEF Addresses
<1>2. /\ l \in Nat /\ p + l \in Addresses /\ m[p + l] = NUL
      /\ \A i \in Addresses : i >= p /\ i < p + l => m[i] # NUL
      /\ IsSeq(cs) /\ Len(cs) = l /\ \A k \in 1 .. l : cs[k] = m[p + k - 1]
  BY <1>1, StringIsSeq
<1> HIDE DEF l, cs
<1>3. N \in SUBSET Nat /\ N # {} /\ p + l \in N
  BY <1>1, <1>2
<1>4. e \in N /\ \A k \in N : e <= k
  <2> HIDE DEF N
  <2>1. Min(N) \in N /\ \A k \in N : Min(N) <= k
    BY <1>3, MinIsLeast
  <2>2. e = Min(N)
    BY DEF EndsAt, N
  <2> QED BY <2>1, <2>2
<1>5. /\ e \in Addresses /\ e \in Nat /\ e >= p /\ (m[e] = NUL \/ m[e] = d) /\ e <= p + l
      /\ \A i \in Addresses : i >= p /\ i < e => m[i] # NUL /\ m[i] # d
  <2>1. e \in Addresses /\ e >= p /\ (m[e] = NUL \/ m[e] = d)
    BY <1>4
  <2>2. e \in Nat /\ e <= p + l
    BY <1>1, <1>3, <1>4, <2>1
  <2>3. ASSUME NEW i \in Addresses, i >= p, i < e PROVE m[i] # NUL /\ m[i] # d
    <3>1. i \in Nat /\ ~(e <= i)
      BY <1>1, <2>2, <2>3
    <3>2. i \notin N
      BY <1>4, <3>1
    <3> QED BY <2>3, <3>2
  <2> QED BY <2>1, <2>2, <2>3
<1> HIDE DEF N
<1>6. DOMAIN u = Addresses /\ \A i \in Addresses : u[i] = IF i = e THEN NUL ELSE m[i]
  <2>1. IsSeq(<<NUL>>) /\ Len(<<NUL>>) = 1 /\ <<NUL>>[1] = NUL
    BY SeqOne
  <2> DEFINE one == <<NUL>>
  <2> HIDE DEF one
  <2>2. IsSeq(one) /\ Len(one) = 1 /\ one[1] = NUL /\ Poked(u, m, e, one)
    BY <2>1 DEF one
  <2>3. Poked(u, m, e, one)
    BY <2>2
  <2>4. ASSUME NEW i \in Addresses PROVE u[i] = IF i = e THEN NUL ELSE m[i]
    <3>1. i \in Int
      BY <1>1
    <3>2. u[i] = IF e <= i /\ i < e + 1 THEN one[i - e + 1] ELSE m[i]
      BY <2>2, <2>3, <3>1 DEF Poked
    <3>3. e <= i /\ i < e + 1 <=> i = e
      BY <1>5, <3>1
    <3>4. i = e => i - e + 1 = 1
      BY <3>1
    <3> QED BY <2>2, <3>2, <3>3, <3>4
  <2> QED BY <2>3, <2>4 DEF Poked
<1> DEFINE n == e - p  tk == Chars(u, p)
<1>7. n \in Nat /\ p + n = e /\ n <= l
  BY <1>2, <1>5
<1>8. tk = [k \in 1 .. n |-> u[p + k - 1]]
  <2>1. DOMAIN u \subseteq Nat /\ p + n \in DOMAIN u /\ u[p + n] = NUL
    BY <1>1, <1>5, <1>6, <1>7
  <2>2. \A i \in DOMAIN u : i >= p /\ i < p + n => u[i] # NUL
    BY <1>1, <1>5, <1>6, <1>7
  <2> HIDE DEF n, tk
  <2>3. Chars(u, p) = [k \in 1 .. n |-> u[p + k - 1]]
    BY <1>7, <2>1, <2>2, StringTo
  <2> QED BY <2>3 DEF tk
<1> HIDE DEF n, tk
<1>9. ASSUME NEW k \in 1 .. n PROVE tk[k] = m[p + k - 1] /\ tk[k] # d /\ tk[k] = cs[k]
  <2>1. p + k - 1 \in Addresses /\ p + k - 1 >= p /\ p + k - 1 < e
    BY <1>1, <1>5, <1>7
  <2>2. k \in 1 .. l
    BY <1>2, <1>7
  <2> QED BY <1>2, <1>5, <1>6, <1>8, <2>1, <2>2
<1>10. IsSeq(tk) /\ Len(tk) = n /\ DOMAIN tk = 1 .. n
  <2>1. tk = [k \in 1 .. n |-> tk[k]]
    BY <1>8
  <2> QED BY <1>7, <2>1, FunctionIsSeq
<1>11. ASSUME m[e] = NUL PROVE tk = cs
  <2>1. n = l
    <3>1. ~(e < p + l)
      BY <1>2, <1>5, <1>11
    <3> QED BY <1>2, <1>5, <1>7, <3>1
  <2> QED BY <1>2, <1>9, <1>10, <2>1, SeqSame
<1>12. ASSUME m[e] # NUL
       PROVE  /\ e + 1 \in Addresses /\ Terminated(u, e + 1) /\ IsSeq(Chars(u, e + 1))
              /\ tk \o (<<d>> \o Chars(u, e + 1)) = cs
  <2>1. m[e] = d /\ e # p + l
    BY <1>2, <1>5, <1>12
  <2>2. e < p + l
    BY <1>2, <1>5, <2>1
  <2>3. e + 1 \in Addresses
    BY <1>1, <1>2, <1>5, <2>2
  <2> DEFINE q == e + 1  h == p + l - q  rest == Chars(u, q)  one == <<d>>
  <2>4. /\ q \in Nat /\ h \in Nat /\ q + h = p + l /\ l = n + 1 + h
    BY <1>2, <1>5, <1>7, <2>2
  <2>5. /\ u[q + h] = NUL /\ q + h \in DOMAIN u
        /\ \A i \in DOMAIN u : i >= q /\ i < q + h => u[i] # NUL /\ u[i] = m[i]
    <3>1. \A i \in DOMAIN u : i >= q /\ i < q + h => i >= p /\ i < p + l /\ i # e
      BY <1>1, <1>5, <1>6, <2>4
    <3>2. q + h # e
      BY <1>5, <2>2, <2>4
    <3> HIDE DEF q, h
    <3> QED BY <1>2, <1>6, <2>4, <3>1, <3>2
  <2>6. Terminated(u, q)
    <3>1. q + h >= q
      BY <2>4
    <3> HIDE DEF q, h
    <3> QED BY <2>5, <3>1 DEF Terminated
  <2>7. rest = [k \in 1 .. h |-> u[q + k - 1]]
    <3> HIDE DEF q, h, rest
    <3>1. DOMAIN u \subseteq Nat
      BY <1>1, <1>6
    <3>2. Chars(u, q) = [k \in 1 .. h |-> u[q + k - 1]]
      BY <2>4, <2>5, <3>1, StringTo
    <3> QED BY <3>2 DEF rest
  <2> HIDE DEF rest
  <2>8. IsSeq(rest) /\ Len(rest) = h
    <3> HIDE DEF q, h
    <3>1. rest = [k \in 1 .. h |-> rest[k]]
      BY <2>7
    <3> QED BY <2>4, <3>1, FunctionIsSeq
  <2>9. IsSeq(one) /\ Len(one) = 1 /\ one[1] = d
    BY SeqOne
  <2> HIDE DEF one
  <2> DEFINE ro == one \o rest
  <2>10. /\ IsSeq(ro) /\ Len(ro) = 1 + h
         /\ \A k \in 1 .. 1 + h : ro[k] = IF k <= 1 THEN one[k] ELSE rest[k - 1]
    <3>1. /\ IsSeq(one \o rest) /\ Len(one \o rest) = Len(one) + Len(rest)
          /\ \A k \in 1 .. Len(one) + Len(rest) :
               (one \o rest)[k] = IF k <= Len(one) THEN one[k] ELSE rest[k - Len(one)]
      BY <2>8, <2>9, SeqConcat
    <3> HIDE DEF q, h, ro
    <3> QED BY <2>8, <2>9, <3>1 DEF ro
  <2> HIDE DEF ro
  <2> DEFINE al == tk \o ro
  <2>11. /\ IsSeq(al) /\ Len(al) = n + (1 + h)
         /\ \A k \in 1 .. n + (1 + h) : al[k] = IF k <= n THEN tk[k] ELSE ro[k - n]
    <3>1. /\ IsSeq(tk \o ro) /\ Len(tk \o ro) = Len(tk) + Len(ro)
          /\ \A k \in 1 .. Len(tk) + Len(ro) :
               (tk \o ro)[k] = IF k <= Len(tk) THEN tk[k] ELSE ro[k - Len(tk)]
      BY <1>10, <2>10, SeqConcat
    <3> HIDE DEF q, h, al
    <3> QED BY <1>10, <2>10, <3>1 DEF al
  <2> HIDE DEF al
  <2>12. ASSUME NEW k \in 1 .. l PROVE al[k] = cs[k]
    <3>1. k \in 1 .. n + (1 + h)
      BY <1>7, <2>4
    <3>2. CASE k <= n
      <4>1. k \in 1 .. n
        BY <1>7, <3>2
      <4> QED BY <1>9, <2>11, <3>1, <3>2, <4>1
    <3>3. CASE k = n + 1
      <4>1. k - n = 1 /\ 1 \in 1 .. 1 + h /\ ~(k <= n) /\ p + k - 1 = e
        BY <1>2, <1>5, <1>7, <2>4, <3>3
      <4>2. al[k] = d
        BY <2>9, <2>10, <2>11, <3>1, <4>1
      <4>3. cs[k] = m[p + k - 1]
        BY <1>2, <2>12
      <4> QED BY <2>1, <4>1, <4>2, <4>3
    <3>4. CASE k > n + 1
      <4>1. /\ k - n \in 1 .. 1 + h /\ ~(k - n <= 1) /\ (k - n) - 1 \in 1 .. h /\ ~(k <= n)
            /\ q + ((k - n) - 1) - 1 = p + k - 1
            /\ p + k - 1 >= q /\ p + k - 1 < q + h /\ p + k - 1 \in Addresses
        <5>1. p + k - 1 \in Nat /\ p + k - 1 <= p + l
          BY <1>2
        <5>2. p + k - 1 \in Addresses
          BY <1>1, <1>2, <5>1
        <5> QED BY <1>2, <1>5, <1>7, <2>4, <3>4, <5>2
      <4> DEFINE i == p + k - 1
      <4>2. al[k] = rest[(k - n) - 1]
        BY <2>10, <2>11, <3>1, <4>1
      <4>3. rest[(k - n) - 1] = u[i]
        <5>1. rest[(k - n) - 1] = u[q + ((k - n) - 1) - 1]
          <6> HIDE DEF q, h
          <6> QED BY <2>7, <4>1
        <5> QED BY <4>1, <5>1
      <4>4. u[i] = m[i]
        <5> HIDE DEF q, h
        <5> QED BY <1>6, <2>5, <4>1
      <4>5. cs[k] = m[i]
        BY <1>2, <2>12
      <4> QED BY <4>2, <4>3, <4>4, <4>5
    <3> QED BY <1>7, <3>2, <3>3, <3>4
  <2>13. al = cs
    <3>1. Len(al) = Len(cs)
      BY <1>2, <1>7, <2>4, <2>11
    <3> QED BY <1>2, <2>11, <2>12, <3>1, SeqSame
  <2> QED BY <2>3, <2>6, <2>8, <2>13 DEF al, ro, one, rest
<1>13. \A k \in DOMAIN tk : tk[k] # d
  BY <1>9, <1>10
<1> QED BY <1>2, <1>5, <1>6, <1>10, <1>11, <1>12, <1>13 DEF TokenCut, tk, cs

(* Poke, as a function.                                                     *)
Laid(u, m, d, cs) ==
  u = [i \in Addresses |-> IF d <= i /\ i < d + Len(cs) THEN cs[i - d + 1] ELSE m[i]]
LEMMA PokeIs ==
  ASSUME NEW m, DOMAIN m = Addresses, NEW d \in Int, NEW cs, IsSeq(cs)
  PROVE  Laid(Poke(m, d, cs), m, d, cs)
<1>1. Addresses \subseteq Int
  BY MemAssumption DEF Addresses
<1>2. Len(cs) \in Nat /\ DOMAIN cs = 1 .. Len(cs)
  BY SeqDomain DEF IsSeq
<1>3. ASSUME NEW i \in Addresses
      PROVE  (IF i - d + 1 \in DOMAIN cs THEN cs[i - d + 1] ELSE m[i])
               = IF d <= i /\ i < d + Len(cs) THEN cs[i - d + 1] ELSE m[i]
  <2>1. i - d + 1 \in 1 .. Len(cs) <=> d <= i /\ i < d + Len(cs)
    BY <1>1, <1>2
  <2> QED BY <1>2, <2>1
<1>4. Poke(m, d, cs) = [i \in Addresses |-> IF i - d + 1 \in DOMAIN cs THEN cs[i - d + 1] ELSE m[i]]
  BY DEF Poke
<1> QED BY <1>3, <1>4 DEF Laid

(* One byte written.                                                        *)
LEMMA PokeOne ==
  ASSUME NEW m, DOMAIN m = Addresses, NEW d \in Int, NEW x
  PROVE  Poke(m, d, <<x>>) = [i \in Addresses |-> IF i = d THEN x ELSE m[i]]
<1> DEFINE one == <<x>>
<1>1. IsSeq(one) /\ Len(one) = 1 /\ one[1] = x
  BY SeqOne
<1> HIDE DEF one
<1>2. Poke(m, d, one) =
        [i \in Addresses |-> IF d <= i /\ i < d + Len(one) THEN one[i - d + 1] ELSE m[i]]
  <2>1. Laid(Poke(m, d, one), m, d, one)
    BY <1>1, PokeIs
  <2> QED BY <2>1 DEF Laid
<1>3. ASSUME NEW i \in Addresses
      PROVE  (IF d <= i /\ i < d + Len(one) THEN one[i - d + 1] ELSE m[i])
               = IF i = d THEN x ELSE m[i]
  <2>1. i \in Int
    BY MemAssumption DEF Addresses
  <2>2. (d <= i /\ i < d + Len(one) <=> i = d) /\ (i = d => i - d + 1 = 1)
    BY <1>1, <2>1
  <2> QED BY <1>1, <2>2
<1>4. Poke(m, d, one) = [i \in Addresses |-> IF i = d THEN x ELSE m[i]]
  BY <1>2, <1>3
<1> QED BY <1>4 DEF one

(* Memory stays memory.                                                     *)
LEMMA PokeType ==
  ASSUME NEW m \in [Addresses -> Bytes], NEW d \in Int, NEW cs, IsSeq(cs),
         \A k \in 1 .. Len(cs) : cs[k] \in Bytes
  PROVE  Poke(m, d, cs) \in [Addresses -> Bytes]
<1>1. Poke(m, d, cs) =
        [i \in Addresses |-> IF d <= i /\ i < d + Len(cs) THEN cs[i - d + 1] ELSE m[i]]
  BY PokeIs DEF Laid
<1>2. ASSUME NEW i \in Addresses
      PROVE  (IF d <= i /\ i < d + Len(cs) THEN cs[i - d + 1] ELSE m[i]) \in Bytes
  <2>1. i \in Int /\ Len(cs) \in Nat
    BY MemAssumption DEF Addresses, IsSeq
  <2>2. d <= i /\ i < d + Len(cs) => i - d + 1 \in 1 .. Len(cs)
    BY <2>1
  <2>3. m[i] \in Bytes
    OBVIOUS
  <2> QED BY <2>2, <2>3
<1> QED BY <1>1, <1>2

(* memcpy (memutil.c:18), round by round.                                   *)
Slice(m, s, n) == [k \in 1 .. n |-> m[s + k - 1]]
CpyOne(g, m, d, s, k) ==
  IF k = 0 THEN m ELSE Poke(g[k - 1], d + k - 1, <<g[k - 1][s + k - 1]>>)
CpyUpTo(f, m, d, s, n) == f = [k \in 0 .. n |-> CpyOne(f, m, d, s, k)]

(* The recursion of memcpy has a solution.                                  *)
LEMMA CpyExist ==
  ASSUME NEW m, NEW d, NEW s, NEW n \in Nat
  PROVE  \E f : CpyUpTo(f, m, d, s, n)
<1> DEFINE T == {k \in Nat : \E f : CpyUpTo(f, m, d, s, k)}
<1>1. 0 \in T
  <2>1. CpyUpTo([k \in 0 .. 0 |-> m], m, d, s, 0)
    BY DEF CpyUpTo, CpyOne
  <2> QED BY <2>1
<1>2. ASSUME NEW j \in Nat, j \in T PROVE j + 1 \in T
  <2>1. PICK f : CpyUpTo(f, m, d, s, j)
    BY <1>2
  <2> DEFINE q == [k \in 0 .. j + 1 |-> IF k = j + 1 THEN CpyOne(f, m, d, s, k) ELSE f[k]]
  <2>2. ASSUME NEW k \in 0 .. j + 1 PROVE q[k] = CpyOne(q, m, d, s, k)
    <3>1. k # 0 => q[k - 1] = f[k - 1]
      OBVIOUS
    <3>2. CpyOne(q, m, d, s, k) = CpyOne(f, m, d, s, k)
      <4> HIDE DEF q
      <4> QED BY <3>1 DEF CpyOne
    <3>3. CASE k = j + 1
      BY <3>2, <3>3
    <3>4. CASE k # j + 1
      <4>1. k \in 0 .. j
        BY <3>4
      <4>2. f[k] = CpyOne(f, m, d, s, k)
        BY <2>1, <4>1 DEF CpyUpTo
      <4>3. q[k] = f[k]
        BY <3>4
      <4> QED BY <3>2, <4>2, <4>3
    <3> QED BY <3>3, <3>4
  <2>3. CpyUpTo(q, m, d, s, j + 1)
    BY <2>2 DEF CpyUpTo
  <2> QED BY <2>3
<1> HIDE DEF T
<1>3. n \in T
  BY <1>1, <1>2, NatSetInduction
<1> QED BY <1>3 DEF T

(* memcpy (memutil.c:18) copies the bytes as they were, downwards too.      *)
LEMMA MemCpyExact ==
  ASSUME NEW m, DOMAIN m = Addresses, NEW s \in Nat, NEW d \in Nat, NEW n \in Nat,
         m = [i \in Addresses |-> m[i]], s + n <= MemBytes, d <= s \/ d >= s + n
  PROVE  MemCpy(m, d, s, n) = Poke(m, d, Slice(m, s, n))
<1> DEFINE f == CHOOSE g : CpyUpTo(g, m, d, s, n)
           After(k) == [i \in Addresses |-> IF d <= i /\ i < d + k THEN m[s + (i - d)] ELSE m[i]]
<1>1. CpyUpTo(f, m, d, s, n)
  BY CpyExist
<1>2. MemCpy(m, d, s, n) = f[n]
  BY DEF MemCpy, CpyUpTo, CpyOne
<1> HIDE DEF f
<1>3. \A k \in 0 .. n : f[k] = CpyOne(f, m, d, s, k)
  BY <1>1 DEF CpyUpTo
<1>4. Addresses \subseteq Nat /\ Addresses = 0 .. MemBytes - 1 /\ MemBytes \in Nat
  BY MemAssumption DEF Addresses
<1> DEFINE T == {k \in Nat : k <= n => f[k] = After(k)}
<1>5. 0 \in T
  <2>1. f[0] = m
    <3>1. 0 \in 0 .. n
      OBVIOUS
    <3>2. f[0] = CpyOne(f, m, d, s, 0)
      BY <1>3, <3>1
    <3> QED BY <3>2 DEF CpyOne
  <2>2. \A i \in Addresses : ~(d <= i /\ i < d + 0)
    BY <1>4
  <2>3. After(0) = [i \in Addresses |-> m[i]]
    BY <2>2
  <2> QED BY <2>1, <2>3
<1>6. ASSUME NEW k \in Nat, k \in T PROVE k + 1 \in T
  <2> SUFFICES ASSUME k + 1 <= n PROVE f[k + 1] = After(k + 1)
    OBVIOUS
  <2> DEFINE g == f[k]  a == d + k  x == g[s + k]
  <2>1. g = After(k)
    BY <1>6
  <2>2. f[k + 1] = Poke(g, a, <<x>>)
    <3>1. k + 1 \in 0 .. n /\ k + 1 # 0 /\ (k + 1) - 1 = k /\ d + (k + 1) - 1 = d + k
          /\ s + (k + 1) - 1 = s + k
      OBVIOUS
    <3> QED BY <1>3, <3>1 DEF CpyOne
  <2>3. x = m[s + k]
    <3>1. s + k \in Addresses /\ ~(d <= s + k /\ s + k < d + k)
      BY <1>4
    <3> HIDE DEF g
    <3> QED BY <2>1, <3>1
  <2>4. DOMAIN g = Addresses /\ a \in Int
    BY <2>1
  <2> HIDE DEF g, a, x
  <2>5. f[k + 1] = [i \in Addresses |-> IF i = a THEN x ELSE g[i]]
    BY <2>2, <2>4, PokeOne
  <2>6. ASSUME NEW i \in Addresses
        PROVE  (IF i = a THEN x ELSE g[i])
                 = IF d <= i /\ i < d + (k + 1) THEN m[s + (i - d)] ELSE m[i]
    <3>1. g[i] = IF d <= i /\ i < d + k THEN m[s + (i - d)] ELSE m[i]
      BY <2>1
    <3>2. i \in Nat
      BY <1>4
    <3>3. CASE i = a
      <4>1. d <= i /\ i < d + (k + 1) /\ s + (i - d) = s + k
        BY <3>2, <3>3 DEF a
      <4> QED BY <2>3, <3>3, <4>1
    <3>4. CASE i # a
      <4>1. d <= i /\ i < d + (k + 1) <=> d <= i /\ i < d + k
        BY <3>2, <3>4 DEF a
      <4> QED BY <3>1, <3>4, <4>1
    <3> QED BY <3>3, <3>4
  <2> QED BY <2>5, <2>6
<1> HIDE DEF T
<1>7. n \in T
  BY <1>5, <1>6, NatSetInduction
<1>8. f[n] = After(n)
  BY <1>7 DEF T
<1> DEFINE cs == Slice(m, s, n)
<1>9. IsSeq(cs) /\ Len(cs) = n /\ \A k \in 1 .. n : cs[k] = m[s + k - 1]
  <2>1. cs = [k \in 1 .. n |-> cs[k]]
    BY DEF Slice
  <2>2. \A k \in 1 .. n : cs[k] = m[s + k - 1]
    BY DEF Slice
  <2> HIDE DEF cs
  <2> QED BY <2>1, <2>2, FunctionIsSeq
<1> HIDE DEF cs
<1>10. Poke(m, d, cs) =
         [i \in Addresses |-> IF d <= i /\ i < d + Len(cs) THEN cs[i - d + 1] ELSE m[i]]
  BY <1>9, PokeIs DEF Laid
<1>11. ASSUME NEW i \in Addresses
       PROVE  (IF d <= i /\ i < d + Len(cs) THEN cs[i - d + 1] ELSE m[i])
                = IF d <= i /\ i < d + n THEN m[s + (i - d)] ELSE m[i]
  <2>1. i \in Nat
    BY <1>4
  <2>2. d <= i /\ i < d + n => i - d + 1 \in 1 .. n /\ s + (i - d + 1) - 1 = s + (i - d)
    BY <2>1
  <2>3. d <= i /\ i < d + n => cs[i - d + 1] = m[s + (i - d + 1) - 1]
    BY <1>9, <2>2
  <2>4. d <= i /\ i < d + n => cs[i - d + 1] = m[s + (i - d)]
    BY <2>2, <2>3
  <2> QED BY <1>9, <2>4
<1>12. Poke(m, d, cs) = After(n)
  BY <1>10, <1>11
<1> QED BY <1>2, <1>8, <1>12 DEF cs

(* n bytes of memory, as a sequence.                                        *)
LEMMA SliceIs ==
  ASSUME NEW m, NEW s, NEW n \in Nat
  PROVE  /\ IsSeq(Slice(m, s, n)) /\ Len(Slice(m, s, n)) = n
         /\ \A k \in 1 .. n : Slice(m, s, n)[k] = m[s + k - 1]
<1> DEFINE cs == Slice(m, s, n)
<1>1. cs = [k \in 1 .. n |-> cs[k]]
  BY DEF Slice
<1>2. \A k \in 1 .. n : cs[k] = m[s + k - 1]
  BY DEF Slice
<1> HIDE DEF cs
<1>3. IsSeq(cs) /\ Len(cs) = n
  BY <1>1, FunctionIsSeq
<1> QED BY <1>2, <1>3 DEF cs

(* trim_and_terminate (strutil.c:154): where it cuts, and what it leaves.   *)
Blanks(m, s, i) == m[s + i] = Blank /\ m[s + i + 1] = Blank
LEMMA TrimCuts ==
  ASSUME NEW m, DOMAIN m = Addresses, NEW s \in Nat, NEW n \in Nat \ {0}, s + n <= MemBytes
  PROVE  /\ Cut(m, s, n) \in 0 .. n - 1
         /\ Cut(m, s, n) = n - 1 \/ Blanks(m, s, Cut(m, s, n))
         /\ \A i \in 0 .. n - 1 : i = n - 1 \/ Blanks(m, s, i) => Cut(m, s, n) <= i
         /\ TrimAndTerminate(m, s, n) =
              [i \in Addresses |-> IF i = s + Cut(m, s, n) THEN NUL ELSE m[i]]
<1> DEFINE N == {i \in 0 .. n - 1 : i = n - 1 \/ Blanks(m, s, i)}  c == Cut(m, s, n)
<1>1. N \in SUBSET Nat /\ n - 1 \in N
  OBVIOUS
<1>2. c = Min(N)
  BY DEF Cut, Blanks
<1> HIDE DEF c
<1>3. c \in N /\ \A i \in N : c <= i
  <2> HIDE DEF N
  <2> QED BY <1>1, <1>2, MinIsLeast
<1>4. c \in 0 .. n - 1 /\ (c = n - 1 \/ Blanks(m, s, c))
  BY <1>3
<1>5. \A i \in 0 .. n - 1 : i = n - 1 \/ Blanks(m, s, i) => c <= i
  BY <1>3
<1> HIDE DEF N
<1>6. TrimAndTerminate(m, s, n) = Poke(m, s + c, <<NUL>>)
  BY DEF TrimAndTerminate, c
<1> DEFINE a == s + c
<1>7. a \in Int
  BY <1>4
<1> HIDE DEF a
<1>8. Poke(m, a, <<NUL>>) = [i \in Addresses |-> IF i = a THEN NUL ELSE m[i]]
  BY <1>7, PokeOne
<1>9. TrimAndTerminate(m, s, n) = [i \in Addresses |-> IF i = s + c THEN NUL ELSE m[i]]
  BY <1>6, <1>8 DEF a
<1> QED BY <1>4, <1>5, <1>9 DEF c

(* strcpy (strutil.c:126) copies the bytes and the NUL.                     *)
LEMMA StrCpyIs ==
  ASSUME NEW m \in [Addresses -> Bytes], NEW s \in Addresses, NEW d \in Addresses,
         Terminated(m, s), d <= s \/ d > s + StrLen(m, s)
  PROVE  /\ StrLen(m, s) \in Nat /\ s + StrLen(m, s) \in Addresses
         /\ StrCpy(m, d, s) = Poke(m, d, Slice(m, s, StrLen(m, s) + 1))
<1> DEFINE l == StrLen(m, s)  n == l + 1
<1>1. /\ s \in Nat /\ d \in Nat /\ DOMAIN m = Addresses /\ Addresses \subseteq Nat
      /\ Addresses = 0 .. MemBytes - 1 /\ MemBytes \in Nat
  BY MemAssumption DEF Addresses
<1>2. l \in Nat /\ s + l \in Addresses
  BY <1>1, StringIsSeq
<1>3. StrCpy(m, d, s) = MemCpy(m, d, s, n)
  BY DEF StrCpy
<1> HIDE DEF l
<1>4. n \in Nat /\ s + n <= MemBytes /\ (d <= s \/ d >= s + n)
  <2>1. d <= s \/ d > s + l
    BY DEF l
  <2> QED BY <1>1, <1>2, <2>1
<1> HIDE DEF n
<1>5. MemCpy(m, d, s, n) = Poke(m, d, Slice(m, s, n))
  <2>1. m = [i \in Addresses |-> m[i]]
    OBVIOUS
  <2> QED BY <1>1, <1>4, <2>1, MemCpyExact
<1> QED BY <1>2, <1>3, <1>5 DEF l, n

(* Between two calls, a string is half split or none is.                    *)
Rest == IF strtok_s = Null THEN << >> ELSE <<delim>> \o Chars(mem, strtok_s)
StrInv ==
  /\ mem \in [Addresses -> Bytes] /\ delim \in Bytes /\ delim # NUL
  /\ strtok_s \in Addresses \cup {Null}
  /\ strtok_s # Null => Terminated(mem, strtok_s) /\ tokens # << >>
  /\ IsSeq(tokens)
  /\ \A k \in 1 .. Len(tokens) :
       IsSeq(tokens[k]) /\ \A j \in DOMAIN tokens[k] : tokens[k][j] # delim
  /\ tokens # << >> => Joined(tokens, <<delim>>) \o Rest = text

(* Nothing is split at first.                                               *)
LEMMA StrInvInit == StrInit => StrInv
<1> SUFFICES ASSUME StrInit PROVE StrInv
  OBVIOUS
<1>1. IsSeq(tokens) /\ Len(tokens) = 0 /\ tokens = << >>
  BY SeqEmpty DEF StrInit
<1>2. \A k \in 1 .. Len(tokens) :
        IsSeq(tokens[k]) /\ \A j \in DOMAIN tokens[k] : tokens[k][j] # delim
  BY <1>1
<1> QED BY <1>1, <1>2 DEF StrInit, StrInv

(* A call while nothing is split begins anew.                               *)
LEMMA CallKeeps ==
  ASSUME StrInv, NEW m \in [Addresses -> Bytes], Call(m)
  PROVE  StrInv'
<1>1. tokens' = << >> /\ strtok_s' = Null /\ mem' = m /\ delim' = delim
  BY DEF Call
<1>2. IsSeq(tokens') /\ Len(tokens') = 0
  BY <1>1, SeqEmpty
<1>3. \A k \in 1 .. Len(tokens') :
        IsSeq(tokens'[k]) /\ \A j \in DOMAIN tokens'[k] : tokens'[k][j] # delim'
  BY <1>2
<1> QED BY <1>1, <1>2, <1>3 DEF StrInv

(* A token ends inside memory.                                              *)
LEMMA EndInside ==
  ASSUME NEW m, DOMAIN m = Addresses, NEW p \in Nat, Terminated(m, p), NEW d,
         NEW e, EndsAt(m, p, d, e)
  PROVE  e \in Addresses
<1> DEFINE N == {i \in Addresses : i >= p /\ m[i] \in {NUL, d}}
<1>1. N \in SUBSET Nat /\ N # {}
  BY MemAssumption DEF Terminated, Addresses
<1>2. e = Min(N)
  BY DEF EndsAt
<1> HIDE DEF N
<1>3. e \in N
  BY <1>1, <1>2, MinIsLeast
<1> QED BY <1>3 DEF N

(* strtok returns the next token, and the rest stays a string.              *)
LEMMA StrtokKeeps ==
  ASSUME StrInv, NEW s \in Addresses \cup {Null}, Strtok(s, delim)
  PROVE  StrInv'
<1> DEFINE p == IF strtok_s = Null THEN s ELSE strtok_s
           e == TokenEnd(p, delim)  d == delim  one == <<d>>
           tk == Chars(mem', p)  cs == Chars(mem, p)
           old == IF strtok_s = Null THEN << >> ELSE tokens
           u == mem'  rest == Rest'
<1>1. /\ p # Null /\ Terminated(mem, p) /\ u = Poke(mem, e, <<NUL>>)
      /\ strtok_s' = NextToken(e)
      /\ text' = (IF strtok_s = Null THEN Chars(mem, s) ELSE text)
      /\ tokens' = Append(old, tk) /\ delim' = delim
  BY DEF Strtok
<1>2. /\ mem \in [Addresses -> Bytes] /\ DOMAIN mem = Addresses /\ d \in Bytes /\ d # NUL
      /\ strtok_s \in Addresses \cup {Null}
  BY DEF StrInv
<1>3. p \in Nat /\ Addresses \subseteq Nat /\ Addresses \subseteq Int
  BY <1>1, <1>2, MemAssumption DEF Addresses
<1>4. EndsAt(mem, p, d, e)
  BY DEF EndsAt, TokenEnd
<1> HIDE DEF p, e, u, rest
<1>5. e \in Int => Poked(u, mem, e, <<NUL>>) /\ u \in [Addresses -> Bytes]
  <2>1. IsSeq(<<NUL>>) /\ Len(<<NUL>>) = 1 /\ <<NUL>>[1] = NUL /\ NUL \in Bytes
    BY SeqOne, MemAssumption
  <2> DEFINE nul == <<NUL>>
  <2> HIDE DEF nul
  <2>2. IsSeq(nul) /\ (\A k \in 1 .. Len(nul) : nul[k] \in Bytes) /\ u = Poke(mem, e, nul)
    <3>1. IsSeq(nul) /\ Len(nul) = 1 /\ nul[1] \in Bytes
      BY <2>1 DEF nul
    <3> QED BY <1>1, <3>1 DEF nul
  <2>3. e \in Int => Poked(u, mem, e, nul)
    BY <2>2, PokeAt
  <2>4. e \in Int => u \in [Addresses -> Bytes]
    BY <1>2, <2>2, PokeType
  <2> QED BY <2>3, <2>4 DEF nul
<1>6. e \in Addresses
  BY <1>1, <1>2, <1>3, <1>4, EndInside
<1>7. TokenCut(mem, p, d, e, u) /\ u \in [Addresses -> Bytes]
  <2>1. Poked(u, mem, e, <<NUL>>) /\ u \in [Addresses -> Bytes]
    BY <1>3, <1>5, <1>6
  <2>2. TokenCut(mem, p, d, e, u)
    BY <1>1, <1>2, <1>3, <1>4, <2>1, CutsToken
  <2> QED BY <2>1, <2>2
<1>8. /\ IsSeq(cs) /\ IsSeq(tk) /\ (\A k \in DOMAIN tk : tk[k] # d)
      /\ mem[e] = NUL => tk = cs
      /\ mem[e] # NUL => /\ e + 1 \in Addresses /\ Terminated(u, e + 1) /\ IsSeq(Chars(u, e + 1))
                         /\ tk \o (one \o Chars(u, e + 1)) = cs
  BY <1>2, <1>7 DEF TokenCut, u
<1>9. IsSeq(one) /\ IsSeq(<< >>) /\ Len(<< >>) = 0
  BY SeqOne, SeqEmpty
<1>10. strtok_s' \in Addresses \cup {Null} /\ (strtok_s' # Null => Terminated(u, strtok_s'))
  BY <1>1, <1>8 DEF NextToken
<1>11. rest = (IF mem[e] = NUL THEN << >> ELSE one \o Chars(u, e + 1))
  <2>1. rest = IF strtok_s' = Null THEN << >> ELSE one \o Chars(u, strtok_s')
    BY <1>1 DEF rest, Rest, u
  <2>2. CASE mem[e] = NUL
    BY <1>1, <2>1, <2>2 DEF NextToken
  <2>3. CASE mem[e] # NUL
    <3>1. strtok_s' = e + 1 /\ strtok_s' # Null
      BY <1>1, <1>3, <1>6, <2>3 DEF NextToken, Null
    <3> QED BY <2>1, <2>3, <3>1
  <2> QED BY <2>2, <2>3
<1> HIDE DEF tk, cs, one
<1>12. IsSeq(rest) /\ tk \o rest = cs
  <2>1. CASE mem[e] = NUL
    <3>1. tk \o << >> = tk
      BY <1>8, SeqEmpty
    <3> QED BY <1>8, <1>9, <1>11, <2>1, <3>1
  <2>2. CASE mem[e] # NUL
    <3> DEFINE more == Chars(u, e + 1)
    <3>1. IsSeq(more) /\ tk \o (one \o more) = cs /\ rest = one \o more
      BY <1>8, <1>11, <2>2
    <3> HIDE DEF more
    <3>2. IsSeq(one \o more)
      BY <1>9, <3>1, SeqConcat
    <3> QED BY <3>1, <3>2
  <2> QED BY <2>1, <2>2
<1> DEFINE new == Append(old, tk)
<1>13. IsSeq(old)
  BY <1>9 DEF StrInv
<1>14. \A k \in 1 .. Len(old) : IsSeq(old[k]) /\ \A j \in DOMAIN old[k] : old[k][j] # d
  <2>1. CASE strtok_s = Null
    BY <1>9, <2>1
  <2>2. CASE strtok_s # Null
    BY <2>2 DEF StrInv
  <2> QED BY <2>1, <2>2
<1>15. old = << >> => cs = text'
  <2>1. strtok_s # Null => old = tokens /\ tokens # << >>
    BY DEF StrInv
  <2>2. strtok_s = Null => cs = text'
    BY <1>1 DEF cs, p
  <2> QED BY <2>1, <2>2
<1>16. old # << >> => Joined(old, one) \o (one \o cs) = text'
  <2> SUFFICES ASSUME old # << >> PROVE Joined(old, one) \o (one \o cs) = text'
    OBVIOUS
  <2>1. strtok_s # Null
    OBVIOUS
  <2>2. old = tokens /\ tokens # << >> /\ text' = text /\ p = strtok_s
    BY <1>1, <2>1 DEF StrInv, p
  <2>3. Joined(tokens, <<delim>>) \o Rest = text
    BY <2>2 DEF StrInv
  <2>4. Rest = one \o cs
    BY <2>1, <2>2 DEF Rest, one, cs
  <2> QED BY <2>2, <2>3, <2>4 DEF one
<1> HIDE DEF old
<1>17. /\ IsSeq(new) /\ Len(new) = Len(old) + 1 /\ new[Len(old) + 1] = tk
       /\ \A k \in 1 .. Len(old) : new[k] = old[k]
  BY <1>13, SeqAppend
<1>18. \A k \in 1 .. Len(old) : IsSeq(old[k])
  BY <1>14
<1>19. Joined(new, one) = IF old = << >> THEN tk ELSE Joined(old, one) \o one \o tk
  <2> HIDE DEF new, d
  <2>1. JoinsMore(old, one, tk)
    BY <1>8, <1>9, <1>13, <1>18, JoinedAppend
  <2> QED BY <2>1 DEF new, JoinsMore
<1>20. IsSeq(Joined(old, one))
  BY <1>8, <1>9, <1>13, <1>18, JoinedAppend
<1>21. Len(old) \in Nat
  BY <1>13 DEF IsSeq
<1> HIDE DEF new
<1>22. \A k \in 1 .. Len(new) : IsSeq(new[k]) /\ \A j \in DOMAIN new[k] : new[k][j] # d
  <2> TAKE k \in 1 .. Len(new)
  <2>1. CASE k \in 1 .. Len(old)
    BY <1>14, <1>17, <2>1
  <2>2. CASE k = Len(old) + 1
    BY <1>8, <1>17, <2>2
  <2> QED BY <1>17, <1>21, <2>1, <2>2
<1>23. Joined(new, one) \o rest = text'
  <2>1. CASE old = << >>
    BY <1>12, <1>15, <1>19, <2>1
  <2>2. CASE old # << >>
    <3> DEFINE j == Joined(old, one)  jo == j \o one
    <3>1. IsSeq(j) /\ Joined(new, one) = (j \o one) \o tk /\ j \o (one \o cs) = text'
      BY <1>16, <1>19, <1>20, <2>2
    <3> HIDE DEF j
    <3>2. IsSeq(jo)
      BY <1>9, <3>1, SeqConcat
    <3>3. jo \o cs = text'
      <4>1. (j \o one) \o cs = j \o (one \o cs)
        <5>1. IsSeq(one) /\ IsSeq(j) /\ IsSeq(cs)
          BY <1>8, <1>9, <3>1
        <5> QED BY <5>1, SeqAssociative
      <4> QED BY <3>1, <4>1
    <3> HIDE DEF jo
    <3>4. (jo \o tk) \o rest = jo \o (tk \o rest)
      <4>1. IsSeq(jo) /\ IsSeq(tk) /\ IsSeq(rest)
        BY <1>8, <1>12, <3>2
      <4> QED BY <4>1, SeqAssociative
    <3>5. Joined(new, one) = jo \o tk
      BY <3>1 DEF jo
    <3> QED BY <1>12, <3>3, <3>4, <3>5, Zenon
  <2> QED BY <2>1, <2>2
<1>24. tokens' = new /\ delim' = d /\ mem' = u
  BY <1>1 DEF new, u
<1>25. new # << >>
  BY <1>9, <1>17, <1>21
<1>26. Joined(tokens', <<delim'>>) \o Rest' = text'
  BY <1>23, <1>24 DEF rest, one
<1> QED BY <1>2, <1>7, <1>10, <1>17, <1>22, <1>24, <1>25, <1>26 DEF StrInv

(* Every call leaves tokens and rest to spell the text.                     *)
LEMMA StrInvNext == StrInv /\ [StrNext]_strvars => StrInv'
<1> SUFFICES ASSUME StrInv, [StrNext]_strvars PROVE StrInv'
  OBVIOUS
<1>0. /\ mem \in [Addresses -> Bytes] /\ Addresses = 0 .. MemBytes - 1 /\ MemBytes \in Nat
      /\ Addresses \subseteq Nat /\ NUL \in Bytes
  BY MemAssumption DEF StrInv, Addresses
<1>1. CASE \E s \in Addresses \cup {Null} : Strtok(s, delim)
  BY <1>1, StrtokKeeps
<1>2. ASSUME NEW s \in Addresses, NEW n \in 1 .. MemBytes, s + n <= MemBytes,
             Call(TrimAndTerminate(mem, s, n))
      PROVE  StrInv'
  <2> DEFINE m == TrimAndTerminate(mem, s, n)
  <2>1. m = [i \in Addresses |-> IF i = s + Cut(mem, s, n) THEN NUL ELSE mem[i]]
    <3>1. DOMAIN mem = Addresses /\ s \in Nat /\ n \in Nat \ {0}
      BY <1>0, <1>2
    <3> QED BY <1>2, <3>1, TrimCuts
  <2>2. m \in [Addresses -> Bytes]
    BY <1>0, <2>1
  <2>3. Call(m)
    BY <1>2
  <2> HIDE DEF m
  <2> QED BY <2>2, <2>3, CallKeeps
<1>3. ASSUME NEW s \in Addresses, NEW d \in Addresses,
             Terminated(mem, s), Apart(s, d), Call(StrCpy(mem, d, s))
      PROVE  StrInv'
  <2> DEFINE n == StrLen(mem, s) + 1  cs == Slice(mem, s, n)  m == StrCpy(mem, d, s)
  <2>1. StrLen(mem, s) \in Nat /\ s + StrLen(mem, s) \in Addresses /\ m = Poke(mem, d, cs)
    BY <1>0, <1>3, StrCpyIs DEF Apart
  <2>2. n \in Nat /\ s \in Nat /\ d \in Int
    BY <1>0, <2>1
  <2>3. \A k \in 1 .. n : s + k - 1 \in Addresses
    BY <1>0, <2>1
  <2>4. Call(m)
    BY <1>3
  <2> HIDE DEF n, m
  <2>5. IsSeq(cs) /\ Len(cs) = n /\ \A k \in 1 .. n : cs[k] = mem[s + k - 1]
    BY <2>2, SliceIs
  <2> HIDE DEF cs
  <2>6. \A k \in 1 .. Len(cs) : cs[k] \in Bytes
    BY <1>0, <2>3, <2>5
  <2>7. m \in [Addresses -> Bytes]
    BY <1>0, <2>1, <2>2, <2>5, <2>6, PokeType
  <2> QED BY <2>4, <2>7, CallKeeps
<1>4. ASSUME NEW d \in Addresses, NEW c \in Bytes, NEW n \in 0 .. MemBytes,
             Call(MemSet(mem, d, c, n))
      PROVE  StrInv'
  <2> DEFINE cs == [k \in 1 .. n |-> c]  m == MemSet(mem, d, c, n)
  <2>1. m = Poke(mem, d, cs) /\ Call(m) /\ d \in Int
    BY <1>0, <1>4 DEF MemSet
  <2>2. cs = [k \in 1 .. n |-> cs[k]] /\ n \in Nat /\ \A k \in 1 .. n : cs[k] \in Bytes
    OBVIOUS
  <2> HIDE DEF cs, m
  <2>3. IsSeq(cs) /\ Len(cs) = n
    BY <2>2, FunctionIsSeq
  <2>4. m \in [Addresses -> Bytes]
    BY <1>0, <2>1, <2>2, <2>3, PokeType
  <2> QED BY <2>1, <2>4, CallKeeps
<1>5. CASE UNCHANGED strvars
  BY <1>5 DEF strvars, StrInv, Rest
<1> QED BY <1>1, <1>2, <1>3, <1>4, <1>5 DEF StrNext

(* So they always do.                                                       *)
LEMMA StrInvHolds == StrSpec => []StrInv
BY StrInvInit, StrInvNext, PTL DEF StrSpec

(* TokensSpellTheText: the tokens strtok returned, with the delimiter       *)
(* between, and the rest are the string it was begun with.                  *)
THEOREM TokensSpellTheTextHolds == StrSpec => []TokensSpellTheText
<1>1. StrInv => TokensSpellTheText
  <2> SUFFICES ASSUME StrInv, tokens # << >> PROVE TokensSpellTheText
    BY DEF TokensSpellTheText
  <2>1. Joined(tokens, <<delim>>) \o Rest = text
    BY DEF StrInv
  <2>2. DOMAIN tokens = 1 .. Len(tokens)
    BY SeqDomain DEF StrInv
  <2>3. ASSUME NEW k \in DOMAIN tokens PROVE delim \notin Range(tokens[k])
    <3>1. \A j \in DOMAIN tokens[k] : tokens[k][j] # delim
      BY <2>2 DEF StrInv
    <3> QED BY <3>1 DEF Range
  <2> QED BY <2>1, <2>3, Zenon DEF TokensSpellTheText, Rest
<1> QED BY <1>1, StrInvHolds, PTL

-----------------------------------------------------------------------------
(* What is copied.                                                          *)

(* The smaller one of two.                                                  *)
LEMMA MinOfTwo ==
  ASSUME NEW a \in Int, NEW b \in Int
  PROVE  Min({a, b}) = IF a <= b THEN a ELSE b
<1> DEFINE m == IF a <= b THEN a ELSE b
<1>1. m \in {a, b} /\ \A y \in {a, b} : m <= y
  OBVIOUS
<1>2. \A x \in {a, b} : (\A y \in {a, b} : x <= y) => x = m
  OBVIOUS
<1> HIDE DEF m
<1>3. Min({a, b}) = m
  BY <1>1, <1>2 DEF Min
<1> QED BY <1>3 DEF m

(* The first n elements, or all.                                            *)
LEMMA BeginningIs ==
  ASSUME NEW cs, IsSeq(cs), NEW n \in Nat
  PROVE  /\ IsSeq(Beginning(cs, n))
         /\ Len(Beginning(cs, n)) = IF n <= Len(cs) THEN n ELSE Len(cs)
         /\ \A k \in 1 .. Len(Beginning(cs, n)) : Beginning(cs, n)[k] = cs[k]
<1> DEFINE S == Elems(cs)  l == Len(cs)  j == Min({n, l})  b == SubSeq(cs, 1, j)
<1>1. l \in Nat /\ cs \in Seq(S)
  BY SeqInSet DEF IsSeq
<1>2. j = IF n <= l THEN n ELSE l
  <2> HIDE DEF l
  <2> QED BY <1>1, MinOfTwo
<1>3. j \in 0 .. l
  <2> HIDE DEF j, l
  <2> QED BY <1>1, <1>2
<1>4. b \in Seq(S) /\ Len(b) = j /\ \A i \in 1 .. j : b[i] = cs[i]
  <2> DEFINE one == 1
  <2>1. one \in 1 .. l + 1 /\ j \in one - 1 .. l /\ one = 1
    <3> HIDE DEF j, l
    <3> QED BY <1>1, <1>3
  <2> HIDE DEF j, S, one
  <2>2. /\ SubSeq(cs, one, j) \in Seq(S)
        /\ Len(SubSeq(cs, one, j)) = IF one <= j THEN j - one + 1 ELSE 0
        /\ \A i \in 1 .. j - one + 1 : SubSeq(cs, one, j)[i] = cs[one + i - 1]
    BY <1>1, <1>3, <2>1, SubSeqProperties
  <2>3. Len(SubSeq(cs, one, j)) = j
    BY <1>1, <1>3, <2>1, <2>2
  <2>4. \A i \in 1 .. j : SubSeq(cs, one, j)[i] = cs[i]
    BY <1>1, <1>3, <2>1, <2>2
  <2> QED BY <2>2, <2>3, <2>4 DEF one
<1>5. IsSeq(b)
  <2> HIDE DEF b, S
  <2> QED BY <1>4, SetInSeq
<1> QED BY <1>2, <1>4, <1>5 DEF Beginning

(* Bytes written behind bytes.                                              *)
PokesMore(m, d, cs, x) ==
  Poke(Poke(m, d, cs), d + Len(cs), <<x>>) = Poke(m, d, Append(cs, x))
LEMMA PokePoke ==
  ASSUME NEW m, DOMAIN m = Addresses, NEW d \in Nat, NEW cs, IsSeq(cs), NEW x
  PROVE  PokesMore(m, d, cs, x)
<1> DEFINE l == Len(cs)  v == Poke(m, d, cs)  a == d + l  ap == Append(cs, x)
<1>1. l \in Nat /\ Addresses \subseteq Nat
  BY MemAssumption DEF IsSeq, Addresses
<1>2. a \in Int /\ d \in Int
  BY <1>1
<1>3. v = [i \in Addresses |-> IF d <= i /\ i < d + Len(cs) THEN cs[i - d + 1] ELSE m[i]]
  BY <1>2, PokeIs DEF Laid
<1>4. DOMAIN v = Addresses
  BY <1>3
<1>5. /\ IsSeq(ap) /\ Len(ap) = l + 1 /\ ap[l + 1] = x
      /\ \A k \in 1 .. l : ap[k] = cs[k]
  BY SeqAppend
<1> HIDE DEF v, a, ap
<1>6. Poke(v, a, <<x>>) = [i \in Addresses |-> IF i = a THEN x ELSE v[i]]
  BY <1>2, <1>4, PokeOne
<1>7. Poke(m, d, ap) =
        [i \in Addresses |-> IF d <= i /\ i < d + Len(ap) THEN ap[i - d + 1] ELSE m[i]]
  <2>1. Laid(Poke(m, d, ap), m, d, ap)
    BY <1>2, <1>5, PokeIs
  <2> QED BY <2>1 DEF Laid
<1> HIDE DEF l
<1>8. ASSUME NEW i \in Addresses
      PROVE  (IF i = a THEN x ELSE v[i])
               = IF d <= i /\ i < d + Len(ap) THEN ap[i - d + 1] ELSE m[i]
  <2>1. i \in Nat /\ a = d + l /\ l = Len(cs)
    BY <1>1 DEF a, l
  <2>2. v[i] = IF d <= i /\ i < d + l THEN cs[i - d + 1] ELSE m[i]
    BY <1>3, <2>1
  <2>3. CASE i = a
    <3>1. d <= i /\ i < d + (l + 1) /\ i - d + 1 = l + 1
      BY <1>1, <2>1, <2>3
    <3> QED BY <1>5, <2>3, <3>1
  <2>4. CASE i # a
    <3>1. (d <= i /\ i < d + (l + 1) <=> d <= i /\ i < d + l)
          /\ (d <= i /\ i < d + l => i - d + 1 \in 1 .. l)
      BY <1>1, <2>1, <2>4
    <3> QED BY <1>5, <2>2, <2>4, <3>1
  <2> QED BY <2>3, <2>4
<1>9. Poke(v, a, <<x>>) = Poke(m, d, ap)
  BY <1>6, <1>7, <1>8
<1> QED BY <1>9 DEF v, a, ap, l, PokesMore

(* strcpy, strncpy, memcpy: exactly the bytes, and no others.               *)
LEMMA CopiesAreExact == StrInv => CopiesExact
<1> SUFFICES ASSUME StrInv, NEW s \in Addresses, NEW d \in Addresses,
                    NEW n \in 1 .. MemBytes - Max({s, d})
             PROVE  /\ d <= s \/ d >= s + n =>
                         MemCpy(mem, d, s, n) = Poke(mem, d, [k \in 1 .. n |-> mem[s + k - 1]])
                    /\ Terminated(mem, s) /\ Apart(s, d) =>
                         /\ StrNCpy(mem, d, s, n)
                              = Poke(mem, d, Append(Beginning(Chars(mem, s), n - 1), NUL))
                         /\ d + StrLen(mem, s) < MemBytes =>
                              Chars(StrCpy(mem, d, s), d) = Chars(mem, s)
  BY DEF CopiesExact
<1>1. /\ mem \in [Addresses -> Bytes] /\ Addresses = 0 .. MemBytes - 1 /\ MemBytes \in Nat
      /\ Addresses \subseteq Nat /\ DOMAIN mem = Addresses /\ s \in Nat /\ d \in Nat
      /\ mem = [i \in Addresses |-> mem[i]]
  BY MemAssumption DEF StrInv, Addresses
<1>2. n \in Nat /\ n >= 1 /\ s + n <= MemBytes /\ d + n <= MemBytes
  <2>1. Max({s, d}) = IF s >= d THEN s ELSE d
    BY <1>1, MaxOfTwo
  <2> DEFINE x == Max({s, d})
  <2>2. x = IF s >= d THEN s ELSE d
    BY <2>1
  <2>3. n \in 1 .. MemBytes - x
    OBVIOUS
  <2> HIDE DEF x
  <2> QED BY <1>1, <2>2, <2>3
<1>3. ASSUME d <= s \/ d >= s + n
      PROVE  MemCpy(mem, d, s, n) = Poke(mem, d, [k \in 1 .. n |-> mem[s + k - 1]])
  <2>1. MemCpy(mem, d, s, n) = Poke(mem, d, Slice(mem, s, n))
    BY <1>1, <1>2, <1>3, MemCpyExact
  <2> QED BY <2>1 DEF Slice
<1> DEFINE l == StrLen(mem, s)  cs == Chars(mem, s)
<1>4. ASSUME Terminated(mem, s), Apart(s, d)
      PROVE  StrNCpy(mem, d, s, n) = Poke(mem, d, Append(Beginning(cs, n - 1), NUL))
  <2>1. /\ l \in Nat /\ s + l \in Addresses /\ IsSeq(cs) /\ Len(cs) = l
        /\ \A k \in 1 .. l : cs[k] = mem[s + k - 1]
    BY <1>1, <1>4, StringIsSeq
  <2>2. d <= s \/ d > s + l
    BY <1>4 DEF Apart
  <2> DEFINE k == Copied(l, n)  kept == Beginning(cs, n - 1)  sl == Slice(mem, s, k)
  <2> HIDE DEF l, cs
  <2>3. k = IF l <= n - 1 THEN l ELSE n - 1
    BY <1>2, <2>1, MinOfTwo DEF Copied
  <2>4. StrNCpy(mem, d, s, n) = Poke(MemCpy(mem, d, s, k), d + k, <<NUL>>)
    BY DEF StrNCpy, l
  <2> HIDE DEF k
  <2>5. k \in Nat /\ k <= l /\ s + k <= MemBytes /\ (d <= s \/ d >= s + k)
    BY <1>1, <1>2, <2>1, <2>2, <2>3
  <2>6. MemCpy(mem, d, s, k) = Poke(mem, d, sl)
    BY <1>1, <2>5, MemCpyExact
  <2>7. IsSeq(sl) /\ Len(sl) = k /\ \A i \in 1 .. k : sl[i] = mem[s + i - 1]
    BY <2>5, SliceIs
  <2>8. kept = sl
    <3>1. n - 1 \in Nat
      BY <1>2
    <3> DEFINE j == n - 1
    <3> HIDE DEF j
    <3>2. /\ IsSeq(Beginning(cs, j)) /\ Len(Beginning(cs, j)) = (IF j <= Len(cs) THEN j ELSE Len(cs))
          /\ \A i \in 1 .. Len(Beginning(cs, j)) : Beginning(cs, j)[i] = cs[i]
      BY <2>1, <3>1, BeginningIs DEF j
    <3> DEFINE b == Beginning(cs, j)
    <3>3. IsSeq(b) /\ Len(b) = (IF j <= l THEN j ELSE l) /\ \A i \in 1 .. Len(b) : b[i] = cs[i]
      BY <2>1, <3>2
    <3> HIDE DEF b, sl
    <3>4. Len(b) = k
      BY <1>2, <2>1, <2>3, <3>3 DEF j
    <3>5. ASSUME NEW i \in 1 .. k PROVE b[i] = sl[i]
      <4>1. i \in 1 .. l
        BY <2>1, <2>5
      <4>2. b[i] = cs[i]
        BY <3>3, <3>4
      <4>3. cs[i] = mem[s + i - 1]
        BY <2>1, <4>1
      <4>4. sl[i] = mem[s + i - 1]
        BY <2>7
      <4> QED BY <4>2, <4>3, <4>4
    <3>6. b = sl
      BY <2>7, <3>3, <3>4, <3>5, SeqSame
    <3> QED BY <3>6 DEF b, j
  <2> HIDE DEF sl, kept
  <2>9. Poke(Poke(mem, d, sl), d + Len(sl), <<NUL>>) = Poke(mem, d, Append(sl, NUL))
    <3>1. PokesMore(mem, d, sl, NUL)
      BY <1>1, <2>7, PokePoke
    <3> QED BY <3>1 DEF PokesMore
  <2> QED BY <2>4, <2>6, <2>7, <2>8, <2>9 DEF kept
<1>5. ASSUME Terminated(mem, s), Apart(s, d), d + l < MemBytes
      PROVE  Chars(StrCpy(mem, d, s), d) = cs
  <2>1. /\ l \in Nat /\ s + l \in Addresses /\ IsSeq(cs) /\ Len(cs) = l /\ mem[s + l] = NUL
        /\ \A k \in 1 .. l : cs[k] = mem[s + k - 1]
        /\ \A i \in Addresses : i >= s /\ i < s + l => mem[i] # NUL
    BY <1>1, <1>5, StringIsSeq
  <2> DEFINE n1 == l + 1  sl == Slice(mem, s, n1)  u == StrCpy(mem, d, s)
  <2>2. u = Poke(mem, d, sl)
    BY <1>1, <1>5, StrCpyIs DEF Apart
  <2> HIDE DEF l, cs
  <2>3. n1 \in Nat
    BY <2>1
  <2>4. IsSeq(sl) /\ Len(sl) = l + 1 /\ \A i \in 1 .. l + 1 : sl[i] = mem[s + i - 1]
    BY <2>3, SliceIs
  <2> HIDE DEF sl, u
  <2>5. Poked(u, mem, d, sl)
    BY <1>1, <2>2, <2>4, PokeAt
  <2>6. ASSUME NEW i \in Addresses, d <= i, i <= d + l
        PROVE  u[i] = mem[s + (i - d)] /\ s + (i - d) \in Addresses
    <3>1. i \in Nat
      BY <1>1
    <3>2. u[i] = sl[i - d + 1]
      <4>1. i \in DOMAIN mem /\ i \in Int
        BY <1>1, <3>1
      <4>2. u[i] = IF d <= i /\ i < d + Len(sl) THEN sl[i - d + 1] ELSE mem[i]
        BY <2>5, <4>1 DEF Poked
      <4>3. d <= i /\ i < d + Len(sl)
        BY <1>1, <2>1, <2>4, <2>6, <3>1
      <4> QED BY <4>2, <4>3
    <3>3. i - d + 1 \in 1 .. l + 1 /\ s + (i - d + 1) - 1 = s + (i - d)
      BY <1>1, <2>1, <2>6, <3>1
    <3>4. s + (i - d) \in Addresses
      BY <1>1, <2>1, <2>6, <3>1
    <3> QED BY <2>4, <3>2, <3>3, <3>4
  <2>7. DOMAIN u = Addresses
    BY <1>1, <2>5 DEF Poked
  <2>8. d + l \in Addresses /\ u[d + l] = NUL
    <3>1. d + l \in Addresses /\ s + ((d + l) - d) = s + l
      BY <1>1, <1>5, <2>1 DEF l
    <3>2. d <= d + l /\ d + l <= d + l
      BY <1>1, <2>1
    <3> QED BY <2>1, <2>6, <3>1, <3>2
  <2>9. \A i \in Addresses : i >= d /\ i < d + l => u[i] # NUL
    <3> TAKE i \in Addresses
    <3> HAVE i >= d /\ i < d + l
    <3>1. i \in Nat /\ d <= i /\ i <= d + l
      BY <1>1, <2>1
    <3>2. u[i] = mem[s + (i - d)] /\ s + (i - d) \in Addresses
      BY <2>6, <3>1
    <3>3. s + (i - d) >= s /\ s + (i - d) < s + l
      BY <1>1, <2>1, <3>1
    <3> QED BY <2>1, <3>2, <3>3
  <2>10. Chars(u, d) = [k \in 1 .. l |-> u[d + k - 1]]
    <3>1. DOMAIN u \subseteq Nat /\ d \in Nat /\ l \in Nat /\ d + l \in DOMAIN u
      BY <1>1, <2>1, <2>7, <2>8
    <3>2. \A i \in DOMAIN u : i >= d /\ i < d + l => u[i] # NUL
      BY <2>7, <2>9
    <3>3. u[d + l] = NUL
      BY <2>8
    <3> HIDE DEF n1
    <3> DEFINE x == d
    <3>4. x \in Nat /\ x + l \in DOMAIN u /\ u[x + l] = NUL
      BY <3>1, <3>3
    <3>5. \A i \in DOMAIN u : i >= x /\ i < x + l => u[i] # NUL
      BY <3>2
    <3> HIDE DEF x
    <3>6. Chars(u, x) = [k \in 1 .. l |-> u[x + k - 1]]
      BY <3>1, <3>4, <3>5, StringTo
    <3> QED BY <3>6 DEF x
  <2>11. ASSUME NEW k \in 1 .. l PROVE u[d + k - 1] = cs[k]
    <3>1. /\ d + k - 1 \in Addresses /\ d <= d + k - 1 /\ d + k - 1 <= d + l
          /\ s + ((d + k - 1) - d) = s + k - 1
      BY <1>1, <2>1, <2>8
    <3> DEFINE i == d + k - 1
    <3>2. u[i] = mem[s + (i - d)]
      BY <2>6, <3>1
    <3> QED BY <2>1, <3>1, <3>2
  <2>12. cs = [k \in 1 .. l |-> cs[k]]
    BY <2>1 DEF IsSeq
  <2> QED BY <2>10, <2>11, <2>12 DEF u
<1> QED BY <1>3, <1>4, <1>5

-----------------------------------------------------------------------------
(* What is compared.                                                        *)

(* The lexical order, from the first place where two sequences differ.      *)
Earlier(a, b) ==
  LET n == Min({Len(a), Len(b)})
      differ == {k \in 1 .. n : a[k] # b[k]}
  IN IF differ = {} THEN Len(a) < Len(b) ELSE a[Min(differ)] < b[Min(differ)]
Parts(a, b, k) ==
  /\ k \in Nat /\ k <= Len(a) /\ k <= Len(b) /\ \A i \in 1 .. k : a[i] = b[i]
  /\ k < Len(a) /\ k < Len(b) => a[k + 1] # b[k + 1]

(* Who is earlier shows at the first place that differs.                    *)
LEMMA EarlierIs ==
  ASSUME NEW a, NEW b, IsSeq(a), IsSeq(b), NEW k, Parts(a, b, k)
  PROVE  /\ k < Len(a) /\ k < Len(b) => (Earlier(a, b) <=> a[k + 1] < b[k + 1]) /\ a # b
         /\ ~(k < Len(a) /\ k < Len(b)) => (Earlier(a, b) <=> Len(a) < Len(b))
         /\ k = Len(a) /\ k = Len(b) => a = b
<1> DEFINE la == Len(a)  lb == Len(b)  n == Min({la, lb})
           differ == {i \in 1 .. n : a[i] # b[i]}
<1>1. la \in Nat /\ lb \in Nat
  BY DEF IsSeq
<1>2. n = IF la <= lb THEN la ELSE lb
  <2> HIDE DEF la, lb
  <2> QED BY <1>1, MinOfTwo
<1>3. /\ k \in Nat /\ k <= la /\ k <= lb /\ (\A i \in 1 .. k : a[i] = b[i])
      /\ k < la /\ k < lb => a[k + 1] # b[k + 1]
  BY DEF Parts
<1>4. Earlier(a, b) <=> IF differ = {} THEN la < lb ELSE a[Min(differ)] < b[Min(differ)]
  BY Zenon DEF Earlier
<1>5. ASSUME k < la, k < lb PROVE (Earlier(a, b) <=> a[k + 1] < b[k + 1]) /\ a # b
  <2> HIDE DEF la, lb, n
  <2>1. k + 1 \in differ /\ differ \in SUBSET Nat
    BY <1>1, <1>2, <1>3, <1>5
  <2>2. \A i \in differ : k + 1 <= i
    BY <1>1, <1>2, <1>3
  <2> HIDE DEF differ
  <2>3. Min(differ) \in differ /\ \A i \in differ : Min(differ) <= i
    BY <2>1, MinIsLeast
  <2> DEFINE e == Min(differ)
  <2> HIDE DEF e
  <2>4. e \in Nat /\ e <= k + 1 /\ k + 1 <= e
    BY <2>1, <2>2, <2>3 DEF e
  <2>5. e = k + 1
    BY <1>3, <2>4
  <2>6. Earlier(a, b) <=> a[k + 1] < b[k + 1]
    BY <1>4, <2>1, <2>5 DEF e
  <2>7. a # b
    BY <1>3, <1>5
  <2> QED BY <2>6, <2>7
<1>6. ASSUME ~(k < la /\ k < lb) PROVE Earlier(a, b) <=> la < lb
  <2> HIDE DEF la, lb, n
  <2>1. n = k
    BY <1>1, <1>2, <1>3, <1>6
  <2>2. differ = {}
    BY <1>3, <2>1
  <2> QED BY <1>4, <2>2
<1>7. k = la /\ k = lb => a = b
  BY <1>3, SeqSame
<1> QED BY <1>5, <1>6, <1>7

(* strcmp, strncmp (strutil.c:96): where they stop.                         *)
Stops(m, s, t, n, k) ==
  /\ k \in Nat /\ k <= n - 1 /\ s + k \in Addresses /\ t + k \in Addresses
  /\ k = n - 1 \/ m[s + k] = NUL \/ m[s + k] # m[t + k]
  /\ \A i \in 0 .. k - 1 : m[s + i] = m[t + i] /\ m[s + i] # NUL

(* strcmp and strncmp stop inside memory, after what is equal.              *)
LEMMA StopsThere ==
  ASSUME NEW m, DOMAIN m = Addresses, NEW s \in Addresses, NEW t \in Addresses,
         NEW n \in Nat \ {0},
         \/ Terminated(m, s) /\ Terminated(m, t)
         \/ s + n <= MemBytes /\ t + n <= MemBytes
  PROVE  Stops(m, s, t, n, StopsAt(m, s, t, n))
<1> DEFINE Here(k) == /\ s + k \in Addresses /\ t + k \in Addresses
                      /\ k = n - 1 \/ m[s + k] = NUL \/ m[s + k] # m[t + k]
           N == {k \in 0 .. n - 1 : Here(k)}  e == StopsAt(m, s, t, n)
<1>1. MemBytes \in Nat /\ Addresses = 0 .. MemBytes - 1 /\ s \in Nat /\ t \in Nat
  BY MemAssumption DEF Addresses
<1>2. e = Min(N)
  BY DEF StopsAt
<1>3. N # {}
  <2>1. CASE s + n <= MemBytes /\ t + n <= MemBytes
    <3>1. n - 1 \in 0 .. n - 1 /\ Here(n - 1)
      BY <1>1, <2>1
    <3> QED BY <3>1
  <2>2. CASE Terminated(m, s) /\ Terminated(m, t)
    <3> DEFINE la == StrLen(m, s)  lb == StrLen(m, t)
    <3>1. /\ la \in Nat /\ s + la \in Addresses /\ m[s + la] = NUL
          /\ \A i \in Addresses : i >= s /\ i < s + la => m[i] # NUL
      BY <1>1, <2>2, StringIsSeq
    <3>2. lb \in Nat /\ t + lb \in Addresses /\ m[t + lb] = NUL
      BY <1>1, <2>2, StringIsSeq
    <3> HIDE DEF la, lb
    <3>3. CASE n - 1 <= la /\ n - 1 <= lb
      <4>1. n - 1 \in 0 .. n - 1 /\ Here(n - 1)
        BY <1>1, <3>1, <3>2, <3>3
      <4> QED BY <4>1
    <3>4. CASE la <= n - 1 /\ la <= lb
      <4>1. la \in 0 .. n - 1 /\ Here(la)
        BY <1>1, <3>1, <3>2, <3>4
      <4> QED BY <4>1
    <3>5. CASE lb <= n - 1 /\ lb < la
      <4>1. s + lb \in Addresses /\ s + lb >= s /\ s + lb < s + la
        BY <1>1, <3>1, <3>2, <3>5
      <4>2. m[s + lb] # NUL
        BY <3>1, <4>1
      <4>3. lb \in 0 .. n - 1 /\ Here(lb)
        BY <1>1, <3>2, <3>5, <4>1, <4>2
      <4> QED BY <4>3
    <3> QED BY <3>1, <3>2, <3>3, <3>4, <3>5
  <2> QED BY <2>1, <2>2
<1>4. N \in SUBSET Nat
  OBVIOUS
<1> HIDE DEF e
<1>5. e \in N /\ \A i \in N : e <= i
  <2> HIDE DEF N
  <2> QED BY <1>2, <1>3, <1>4, MinIsLeast
<1>6. e \in Nat /\ e <= n - 1 /\ Here(e)
  BY <1>5
<1>7. ASSUME NEW i \in 0 .. e - 1 PROVE m[s + i] = m[t + i] /\ m[s + i] # NUL
  <2>1. i \in 0 .. n - 1 /\ s + i \in Addresses /\ t + i \in Addresses /\ ~(e <= i)
    BY <1>1, <1>6
  <2>2. ~Here(i)
    BY <1>5, <2>1
  <2> QED BY <2>1, <2>2
<1> QED BY <1>6, <1>7 DEF Stops, e

(* Where they stop, seen on one string and on both.                         *)
StringOf(m, s, a) ==
  /\ IsSeq(a) /\ s + Len(a) \in Addresses /\ m[s + Len(a)] = NUL
  /\ \A i \in 1 .. Len(a) : a[i] = m[s + i - 1] /\ a[i] # NUL

(* The string at an address ends with the first NUL.                        *)
LEMMA CharsAreString ==
  ASSUME NEW m, DOMAIN m = Addresses, NEW s \in Addresses, Terminated(m, s)
  PROVE  StringOf(m, s, Chars(m, s))
<1> DEFINE a == Chars(m, s)  la == StrLen(m, s)
<1>1. DOMAIN m \subseteq Nat /\ s \in Nat
  BY MemAssumption DEF Addresses
<1>2. /\ la \in Nat /\ s + la \in DOMAIN m /\ m[s + la] = NUL
      /\ \A i \in DOMAIN m : i >= s /\ i < s + la => m[i] # NUL
      /\ IsSeq(a) /\ Len(a) = la /\ \A k \in 1 .. la : a[k] = m[s + k - 1]
  BY <1>1, StringIsSeq
<1> HIDE DEF a, la
<1>3. ASSUME NEW i \in 1 .. la PROVE a[i] = m[s + i - 1] /\ a[i] # NUL
  <2>1. s + i - 1 \in Addresses /\ s + i - 1 >= s /\ s + i - 1 < s + la
    BY <1>1, <1>2, MemAssumption DEF Addresses
  <2> QED BY <1>2, <2>1
<1>4. StringOf(m, s, a)
  BY <1>2, <1>3 DEF StringOf
<1> QED BY <1>4 DEF a

(* A place of memory before which no NUL was is one in the string.          *)
Reached(m, s, a, k) ==
  /\ k \in Nat /\ k <= Len(a) /\ (m[s + k] = NUL <=> k = Len(a))
  /\ \A i \in 1 .. k : a[i] = m[s + i - 1]
  /\ k < Len(a) => a[k + 1] = m[s + k]
LEMMA ReachedIn ==
  ASSUME NEW m, NEW s \in Addresses, NEW a, StringOf(m, s, a), NEW k \in Nat,
         \A i \in 0 .. k - 1 : m[s + i] # NUL
  PROVE  Reached(m, s, a, k)
<1> DEFINE l == Len(a)
<1>1. /\ l \in Nat /\ s \in Nat /\ m[s + l] = NUL
      /\ \A i \in 1 .. l : a[i] = m[s + i - 1] /\ a[i] # NUL
  BY MemAssumption DEF StringOf, IsSeq, Addresses
<1> HIDE DEF l
<1>2. k <= l
  <2> SUFFICES ASSUME l < k PROVE FALSE
    BY <1>1
  <2>1. l \in 0 .. k - 1
    BY <1>1
  <2> QED BY <1>1, <2>1
<1>3. \A i \in 1 .. k : a[i] = m[s + i - 1]
  BY <1>1, <1>2
<1>4. k < l => a[k + 1] = m[s + k] /\ m[s + k] # NUL
  <2> SUFFICES ASSUME k < l PROVE a[k + 1] = m[s + k] /\ m[s + k] # NUL
    OBVIOUS
  <2>1. k + 1 \in 1 .. l /\ s + (k + 1) - 1 = s + k
    BY <1>1
  <2> QED BY <1>1, <2>1
<1>5. m[s + k] = NUL <=> k = l
  BY <1>1, <1>2, <1>4
<1> QED BY <1>2, <1>3, <1>4, <1>5 DEF Reached, l

(* So where they stop is a place in both strings.                           *)
LEMMA StoppedStrings ==
  ASSUME NEW m, DOMAIN m = Addresses, NEW s \in Addresses, NEW t \in Addresses,
         Terminated(m, s), Terminated(m, t), NEW n \in Nat, NEW k, Stops(m, s, t, n, k)
  PROVE  /\ StringOf(m, s, Chars(m, s)) /\ StringOf(m, t, Chars(m, t))
         /\ Reached(m, s, Chars(m, s), k) /\ Reached(m, t, Chars(m, t), k)
<1> DEFINE a == Chars(m, s)  b == Chars(m, t)
<1>1. StringOf(m, s, a) /\ StringOf(m, t, b)
  BY CharsAreString
<1>2. k \in Nat /\ (\A i \in 0 .. k - 1 : m[s + i] # NUL) /\ (\A i \in 0 .. k - 1 : m[t + i] # NUL)
  BY DEF Stops
<1> HIDE DEF a, b
<1>3. Reached(m, s, a, k)
  BY <1>1, <1>2, ReachedIn
<1>4. Reached(m, t, b, k)
  BY <1>1, <1>2, ReachedIn
<1> QED BY <1>1, <1>3, <1>4 DEF a, b

(* strcmp, strncmp and memcmp order what they compare.                      *)
LEMMA MemRange ==
  StrInv => /\ DOMAIN mem = Addresses /\ (\A i \in Addresses : mem[i] \in 0 .. 255)
            /\ Addresses = 0 .. MemBytes - 1 /\ MemBytes \in Nat /\ Addresses \subseteq Nat
            /\ Cardinality(DOMAIN mem) = MemBytes
<1> SUFFICES ASSUME StrInv
             PROVE  /\ DOMAIN mem = Addresses /\ (\A i \in Addresses : mem[i] \in 0 .. 255)
                    /\ Addresses = 0 .. MemBytes - 1 /\ MemBytes \in Nat /\ Addresses \subseteq Nat
                    /\ Cardinality(DOMAIN mem) = MemBytes
  OBVIOUS
<1>1. /\ DOMAIN mem = Addresses /\ (\A i \in Addresses : mem[i] \in 0 .. 255)
      /\ Addresses = 0 .. MemBytes - 1 /\ MemBytes \in Nat /\ MemBytes > 1 /\ Addresses \subseteq Nat
  <2>1. mem \in [Addresses -> Bytes]
    BY Zenon DEF StrInv
  <2>2. Bytes \subseteq 0 .. 255 /\ MemBytes \in Nat /\ MemBytes > 1
    BY MemAssumption
  <2>3. \A i \in Addresses : mem[i] \in 0 .. 255
    BY <2>1, <2>2
  <2> QED BY <2>1, <2>2, <2>3 DEF Addresses
<1> DEFINE z == 0  y == MemBytes - 1
<1>2. z \in Int /\ y \in Int /\ ~(z > y) /\ y - z + 1 = MemBytes /\ Addresses = z .. y
  BY <1>1
<1> HIDE DEF z, y
<1>3. Cardinality(z .. y) = MemBytes
  BY <1>2, FS_Interval
<1>4. Cardinality(DOMAIN mem) = MemBytes
  BY <1>1, <1>2, <1>3
<1> QED BY <1>1, <1>4

(* The sign of strcmp is the lexical order (strutil.c:96).                  *)
LEMMA OrderOfStrings ==
  ASSUME StrInv, NEW s \in Addresses, NEW t \in Addresses,
         Terminated(mem, s), Terminated(mem, t)
  PROVE  /\ StrCmp(mem, s, t) < 0 <=> Earlier(Chars(mem, s), Chars(mem, t))
         /\ StrCmp(mem, s, t) = 0 <=> Chars(mem, s) = Chars(mem, t)
<1> DEFINE a == Chars(mem, s)  b == Chars(mem, t)  la == Len(a)  lb == Len(b)
           x == Max({s, t})  n == MemBytes - x  k == StopsAt(mem, s, t, n)
           r == StrCmp(mem, s, t)
<1>1. /\ DOMAIN mem = Addresses /\ (\A i \in Addresses : mem[i] \in 0 .. 255)
      /\ Addresses = 0 .. MemBytes - 1 /\ MemBytes \in Nat /\ s \in Nat /\ t \in Nat
      /\ Cardinality(DOMAIN mem) = MemBytes
  BY MemRange
<1>2. x = IF s >= t THEN s ELSE t
  <2> HIDE DEF x
  <2>1. Max({s, t}) = IF s >= t THEN s ELSE t
    BY <1>1, MaxOfTwo
  <2> QED BY <2>1 DEF x
<1>3. r = mem[s + k] - mem[t + k]
  BY <1>1 DEF StrCmp
<1> HIDE DEF a, b, x
<1>4. n \in Nat \ {0} /\ s + n <= MemBytes /\ t + n <= MemBytes
  BY <1>1, <1>2
<1> HIDE DEF n, r
<1>5. Stops(mem, s, t, n, k)
  BY <1>1, <1>4, StopsThere
<1> HIDE DEF k
<1>6. StringOf(mem, s, a) /\ StringOf(mem, t, b) /\ Reached(mem, s, a, k) /\ Reached(mem, t, b, k)
  <2>1. n \in Nat
    BY <1>4
  <2>2. /\ StringOf(mem, s, Chars(mem, s)) /\ StringOf(mem, t, Chars(mem, t))
        /\ Reached(mem, s, Chars(mem, s), k) /\ Reached(mem, t, Chars(mem, t), k)
    BY <1>1, <1>5, <2>1, StoppedStrings
  <2> QED BY <2>2 DEF a, b
<1>7. /\ IsSeq(a) /\ IsSeq(b) /\ la \in Nat /\ lb \in Nat
      /\ s + la \in Addresses /\ t + lb \in Addresses
  BY <1>6 DEF StringOf, IsSeq
<1>8. /\ k \in Nat /\ k <= la /\ k <= lb /\ (mem[s + k] = NUL <=> k = la)
      /\ (mem[t + k] = NUL <=> k = lb) /\ \A i \in 1 .. k : a[i] = mem[s + i - 1]
      /\ \A i \in 1 .. k : b[i] = mem[t + i - 1]
      /\ k < la => a[k + 1] = mem[s + k]
      /\ k < lb => b[k + 1] = mem[t + k]
  BY <1>6 DEF Reached
<1>9. /\ s + k \in Addresses /\ t + k \in Addresses /\ k <= n - 1
      /\ k = n - 1 \/ mem[s + k] = NUL \/ mem[s + k] # mem[t + k]
      /\ \A i \in 0 .. k - 1 : mem[s + i] = mem[t + i]
  BY <1>5 DEF Stops
<1> HIDE DEF la, lb
<1>10. mem[s + k] = NUL \/ mem[s + k] # mem[t + k]
  <2> SUFFICES ASSUME k = n - 1, mem[s + k] # NUL PROVE mem[s + k] # mem[t + k]
    BY <1>9
  <2>1. k < la
    BY <1>7, <1>8
  <2>2. s < t /\ t + k = MemBytes - 1
    BY <1>1, <1>2, <1>4, <1>7, <1>8, <2>1 DEF n
  <2>3. k = lb
    BY <1>1, <1>7, <1>8, <2>2
  <2> QED BY <1>8, <2>3
<1>11. \A i \in 1 .. k : a[i] = b[i]
  <2> TAKE i \in 1 .. k
  <2>1. i - 1 \in 0 .. k - 1 /\ s + i - 1 = s + (i - 1) /\ t + i - 1 = t + (i - 1)
    BY <1>1, <1>8
  <2>2. mem[s + (i - 1)] = mem[t + (i - 1)]
    BY <1>9, <2>1
  <2> QED BY <1>8, <2>1, <2>2
<1>12. k < la /\ k < lb => a[k + 1] # b[k + 1]
  BY <1>8, <1>10
<1>13. Parts(a, b, k)
  BY <1>8, <1>11, <1>12 DEF Parts, la, lb
<1>14. /\ k < la /\ k < lb => (Earlier(a, b) <=> a[k + 1] < b[k + 1]) /\ a # b
       /\ ~(k < la /\ k < lb) => (Earlier(a, b) <=> la < lb)
       /\ k = la /\ k = lb => a = b
  BY <1>7, <1>13, EarlierIs DEF la, lb
<1>15. mem[s + k] \in 0 .. 255 /\ mem[t + k] \in 0 .. 255 /\ NUL = 0
  BY <1>1, <1>9 DEF NUL
<1>16. la # lb => a # b
  BY DEF la, lb
<1>17. (r < 0 <=> Earlier(a, b)) /\ (r = 0 <=> a = b)
  <2>1. CASE k < la /\ k < lb
    <3> DEFINE p == mem[s + k]  q == mem[t + k]
    <3>4. p \in 0 .. 255 /\ q \in 0 .. 255 /\ r = p - q /\ p # q
      BY <1>3, <1>8, <1>10, <1>15, <2>1
    <3> HIDE DEF p, q
    <3>5. (r < 0 <=> p < q) /\ r # 0
      BY <3>4
    <3>1. r < 0 <=> mem[s + k] < mem[t + k]
      BY <3>5 DEF p, q
    <3>2. r # 0
      BY <3>5
    <3>3. a[k + 1] = mem[s + k] /\ b[k + 1] = mem[t + k]
      BY <1>8, <2>1
    <3> QED BY <1>14, <2>1, <3>1, <3>2, <3>3
  <2>2. CASE k = la /\ k = lb
    <3>1. r = 0
      BY <1>3, <1>8, <1>15, <2>2
    <3>2. ~(la < lb) /\ ~(k < la /\ k < lb)
      BY <1>7, <2>2
    <3> QED BY <1>14, <2>2, <3>1, <3>2
  <2>3. CASE k = la /\ k < lb
    <3>1. r < 0 /\ r # 0 /\ la < lb /\ la # lb /\ ~(k < la /\ k < lb)
      BY <1>3, <1>7, <1>8, <1>15, <2>3
    <3> QED BY <1>14, <1>16, <2>3, <3>1
  <2>4. CASE k < la /\ k = lb
    <3>1. r > 0 /\ r # 0 /\ ~(r < 0) /\ ~(la < lb) /\ la # lb /\ ~(k < la /\ k < lb)
      BY <1>3, <1>7, <1>8, <1>15, <2>4
    <3> QED BY <1>14, <1>16, <2>4, <3>1
  <2> QED BY <1>7, <1>8, <2>1, <2>2, <2>3, <2>4
<1> QED BY <1>17 DEF a, b, r

(* strncmp compares the first n bytes (strutil.c:106).                      *)
LEMMA OrderOfBeginnings ==
  ASSUME StrInv, NEW s \in Addresses, NEW t \in Addresses,
         Terminated(mem, s), Terminated(mem, t), NEW n \in Nat \ {0}
  PROVE  StrNCmp(mem, s, t, n) = 0 <=>
           Beginning(Chars(mem, s), n) = Beginning(Chars(mem, t), n)
<1> DEFINE a == Chars(mem, s)  b == Chars(mem, t)  la == Len(a)  lb == Len(b)
           k == StopsAt(mem, s, t, n)  p == mem[s + k]  q == mem[t + k]
           r == StrNCmp(mem, s, t, n)  c == Beginning(a, n)  d == Beginning(b, n)
<1>1. DOMAIN mem = Addresses /\ (\A i \in Addresses : mem[i] \in 0 .. 255) /\ s \in Nat /\ t \in Nat
  BY MemRange
<1>2. r = Signed(p) - Signed(q)
  BY DEF StrNCmp
<1> HIDE DEF a, b, r
<1>3. Stops(mem, s, t, n, k)
  BY <1>1, StopsThere
<1> HIDE DEF k, p, q
<1>4. StringOf(mem, s, a) /\ StringOf(mem, t, b) /\ Reached(mem, s, a, k) /\ Reached(mem, t, b, k)
  <2>1. /\ StringOf(mem, s, Chars(mem, s)) /\ StringOf(mem, t, Chars(mem, t))
        /\ Reached(mem, s, Chars(mem, s), k) /\ Reached(mem, t, Chars(mem, t), k)
    BY <1>1, <1>3, StoppedStrings
  <2> QED BY <2>1 DEF a, b
<1>5. IsSeq(a) /\ IsSeq(b) /\ la \in Nat /\ lb \in Nat
  BY <1>4 DEF StringOf, IsSeq
<1>6. /\ k \in Nat /\ k <= la /\ k <= lb /\ (p = NUL <=> k = la) /\ (q = NUL <=> k = lb)
      /\ \A i \in 1 .. k : a[i] = mem[s + i - 1]
      /\ \A i \in 1 .. k : b[i] = mem[t + i - 1]
      /\ k < la => a[k + 1] = p
      /\ k < lb => b[k + 1] = q
  BY <1>4 DEF Reached, p, q
<1>7. /\ s + k \in Addresses /\ t + k \in Addresses /\ k <= n - 1
      /\ k = n - 1 \/ p = NUL \/ p # q
      /\ \A i \in 0 .. k - 1 : mem[s + i] = mem[t + i]
  BY <1>3 DEF Stops, p, q
<1>8. \A i \in 1 .. k : a[i] = b[i]
  <2> TAKE i \in 1 .. k
  <2>1. i - 1 \in 0 .. k - 1 /\ s + i - 1 = s + (i - 1) /\ t + i - 1 = t + (i - 1)
    BY <1>1, <1>6
  <2>2. mem[s + (i - 1)] = mem[t + (i - 1)]
    BY <1>7, <2>1
  <2> QED BY <1>6, <2>1, <2>2
<1>9. p \in 0 .. 255 /\ q \in 0 .. 255 /\ NUL = 0
  BY <1>1, <1>7 DEF NUL, p, q
<1>10. r = 0 <=> p = q
  BY <1>2, <1>9 DEF Signed
<1>11. /\ IsSeq(c) /\ Len(c) = (IF n <= la THEN n ELSE la) /\ \A i \in 1 .. Len(c) : c[i] = a[i]
  BY <1>5, BeginningIs
<1>12. /\ IsSeq(d) /\ Len(d) = (IF n <= lb THEN n ELSE lb) /\ \A i \in 1 .. Len(d) : d[i] = b[i]
  BY <1>5, BeginningIs
<1> HIDE DEF c, d, la, lb
<1>13. ASSUME p = q PROVE c = d
  <2>1. Len(c) = Len(d) /\ \A i \in 1 .. Len(c) : a[i] = b[i]
    <3>1. CASE p = NUL
      <4>1. la = k /\ lb = k
        BY <1>6, <1>13, <3>1
      <4>2. Len(c) = Len(d) /\ Len(c) <= k
        BY <1>6, <1>11, <1>12, <4>1
      <4> QED BY <1>5, <1>6, <1>8, <1>11, <4>1, <4>2
    <3>2. CASE p # NUL
      <4>1. k = n - 1 /\ k < la /\ k < lb
        BY <1>5, <1>6, <1>7, <1>13, <3>2
      <4>2. Len(c) = n /\ Len(d) = n /\ n = k + 1
        BY <1>5, <1>6, <1>11, <1>12, <4>1
      <4>3. a[k + 1] = b[k + 1]
        BY <1>6, <1>13, <4>1
      <4>4. \A i \in 1 .. n : i \in 1 .. k \/ i = k + 1
        BY <1>6, <4>2
      <4> QED BY <1>8, <4>2, <4>3, <4>4
    <3> QED BY <3>1, <3>2
  <2> QED BY <1>11, <1>12, <2>1, SeqSame
<1>14. ASSUME p # q PROVE c # d
  <2>1. CASE k < la /\ k < lb
    <3>1. k + 1 \in 1 .. Len(c) /\ k + 1 \in 1 .. Len(d)
      BY <1>5, <1>6, <1>7, <1>11, <1>12, <2>1
    <3>2. c[k + 1] = p /\ d[k + 1] = q
      BY <1>6, <1>11, <1>12, <2>1, <3>1
    <3> QED BY <1>14, <3>2
  <2>2. CASE ~(k < la /\ k < lb)
    <3>1. Len(c) # Len(d)
      <4>1. (k = la /\ k < lb) \/ (k < la /\ k = lb)
        BY <1>5, <1>6, <1>14, <2>2
      <4> QED BY <1>5, <1>6, <1>7, <1>11, <1>12, <4>1
    <3> QED BY <3>1
  <2> QED BY <2>1, <2>2
<1> QED BY <1>10, <1>13, <1>14 DEF r, c, d, a, b

(* The sign of memcmp is the lexical order (memutil.c:3).                   *)
LEMMA OrderOfBytes ==
  ASSUME StrInv, NEW s \in Addresses, NEW t \in Addresses, NEW n \in Nat \ {0},
         s + n <= MemBytes, t + n <= MemBytes
  PROVE  /\ MemCmp(mem, s, t, n) = -1 <=> Earlier(Slice(mem, s, n), Slice(mem, t, n))
         /\ MemCmp(mem, s, t, n) = 0 <=> Slice(mem, s, n) = Slice(mem, t, n)
<1> DEFINE a == Slice(mem, s, n)  b == Slice(mem, t, n)  r == MemCmp(mem, s, t, n)
           differ == {i \in 0 .. n - 1 : mem[s + i] # mem[t + i]}  k == Min(differ)
<1>1. /\ DOMAIN mem = Addresses /\ (\A i \in Addresses : mem[i] \in 0 .. 255) /\ s \in Nat /\ t \in Nat
      /\ Addresses = 0 .. MemBytes - 1 /\ MemBytes \in Nat
  BY MemRange
<1>2. r = IF differ = {} THEN 0 ELSE IF mem[s + k] < mem[t + k] THEN -1 ELSE 1
  BY DEF MemCmp
<1>3. IsSeq(a) /\ Len(a) = n /\ \A i \in 1 .. n : a[i] = mem[s + i - 1]
  BY SliceIs
<1>4. IsSeq(b) /\ Len(b) = n /\ \A i \in 1 .. n : b[i] = mem[t + i - 1]
  BY SliceIs
<1> HIDE DEF a, b, r, k
<1>5. ASSUME NEW i \in 1 .. n
      PROVE  /\ i - 1 \in 0 .. n - 1 /\ a[i] = mem[s + (i - 1)] /\ b[i] = mem[t + (i - 1)]
             /\ i - 1 \notin differ => a[i] = b[i]
  <2>1. i - 1 \in 0 .. n - 1 /\ s + i - 1 = s + (i - 1) /\ t + i - 1 = t + (i - 1)
    BY <1>1
  <2>2. a[i] = mem[s + (i - 1)] /\ b[i] = mem[t + (i - 1)]
    BY <1>3, <1>4, <2>1
  <2> QED BY <2>1, <2>2
<1>6. CASE differ = {}
  <2>1. \A i \in 1 .. n : a[i] = b[i]
    BY <1>5, <1>6
  <2>2. n \in Nat /\ n <= Len(a) /\ n <= Len(b) /\ ~(n < Len(a)) /\ ~(Len(a) < Len(b))
    BY <1>3, <1>4
  <2>3. Parts(a, b, n)
    BY <2>1, <2>2 DEF Parts
  <2>4. /\ ~(n < Len(a) /\ n < Len(b)) => (Earlier(a, b) <=> Len(a) < Len(b))
        /\ n = Len(a) /\ n = Len(b) => a = b
    BY <1>3, <1>4, <2>3, EarlierIs
  <2>5. r = 0 /\ r # -1
    BY <1>2, <1>6
  <2>6. (r = -1 <=> Earlier(a, b)) /\ (r = 0 <=> a = b)
    BY <1>3, <1>4, <2>2, <2>4, <2>5
  <2> QED BY <2>6 DEF r, a, b
<1>7. CASE differ # {}
  <2>1. k \in differ /\ \A i \in differ : k <= i
    <3>1. differ \in SUBSET Nat
      OBVIOUS
    <3> HIDE DEF differ
    <3> QED BY <1>7, <3>1, MinIsLeast DEF k
  <2>2. k \in Nat /\ k <= n - 1 /\ mem[s + k] # mem[t + k]
    BY <2>1
  <2>3. s + k \in Addresses /\ t + k \in Addresses
    BY <1>1, <2>2
  <2>4. ASSUME NEW i \in 1 .. k PROVE a[i] = b[i]
    <3>1. i \in 1 .. n /\ ~(k <= i - 1)
      BY <2>2
    <3>2. i - 1 \notin differ
      <4> HIDE DEF differ
      <4> QED BY <2>1, <3>1
    <3> HIDE DEF differ
    <3> QED BY <1>5, <3>1, <3>2
  <2>5. k + 1 \in 1 .. n /\ (k + 1) - 1 = k /\ k <= n /\ k < n
    BY <2>2
  <2>6. a[k + 1] = mem[s + k] /\ b[k + 1] = mem[t + k]
    BY <1>5, <2>5
  <2>7. Parts(a, b, k)
    BY <1>3, <1>4, <2>2, <2>4, <2>5, <2>6 DEF Parts
  <2>8. k < Len(a) /\ k < Len(b) => (Earlier(a, b) <=> a[k + 1] < b[k + 1]) /\ a # b
    BY <1>3, <1>4, <2>7, EarlierIs
  <2>9. (Earlier(a, b) <=> mem[s + k] < mem[t + k]) /\ a # b
    BY <1>3, <1>4, <2>5, <2>6, <2>8
  <2>10. r = IF mem[s + k] < mem[t + k] THEN -1 ELSE 1
    BY <1>2, <1>7
  <2>11. (r = -1 <=> Earlier(a, b)) /\ (r = 0 <=> a = b)
    BY <2>9, <2>10
  <2> QED BY <2>11 DEF r, a, b
<1> QED BY <1>6, <1>7

(* The three of them.                                                       *)
LEMMA OrdersAgree == StrInv => OrderAgrees
<1> SUFFICES ASSUME StrInv PROVE OrderAgrees
  OBVIOUS
<1> DEFINE Before(a, b) ==
             LET n == Min({Len(a), Len(b)})
                 differ == {k \in 1 .. n : a[k] # b[k]}
             IN IF differ = {} THEN Len(a) < Len(b) ELSE a[Min(differ)] < b[Min(differ)]
           Sub(s, n) == [k \in 1 .. n |-> mem[s + k - 1]]
<1>1. \A a, b : Before(a, b) <=> Earlier(a, b)
  BY Zenon DEF Earlier
<1>2. \A s, n : Sub(s, n) = Slice(mem, s, n)
  BY Zenon DEF Slice
<1> HIDE DEF Before, Sub
<1>3. ASSUME NEW s \in Addresses, NEW t \in Addresses
      PROVE  /\ Terminated(mem, s) /\ Terminated(mem, t) =>
                  /\ StrCmp(mem, s, t) < 0 <=> Before(Chars(mem, s), Chars(mem, t))
                  /\ StrCmp(mem, s, t) = 0 <=> Chars(mem, s) = Chars(mem, t)
                  /\ \A n \in 1 .. MemBytes :
                       StrNCmp(mem, s, t, n) = 0 <=>
                         Beginning(Chars(mem, s), n) = Beginning(Chars(mem, t), n)
             /\ \A n \in 1 .. MemBytes - Max({s, t}) :
                  /\ MemCmp(mem, s, t, n) = -1 <=> Before(Sub(s, n), Sub(t, n))
                  /\ MemCmp(mem, s, t, n) = 0 <=> Sub(s, n) = Sub(t, n)
  <2>1. ASSUME Terminated(mem, s), Terminated(mem, t)
        PROVE  /\ StrCmp(mem, s, t) < 0 <=> Before(Chars(mem, s), Chars(mem, t))
               /\ StrCmp(mem, s, t) = 0 <=> Chars(mem, s) = Chars(mem, t)
    BY <1>1, <2>1, OrderOfStrings, Zenon
  <2>2. ASSUME Terminated(mem, s), Terminated(mem, t), NEW n \in 1 .. MemBytes
        PROVE  StrNCmp(mem, s, t, n) = 0 <=>
                 Beginning(Chars(mem, s), n) = Beginning(Chars(mem, t), n)
    <3>1. n \in Nat \ {0}
      BY MemAssumption
    <3> QED BY <2>2, <3>1, OrderOfBeginnings, Zenon
  <2>3. ASSUME NEW n \in 1 .. MemBytes - Max({s, t})
        PROVE  /\ MemCmp(mem, s, t, n) = -1 <=> Before(Sub(s, n), Sub(t, n))
               /\ MemCmp(mem, s, t, n) = 0 <=> Sub(s, n) = Sub(t, n)
    <3> DEFINE x == Max({s, t})
    <3>1. s \in Nat /\ t \in Nat /\ MemBytes \in Nat
      BY MemAssumption DEF Addresses
    <3>2. x = IF s >= t THEN s ELSE t
      BY <3>1, MaxOfTwo
    <3> HIDE DEF x
    <3>3. n \in Nat \ {0} /\ s + n <= MemBytes /\ t + n <= MemBytes
      <4>1. n \in 1 .. MemBytes - x
        BY <2>3 DEF x
      <4> QED BY <3>1, <3>2, <4>1
    <3>4. /\ MemCmp(mem, s, t, n) = -1 <=> Earlier(Slice(mem, s, n), Slice(mem, t, n))
          /\ MemCmp(mem, s, t, n) = 0 <=> Slice(mem, s, n) = Slice(mem, t, n)
      BY <3>3, OrderOfBytes
    <3> QED BY <1>1, <1>2, <3>4, Zenon
  <2> QED BY <2>1, <2>2, <2>3, Zenon
<1> QED BY <1>3, Zenon DEF OrderAgrees, Before, Sub

-----------------------------------------------------------------------------
(* What is trimmed, and what is written and read as a number.               *)

(* trim_and_terminate (strutil.c:154) stays within its field.               *)
LEMMA TrimsStay == StrInv => TrimStays
<1> SUFFICES ASSUME StrInv, NEW s \in Addresses, NEW n \in 1 .. MemBytes - s
    PROVE LET m == TrimAndTerminate(mem, s, n)
              ends == {i \in s .. s + n - 1 : m[i] = NUL /\ m[i] # mem[i]}
          IN /\ \E i \in s .. s + n - 1 : m[i] = NUL
             /\ Cardinality({i \in Addresses : m[i] # mem[i]}) <= 1
             /\ \A i \in ends : \/ i = s + n - 1
                                \/ mem[i] = Blank /\ mem[i + 1] = Blank
             /\ \A i \in s .. s + n - 2 :
                  m[i] = Blank /\ m[i + 1] = Blank => \E e \in ends : e < i
  BY DEF TrimStays
<1> DEFINE m == TrimAndTerminate(mem, s, n)  c == Cut(mem, s, n)  e == s + c
           ends == {i \in s .. s + n - 1 : m[i] = NUL /\ m[i] # mem[i]}
           D == {i \in Addresses : m[i] # mem[i]}
<1>1. /\ DOMAIN mem = Addresses /\ Addresses = 0 .. MemBytes - 1 /\ MemBytes \in Nat /\ s \in Nat
      /\ n \in Nat \ {0} /\ s + n <= MemBytes
  BY MemRange
<1>2. /\ c \in 0 .. n - 1 /\ (c = n - 1 \/ Blanks(mem, s, c))
      /\ \A i \in 0 .. n - 1 : i = n - 1 \/ Blanks(mem, s, i) => c <= i
      /\ m = [i \in Addresses |-> IF i = s + c THEN NUL ELSE mem[i]]
  BY <1>1, TrimCuts
<1> HIDE DEF m, c
<1>3. e \in s .. s + n - 1 /\ e \in Addresses /\ m[e] = NUL
  BY <1>1, <1>2
<1>4. \A i \in Addresses : i # e => m[i] = mem[i]
  BY <1>2
<1>5. Cardinality(D) <= 1
  <2>1. D = {} \/ D = {e}
    BY <1>4
  <2> HIDE DEF D, e
  <2>2. Cardinality(D) = 0 \/ Cardinality(D) = 1
    BY <2>1, FS_EmptySet, FS_Singleton, Zenon
  <2> QED BY <2>2
<1>6. ASSUME NEW i \in ends PROVE i = s + n - 1 \/ (mem[i] = Blank /\ mem[i + 1] = Blank)
  <2>1. i \in Addresses /\ m[i] # mem[i]
    BY <1>1
  <2>2. i = e
    BY <1>4, <2>1
  <2>3. CASE c = n - 1
    BY <1>1, <2>2, <2>3
  <2>4. CASE Blanks(mem, s, c)
    BY <2>2, <2>4 DEF Blanks
  <2> QED BY <1>2, <2>3, <2>4
<1>7. ASSUME NEW i \in s .. s + n - 2, m[i] = Blank, m[i + 1] = Blank
      PROVE  e \in ends /\ e < i
  <2>1. i \in Addresses /\ i + 1 \in Addresses
    BY <1>1
  <2>2. i # e /\ i + 1 # e
    BY <1>3, <1>7 DEF NUL, Blank
  <2>3. mem[i] = Blank /\ mem[i + 1] = Blank
    BY <1>4, <1>7, <2>1, <2>2
  <2> DEFINE j == i - s
  <2>4. j \in 0 .. n - 1 /\ s + j = i /\ s + j + 1 = i + 1 /\ j < n - 1
    BY <1>1
  <2> HIDE DEF j
  <2>5. Blanks(mem, s, j)
    BY <2>3, <2>4 DEF Blanks
  <2>6. c <= j
    BY <1>2, <2>4, <2>5
  <2>7. e < i /\ c # n - 1
    BY <1>1, <1>2, <2>2, <2>4, <2>6
  <2>8. mem[e] = Blank
    BY <1>2, <2>7 DEF Blanks
  <2>9. m[e] # mem[e]
    BY <1>3, <2>8 DEF NUL, Blank
  <2> QED BY <1>3, <2>7, <2>9
<1>8. \E i \in s .. s + n - 1 : m[i] = NUL
  BY <1>3
<1> QED BY <1>5, <1>6, <1>7, <1>8 DEF m

(* One digit more of a number, in any base.                                 *)
LEMMA BaseRemainder ==
  ASSUME NEW b \in Nat \ {0}, NEW x \in Nat, NEW w \in Nat
  PROVE  x % Power(b, w + 1) = (x % Power(b, w)) + ((x \div Power(b, w)) % b) * Power(b, w)
<1> DEFINE a == Power(b, w)  p == Power(b, w + 1)
<1>1. a \in Nat \ {0} /\ p = b * a /\ p \in Nat \ {0}
  <2>1. a \in Nat \ {0}
    BY PowerPositive
  <2>2. p = b * a
    BY PowerStep
  <2>3. w + 1 \in Nat
    OBVIOUS
  <2>4. p \in Nat \ {0}
    <3> DEFINE j == w + 1
    <3> HIDE DEF j
    <3>1. Power(b, j) \in Nat \ {0}
      BY <2>3, PowerPositive DEF j
    <3> QED BY <3>1 DEF j
  <2> QED BY <2>1, <2>2, <2>4
<1> HIDE DEF a, p
<1> DEFINE q == x \div a  r == x % a
<1>2. q \in Nat /\ r \in 0 .. a - 1 /\ x = a * q + r
  BY <1>1, DivDef
<1> HIDE DEF q, r
<1> DEFINE d == q \div b  c == q % b
<1>3. d \in Nat /\ c \in 0 .. b - 1 /\ q = b * d + c
  BY <1>2, DivDef
<1> HIDE DEF d, c
<1>4. x = p * d + (c * a + r)
  <2>1. a * q = a * (b * d) + a * c
    BY <1>1, <1>3
  <2>2. a * (b * d) = (b * a) * d /\ a * c = c * a
    BY <1>1, <1>3
  <2>3. a * (b * d) \in Nat /\ a * c \in Nat /\ a * q \in Nat
    BY <1>1, <1>2, <1>3
  <2>4. p * d = (b * a) * d
    BY <1>1
  <2> DEFINE f == a * (b * d)  g == a * c  h == a * q
  <2>5. x = h + r /\ h = f + g /\ p * d = f /\ c * a = g /\ f \in Nat /\ g \in Nat /\ h \in Nat
    BY <1>2, <2>1, <2>2, <2>3, <2>4
  <2> HIDE DEF f, g, h
  <2>6. x = p * d + (g + r)
    BY <1>2, <2>5
  <2> QED BY <2>5, <2>6
<1>5. c * a + r \in 0 .. p - 1
  <2>1. c * a <= (b - 1) * a /\ c * a \in Nat
    BY <1>1, <1>3
  <2>2. (b - 1) * a = b * a - a
    BY <1>1
  <2> QED BY <1>1, <1>2, <2>1, <2>2
<1>6. x % p = c * a + r
  BY <1>1, <1>3, <1>4, <1>5, DivUnique
<1>7. c * a \in Nat
  BY <1>1, <1>3
<1>8. x % p = r + c * a
  BY <1>2, <1>6, <1>7
<1> QED BY <1>8 DEF c, q, r, a, p

(* Characters before a sequence, until it is long enough.                   *)
Padded(p, cs, n, c) ==
  /\ IsSeq(p) /\ Len(p) = IF n >= Len(cs) THEN n ELSE Len(cs)
  /\ \A k \in 1 .. Len(p) :
       p[k] = IF k <= Len(p) - Len(cs) THEN c ELSE cs[k - (Len(p) - Len(cs))]
LEMMA PadIs ==
  ASSUME NEW cs, IsSeq(cs), NEW n \in Int, NEW c
  PROVE  Padded(PadLeft(cs, n, c), cs, n, c)
BY PadSeq DEF Padded

(* utos (strutil.c:17): the digits of the number, and zeros before them.    *)
Written(cs, v, b, n) ==
  /\ IsSeq(cs) /\ Len(cs) >= n /\ Len(cs) >= 1 /\ v < Power(b, Len(cs))
  /\ \A k \in 1 .. Len(cs) : cs[Len(cs) - k + 1] = Digit((v \div Power(b, k - 1)) % b)
  /\ Len(cs) = n \/ Len(cs) = 1 \/ cs[1] # 48

(* What utos writes, in every base but 16.                                  *)
LEMMA NumberWritten ==
  ASSUME NEW v \in Nat, NEW b \in Nat, b > 1, b # 16, NEW n \in Nat
  PROVE  Written(Utos(v, b, n), v, b, n)
<1> DEFINE ds == Digits(v, b)  l == Len(ds)  z == Digit(0)  cs == PadLeft(ds, n, z)  m == Len(cs)
<1>1. /\ IsSeq(ds) /\ l >= 1 /\ DigitCount(l, v, b)
      /\ ds = [k \in 1 .. l |-> Digit((v \div Power(b, l - k)) % b)]
  BY DigitsSeq
<1> HIDE DEF ds, l, z
<1>2. l \in Nat \ {0} /\ v < Power(b, l) /\ (l = 1 \/ Power(b, l - 1) <= v) /\ b \in Nat \ {0}
  BY <1>1 DEF DigitCount
<1>3. /\ IsSeq(cs) /\ m = (IF n >= l THEN n ELSE l)
      /\ \A k \in 1 .. m : cs[k] = IF k <= m - l THEN z ELSE ds[k - (m - l)]
  <2>1. n \in Int
    OBVIOUS
  <2> HIDE DEF cs, m
  <2>2. Padded(PadLeft(ds, n, z), ds, n, z)
    BY <1>1, <2>1, PadIs
  <2>3. Padded(cs, ds, n, z)
    BY <2>2 DEF cs
  <2> QED BY <2>3 DEF l, m, Padded
<1>4. Utos(v, b, n) = cs
  <2>1. Utos(v, b, n) = << >> \o cs
    BY DEF Utos, UtosDigits, ds, z
  <2> HIDE DEF cs
  <2>2. << >> \o cs = cs
    BY <1>3, SeqEmpty
  <2> QED BY <2>1, <2>2
<1> HIDE DEF cs, m
<1>5. m \in Nat /\ m >= l /\ m >= n /\ m >= 1
  BY <1>2, <1>3
<1>6. v < Power(b, m)
  <2>1. Power(b, l) <= Power(b, m)
    BY <1>2, <1>5, PowerGrows
  <2>2. Power(b, l) \in Nat /\ Power(b, m) \in Nat
    BY <1>2, <1>5, PowerPositive
  <2> QED BY <1>2, <2>1, <2>2
<1>7. ASSUME NEW k \in 1 .. m PROVE cs[m - k + 1] = Digit((v \div Power(b, k - 1)) % b)
  <2> DEFINE j == m - k + 1  e == k - 1  p == Power(b, e)
  <2>1. j \in 1 .. m /\ e \in Nat
    BY <1>5
  <2>2. CASE k > l
    <3>1. j <= m - l /\ l <= e
      BY <1>2, <1>5, <2>2
    <3>2. cs[j] = z
      BY <1>3, <2>1, <3>1
    <3> HIDE DEF e, j
    <3>3. p \in Nat \ {0} /\ Power(b, l) \in Nat /\ Power(b, l) <= p
      BY <1>2, <2>1, <3>1, PowerPositive, PowerGrows
    <3> HIDE DEF p
    <3> DEFINE y == 0
    <3>4. y \in Nat /\ v \in 0 .. p - 1 /\ v = p * y + v
      BY <1>2, <3>3
    <3> HIDE DEF y
    <3>5. v \div p = y
      BY <3>3, <3>4, DivUnique
    <3>6. y % b = 0
      <4>1. y \in 0 .. b - 1 /\ y = b * y + y
        BY <1>2 DEF y
      <4>2. y % b = y
        BY <1>2, <3>4, <4>1, DivUnique
      <4> QED BY <4>2 DEF y
    <3>7. cs[j] = Digit((v \div p) % b)
      BY <3>2, <3>5, <3>6 DEF z
    <3> QED BY <3>7 DEF j, p, e
  <2>3. CASE k <= l
    <3>1. ~(j <= m - l) /\ j - (m - l) = l - k + 1 /\ l - k + 1 \in 1 .. l /\ l - (l - k + 1) = e
      BY <1>2, <1>5, <2>3
    <3>2. cs[j] = ds[l - k + 1]
      BY <1>3, <2>1, <3>1
    <3>3. ds[l - k + 1] = Digit((v \div Power(b, l - (l - k + 1))) % b)
      BY <1>1, <3>1
    <3>4. ds[l - k + 1] = Digit((v \div Power(b, e)) % b)
      BY <3>1, <3>3
    <3> QED BY <3>2, <3>4
  <2> QED BY <1>2, <1>5, <2>2, <2>3
<1>8. m = n \/ m = 1 \/ cs[1] # 48
  <2> SUFFICES ASSUME m # n, m # 1 PROVE cs[1] # 48
    OBVIOUS
  <2>1. m = l /\ l > 1
    BY <1>2, <1>3
  <2> DEFINE e == l - 1  p == Power(b, e)  q == v \div p  r == v % p
  <2>2. e \in Nat /\ p <= v /\ l = e + 1
    BY <1>2, <2>1
  <2> HIDE DEF e
  <2>3. p \in Nat \ {0} /\ Power(b, e + 1) = b * p /\ v < b * p
    <3>1. p \in Nat \ {0}
      BY <1>2, <2>2, PowerPositive
    <3>2. Power(b, e + 1) = b * p
      BY <1>2, <2>2, PowerStep
    <3> QED BY <1>2, <2>2, <3>1, <3>2
  <2> HIDE DEF p
  <2>4. q \in Nat /\ r \in 0 .. p - 1 /\ v = p * q + r
    BY <2>3, DivDef
  <2> HIDE DEF q, r
  <2>5. q # 0
    BY <2>2, <2>3, <2>4
  <2>6. q < b
    <3> SUFFICES ASSUME q >= b PROVE FALSE
      BY <1>2, <2>4
    <3>1. PICK s \in Nat : q = b + s
      <4>1. q - b \in Nat /\ q = b + (q - b)
        BY <1>2, <2>4
      <4> QED BY <4>1
    <3>2. p * q = b * p + p * s /\ p * s \in Nat /\ b * p \in Nat
      BY <1>2, <2>3, <3>1
    <3> QED BY <2>3, <2>4, <3>2
  <2>7. q % b = q
    <3> DEFINE y == 0
    <3>1. y \in Nat /\ q \in 0 .. b - 1 /\ q = b * y + q
      BY <1>2, <2>4, <2>6
    <3> HIDE DEF y
    <3> QED BY <1>2, <2>4, <3>1, DivUnique
  <2>8. cs[1] = Digit(q)
    <3>1. m \in 1 .. m /\ m - m + 1 = 1 /\ m - 1 = e
      BY <1>5, <2>1 DEF e
    <3>2. cs[m - m + 1] = Digit((v \div Power(b, m - 1)) % b)
      BY <1>7, <3>1
    <3>3. cs[1] = Digit((v \div p) % b)
      BY <3>1, <3>2 DEF p
    <3> QED BY <2>7, <3>3 DEF q
  <2> QED BY <2>4, <2>5, <2>8 DEF Digit
<1> QED BY <1>3, <1>4, <1>5, <1>6, <1>7, <1>8 DEF Written, m

(* stou (strutil.c:47): the value of the last n digits, for every n.        *)
StouUpTo(f, cs, b) ==
  f = [n \in 0 .. Len(cs) |->
         IF n = 0 THEN 0
         ELSE f[n - 1] + DigitValue(cs[Len(cs) - n + 1]) * Power(b, n - 1)]

(* A digit up to nine is read back.                                         *)
LEMMA DigitBack ==
  ASSUME NEW d \in 0 .. 9
  PROVE  /\ Digit(d) \in 48 .. 57 /\ DigitValue(Digit(d)) = d /\ IsDigit(Digit(d))
BY DEF Digit, DigitValue, IsDigit

(* The digits utos wrote, as stou sees them.                                *)
LEMMA WrittenDigits ==
  ASSUME NEW v \in Nat, NEW b \in Nat, b > 1, b <= 10, NEW n \in Nat, NEW cs, Written(cs, v, b, n),
         NEW k \in 1 .. Len(cs)
  PROVE  /\ (v \div Power(b, k - 1)) % b \in 0 .. b - 1
         /\ IsDigit(cs[Len(cs) - k + 1])
         /\ DigitValue(cs[Len(cs) - k + 1]) = (v \div Power(b, k - 1)) % b
<1> DEFINE e == k - 1  p == Power(b, e)  q == v \div p  d == q % b  x == cs[Len(cs) - k + 1]
<1>1. e \in Nat /\ b \in Nat \ {0} /\ x = Digit(d)
  BY DEF Written
<1> HIDE DEF e
<1>2. p \in Nat \ {0}
  BY <1>1, PowerPositive
<1> HIDE DEF p
<1>3. q \in Nat
  BY <1>2, DivDef
<1> HIDE DEF q
<1>4. d \in 0 .. b - 1
  BY <1>1, <1>3, DivDef
<1> HIDE DEF d, x
<1>5. d \in 0 .. 9
  BY <1>1, <1>4
<1>6. IsDigit(x) /\ DigitValue(x) = d
  BY <1>1, <1>5, DigitBack
<1> QED BY <1>4, <1>6 DEF x, d, q, p, e

(* stou reads what utos wrote.                                              *)
LEMMA StouReads ==
  ASSUME NEW v \in Nat, NEW b \in Nat, b > 1, b <= 10, NEW n \in Nat, NEW cs, Written(cs, v, b, n)
  PROVE  Stou(cs, b) = v /\ \A k \in DOMAIN cs : IsDigit(cs[k])
<1> DEFINE l == Len(cs)  f == CHOOSE f : StouUpTo(f, cs, b)
           g == [k \in 0 .. l |-> v % Power(b, k)]
           D(k) == DigitValue(cs[l - k + 1]) * Power(b, k - 1)
<1>1. l \in Nat \ {0} /\ DOMAIN cs = 1 .. l /\ v < Power(b, l) /\ b \in Nat \ {0}
  <2>1. IsSeq(cs) /\ l \in Nat /\ l >= 1 /\ v < Power(b, l)
    BY DEF Written, IsSeq
  <2> QED BY <2>1, SeqDomain
<1>2. ASSUME NEW k \in 1 .. l
      PROVE  /\ DigitValue(cs[k]) \in 0 .. b - 1 /\ IsDigit(cs[k])
  <2> DEFINE j == l - k + 1
  <2>1. j \in 1 .. Len(cs) /\ Len(cs) - j + 1 = k
    BY <1>1
  <2> HIDE DEF j, l
  <2>2. /\ (v \div Power(b, j - 1)) % b \in 0 .. b - 1 /\ IsDigit(cs[Len(cs) - j + 1])
        /\ DigitValue(cs[Len(cs) - j + 1]) = (v \div Power(b, j - 1)) % b
    BY <2>1, WrittenDigits
  <2> QED BY <2>1, <2>2
<1>3. ASSUME NEW k \in 1 .. l PROVE v % Power(b, k) = (v % Power(b, k - 1)) + D(k)
  <2> DEFINE e == k - 1
  <2>1. e \in Nat /\ k = e + 1
    BY <1>1
  <2>2. DigitValue(cs[l - k + 1]) = (v \div Power(b, e)) % b
    BY WrittenDigits
  <2> HIDE DEF e
  <2>3. v % Power(b, e + 1) = (v % Power(b, e)) + ((v \div Power(b, e)) % b) * Power(b, e)
    BY <1>1, <2>1, BaseRemainder
  <2> QED BY <2>1, <2>2, <2>3 DEF e
<1>4. v % Power(b, 0) = 0
  <2>1. Power(b, 0) = 1
    BY PowerStep
  <2>2. v % 1 = 0
    OBVIOUS
  <2> QED BY <2>1, <2>2
<1>5. StouUpTo(g, cs, b)
  <2>1. ASSUME NEW k \in 0 .. l
        PROVE  g[k] = IF k = 0 THEN 0 ELSE g[k - 1] + D(k)
    <3>1. CASE k = 0
      BY <1>1, <1>4, <3>1
    <3>2. CASE k # 0
      <4>1. k \in 1 .. l /\ k - 1 \in 0 .. l
        BY <1>1, <3>2
      <4>2. v % Power(b, k) = (v % Power(b, k - 1)) + D(k)
        BY <1>3, <4>1
      <4> HIDE DEF D
      <4> QED BY <3>2, <4>1, <4>2
    <3> QED BY <3>1, <3>2
  <2>2. g = [k \in 0 .. l |-> g[k]]
    OBVIOUS
  <2> HIDE DEF g
  <2>3. g = [k \in 0 .. l |-> IF k = 0 THEN 0 ELSE g[k - 1] + D(k)]
    <3> HIDE DEF D
    <3> QED BY <2>1, <2>2, Zenon
  <2> QED BY <2>3 DEF StouUpTo
<1>6. StouUpTo(f, cs, b)
  BY <1>5
<1>7. Stou(cs, b) = f[l]
  <2>1. ~ \E k \in DOMAIN cs : DigitValue(cs[k]) >= b
    BY <1>1, <1>2
  <2>2. Stou(cs, b) = IF \E k \in DOMAIN cs : DigitValue(cs[k]) >= b THEN 0 ELSE f[l]
    BY Zenon DEF Stou, StouUpTo
  <2> QED BY <2>1, <2>2
<1> HIDE DEF f
<1>8. \A k \in 0 .. l : f[k] = IF k = 0 THEN 0 ELSE f[k - 1] + D(k)
  BY <1>6, Zenon DEF StouUpTo
<1> HIDE DEF l, D
<1> DEFINE T == {k \in Nat : k <= l => f[k] = v % Power(b, k)}
<1>9. 0 \in T
  BY <1>1, <1>4, <1>8
<1>10. ASSUME NEW k \in Nat, k \in T PROVE k + 1 \in T
  <2> SUFFICES ASSUME k + 1 <= l PROVE f[k + 1] = v % Power(b, k + 1)
    OBVIOUS
  <2>1. k + 1 \in 1 .. l /\ (k + 1) - 1 = k /\ k + 1 \in 0 .. l /\ k + 1 # 0 /\ k <= l
    BY <1>1
  <2>2. f[k + 1] = f[(k + 1) - 1] + D(k + 1)
    BY <1>8, <2>1
  <2>3. v % Power(b, k + 1) = (v % Power(b, (k + 1) - 1)) + D(k + 1)
    BY <1>3, <2>1
  <2>4. f[k] = v % Power(b, k)
    BY <1>10, <2>1
  <2> QED BY <2>1, <2>2, <2>3, <2>4
<1> HIDE DEF T
<1>11. l \in T
  BY <1>1, <1>9, <1>10, NatSetInduction
<1>12. f[l] = v % Power(b, l)
  BY <1>1, <1>11 DEF T
<1>13. v % Power(b, l) = v
  <2> DEFINE p == Power(b, l)  y == 0
  <2>1. p \in Nat \ {0}
    BY <1>1, PowerPositive
  <2>2. v < p
    BY <1>1
  <2> HIDE DEF p
  <2>3. y \in Nat /\ v \in 0 .. p - 1 /\ v = p * y + v
    BY <2>1, <2>2
  <2> HIDE DEF y
  <2>4. v % p = v
    BY <2>1, <2>3, DivUnique
  <2> QED BY <2>4 DEF p
<1> QED BY <1>1, <1>2, <1>7, <1>12, <1>13

(* Numbers, written into memory and read back.                              *)
LEMMA NumbersAreRead == StrInv => NumbersReadBack
<1> SUFFICES ASSUME StrInv, NEW v \in Numbers, NEW base \in {2, 10}, NEW n \in {0, 1, 4}
    PROVE LET cs == Utos(v, base, n)
              m == Poke(mem, 0, Append(cs, NUL))
          IN Len(cs) < MemBytes =>
               /\ StrLen(m, 0) = Len(cs) /\ Len(cs) >= n
               /\ Stou(Chars(m, 0), base) = v
               /\ \A k \in DOMAIN cs : IsDigit(cs[k])
               /\ cs[1] # 48 \/ Len(cs) <= Max({n, 1})
               /\ StrFind(m, 0, cs[1]) = 0
  BY DEF NumbersReadBack
<1> DEFINE cs == Utos(v, base, n)  l == Len(cs)  z == 0  ap == Append(cs, NUL)
           m == Poke(mem, z, ap)
<1>1. v \in Nat /\ base \in Nat /\ base > 1 /\ base <= 10 /\ base # 16 /\ n \in Nat
  BY MemAssumption
<1>2. /\ DOMAIN mem = Addresses /\ Addresses = 0 .. MemBytes - 1 /\ MemBytes \in Nat
      /\ Addresses \subseteq Nat
  BY MemRange
<1>3. Written(cs, v, base, n)
  BY <1>1, NumberWritten
<1> HIDE DEF cs, z
<1>4. z = 0 /\ z \in Int /\ z \in Nat
  BY DEF z
<1>5. /\ IsSeq(cs) /\ l \in Nat /\ l >= n /\ l >= 1 /\ DOMAIN cs = 1 .. l
      /\ l = n \/ l = 1 \/ cs[1] # 48
  <2>1. IsSeq(cs) /\ l \in Nat /\ l >= n /\ l >= 1 /\ (l = n \/ l = 1 \/ cs[1] # 48)
    BY <1>3 DEF Written, IsSeq
  <2> QED BY <2>1, SeqDomain
<1>6. Stou(cs, base) = v /\ \A k \in DOMAIN cs : IsDigit(cs[k])
  BY <1>1, <1>3, StouReads
<1>7. cs[1] # 48 \/ l <= Max({n, 1})
  <2> DEFINE one == 1
  <2>1. one \in Int /\ n \in Int /\ one = 1
    BY <1>1
  <2> HIDE DEF one
  <2>2. Max({n, one}) = IF n >= one THEN n ELSE one
    BY <2>1, MaxOfTwo
  <2>3. l <= Max({n, one}) \/ cs[1] # 48
    <3> DEFINE x == Max({n, one})
    <3>1. x = IF n >= one THEN n ELSE one
      BY <2>2
    <3> HIDE DEF x, l
    <3>2. l <= x \/ cs[1] # 48
      BY <1>1, <1>5, <2>1, <3>1
    <3> QED BY <3>2 DEF x
  <2> QED BY <2>3 DEF one
<1>8. ASSUME l < MemBytes
      PROVE  StrLen(m, z) = l /\ Chars(m, z) = cs /\ StrFind(m, z, cs[1]) = 0
  <2>1. /\ IsSeq(ap) /\ Len(ap) = l + 1 /\ ap[l + 1] = NUL
        /\ \A k \in 1 .. l : ap[k] = cs[k]
    <3> DEFINE w == NUL
    <3>1. IsSeq(cs)
      BY <1>5
    <3> HIDE DEF m, l, ap, w
    <3>2. IsSeq(Append(cs, w)) /\ Len(Append(cs, w)) = Len(cs) + 1
      BY <3>1, SeqAppend
    <3>3. Append(cs, w)[Len(cs) + 1] = w
      BY <3>1, SeqAppend
    <3>4. \A k \in 1 .. Len(cs) : Append(cs, w)[k] = cs[k]
      BY <3>1, SeqAppend
    <3> QED BY <3>2, <3>3, <3>4 DEF ap, l, w
  <2> HIDE DEF ap, l, m
  <2>2. Poked(m, mem, z, ap)
    BY <1>4, <2>1, PokeAt DEF m
  <2>3. DOMAIN m = Addresses /\ \A i \in Addresses : i < l + 1 => m[i] = ap[i + 1]
    <3>1. ASSUME NEW i \in Addresses, i < l + 1 PROVE m[i] = ap[i + 1]
      <4>1. i \in Nat /\ i \in Int
        BY <1>2
      <4>2. m[i] = IF z <= i /\ i < z + Len(ap) THEN ap[i - z + 1] ELSE mem[i]
        BY <1>2, <2>2, <4>1 DEF Poked
      <4>3. z <= i /\ i < z + Len(ap) /\ i - z + 1 = i + 1
        BY <1>4, <1>5, <2>1, <3>1, <4>1
      <4> QED BY <4>2, <4>3
    <3> QED BY <1>2, <2>2, <3>1 DEF Poked
  <2>4. \A k \in 1 .. l : cs[k] # NUL
    BY <1>5, <1>6 DEF IsDigit, NUL
  <2>5. DOMAIN m \subseteq Nat /\ z + l \in DOMAIN m /\ m[z + l] = NUL
    BY <1>2, <1>4, <1>5, <1>8, <2>1, <2>3
  <2>6. ASSUME NEW i \in DOMAIN m, i >= z, i < z + l
        PROVE  m[i] # NUL /\ m[i] = cs[i + 1]
    <3>1. i \in Nat /\ i + 1 \in 1 .. l /\ i < l + 1 /\ i \in Addresses
      BY <1>2, <1>4, <1>5, <2>3, <2>6
    <3> QED BY <2>1, <2>3, <2>4, <3>1
  <2>7. StrLen(m, z) = l /\ Chars(m, z) = [k \in 1 .. l |-> m[z + k - 1]]
    BY <1>4, <1>5, <2>5, <2>6, StringTo
  <2>8. Chars(m, z) = cs
    <3>1. cs = [k \in 1 .. l |-> cs[k]]
      BY <1>5 DEF IsSeq, l
    <3>2. ASSUME NEW k \in 1 .. l PROVE m[z + k - 1] = cs[k]
      <4> DEFINE i == z + k - 1
      <4>1. i \in DOMAIN m /\ i >= z /\ i < z + l /\ i + 1 = k
        BY <1>2, <1>4, <1>5, <1>8, <2>3
      <4> HIDE DEF i
      <4>2. m[i] = cs[i + 1]
        BY <2>6, <4>1
      <4> QED BY <4>1, <4>2 DEF i
    <3> QED BY <2>7, <3>1, <3>2
  <2>9. StrFind(m, z, cs[1]) = 0
    <3> DEFINE c == cs[1]  N == {i \in 0 .. StrLen(m, z) - 1 : m[z + i] = c}
    <3>1. m[z + 0] = c
      <4>1. z \in DOMAIN m /\ z >= z /\ z < z + l /\ z + 0 = z /\ z + 1 = 1
        BY <1>2, <1>4, <1>5, <1>8, <2>3
      <4>2. m[z] = cs[z + 1]
        BY <2>6, <4>1
      <4> QED BY <4>1, <4>2
    <3>2. 0 \in N /\ N \in SUBSET Nat
      BY <1>5, <2>7, <3>1
    <3>3. StrFind(m, z, c) = IF N = {} THEN NPOS ELSE Min(N)
      BY DEF StrFind
    <3> HIDE DEF N, c
    <3>4. Min(N) \in N /\ \A i \in N : Min(N) <= i
      <4>1. N # {}
        BY <3>2
      <4> QED BY <3>2, <4>1, MinIsLeast
    <3> DEFINE e == Min(N)
    <3>5. e \in Nat /\ e <= 0
      BY <3>2, <3>4
    <3>6. StrFind(m, z, c) = e
      BY <3>2, <3>3
    <3> HIDE DEF e
    <3>7. e = 0
      BY <3>5
    <3> QED BY <3>6, <3>7 DEF c
  <2> QED BY <2>7, <2>8, <2>9
<1> QED BY <1>5, <1>6, <1>7, <1>8 DEF cs, m, z, ap

(* All of it, from the invariant.                                           *)
LEMMA StringsAreRight == StrInv => StringsRight
<1>1. StrInv => StrTypeOK
  BY DEF StrInv, StrTypeOK
<1> QED BY <1>1, CopiesAreExact, OrdersAgree, TrimsStay, NumbersAreRead DEF StringsRight

(* StringsRight: whatever memory holds and whatever was called before, each *)
(* procedure of strutil.c and memutil.c gives what its definition says.     *)
THEOREM StringsRightHolds == StrSpec => []StringsRight
<1>1. StrInv => StringsRight
  BY StringsAreRight
<1> QED BY <1>1, StrInvHolds, PTL
=============================================================================
