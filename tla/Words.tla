-------------------------------- MODULE Words --------------------------------
(***************************************************************************)
(* Words of a fixed number of bits, and the processor's operators on them. *)
(***************************************************************************)
EXTENDS Integers

Power(b, n) == LET p[k \in 0 .. n] == IF k = 0 THEN 1 ELSE b * p[k - 1] IN p[n]

Word(w, x) == x % Power(2, w)

\* The positions at which a word of w bits has a 1, and the word that has a 1
\* at the positions of a set.
Bits(w, x) == {k \in 0 .. w - 1 : (x \div Power(2, k)) % 2 = 1}
OfBits(w, B) ==
  LET sum[k \in 0 .. w] ==
        IF k = 0 THEN 0
        ELSE sum[k - 1] + (IF k - 1 \in B THEN Power(2, k - 1) ELSE 0)
  IN sum[w]

And(w, x, y) == OfBits(w, Bits(w, x) \cap Bits(w, y))
Or(w, x, y)  == OfBits(w, Bits(w, x) \cup Bits(w, y))
Not(w, x)    == OfBits(w, (0 .. w - 1) \ Bits(w, x))
=============================================================================
