------------------------------- MODULE StrUtil -------------------------------
(***************************************************************************)
(* libk/strutil.c and libk/memutil.c.  Memory is a function from addresses *)
(* to bytes, from 0 up; a string is an address with a NUL at it or behind. *)
(* Here is what each procedure computes; StrMemory calls them.             *)
(***************************************************************************)
EXTENDS Words, FiniteSets, SequencesExt, FiniteSetsExt

NUL   == 0
Blank == 32
Null  == -1       \* the null pointer
NPOS  == -1       \* SIZE_MAX

Terminated(m, s) == \E i \in DOMAIN m : i >= s /\ m[i] = NUL
StrLen(m, s) == Min({i \in DOMAIN m : i >= s /\ m[i] = NUL}) - s
Chars(m, s)  == [k \in 1 .. StrLen(m, s) |-> m[s + k - 1]]

\* Memory after the bytes of a sequence are written from address d upwards.
Poke(m, d, cs) ==
  [i \in DOMAIN m |-> IF i - d + 1 \in DOMAIN cs THEN cs[i - d + 1] ELSE m[i]]

\* Sequences one after the other, with another one between each two.
Joined(ss, sep) ==
  LET all[n \in 0 .. Len(ss)] ==
        CASE n = 0 -> << >>
          [] n = 1 -> ss[1]
          [] OTHER -> all[n - 1] \o sep \o ss[n]
  IN all[Len(ss)]

-----------------------------------------------------------------------------
(* Numbers and digits. *)

Digit(d) == IF d < 10 THEN 48 + d ELSE 55 + d

Digits(i, base) ==    \* as many as it takes, the last one for i % base
  LET d[j \in 0 .. i] ==
        IF j < base THEN <<Digit(j)>> ELSE Append(d[j \div base], Digit(j % base))
  IN d[i]

PadLeft(cs, n, c) == [k \in 1 .. Max({n - Len(cs), 0}) |-> c] \o cs

UtosDigits(i, base, min_len) == PadLeft(Digits(i, base), min_len, Digit(0))

Utos(i, base, min_len) ==
  (IF base = 16 THEN <<48, 120>> ELSE << >>) \o UtosDigits(i, base, min_len)

\* v is a uint8_t.  Past '9' the small letters count from 'a', as 0, and the
\* large ones from 'z'.
DigitValue(c) ==
  (IF c > 90 THEN c - 97 ELSE IF c > 57 THEN c - 122 ELSE c - 48) % 256

Stou(cs, base) ==
  IF \E k \in DOMAIN cs : DigitValue(cs[k]) >= base THEN 0
  ELSE LET value[n \in 0 .. Len(cs)] ==    \* of the last n of them
             IF n = 0 THEN 0
             ELSE value[n - 1] + DigitValue(cs[Len(cs) - n + 1]) * Power(base, n - 1)
       IN value[Len(cs)]

IsDigit(c) == c >= 48 /\ c <= 57

-----------------------------------------------------------------------------
(* Comparing, searching, copying. *)

\* strcmp and strncmp stop at the first difference, at the end of s1, or when
\* n bytes are equal; memory is read from s1 and s2 on.
StopsAt(m, s1, s2, n) ==
  Min({k \in 0 .. n - 1 : /\ {s1 + k, s2 + k} \subseteq DOMAIN m
                          /\ \/ k = n - 1
                             \/ m[s1 + k] = NUL
                             \/ m[s1 + k] # m[s2 + k]})

Signed(c) == IF c > 127 THEN c - 256 ELSE c    \* char is signed here

StrCmp(m, s1, s2) ==
  LET k == StopsAt(m, s1, s2, Cardinality(DOMAIN m) - Max({s1, s2}))
  IN m[s1 + k] - m[s2 + k]

StrNCmp(m, s1, s2, n) ==     \* n > 0: 0 would wrap to SIZE_MAX
  LET k == StopsAt(m, s1, s2, n)
  IN Signed(m[s1 + k]) - Signed(m[s2 + k])

MemCmp(m, p, q, n) ==
  LET differ == {i \in 0 .. n - 1 : m[p + i] # m[q + i]}
  IN IF differ = {} THEN 0
     ELSE IF m[p + Min(differ)] < m[q + Min(differ)] THEN -1 ELSE 1

StrFind(m, s, c) ==
  LET found == {i \in 0 .. StrLen(m, s) - 1 : m[s + i] = c}
  IN IF found = {} THEN NPOS ELSE Min(found)

\* Byte by byte upwards: a byte written may be read again.
MemCpy(m, d, s, n) ==
  LET after[k \in 0 .. n] ==
        IF k = 0 THEN m
        ELSE Poke(after[k - 1], d + k - 1, <<after[k - 1][s + k - 1]>>)
  IN after[n]

MemSet(m, d, c, n) == Poke(m, d, [k \in 1 .. n |-> c])

StrCpy(m, d, s) == MemCpy(m, d, s, StrLen(m, s) + 1)

CopiedFull(len, n) == Min({len, n})
Copied(len, n)    == Min({len, n - 1})     \* while (*src && --n)

StrNCpy(m, d, s, n) ==
  LET k == Copied(StrLen(m, s), n)
  IN Poke(MemCpy(m, d, s, k), d + k, <<NUL>>)

\* Where trim_and_terminate cuts: at two blanks, or at the last byte.
Cut(m, s, n) ==
  Min({i \in 0 .. n - 1 : i = n - 1 \/ (m[s + i] = Blank /\ m[s + i + 1] = Blank)})

TrimAndTerminate(m, s, n) ==
  IF n = 0 THEN m ELSE Poke(m, s + Cut(m, s, n), <<NUL>>)
=============================================================================
