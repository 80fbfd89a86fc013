------------------------------ MODULE StrMemory ------------------------------
(***************************************************************************)
(* The procedures of StrUtil called on one memory, whatever it holds, in   *)
(* any order; strtok goes on between calls from its static pointer.        *)
(***************************************************************************)
EXTENDS StrUtil

CONSTANTS MemBytes,  \* bound: bytes of memory
          Bytes,     \* the bytes that occur in it, NUL among them
          Numbers    \* the numbers that are written into it

ASSUME MemAssumption ==
  /\ MemBytes \in Nat /\ MemBytes > 1 /\ Numbers \subseteq Nat
  /\ NUL \in Bytes /\ Bytes \subseteq 0 .. 255

VARIABLES mem,       \* the bytes
          strtok_s,  \* Null, or where strtok goes on
          text,      \* ghost: the string strtok was begun with
          tokens,    \* ghost: what it has returned of it
          delim      \* ghost: the delimiter it is called with

strvars == <<mem, strtok_s, text, tokens, delim>>

Addresses == 0 .. MemBytes - 1

StrInit ==
  /\ mem \in [Addresses -> Bytes]
  /\ strtok_s = Null /\ text = << >> /\ tokens = << >>
  /\ delim \in Bytes \ {NUL}

\* The end of the token that begins at p, and where the next one begins.
TokenEnd(p, d) == Min({i \in Addresses : i >= p /\ mem[i] \in {NUL, d}})
NextTokenHere(e) == IF mem[e] = NUL THEN Null ELSE e
NextToken(e) == IF mem[e] = NUL THEN Null ELSE e + 1

\* A string passed while another one is being split is ignored.
Strtok(s, d) ==
  LET begin == IF strtok_s = Null THEN s ELSE strtok_s
      e     == TokenEnd(begin, d)
  IN /\ begin # Null /\ Terminated(mem, begin)
     /\ mem' = Poke(mem, e, <<NUL>>)
     /\ strtok_s' = NextToken(e)
     /\ text' = IF strtok_s = Null THEN Chars(mem, s) ELSE text
     /\ tokens' = Append(IF strtok_s = Null THEN << >> ELSE tokens,
                         Chars(mem', begin))
     /\ UNCHANGED delim

\* A call that changes memory to m, while no string is being split.
Call(m) ==
  /\ strtok_s = Null
  /\ mem' = m /\ text' = << >> /\ tokens' = << >>
  /\ UNCHANGED <<strtok_s, delim>>

\* The strings at d and at s do not run into each other.
Apart(s, d) == d <= s \/ d > s + StrLen(mem, s)

StrNext ==
  \/ \E s \in Addresses \cup {Null} : Strtok(s, delim)
  \/ \E s \in Addresses, n \in 1 .. MemBytes :
       s + n <= MemBytes /\ Call(TrimAndTerminate(mem, s, n))
  \/ \E s, d \in Addresses :
       /\ Terminated(mem, s) /\ Apart(s, d) /\ d + StrLen(mem, s) < MemBytes
       /\ Call(StrCpy(mem, d, s))
  \/ \E d \in Addresses, c \in Bytes, n \in 0 .. MemBytes :
       d + n <= MemBytes /\ Call(MemSet(mem, d, c, n))

StrSpec == StrInit /\ [][StrNext]_strvars
-----------------------------------------------------------------------------
StrTypeOK ==
  /\ mem \in [Addresses -> Bytes]
  /\ strtok_s \in Addresses \cup {Null}
  /\ strtok_s # Null => Terminated(mem, strtok_s)
  /\ delim \in Bytes

\* strtok (strutil.c:72) cuts a string into the pieces between delimiters:
\* what it returned, with the rest, spells the string it was begun with.
TokensSpellTheText ==
  tokens # << >> =>
    LET rest == IF strtok_s = Null THEN << >>
                ELSE <<delim>> \o Chars(mem, strtok_s)
    IN /\ Joined(tokens, <<delim>>) \o rest = text
       /\ \A k \in DOMAIN tokens : delim \notin Range(tokens[k])

Beginning(cs, n) == SubSeq(cs, 1, Min({n, Len(cs)}))

\* strcpy, strncpy and memcpy (strutil.c:126-152, memutil.c:18) copy the
\* bytes as they were, downwards onto themselves too, strncpy at most n
\* with the NUL, and leave the rest of memory alone.
CopiesExact ==
  \A s, d \in Addresses : \A n \in 1 .. MemBytes - Max({s, d}) :
    /\ d <= s \/ d >= s + n =>
         MemCpy(mem, d, s, n) = Poke(mem, d, [k \in 1 .. n |-> mem[s + k - 1]])
    /\ Terminated(mem, s) /\ Apart(s, d) =>
         LET kept == Beginning(Chars(mem, s), n - 1)
             m == StrNCpy(mem, d, s, n)
         IN /\ m = Poke(mem, d, Append(kept, NUL))
            /\ d + StrLen(mem, s) < MemBytes =>
                 Chars(StrCpy(mem, d, s), d) = Chars(mem, s)

\* strcmp, strncmp and memcmp (strutil.c:96-114, memutil.c:3): the answer is
\* 0 exactly for equal strings, or equal beginnings, and strcmp's sign is
\* the lexical order of the bytes, memcmp's too.
OrderAgrees ==
  LET Before(a, b) ==   \* a proper beginning, or smaller where they differ
        LET n == Min({Len(a), Len(b)})
            differ == {k \in 1 .. n : a[k] # b[k]}
        IN IF differ = {} THEN Len(a) < Len(b) ELSE a[Min(differ)] < b[Min(differ)]
      Sub(s, n) == [k \in 1 .. n |-> mem[s + k - 1]]
  IN \A s, t \in Addresses :
       /\ Terminated(mem, s) /\ Terminated(mem, t) =>
            /\ StrCmp(mem, s, t) < 0 <=> Before(Chars(mem, s), Chars(mem, t))
            /\ StrCmp(mem, s, t) = 0 <=> Chars(mem, s) = Chars(mem, t)
            /\ \A n \in 1 .. MemBytes :
                 StrNCmp(mem, s, t, n) = 0 <=>
                   Beginning(Chars(mem, s), n) = Beginning(Chars(mem, t), n)
       /\ \A n \in 1 .. MemBytes - Max({s, t}) :
            /\ MemCmp(mem, s, t, n) = -1 <=> Before(Sub(s, n), Sub(t, n))
            /\ MemCmp(mem, s, t, n) = 0 <=> Sub(s, n) = Sub(t, n)

\* trim_and_terminate (strutil.c:154) ends a field of n bytes within the
\* field, at the first two blanks; nothing else of it changes.
TrimStays ==
  \A s \in Addresses : \A n \in 1 .. MemBytes - s :
    LET m == TrimAndTerminate(mem, s, n)
        ends == {i \in s .. s + n - 1 : m[i] = NUL /\ m[i] # mem[i]}
    IN /\ \E i \in s .. s + n - 1 : m[i] = NUL
       /\ Cardinality({i \in Addresses : m[i] # mem[i]}) <= 1
       /\ \A i \in ends : \/ i = s + n - 1
                          \/ mem[i] = Blank /\ mem[i + 1] = Blank
       /\ \A i \in s .. s + n - 2 :
            m[i] = Blank /\ m[i + 1] = Blank => \E e \in ends : e < i

\* A number utos wrote (strutil.c:17) has its length, is read back by stou
\* (47) in the bases up to ten, and is the same when more digits are asked.
NumbersReadBack ==
  \A v \in Numbers, base \in {2, 10}, n \in {0, 1, 4} :
    LET cs == Utos(v, base, n)
        m == Poke(mem, 0, Append(cs, NUL))
    IN Len(cs) < MemBytes =>
         /\ StrLen(m, 0) = Len(cs) /\ Len(cs) >= n
         /\ Stou(Chars(m, 0), base) = v
         /\ \A k \in DOMAIN cs : IsDigit(cs[k])
         /\ cs[1] # 48 \/ Len(cs) <= Max({n, 1})
         /\ StrFind(m, 0, cs[1]) = 0

\* Whatever memory holds, each procedure of strutil.c and memutil.c gives what
\* its reference definition says and leaves the rest of memory alone.
StringsRight ==
  StrTypeOK /\ CopiesExact /\ OrderAgrees /\ TrimStays /\ NumbersReadBack
=============================================================================
