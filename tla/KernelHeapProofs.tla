--------------------------- MODULE KernelHeapProofs ---------------------------
(***************************************************************************)
(* Theorems about KernelHeap: as long as no chunk was taken exactly, none  *)
(* was too short and no mfree went astray, malloc and mfree keep the heap  *)
(* a list of chunks and the blocks of its clients apart, for any sizes.    *)
(***************************************************************************)
EXTENDS KernelHeap, TLAPS

(* A well-formed list of headers that ends at end. *)
HeaderList(f, end) ==
  /\ DOMAIN f \subseteq Nat
  /\ f \in [DOMAIN f -> HeaderType]
  /\ end \in Nat
  /\ Tiles(f, end)

(* From f to g the chunk at a comes into use, or is no longer in use. *)
ChunkAdded(f, g, a) ==
  /\ ChunksOf(g) = ChunksOf(f) \cup {a} /\ a \notin ChunksOf(f)
  /\ \A b \in ChunksOf(f) : g[b].size = f[b].size

ChunkRemoved(f, g, a) ==
  /\ ChunksOf(g) = ChunksOf(f) \ {a}
  /\ \A b \in ChunksOf(g) : g[b].size = f[b].size

LEMMA BlockAdded ==
  ASSUME NEW f, NEW g, NEW a, ChunkAdded(f, g, a)
  PROVE  Blocks(g) = Blocks(f) \cup {BlockOf(g, a)}
<1>1. \A b \in ChunksOf(f) : BlockOf(g, b) = BlockOf(f, b)
  BY DEF BlockOf, ChunkAdded
<1>2. ChunksOf(g) = ChunksOf(f) \cup {a}
  BY DEF ChunkAdded
<1> QED
  BY <1>1, <1>2 DEF Blocks

LEMMA BlockRemoved ==
  ASSUME NEW f, NEW g, NEW a \in Nat, ChunksOf(f) \subseteq Nat,
         ChunkRemoved(f, g, a)
  PROVE  Blocks(g) = Blocks(f) \ {BlockOf(f, a)}
<1>1. /\ ChunksOf(g) = ChunksOf(f) \ {a}
      /\ \A b \in ChunksOf(g) : BlockOf(g, b) = BlockOf(f, b)
  BY DEF BlockOf, ChunkRemoved
<1>2. ASSUME NEW b \in ChunksOf(g)
      PROVE  BlockOf(f, b) # BlockOf(f, a)
  <2>1. b \in Nat /\ b # a
    BY <1>1
  <2>2. b + HeaderSize # a + HeaderSize
    BY <2>1, SizeAssumption
  <2>3. BlockOf(f, b).at = b + HeaderSize /\ BlockOf(f, a).at = a + HeaderSize
    BY DEF BlockOf
  <2> QED
    BY <2>2, <2>3
<1> QED
  BY <1>1, <1>2 DEF Blocks

LEMMA NoBlockRemoved ==
  ASSUME NEW f, NEW g, NEW a, ChunkRemoved(f, g, a), a \notin ChunksOf(f)
  PROVE  Blocks(g) = Blocks(f)
<1>1. /\ ChunksOf(g) = ChunksOf(f)
      /\ \A b \in ChunksOf(g) : BlockOf(g, b) = BlockOf(f, b)
  BY DEF BlockOf, ChunkRemoved
<1> QED
  BY <1>1 DEF Blocks

(* The appended pages hold the block and its header. *)
LEMMA GrowthBound ==
  ASSUME NEW n \in Nat
  PROVE  Growth(n) \in Nat /\ Growth(n) >= Need(n)
<1> DEFINE q == (Need(n) + PageSize - 1) \div PageSize
<1>1. Need(n) + PageSize - 1 \in Nat /\ PageSize \in Nat \ {0} /\ Need(n) \in Nat
  BY SizeAssumption DEF Need
<1>2. q \in Nat /\ PageSize * q > Need(n) + PageSize - 1 - PageSize
  BY <1>1
<1>3. PageSize * q \in Nat
  BY <1>1, <1>2
<1> QED
  BY <1>1, <1>2, <1>3 DEF Growth

(* What Split leaves in memory: g is f with the chunk at a split at rest. *)
SplitDone(f, end, a, n, g, rest) ==
  /\ a # end - HeaderSize
  /\ rest \in Nat /\ a < rest /\ rest < NextHdr(f, a)
  /\ DOMAIN g = DOMAIN f \cup {rest}
  /\ rest \notin DOMAIN f
  /\ g[a] = Header(TRUE, n, f[a].size_prev)
  /\ g[rest] = Header(FALSE, f[a].size - Need(n), n)
  /\ \A b \in DOMAIN f \ {a} : g[b] = f[b]
  /\ g \in [DOMAIN g -> HeaderType]

LEMMA SplitValues ==
  ASSUME NEW f, NEW end, HeaderList(f, end), NEW a \in DOMAIN f,
         NEW n \in Nat \ {0}, f[a].size > Need(n)
  PROVE  SplitDone(f, end, a, n, Split(f, a, n), a + Need(n))
<1> DEFINE g == Split(f, a, n)
           rest == a + Need(n)
<1> USE SizeAssumption DEF HeaderList, HeaderType, Header, Need
<1>1. a # end - HeaderSize
  BY DEF Tiles
<1>2. /\ rest \in Nat /\ a < rest /\ rest < NextHdr(f, a)
      /\ DOMAIN g = DOMAIN f \cup {rest}
  BY DEF Split, NextHdr
<1>3. rest \notin DOMAIN f
  BY <1>1, <1>2 DEF Tiles
<1>4. /\ g[a] = Header(TRUE, n, f[a].size_prev)
      /\ g[rest] = Header(FALSE, f[a].size - Need(n), n)
      /\ \A b \in DOMAIN f \ {a} : g[b] = f[b]
  <2>1. SizeMinus(f[a].size, Need(n)) = f[a].size - Need(n)
    BY DEF SizeMinus
  <2>2. rest # a /\ a \in DOMAIN g /\ rest \in DOMAIN g
    BY <1>2
  <2> HIDE DEF Need, Header
  <2>3. /\ g[a] = Header(TRUE, n, f[a].size_prev)
        /\ g[rest] = Header(FALSE, SizeMinus(f[a].size, Need(n)), n)
        /\ \A b \in DOMAIN f \ {a, rest} : g[b] = f[b]
    BY <2>2, <1>2 DEF Split
  <2> QED
    BY <2>1, <2>3, <1>3
<1>5. g \in [DOMAIN g -> HeaderType]
  BY <1>2, <1>4 DEF Split, SizeMinus
<1> QED
  BY <1>1, <1>2, <1>3, <1>4, <1>5 DEF SplitDone

(* Splitting a chunk with room to spare keeps the list. *)
LEMMA SplitList ==
  ASSUME NEW f, NEW end, HeaderList(f, end), NEW a \in DOMAIN f,
         NEW n \in Nat \ {0}, f[a].size > Need(n)
  PROVE  HeaderList(Split(f, a, n), end)
<1> SUFFICES ASSUME NEW g, NEW rest, SplitDone(f, end, a, n, g, rest),
                    rest = a + Need(n)
             PROVE  HeaderList(g, end)
  BY SplitValues
<1>1. /\ a # end - HeaderSize
      /\ rest \in Nat /\ a < rest /\ rest < NextHdr(f, a)
      /\ DOMAIN g = DOMAIN f \cup {rest}
      /\ rest \notin DOMAIN f
      /\ g \in [DOMAIN g -> HeaderType]
  BY DEF SplitDone
<1>2. /\ g[a] = Header(TRUE, n, f[a].size_prev)
      /\ g[rest] = Header(FALSE, f[a].size - Need(n), n)
      /\ \A b \in DOMAIN f \ {a} : g[b] = f[b]
  BY DEF SplitDone
<1> USE SizeAssumption DEF HeaderList
<1>4. g[a].size = n /\ g[rest].size = f[a].size - Need(n) /\ g[rest].size > 0
  <2>1. f[a].size \in Nat
    BY DEF HeaderType
  <2> QED
    BY <1>2, <2>1 DEF Header, Need
<1>3. /\ NextHdr(g, a) = rest
      /\ NextHdr(g, rest) = NextHdr(f, a)
      /\ \A b \in DOMAIN f \ {a} : NextHdr(g, b) = NextHdr(f, b)
  <2>1. a \in Nat /\ f[a].size \in Nat
    BY DEF HeaderType
  <2>2. NextHdr(g, a) = rest
    BY <1>4 DEF NextHdr, Need
  <2>3. NextHdr(g, rest) = NextHdr(f, a)
    BY <1>4, <2>1 DEF NextHdr, Need
  <2>4. \A b \in DOMAIN f \ {a} : NextHdr(g, b) = NextHdr(f, b)
    BY <1>2 DEF NextHdr
  <2> QED
    BY <2>2, <2>3, <2>4
<1>5. Tiles(g, end)
  <2>1. /\ {0, end - HeaderSize} \subseteq DOMAIN g
        /\ g[end - HeaderSize].size = 0 /\ g[end - HeaderSize].in_use
    BY <1>1, <1>2 DEF Tiles
  <2>2. NextHdr(f, a) \in DOMAIN f
    BY <1>1 DEF Tiles
  <2>3. \A b \in DOMAIN g : b <= end - HeaderSize
    BY <1>1, <2>2 DEF Tiles
  <2>4. ASSUME NEW b \in DOMAIN g \ {end - HeaderSize}
        PROVE  /\ g[b].size > 0
               /\ NextHdr(g, b) \in DOMAIN g
               /\ \A c \in DOMAIN g : c <= b \/ NextHdr(g, b) <= c
    <3>1. CASE b = a
      BY <3>1, <1>1, <1>3, <1>4 DEF Tiles
    <3>2. CASE b = rest
      BY <3>2, <1>1, <1>3, <1>4, <2>2 DEF Tiles
    <3>3. CASE b \in DOMAIN f \ {a}
      <4>1. /\ NextHdr(f, b) \in DOMAIN f
            /\ NextHdr(f, b) <= a \/ a <= b
            /\ b <= a \/ NextHdr(f, a) <= b
        BY <3>3, <2>4, <1>1 DEF Tiles
      <4>2. NextHdr(f, b) <= rest \/ rest <= b
        BY <4>1, <2>2, <3>3, <1>1
      <4> QED
        BY <4>2, <3>3, <2>4, <1>1, <1>2, <1>3 DEF Tiles
    <3> QED
      BY <3>1, <3>2, <3>3, <1>1
  <2> QED
    BY <2>1, <2>3, <2>4 DEF Tiles
<1> QED
  BY <1>1, <1>5

(* What appending d bytes leaves in memory: g is f with the chunk of the  *)
(* tail before a new tail.                                                 *)
GrownDone(f, end, d, g) ==
  LET a == end - HeaderSize
  IN /\ a \in Nat /\ a + d \notin DOMAIN f
     /\ DOMAIN g = DOMAIN f \cup {a + d}
     /\ g[a].size = d - HeaderSize /\ g[a].in_use
     /\ g[a + d].size = 0 /\ g[a + d].in_use
     /\ \A b \in DOMAIN f \ {a} : g[b] = f[b]
     /\ g \in [DOMAIN g -> HeaderType]

LEMMA GrownValues ==
  ASSUME HeaderList(hdr, mapped), NEW n \in Nat, NEW d \in Nat, d = Growth(n),
         d > HeaderSize
  PROVE  GrownDone(hdr, mapped, d, Grown(mapped - HeaderSize, n))
<1> DEFINE a == mapped - HeaderSize
           g == Grown(a, n)
           tail == a + d
<1> USE SizeAssumption DEF HeaderList
<1>1. /\ a \in DOMAIN hdr /\ a \in Nat /\ tail \in Nat /\ a < tail
      /\ tail \notin DOMAIN hdr
      /\ hdr[a] \in HeaderType /\ hdr[a].in_use
  BY DEF Tiles
<1>2. DOMAIN g = DOMAIN hdr \cup {tail}
  BY DEF Grown
<1>3. /\ g[a] = Resized(hdr[a], d - HeaderSize)
      /\ g[tail] = Header(TRUE, 0, d - HeaderSize)
      /\ \A b \in DOMAIN hdr \ {a} : g[b] = hdr[b]
  BY <1>1, <1>2 DEF Grown
<1>4. /\ g[a] \in HeaderType /\ g[a].size = d - HeaderSize /\ g[a].in_use
      /\ g[tail] \in HeaderType /\ g[tail].size = 0 /\ g[tail].in_use
  <2> HIDE DEF a, tail, g
  <2>1. /\ hdr[a].in_use \in BOOLEAN /\ hdr[a].size_prev \in Nat
        /\ d - HeaderSize \in Nat
    BY <1>1 DEF HeaderType
  <2> QED
    BY <1>1, <1>3, <2>1 DEF HeaderType, Header, Resized
<1>5. g \in [DOMAIN g -> HeaderType]
  <2>1. g = [b \in DOMAIN g |-> g[b]]
    BY DEF Grown
  <2> QED
    BY <2>1, <1>2, <1>3, <1>4
<1> QED
  BY <1>1, <1>2, <1>3, <1>4, <1>5 DEF GrownDone

(* Appending pages keeps the list. *)
LEMMA GrownList ==
  ASSUME NEW f, NEW end, HeaderList(f, end), NEW d \in Nat, d > HeaderSize,
         NEW g, GrownDone(f, end, d, g)
  PROVE  HeaderList(g, end + d)
<1> DEFINE a == end - HeaderSize
           tail == a + d
<1> USE SizeAssumption DEF HeaderList
<1>1. /\ a \in DOMAIN f /\ a \in Nat /\ tail \in Nat /\ a < tail
      /\ end + d - HeaderSize = tail /\ end + d \in Nat
      /\ DOMAIN g = DOMAIN f \cup {tail}
      /\ tail \notin DOMAIN f
      /\ g \in [DOMAIN g -> HeaderType]
  BY DEF Tiles, GrownDone
<1>2. /\ g[a].size = d - HeaderSize
      /\ g[tail].size = 0 /\ g[tail].in_use
      /\ \A b \in DOMAIN f \ {a} : g[b] = f[b]
  BY DEF GrownDone
<1>3. /\ NextHdr(g, a) = tail
      /\ \A b \in DOMAIN f \ {a} : NextHdr(g, b) = NextHdr(f, b)
  BY <1>1, <1>2 DEF NextHdr
<1>4. Tiles(g, end + d)
  <2>1. /\ {0, tail} \subseteq DOMAIN g
        /\ \A b \in DOMAIN g : b <= tail
    BY <1>1, <1>2 DEF Tiles
  <2>2. ASSUME NEW b \in DOMAIN g \ {tail}
        PROVE  /\ g[b].size > 0
               /\ NextHdr(g, b) \in DOMAIN g
               /\ \A c \in DOMAIN g : c <= b \/ NextHdr(g, b) <= c
    <3>1. CASE b = a
      BY <3>1, <1>1, <1>2, <1>3 DEF Tiles
    <3>2. CASE b # a
      <4>1. NextHdr(f, b) \in DOMAIN f /\ NextHdr(f, b) <= a
        BY <3>2, <2>2, <1>1 DEF Tiles
      <4> QED
        BY <4>1, <3>2, <2>2, <1>1, <1>2, <1>3 DEF Tiles
    <3> QED
      BY <3>1, <3>2
  <2> QED
    BY <2>1, <2>2, <1>1, <1>2 DEF Tiles
<1> QED
  BY <1>1, <1>4

-----------------------------------------------------------------------------
(* What a merge leaves in memory: g is f with the chunk at x, which is the *)
(* one behind a and not the tail, added to the chunk at a.                 *)
MergeDone(f, end, a, x, g) ==
  /\ a \in DOMAIN f /\ a # end - HeaderSize
  /\ x = NextHdr(f, a) /\ x # end - HeaderSize
  /\ DOMAIN g = DOMAIN f \ {x}
  /\ g[a].size = f[a].size + f[x].size + HeaderSize
  /\ g[a].in_use = f[a].in_use
  /\ \A b \in DOMAIN g \ {a} : g[b].size = f[b].size /\ g[b].in_use = f[b].in_use
  /\ g \in [DOMAIN g -> HeaderType]

LEMMA MergeValues ==
  ASSUME NEW f, NEW end, HeaderList(f, end), NEW a \in DOMAIN f,
         a # end - HeaderSize, NEW x, x = NextHdr(f, a), x # end - HeaderSize
  PROVE  MergeDone(f, end, a, x, Merge(f, a, x))
<1> DEFINE g == Merge(f, a, x)
<1>1. /\ x \in DOMAIN f /\ a < x /\ a \in Nat /\ x \in Nat
      /\ f[a] \in HeaderType /\ f[x] \in HeaderType
      /\ \A b \in DOMAIN f : f[b] \in HeaderType
  BY SizeAssumption DEF HeaderList, Tiles, HeaderType, NextHdr
<1>2. DOMAIN g = DOMAIN f \ {x} /\ a \in DOMAIN g
  BY <1>1 DEF Merge
<1>3. /\ g[a] = Resized(f[a], f[a].size + f[x].size + HeaderSize)
      /\ \A b \in DOMAIN g \ {a} : g[b] = f[b]
  BY <1>2 DEF Merge
<1>4. /\ g[a] \in HeaderType
      /\ g[a].size = f[a].size + f[x].size + HeaderSize
      /\ g[a].in_use = f[a].in_use
  <2> HIDE DEF g
  <2>1. /\ f[a].in_use \in BOOLEAN /\ f[a].size_prev \in Nat
        /\ f[a].size + f[x].size + HeaderSize \in Nat
    BY <1>1, SizeAssumption DEF HeaderType
  <2> QED
    BY <1>3, <2>1 DEF HeaderType, Header, Resized
<1>5. g \in [DOMAIN g -> HeaderType]
  <2>1. g = [b \in DOMAIN g |-> g[b]]
    BY DEF Merge
  <2> QED
    BY <2>1, <1>1, <1>2, <1>3, <1>4
<1> QED
  BY <1>1, <1>2, <1>3, <1>4, <1>5 DEF MergeDone

(* A merge keeps the list. *)
LEMMA MergeList ==
  ASSUME NEW f, NEW end, HeaderList(f, end), NEW a, NEW x, NEW g,
         MergeDone(f, end, a, x, g)
  PROVE  HeaderList(g, end)
<1> USE SizeAssumption DEF HeaderList
<1>1. /\ a \in DOMAIN f /\ a # end - HeaderSize
      /\ x = NextHdr(f, a) /\ x # end - HeaderSize
      /\ DOMAIN g = DOMAIN f \ {x}
      /\ g \in [DOMAIN g -> HeaderType]
  BY DEF MergeDone
<1>2. /\ g[a].size = f[a].size + f[x].size + HeaderSize
      /\ \A b \in DOMAIN g \ {a} : g[b].size = f[b].size /\ g[b].in_use = f[b].in_use
      /\ g[a].in_use = f[a].in_use
  BY DEF MergeDone
<1>3. /\ x \in DOMAIN f /\ a < x /\ a \in Nat /\ x \in Nat
      /\ f[a].size \in Nat /\ f[x].size \in Nat
      /\ f[x].size > 0
  BY <1>1 DEF Tiles, HeaderType, NextHdr
<1>4. NextHdr(f, x) \in DOMAIN f /\ x < NextHdr(f, x)
  BY <1>1, <1>3 DEF Tiles, NextHdr
<1>5. NextHdr(g, a) = NextHdr(f, x)
  BY <1>1, <1>2, <1>3 DEF NextHdr
<1>6. \A b \in DOMAIN g \ {a} : NextHdr(g, b) = NextHdr(f, b)
  BY <1>2 DEF NextHdr
<1>7. Tiles(g, end)
  <2>1. /\ {0, end - HeaderSize} \subseteq DOMAIN g
        /\ g[end - HeaderSize].size = 0 /\ g[end - HeaderSize].in_use
        /\ \A b \in DOMAIN g : b <= end - HeaderSize
    BY <1>1, <1>2, <1>3 DEF Tiles
  <2>2. ASSUME NEW b \in DOMAIN g \ {end - HeaderSize}
        PROVE  /\ g[b].size > 0
               /\ NextHdr(g, b) \in DOMAIN g
               /\ \A c \in DOMAIN g : c <= b \/ NextHdr(g, b) <= c
    <3>1. CASE b = a
      <4>1. \A c \in DOMAIN f : c <= x \/ NextHdr(f, x) <= c
        BY <1>1, <1>3 DEF Tiles
      <4>2. \A c \in DOMAIN f : c <= a \/ x <= c
        BY <1>1 DEF Tiles
      <4>3. \A c \in DOMAIN g : c <= a \/ NextHdr(f, x) <= c
        BY <4>1, <4>2, <1>1, <1>3
      <4> QED
        BY <3>1, <4>3, <1>1, <1>2, <1>3, <1>4, <1>5
    <3>2. CASE b # a
      <4>1. /\ NextHdr(f, b) \in DOMAIN f
            /\ f[b].size > 0
            /\ \A c \in DOMAIN f : c <= b \/ NextHdr(f, b) <= c
        BY <3>2, <2>2, <1>1 DEF Tiles
      <4>2. NextHdr(f, b) # x
        <5>1. b < a \/ x <= b
          BY <2>2, <3>2, <1>1 DEF Tiles
        <5>2. CASE b < a
          BY <5>2, <4>1, <1>1, <1>3
        <5>3. CASE x <= b
          <6>1. b < NextHdr(f, b)
            BY <4>1, <2>2, <1>1 DEF NextHdr, HeaderType
          <6> QED
            BY <5>3, <6>1, <2>2, <4>1, <1>1, <1>3
        <5> QED
          BY <5>1, <5>2, <5>3
      <4> QED
        BY <4>1, <4>2, <3>2, <2>2, <1>1, <1>2, <1>6
    <3> QED
      BY <3>1, <3>2
  <2> QED
    BY <2>1, <2>2, <1>1, <1>2 DEF Tiles
<1> QED
  BY <1>1, <1>7

(* Merging into a free chunk takes the chunk behind it from those in use.  *)
LEMMA MergeChunks ==
  ASSUME NEW f, NEW end, HeaderList(f, end), NEW a, NEW x, NEW g,
         MergeDone(f, end, a, x, g), ~ f[a].in_use
  PROVE  ChunkRemoved(f, g, x) /\ a \in DOMAIN g /\ ~ g[a].in_use
<1>1. a # x /\ a \in DOMAIN f
  BY SizeAssumption DEF MergeDone, HeaderList, HeaderType, NextHdr
<1> QED
  BY <1>1 DEF MergeDone, ChunksOf, ChunkRemoved

(* Writing a size_prev changes neither the list nor the chunks in use. *)
LEMMA SizePrevList ==
  ASSUME NEW f, NEW end, HeaderList(f, end), NEW a, NEW s \in Nat
  PROVE  /\ HeaderList(WithSizePrev(f, a, s), end)
         /\ Blocks(WithSizePrev(f, a, s)) = Blocks(f)
<1> DEFINE g == WithSizePrev(f, a, s)
<1>1. DOMAIN g = DOMAIN f /\ \A b \in DOMAIN f : f[b] \in HeaderType
  BY DEF WithSizePrev, HeaderList
<1>2. \A b \in DOMAIN f : /\ g[b].size = f[b].size /\ g[b].in_use = f[b].in_use
                          /\ g[b] \in HeaderType
  BY <1>1 DEF WithSizePrev, Header, HeaderType
<1>3. g \in [DOMAIN g -> HeaderType]
  <2>1. g = [b \in DOMAIN g |-> g[b]]
    BY DEF WithSizePrev
  <2> QED
    BY <2>1, <1>1, <1>2
<1>4. \A b \in DOMAIN f : NextHdr(g, b) = NextHdr(f, b)
  BY <1>2 DEF NextHdr
<1>5. Tiles(g, end)
  <2>1. Tiles(f, end)
    BY DEF HeaderList
  <2> HIDE DEF g
  <2> QED
    BY <2>1, <1>1, <1>2, <1>4 DEF Tiles
<1>6. ChunksOf(g) = ChunksOf(f)
  BY <1>1, <1>2 DEF ChunksOf
<1>7. \A b \in ChunksOf(f) : BlockOf(g, b) = BlockOf(f, b)
  BY <1>2 DEF ChunksOf, BlockOf
<1>8. HeaderList(g, end)
  BY <1>1, <1>3, <1>5 DEF HeaderList
<1> QED
  BY <1>6, <1>7, <1>8 DEF Blocks

-----------------------------------------------------------------------------
(* The headers Split leaves are headers, whatever it was given. *)
LEMMA SplitType ==
  ASSUME NEW f, DOMAIN f \subseteq Nat, f \in [DOMAIN f -> HeaderType],
         NEW a \in DOMAIN f, NEW n \in Sizes
  PROVE  /\ DOMAIN Split(f, a, n) \subseteq Nat
         /\ Split(f, a, n) \in [DOMAIN Split(f, a, n) -> HeaderType]
<1> DEFINE g == Split(f, a, n)
           rest == a + Need(n)
<1>1. n \in Nat /\ Need(n) \in Nat /\ Need(n) < SizeMod /\ rest \in Nat
  BY SizeAssumption DEF Need
<1>2. f[a].size \in Nat /\ f[a].size_prev \in Nat
  BY DEF HeaderType
<1>3. SizeMinus(f[a].size, Need(n)) \in Nat
  BY <1>1, <1>2, SizeAssumption DEF SizeMinus
<1>4. /\ Header(TRUE, n, f[a].size_prev) \in HeaderType
      /\ Header(FALSE, SizeMinus(f[a].size, Need(n)), n) \in HeaderType
  BY <1>1, <1>2, <1>3 DEF Header, HeaderType
<1>5. DOMAIN g = DOMAIN f \cup {rest}
  BY DEF Split
<1>6. \A b \in DOMAIN g : g[b] \in HeaderType
  BY <1>4, <1>5 DEF Split
<1>7. g = [b \in DOMAIN g |-> g[b]]
  BY DEF Split
<1> QED
  BY <1>1, <1>5, <1>6, <1>7

(* A split that leaves a chunk brings the chunk at a into use. *)
LEMMA SplitChunks ==
  ASSUME NEW f, NEW end, HeaderList(f, end), NEW a \in DOMAIN f,
         NEW n \in Nat \ {0}, f[a].size > Need(n)
  PROVE  /\ ChunksOf(Split(f, a, n)) = ChunksOf(f) \cup {a}
         /\ Split(f, a, n)[a].size = n
         /\ \A b \in ChunksOf(f) \ {a} : Split(f, a, n)[b].size = f[b].size
<1> SUFFICES ASSUME NEW g, NEW rest, SplitDone(f, end, a, n, g, rest)
             PROVE  /\ ChunksOf(g) = ChunksOf(f) \cup {a}
                    /\ g[a].size = n
                    /\ \A b \in ChunksOf(f) \ {a} : g[b].size = f[b].size
  BY SplitValues
<1>1. /\ g[a].in_use /\ g[a].size = n /\ ~ g[rest].in_use
      /\ rest \notin DOMAIN f /\ DOMAIN g = DOMAIN f \cup {rest}
      /\ \A b \in DOMAIN f \ {a} : g[b] = f[b]
  BY DEF SplitDone, Header
<1> QED
  BY <1>1 DEF ChunksOf

-----------------------------------------------------------------------------
(* The inductive invariant *)
Inv == TypeOK /\ HeadersTile /\ BlocksAreChunks

LEMMA IntactList ==
  ASSUME Inv, intact
  PROVE  HeaderList(hdr, mapped) /\ blocks = Blocks(hdr)
BY DEF Inv, TypeOK, HeadersTile, BlocksAreChunks, HeaderList

LEMMA InitInv == Init => Inv
<1> SUFFICES ASSUME Init
             PROVE  Inv
  OBVIOUS
<1>1. PICK size, tail :
        /\ size = PageSize - 2 * HeaderSize /\ tail = PageSize - HeaderSize
        /\ hdr = [b \in {0, tail} |-> IF b = 0 THEN Header(FALSE, size, 0)
                                               ELSE Header(TRUE, 0, size)]
  BY Zenon DEF Init
<1>2. /\ size \in Nat /\ size > 0 /\ tail \in Nat /\ tail = size + HeaderSize
      /\ tail > 0 /\ mapped = PageSize /\ mapped \in Nat
      /\ mapped - HeaderSize = tail
      /\ blocks = {} /\ list = "intact"
  BY <1>1, SizeAssumption DEF Init
<1>3. /\ DOMAIN hdr = {0, tail}
      /\ hdr[0] = Header(FALSE, size, 0) /\ hdr[tail] = Header(TRUE, 0, size)
  <2>1. tail # 0 /\ 0 \in {0, tail} /\ tail \in {0, tail}
    BY <1>2
  <2>2. DOMAIN hdr = {0, tail}
    BY <1>1, Zenon
  <2>3. hdr[0] = Header(FALSE, size, 0)
    BY <1>1, <2>1, Zenon
  <2>4. hdr[tail] = Header(TRUE, 0, size)
    BY <1>1, <2>1, Zenon
  <2> QED
    BY <2>2, <2>3, <2>4
<1>4. /\ hdr[0].size = size /\ ~ hdr[0].in_use
      /\ hdr[tail].size = 0 /\ hdr[tail].in_use
      /\ hdr[0] \in HeaderType /\ hdr[tail] \in HeaderType
  BY <1>2, <1>3 DEF Header, HeaderType
<1>5. TypeOK
  <2>1. hdr = [b \in DOMAIN hdr |-> hdr[b]]
    BY <1>1
  <2>2. hdr \in [DOMAIN hdr -> HeaderType]
    BY <2>1, <1>3, <1>4
  <2> QED
    BY <2>2, <1>2, <1>3 DEF TypeOK
<1>6. HeadersTile
  <2>1. NextHdr(hdr, 0) = tail
    BY <1>2, <1>4, SizeAssumption DEF NextHdr
  <2>3. /\ 0 \in DOMAIN hdr /\ tail \in DOMAIN hdr
        /\ \A b \in DOMAIN hdr : b <= tail
    BY <1>2, <1>3
  <2>4. ASSUME NEW b \in DOMAIN hdr \ {tail}
        PROVE  /\ hdr[b].size > 0
               /\ NextHdr(hdr, b) \in DOMAIN hdr
               /\ \A c \in DOMAIN hdr : c <= b \/ NextHdr(hdr, b) <= c
    <3>1. b = 0
      BY <2>4, <1>3
    <3>2. hdr[0].size > 0
      BY <1>2, <1>4
    <3>3. \A c \in DOMAIN hdr : c <= 0 \/ tail <= c
      BY <1>2, <1>3
    <3> QED
      BY <3>1, <3>2, <3>3, <2>1, <2>3
  <2>2. Tiles(hdr, mapped)
    BY <2>3, <2>4, <1>2, <1>4 DEF Tiles
  <2> QED
    BY <2>2 DEF HeadersTile
<1>7. BlocksAreChunks
  <2>1. ChunksOf(hdr) = {}
    BY <1>3, <1>4 DEF ChunksOf
  <2> QED
    BY <2>1, <1>2 DEF BlocksAreChunks, Blocks
<1> QED
  BY <1>5, <1>6, <1>7 DEF Inv

(* Taking a chunk of f, a list with the chunks in use of hdr and that one. *)
LEMMA TakeInv ==
  ASSUME Inv, intact, NEW f, NEW end, HeaderList(f, end), mapped' = end,
         NEW a \in DOMAIN f, NEW n \in Sizes \ {0}, Take(f, a, n),
         (f = hdr /\ a \notin ChunksOf(f)) \/ ChunkAdded(hdr, f, a)
  PROVE  Inv'
<1>1. n \in Nat \ {0} /\ a \in Nat /\ f[a].size \in Nat /\ Need(n) \in Nat
  BY SizeAssumption DEF HeaderList, HeaderType, Need
<1>2. hdr' = Split(f, a, n)
  BY DEF Take
<1>3. TypeOK'
  <2>1. DOMAIN hdr' \subseteq Nat /\ hdr' \in [DOMAIN hdr' -> HeaderType]
    BY <1>2, SplitType DEF HeaderList
  <2>2. mapped' \in Nat
    BY DEF HeaderList
  <2>3. blocks' \subseteq [at : Nat, size : Nat]
    BY <1>1, SizeAssumption DEF Take, Inv, TypeOK
  <2>4. list' \in {"intact", "exact", "short", "astray"}
    BY <1>1, Zenon DEF Take
  <2> QED
    BY <2>1, <2>2, <2>3, <2>4 DEF TypeOK
<1>4. ASSUME intact'
      PROVE  f[a].size > Need(n)
  BY <1>1, <1>4, Zenon DEF Take, intact
<1>5. HeadersTile'
  <2> SUFFICES ASSUME intact'
               PROVE  Tiles(hdr, mapped)'
    BY DEF HeadersTile
  <2>1. HeaderList(Split(f, a, n), end)
    BY <1>1, <1>4, SplitList
  <2> QED
    BY <2>1, <1>2 DEF HeaderList
<1>6. BlocksAreChunks'
  <2> SUFFICES ASSUME intact'
               PROVE  blocks' = Blocks(hdr')
    BY DEF BlocksAreChunks
  <2>1. /\ ChunksOf(hdr') = ChunksOf(f) \cup {a}
        /\ hdr'[a].size = n
        /\ \A b \in ChunksOf(f) \ {a} : hdr'[b].size = f[b].size
    BY <1>1, <1>2, <1>4, SplitChunks
  <2>2. ChunkAdded(hdr, hdr', a)
    BY <2>1 DEF ChunkAdded
  <2>3. Blocks(hdr') = Blocks(hdr) \cup {BlockOf(hdr', a)}
    BY <2>2, BlockAdded
  <2>4. BlockOf(hdr', a) = [at |-> a + HeaderSize, size |-> n]
    BY <2>1 DEF BlockOf
  <2> QED
    BY <2>3, <2>4, IntactList DEF Take
<1> QED
  BY <1>3, <1>5, <1>6 DEF Inv

LEMMA MallocFitInv ==
  ASSUME Inv, NEW n \in Sizes, MallocFit(n)
  PROVE  Inv'
<1>1. PICK a \in Found(n) : hdr[a].size # 0 /\ Take(hdr, a, n)
  BY DEF MallocFit
<1>2. a \in DOMAIN hdr /\ ~ hdr[a].in_use
  BY <1>1 DEF Found, Stops, Fits, Ends
<1>3. /\ intact /\ n # 0 /\ mapped' = mapped
      /\ HeaderList(hdr, mapped)
  BY IntactList DEF MallocFit
<1>4. a \notin ChunksOf(hdr)
  BY <1>2 DEF ChunksOf
<1> QED
  BY <1>1, <1>2, <1>3, <1>4, TakeInv

LEMMA MallocGrowInv ==
  ASSUME Inv, NEW n \in Sizes, MallocGrow(n)
  PROVE  Inv'
<1>1. PICK a \in Found(n) : /\ hdr[a].size = 0
                            /\ mapped' = a + HeaderSize + Growth(n)
                            /\ Take(Grown(a, n), a, n)
  BY DEF MallocGrow
<1>2. /\ intact /\ n \in Sizes \ {0} /\ n \in Nat /\ a \in DOMAIN hdr
      /\ HeaderList(hdr, mapped)
  BY <1>1, IntactList, SizeAssumption DEF MallocGrow, Found, Stops, Fits, Ends
<1>3. a = mapped - HeaderSize /\ a \in Nat /\ mapped \in Nat
  BY <1>1, <1>2 DEF HeaderList, Tiles
<1>4. PICK d : d = Growth(n)
  OBVIOUS
<1>5. d \in Nat /\ d > HeaderSize
  BY <1>2, <1>4, GrowthBound, SizeAssumption DEF Need, MallocGrow
<1>6. PICK g : g = Grown(a, n)
  OBVIOUS
<1>7. GrownDone(hdr, mapped, d, g)
  BY <1>2, <1>3, <1>4, <1>5, <1>6, GrownValues
<1>8. HeaderList(g, mapped + d) /\ mapped' = mapped + d
  BY <1>1, <1>2, <1>3, <1>4, <1>5, <1>7, GrownList, SizeAssumption
<1>9. a \in DOMAIN g /\ ChunkAdded(hdr, g, a)
  <2>1. /\ DOMAIN g = DOMAIN hdr \cup {a + d} /\ a + d \notin DOMAIN hdr
        /\ g[a].size = d - HeaderSize /\ g[a].in_use
        /\ g[a + d].size = 0
        /\ \A b \in DOMAIN hdr \ {a} : g[b] = hdr[b]
    BY <1>3, <1>7 DEF GrownDone
  <2>2. d - HeaderSize # 0
    BY <1>5, SizeAssumption
  <2> QED
    BY <2>1, <2>2, <1>1, <1>2 DEF ChunksOf, ChunkAdded
<1> QED
  BY <1>1, <1>2, <1>6, <1>8, <1>9, TakeInv

LEMMA MergeNextList ==
  ASSUME NEW f, NEW end, HeaderList(f, end), NEW a \in DOMAIN f, ~ f[a].in_use
  PROVE  HeaderList(MergeNext(f, a), end) /\ Blocks(MergeNext(f, a)) = Blocks(f)
<1>1. a # end - HeaderSize
  BY DEF HeaderList, Tiles
<1>2. PICK next : next = NextHdr(f, a)
  OBVIOUS
<1>3. next \in DOMAIN f /\ f[next].size \in Nat
  BY <1>1, <1>2 DEF HeaderList, Tiles, HeaderType
<1>4. CASE f[next].in_use \/ f[next].size = 0
  BY <1>2, <1>4 DEF MergeNext
<1>5. CASE ~ f[next].in_use /\ f[next].size # 0
  <2>1. next # end - HeaderSize
    BY <1>5 DEF HeaderList, Tiles
  <2>2. PICK g : g = Merge(f, a, next)
    OBVIOUS
  <2>3. MergeDone(f, end, a, next, g)
    BY <1>1, <1>2, <2>1, <2>2, MergeValues
  <2>4. HeaderList(g, end) /\ ChunkRemoved(f, g, next)
    BY <2>3, MergeList, MergeChunks
  <2>5. Blocks(g) = Blocks(f)
    BY <2>4, <1>5, NoBlockRemoved DEF ChunksOf
  <2>6. MergeNext(f, a) = WithSizePrev(g, NextHdr(f, next), f[next].size)
    BY <1>2, <1>5, <2>2 DEF MergeNext
  <2> QED
    BY <2>4, <2>5, <2>6, <1>3, SizePrevList
<1> QED
  BY <1>4, <1>5

(* A chunk no longer in use stays on the list. *)
LEMMA UnusedList ==
  ASSUME HeaderList(hdr, mapped), NEW a \in ChunksOf(hdr)
  PROVE  /\ HeaderList(Unused(a), mapped)
         /\ ChunkRemoved(hdr, Unused(a), a)
         /\ a \in DOMAIN Unused(a) /\ ~ Unused(a)[a].in_use
<1> DEFINE g == Unused(a)
<1>1. /\ a \in DOMAIN hdr /\ hdr[a].size # 0
      /\ DOMAIN g = DOMAIN hdr
      /\ \A b \in DOMAIN hdr : hdr[b] \in HeaderType
  BY DEF ChunksOf, Unused, HeaderList
<1>2. /\ g[a] = Header(FALSE, hdr[a].size, hdr[a].size_prev)
      /\ \A b \in DOMAIN hdr \ {a} : g[b] = hdr[b]
  BY <1>1 DEF Unused
<1>3. ~ g[a].in_use /\ g[a].size = hdr[a].size /\ g[a] \in HeaderType
  <2> HIDE DEF g
  <2>1. hdr[a].size \in Nat /\ hdr[a].size_prev \in Nat
    BY <1>1 DEF HeaderType
  <2> QED
    BY <1>2, <2>1 DEF Header, HeaderType
<1>4. g \in [DOMAIN g -> HeaderType]
  <2>1. g = [b \in DOMAIN g |-> g[b]]
    BY DEF Unused
  <2> QED
    BY <2>1, <1>1, <1>2, <1>3
<1>5. \A b \in DOMAIN hdr : NextHdr(g, b) = NextHdr(hdr, b) /\ g[b].size = hdr[b].size
  BY <1>2, <1>3 DEF NextHdr
<1> HIDE DEF g
<1>6. Tiles(g, mapped)
  <2>1. Tiles(hdr, mapped) /\ a # mapped - HeaderSize
    BY <1>1 DEF HeaderList, Tiles
  <2> QED
    BY <2>1, <1>1, <1>2, <1>5 DEF Tiles
<1>7. HeaderList(g, mapped)
  BY <1>1, <1>4, <1>6 DEF HeaderList
<1>8. ChunkRemoved(hdr, g, a)
  BY <1>1, <1>2, <1>3, <1>5 DEF ChunkRemoved, ChunksOf
<1> QED
  BY <1>1, <1>3, <1>7, <1>8 DEF g

LEMMA MfreeInv ==
  ASSUME Inv, NEW b \in blocks, Mfree(b)
  PROVE  Inv'
<1>1. /\ intact /\ HeaderList(hdr, mapped) /\ blocks = Blocks(hdr)
      /\ mapped' = mapped /\ blocks' = blocks \ {b}
  BY IntactList DEF Mfree
<1>2. PICK a \in ChunksOf(hdr) : b = BlockOf(hdr, a)
  BY <1>1 DEF Blocks
<1>3. /\ ChunksOf(hdr) \subseteq Nat /\ a \in Nat /\ a \in DOMAIN hdr
      /\ hdr[a].size # 0
  BY <1>1, <1>2 DEF ChunksOf, HeaderList
<1>4. b.at - HeaderSize = a
  BY <1>2, <1>3, SizeAssumption DEF BlockOf
<1>5. mapped' \in Nat /\ blocks' \subseteq [at : Nat, size : Nat]
  BY <1>1 DEF Inv, TypeOK
<1>6. ASSUME NEW f, HeaderList(f, mapped), ChunkRemoved(hdr, f, a),
             NEW c \in DOMAIN f, ~ f[c].in_use, hdr' = MergeNext(f, c),
             list' = list
      PROVE  Inv'
  <2>1. HeaderList(hdr', mapped') /\ Blocks(hdr') = Blocks(f)
    BY <1>1, <1>6, MergeNextList
  <2>2. Blocks(f) = Blocks(hdr) \ {b}
    BY <1>2, <1>3, <1>6, BlockRemoved
  <2>3. TypeOK'
    BY <2>1, <1>5, <1>6 DEF HeaderList, Inv, TypeOK
  <2>4. HeadersTile'
    BY <2>1 DEF HeaderList, HeadersTile
  <2>5. BlocksAreChunks'
    BY <2>1, <2>2, <1>1 DEF BlocksAreChunks
  <2> QED
    BY <2>3, <2>4, <2>5 DEF Inv
<1>7. CASE MfreeAlone(a)
  BY <1>1, <1>2, <1>6, <1>7, UnusedList DEF MfreeAlone
<1>8. CASE MfreeWithPrev(a)
  <2>1. PICK p : p = PrevHdr(hdr, a)
    OBVIOUS
  <2>2. /\ p \in DOMAIN hdr /\ NextHdr(hdr, p) = a /\ ~ hdr[p].in_use
        /\ hdr' = MergeNext(Merge(hdr, p, a), p) /\ list' = list
    BY <1>8, <2>1 DEF MfreeWithPrev, PrevIsAdjacent, PrevMayRead
  <2>3. p # mapped - HeaderSize /\ a # mapped - HeaderSize
    BY <1>1, <1>3, <2>2 DEF HeaderList, Tiles
  <2>4. PICK g : g = Merge(hdr, p, a)
    OBVIOUS
  <2>5. MergeDone(hdr, mapped, p, a, g)
    BY <1>1, <2>2, <2>3, <2>4, MergeValues
  <2>6. /\ HeaderList(g, mapped) /\ ChunkRemoved(hdr, g, a)
        /\ p \in DOMAIN g /\ ~ g[p].in_use
    BY <1>1, <2>2, <2>5, MergeList, MergeChunks
  <2> QED
    BY <2>2, <2>4, <2>6, <1>6
<1>9. CASE MfreeAstray(a)
  <2>1. hdr' = Unused(a) /\ list' = "astray"
    BY <1>9 DEF MfreeAstray
  <2>2. HeaderList(hdr', mapped')
    BY <2>1, <1>1, <1>2, UnusedList
  <2>3. TypeOK'
    BY <2>1, <2>2, <1>5 DEF HeaderList, TypeOK
  <2>4. ~ intact'
    BY <2>1 DEF intact
  <2> QED
    BY <2>3, <2>4 DEF Inv, HeadersTile, BlocksAreChunks
<1> QED
  BY <1>4, <1>7, <1>8, <1>9 DEF Mfree

LEMMA NextInv == Inv /\ [Next]_vars => Inv'
<1> SUFFICES ASSUME Inv, [Next]_vars
             PROVE  Inv'
  OBVIOUS
<1>1. ASSUME UNCHANGED vars
      PROVE  Inv'
  BY <1>1 DEF Inv, vars, TypeOK, HeadersTile, BlocksAreChunks, intact
<1>2. ASSUME NEW n \in Sizes, MallocFit(n)
      PROVE  Inv'
  BY <1>2, MallocFitInv
<1>3. ASSUME NEW n \in Sizes, MallocGrow(n)
      PROVE  Inv'
  BY <1>3, MallocGrowInv
<1>4. ASSUME NEW n \in Sizes, MallocNull(n)
      PROVE  Inv'
  BY <1>1, <1>4 DEF MallocNull
<1>5. ASSUME NEW b \in blocks, Mfree(b)
      PROVE  Inv'
  BY <1>5, MfreeInv
<1> QED
  BY <1>1, <1>2, <1>3, <1>4, <1>5 DEF Next

LEMMA SpecInv == Spec => []Inv
  BY InitInv, NextInv, PTL DEF Spec

-----------------------------------------------------------------------------
(* hdr, mapped and blocks keep their types, and every size written to a    *)
(* header, wrapped around or not, is a size_t.                             *)
THEOREM TypeOKHolds == Spec => []TypeOK
<1>1. Inv => TypeOK
  BY DEF Inv
<1> QED
  BY <1>1, SpecInv, PTL

(* While the list is intact, NEXT_HDR leads malloc and mfree through every *)
(* byte of the heap exactly once and ends at the tail.                     *)
THEOREM HeadersTileHolds == Spec => []HeadersTile
<1>1. Inv => HeadersTile
  BY DEF Inv
<1> QED
  BY <1>1, SpecInv, PTL

(* While the list is intact, the chunks with in_use are those of the       *)
(* blocks malloc has returned and mfree has not been given.                *)
THEOREM BlocksAreChunksHolds == Spec => []BlocksAreChunks
<1>1. Inv => BlocksAreChunks
  BY DEF Inv
<1> QED
  BY <1>1, SpecInv, PTL

(* While the list is intact, blocks of clients share no byte with each     *)
(* other or with a header and lie in mapped memory: chunks are disjoint    *)
(* because NEXT_HDR passes over no header.                                 *)
LEMMA InvDisjoint == Inv => BlocksDisjoint
<1> SUFFICES ASSUME Inv, intact
             PROVE  /\ \A b \in blocks : b.at + b.size + HeaderSize <= mapped
                    /\ \A b, c \in blocks :
                         b.at < c.at => b.at + b.size + HeaderSize <= c.at
                    /\ \A b, c \in blocks : b.at = c.at => b = c
  BY DEF BlocksDisjoint
<1>1. HeaderList(hdr, mapped) /\ blocks = Blocks(hdr)
  BY IntactList
<1>2. ASSUME NEW a \in ChunksOf(hdr)
      PROVE  /\ a \in Nat /\ hdr[a].size \in Nat /\ a \in DOMAIN hdr
             /\ BlockOf(hdr, a).at = a + HeaderSize
             /\ BlockOf(hdr, a).size = hdr[a].size
             /\ NextHdr(hdr, a) <= mapped - HeaderSize
             /\ \A c \in DOMAIN hdr : c <= a \/ NextHdr(hdr, a) <= c
             /\ NextHdr(hdr, a) = a + hdr[a].size + HeaderSize
  BY <1>1, SizeAssumption
     DEF ChunksOf, HeaderList, Tiles, HeaderType, BlockOf, NextHdr
<1>3. mapped \in Nat
  BY <1>1 DEF HeaderList
<1>4. ASSUME NEW b \in blocks
      PROVE  b.at + b.size + HeaderSize <= mapped
  <2>1. PICK a \in ChunksOf(hdr) : b = BlockOf(hdr, a)
    BY <1>1 DEF Blocks
  <2> QED
    BY <2>1, <1>2, <1>3, SizeAssumption
<1>5. ASSUME NEW b \in blocks, NEW c \in blocks
      PROVE  /\ b.at < c.at => b.at + b.size + HeaderSize <= c.at
             /\ b.at = c.at => b = c
  <2>1. PICK a \in ChunksOf(hdr) : b = BlockOf(hdr, a)
    BY <1>1 DEF Blocks
  <2>2. PICK d \in ChunksOf(hdr) : c = BlockOf(hdr, d)
    BY <1>1 DEF Blocks
  <2>3. b.at = c.at => a = d
    BY <2>1, <2>2, <1>2, SizeAssumption
  <2>4. ASSUME b.at < c.at
        PROVE  b.at + b.size + HeaderSize <= c.at
    <3>1. a < d
      BY <2>1, <2>2, <2>4, <1>2, SizeAssumption
    <3>2. NextHdr(hdr, a) <= d
      BY <3>1, <1>2
    <3> QED
      BY <2>1, <2>2, <3>2, <1>2, SizeAssumption
  <2> QED
    BY <2>1, <2>2, <2>3, <2>4
<1> QED
  BY <1>4, <1>5

(* While the list is intact, what a client writes in its block reaches no  *)
(* header and no other client, whatever was split, appended and merged.    *)
THEOREM BlocksDisjointHolds == Spec => []BlocksDisjoint
  BY InvDisjoint, SpecInv, PTL
=============================================================================
