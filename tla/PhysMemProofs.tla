---------------------------- MODULE PhysMemProofs ----------------------------
(***************************************************************************)
(* Proofs about PhysMem, for every memory map, whatever its entries.       *)
(***************************************************************************)
EXTENDS PhysMem, NatLemmas, FiniteSetTheorems

(* What pmm_initialize establishes and every call keeps.  Clients hold      *)
(* pages that are locked; after a boot that is sound every other locked     *)
(* page stays out of circulation, the cursor stays among the pages, and the *)
(* first slack bit is never cleared.                                        *)
FreeOrHeld(S) == S \subseteq UsablePages(mmap) \ FilledPages(mmap)

BitmapInv ==
  /\ locked \subseteq Bits(mmap)
  /\ last_free \in 0 .. TotalPages(mmap)
  /\ FreeOrHeld(Bits(mmap) \ locked)
  /\ TotalPages(mmap) \in locked

Inv ==
  /\ mmap \in MemMaps
  /\ held \subseteq locked
  /\ twice = {}
  /\ FreeOrHeld(held)
  /\ denied \in 0 .. MaxRun
  /\ SoundBoot(mmap) => BitmapInv

-----------------------------------------------------------------------------
(* The bitmap has a bit for every page and at least one more: BitmapBytes   *)
(* adds a byte to a quotient rounded down (pmm.c:46).                       *)
LEMMA SlackBit ==
  ASSUME NEW m \in MemMaps
  PROVE  /\ TotalPages(m) \in Nat
         /\ TotalPages(m) \in Bits(m)
         /\ 0 .. TotalPages(m) - 1 \subseteq Bits(m)
<1>1. TotalPages(m) \in Nat
  BY MapAssumption
<1>2. TotalPages(m) < 8 * (TotalPages(m) \div 8 + 1)
  BY <1>1, SMT
<1> QED
  BY <1>1, <1>2, SMT DEF Bits, BitmapBytes

(* The bitmap starts at a page of a usable entry.                           *)
LEMMA BitmapBase ==
  ASSUME NEW m \in MemMaps
  PROVE  LargestEntry(m).base \in Nat
<1> DEFINE usable == {i \in DOMAIN m : m[i].usable}
           largest == {i \in usable : \A j \in usable : m[j].length <= m[i].length}
           chosen == CHOOSE i \in largest : \A j \in largest : i <= j
<1>1. largest \in SUBSET Nat /\ largest # {}
  BY MapAssumption
<1>2. \E i \in largest : \A j \in largest : i <= j
  <2> HIDE DEF largest
  <2> QED BY <1>1, LeastElement
<1>3. chosen \in largest
  <2> HIDE DEF largest
  <2> QED BY <1>2
<1>4. LargestEntry(m) = m[chosen] /\ chosen \in DOMAIN m
  BY <1>3 DEF LargestEntry
<1> QED
  BY <1>4, MapAssumption DEF IsEntry

(* The pages locked for the bitmap are pages of it: all but the last, and   *)
(* that too if it is full (pmm.c:64).                                       *)
LEMMA FilledOfBitmap ==
  ASSUME NEW m \in MemMaps
  PROVE  /\ FilledPages(m) \subseteq BitmapPages(m)
         /\ LockedAtBoot(m) = (Bits(m) \ UsablePages(m)) \cup FilledPages(m)
<1> DEFINE base == LargestEntry(m).base
           bytes == BitmapBytes(m)
           q == (bytes - 1) \div PageSize
<1>1. base \in Nat /\ PageSize \in Nat \ {0}
  BY BitmapBase, SizeAssumption
<1>2. bytes \in Nat \ {0}
  <2>1. TotalPages(m) \div 8 \in Nat
    BY SlackBit, DivDef
  <2> QED BY <2>1 DEF BitmapBytes
<1>3. bytes \div PageSize \in Nat /\ q \in Nat /\ bytes \div PageSize - 1 <= q
  <2> DEFINE r == (bytes - 1) % PageSize
  <2> HIDE DEF bytes
  <2>1. bytes - 1 \in Nat
    BY <1>2
  <2>2. q \in Nat /\ r \in 0 .. PageSize - 1 /\ bytes - 1 = PageSize * q + r
    BY <1>1, <2>1, DivDef
  <2> HIDE DEF q, r
  <2>3. CASE r + 1 < PageSize
    <3>1. bytes = PageSize * q + (r + 1) /\ r + 1 \in 0 .. PageSize - 1 /\ bytes \in Nat
      BY <1>1, <1>2, <2>2, <2>3
    <3>2. bytes \div PageSize = q
      BY <1>1, <2>2, <3>1, DivUnique
    <3> QED BY <2>2, <3>2
  <2>4. CASE r + 1 = PageSize
    <3>1. PageSize * (q + 1) = PageSize * q + PageSize
      BY <1>1, <2>2
    <3>2. bytes = PageSize * (q + 1) + 0 /\ 0 \in 0 .. PageSize - 1
          /\ bytes \in Nat /\ q + 1 \in Nat
      BY <1>1, <1>2, <2>2, <2>4, <3>1
    <3>3. bytes \div PageSize = q + 1
      BY <1>1, <3>2, DivUnique
    <3> QED BY <2>2, <3>3
  <2> QED BY <1>1, <2>2, <2>3, <2>4
<1>4. /\ FilledPages(m) = base .. base + bytes \div PageSize - 1
      /\ BitmapPages(m) = base .. base + q
      /\ LockedAtBoot(m) = (Bits(m) \ UsablePages(m)) \cup FilledPages(m)
  BY DEF FilledPages, BitmapPages, LockedAtBoot, BitmapPageCount
<1> HIDE DEF base, bytes, q
<1> QED
  BY <1>1, <1>3, <1>4

(* A run the search accepts lies below the first slack bit: it starts below *)
(* it, has no locked page, and is contiguous.                               *)
LEMMA RunBelowSlack ==
  ASSUME Inv, SoundBoot(mmap), NEW count \in Nat \ {0}, NEW pi \in Fits(count)
  PROVE  /\ pi \in Nat
         /\ Run(pi, count) \subseteq 0 .. TotalPages(mmap) - 1
         /\ Run(pi, count) \cap locked = {}
         /\ pi + count <= TotalPages(mmap)
<1>1. /\ pi \in SearchRange
      /\ \A i \in Run(pi, count) : i \notin locked
  BY DEF Fits, IsFree
<1>2. TotalPages(mmap) \in Nat /\ TotalPages(mmap) \in locked
  BY SlackBit DEF Inv, BitmapInv
<1>3. pi \in Nat /\ pi < TotalPages(mmap)
  BY <1>1, <1>2 DEF SearchRange, Inv, BitmapInv
<1>4. pi + count <= TotalPages(mmap)
  <2> SUFFICES ASSUME pi + count > TotalPages(mmap)
               PROVE  FALSE
    BY <1>2, <1>3
  <2>1. TotalPages(mmap) \in Run(pi, count)
    BY <1>2, <1>3 DEF Run
  <2> QED
    BY <2>1, <1>1, <1>2
<1> QED
  BY <1>1, <1>2, <1>3, <1>4 DEF Run

LEMMA GrantPreservesInv ==
  ASSUME Inv, NEW count \in 1 .. MaxRun, NEW pi \in FirstFit(count),
         Grant(pi, count), ~ Lost
  PROVE  Inv'
<1> DEFINE R == Run(pi, count)
<1>0. count \in Nat \ {0} /\ MaxRun \in Nat /\ SoundBoot(mmap)
  BY SizeAssumption DEF Lost
<1>1. pi \in Fits(count)
  BY DEF FirstFit
<1>2. /\ pi \in Nat
      /\ R \subseteq 0 .. TotalPages(mmap) - 1
      /\ R \cap locked = {}
      /\ pi + count <= TotalPages(mmap)
  BY <1>0, <1>1, RunBelowSlack
<1>3. /\ mmap' = mmap
      /\ locked' = locked \cup R
      /\ last_free' = pi + count
      /\ held' = held \cup R
      /\ twice' = twice \cup (held \cap R)
      /\ denied' = 0
  BY DEF Grant, LockPages, CursorAfterGrant
<1>4. TotalPages(mmap) \in Nat /\ R \subseteq Bits(mmap)
  BY <1>2, SlackBit DEF Inv
<1>5. mmap' \in MemMaps /\ denied' \in 0 .. MaxRun
  BY <1>0, <1>3 DEF Inv
<1>6. locked' \subseteq Bits(mmap') /\ held' \subseteq locked'
      /\ TotalPages(mmap') \in locked'
  BY <1>0, <1>3, <1>4 DEF Inv, BitmapInv
<1>7. last_free' \in 0 .. TotalPages(mmap')
  BY <1>0, <1>2, <1>3, <1>4
<1>8. twice' = {}
  BY <1>2, <1>3 DEF Inv
<1>9. FreeOrHeld(held)' /\ FreeOrHeld(Bits(mmap) \ locked)'
  <2>1. R \subseteq Bits(mmap) \ locked
    BY <1>2, <1>4
  <2> QED
    BY <2>1, <1>0, <1>3 DEF Inv, BitmapInv, FreeOrHeld
<1> QED
  BY <1>5, <1>6, <1>7, <1>8, <1>9 DEF Inv, BitmapInv

LEMMA ReleasePreservesInv ==
  ASSUME Inv, NEW p \in held, NEW n \in 1 .. MaxRelease, ReleasePages(p, n)
  PROVE  Inv'
<1> DEFINE R == Run(p, n)
<1>1. /\ mmap' = mmap /\ R \subseteq held
      /\ locked' = locked \ R
      /\ held' = held \ R
      /\ twice' = twice
      /\ denied' = 0
      /\ last_free' = CursorAfterRelease(p)
      /\ SoundBoot(mmap)
  BY DEF ReleasePages, UnlockPages, Lost
<1>2. TotalPages(mmap) \in Nat /\ PageSize \in Nat /\ MaxRun \in Nat
  BY SlackBit, SizeAssumption DEF Inv
<1>3. held \subseteq 0 .. TotalPages(mmap) - 1
  BY <1>1 DEF Inv, FreeOrHeld, SoundBoot, UsableIndexed
<1>4. last_free' \in 0 .. TotalPages(mmap')
  <2>1. p \in Nat
    BY <1>2, <1>3
  <2>2. p * PageSize \in Nat
    BY <2>1, <1>2
  <2> QED
    BY <2>2, <1>1, <1>2 DEF CursorAfterRelease, Inv, BitmapInv
<1>5. mmap' \in MemMaps /\ denied' \in 0 .. MaxRun /\ twice' = {}
  BY <1>1, <1>2 DEF Inv
<1>6. /\ locked' \subseteq Bits(mmap') /\ held' \subseteq locked'
  BY <1>1 DEF Inv, BitmapInv
<1>7. TotalPages(mmap') \in locked'
  BY <1>1, <1>2, <1>3 DEF Inv, BitmapInv
<1>8. FreeOrHeld(held)' /\ FreeOrHeld(Bits(mmap) \ locked)'
  BY <1>1 DEF Inv, BitmapInv, FreeOrHeld
<1> QED
  BY <1>4, <1>5, <1>6, <1>7, <1>8 DEF Inv, BitmapInv

LEMMA InitInv ==
  ASSUME Init
  PROVE  Inv
<1>1. mmap \in MemMaps /\ locked = LockedAtBoot(mmap)
  BY DEF Init
<1>2. ASSUME SoundBoot(mmap)
      PROVE  BitmapInv
  <2>1. /\ UsablePages(mmap) \subseteq 0 .. TotalPages(mmap) - 1
        /\ FilledPages(mmap) \subseteq UsablePages(mmap)
        /\ locked = (Bits(mmap) \ UsablePages(mmap)) \cup FilledPages(mmap)
    BY <1>1, <1>2, FilledOfBitmap DEF SoundBoot, UsableIndexed
  <2>2. TotalPages(mmap) \in Nat /\ TotalPages(mmap) \in Bits(mmap)
        /\ 0 .. TotalPages(mmap) - 1 \subseteq Bits(mmap)
    BY <1>1, SlackBit
  <2>3. locked \subseteq Bits(mmap) /\ FreeOrHeld(Bits(mmap) \ locked)
    BY <2>1, <2>2 DEF FreeOrHeld
  <2>4. TotalPages(mmap) \in locked
    BY <2>1, <2>2
  <2>5. last_free \in 0 .. TotalPages(mmap)
    BY <2>2 DEF Init
  <2> QED BY <2>3, <2>4, <2>5 DEF BitmapInv
<1> QED
  BY <1>1, <1>2, SizeAssumption DEF Init, Inv, FreeOrHeld

LEMMA NextPreservesInv ==
  ASSUME Inv, [Next]_vars
  PROVE  Inv'
<1>1. CASE \E count \in 1 .. MaxRun : RequestPages(count)
  <2>1. PICK count \in 1 .. MaxRun : RequestPages(count)
    BY <1>1
  <2>2. CASE \E pi \in FirstFit(count) : Grant(pi, count)
    BY <2>1, <2>2, GrantPreservesInv DEF RequestPages
  <2>3. CASE Deny(count)
    <3>1. denied' \in 0 .. MaxRun
      BY <2>3, SizeAssumption DEF Deny
    <3> QED
      BY <2>3, <3>1 DEF Deny, Inv, BitmapInv, FreeOrHeld
  <2> QED
    BY <2>1, <2>2, <2>3 DEF RequestPages
<1>2. CASE \E p \in held : \E n \in 1 .. MaxRelease : ReleasePages(p, n)
  BY <1>2, ReleasePreservesInv
<1>3. CASE UNCHANGED vars
  BY <1>3 DEF vars, Inv, BitmapInv, FreeOrHeld
<1> QED
  BY <1>1, <1>2, <1>3 DEF Next

LEMMA SpecInv == Spec => []Inv
<1>1. Init => Inv
  BY InitInv
<1>2. Inv /\ [Next]_vars => Inv'
  BY NextPreservesInv
<1> QED
  BY <1>1, <1>2, PTL DEF Spec

-----------------------------------------------------------------------------
LEMMA BitsFinite ==
  ASSUME NEW m \in MemMaps
  PROVE  IsFiniteSet(Bits(m))
<1>1. 8 * BitmapBytes(m) - 1 \in Int
  BY SlackBit DEF BitmapBytes
<1> QED
  BY <1>1, FS_Interval DEF Bits

(* Subtracting the bytes of a subset of the free pages, or adding those of  *)
(* a set of locked ones, follows the count of the free pages.               *)
LEMMA CountDown ==
  ASSUME NEW F, IsFiniteSet(F), NEW R \in SUBSET F
  PROVE  PageSize * Cardinality(F \ R)
           = PageSize * Cardinality(F) - PageSize * Cardinality(R)
<1>1. F \cap R = R
  OBVIOUS
<1>2. Cardinality(F \ R) = Cardinality(F) - Cardinality(R)
  BY <1>1, FS_Difference
<1>3. Cardinality(F) \in Int /\ Cardinality(R) \in Int
  BY FS_Subset, FS_CardinalityType
<1>4. PageSize \in Int
  BY SizeAssumption
<1>5. \A a, b, c \in Int : a * (b - c) = a * b - a * c
  OBVIOUS
<1> QED
  BY <1>2, <1>3, <1>4, <1>5

LEMMA NextPreservesCount ==
  ASSUME Inv, FreeMemoryCount, [Next]_vars
  PROVE  FreeMemoryCount'
<1> DEFINE F == Bits(mmap) \ locked
<1>1. IsFiniteSet(Bits(mmap))
  BY BitsFinite DEF Inv
<1>2. ASSUME NEW count \in 1 .. MaxRun, NEW pi \in FirstFit(count),
             Grant(pi, count), ~ Lost
      PROVE  FreeMemoryCount'
  <2> DEFINE R == Run(pi, count)
  <2>1. pi \in Fits(count) /\ count \in Nat \ {0} /\ SoundBoot(mmap)
    BY <1>2, SizeAssumption DEF FirstFit, Lost
  <2>2. R \subseteq 0 .. TotalPages(mmap) - 1 /\ R \cap locked = {}
    BY <2>1, RunBelowSlack
  <2>3. R \subseteq F
    BY <2>2, SlackBit DEF Inv
  <2>4. /\ mmap' = mmap /\ locked' = locked \cup R
        /\ free_memory' = free_memory - PageSize * Cardinality(R \ locked)
    BY <1>2 DEF Grant, LockPages
  <2>5. R \ locked = R /\ Bits(mmap') \ locked' = F \ R
    BY <2>2, <2>4
  <2>6. IsFiniteSet(F)
    BY <1>1, FS_Difference
  <2>7. PageSize * Cardinality(F \ R)
          = PageSize * Cardinality(F) - PageSize * Cardinality(R)
    BY <2>3, <2>6, CountDown
  <2> QED
    BY <2>1, <2>4, <2>5, <2>7 DEF FreeMemoryCount
<1>3. ASSUME NEW p \in held, NEW n \in 1 .. MaxRelease, ReleasePages(p, n)
      PROVE  FreeMemoryCount'
  <2> DEFINE R == Run(p, n)
             G == Bits(mmap) \ (locked \ R)
  <2>1. /\ mmap' = mmap /\ R \subseteq held /\ locked' = locked \ R
        /\ free_memory'
             = free_memory + PageSize * Cardinality(R \cap locked)
        /\ SoundBoot(mmap)
    BY <1>3 DEF ReleasePages, UnlockPages, Lost
  <2>2. R \cap locked = R /\ R \subseteq G /\ G \ R = F
    BY <2>1 DEF Inv, BitmapInv
  <2>3. IsFiniteSet(G)
    BY <1>1, FS_Difference
  <2>4. PageSize * Cardinality(F)
          = PageSize * Cardinality(G) - PageSize * Cardinality(R)
    BY <2>2, <2>3, CountDown
  <2>5. /\ PageSize * Cardinality(G) \in Int
        /\ PageSize * Cardinality(R) \in Int
    BY <2>2, <2>3, FS_Subset, FS_CardinalityType, SizeAssumption
  <2>6. Bits(mmap') \ locked' = G
    BY <2>1
  <2>7. free_memory' = free_memory + PageSize * Cardinality(R)
    BY <2>1, <2>2
  <2>8. free_memory = PageSize * Cardinality(G) - PageSize * Cardinality(R)
    BY <2>1, <2>4 DEF FreeMemoryCount
  <2>9. free_memory' = PageSize * Cardinality(G)
    <3> HIDE DEF G, R
    <3> QED
      BY <2>5, <2>7, <2>8
  <2> QED
    BY <2>6, <2>9 DEF FreeMemoryCount
<1>4. ASSUME NEW count \in 1 .. MaxRun, Deny(count)
      PROVE  FreeMemoryCount'
  BY <1>4 DEF Deny, FreeMemoryCount
<1>5. CASE UNCHANGED vars
  BY <1>5 DEF vars, FreeMemoryCount
<1> QED
  BY <1>2, <1>3, <1>4, <1>5 DEF Next, RequestPages

(* free_memory is the number of bytes whose bit is clear, always.           *)
THEOREM FreeMemoryCountHolds == Spec => []FreeMemoryCount
<1>1. Init => FreeMemoryCount
  BY DEF Init, FreeMemoryCount
<1>2. Inv /\ FreeMemoryCount /\ [Next]_vars => FreeMemoryCount'
  BY NextPreservesCount
<1> QED
  BY <1>1, <1>2, SpecInv, PTL DEF Spec

(* The type invariant: in particular the size_t free_memory never wraps.    *)
THEOREM TypeOKHolds == Spec => []TypeOK
<1>1. Inv /\ FreeMemoryCount => TypeOK
  <2> SUFFICES ASSUME Inv, FreeMemoryCount
               PROVE  TypeOK
    OBVIOUS
  <2>1. IsFiniteSet(Bits(mmap) \ locked)
    BY BitsFinite, FS_Difference DEF Inv
  <2>2. SoundBoot(mmap) => free_memory \in Nat
    BY <2>1, FS_CardinalityType, SizeAssumption DEF FreeMemoryCount
  <2>3. SoundBoot(mmap) => held \subseteq 0 .. TotalPages(mmap) - 1
    BY DEF Inv, FreeOrHeld, SoundBoot, UsableIndexed
  <2> QED
    BY <2>2, <2>3 DEF Inv, BitmapInv, TypeOK
<1> QED
  BY <1>1, SpecInv, FreeMemoryCountHolds, PTL

(* No page frame is granted while a client holds it.                        *)
THEOREM NoDoubleGrantHolds == Spec => []NoDoubleGrant
<1>1. Inv => NoDoubleGrant
  BY DEF Inv, NoDoubleGrant
<1> QED
  BY <1>1, SpecInv, PTL

(* Granted pages are usable memory, and none of those the bitmap fills.     *)
THEOREM GrantedPagesUsableHolds == Spec => []GrantedPagesUsable
<1>1. Inv => GrantedPagesUsable
  BY DEF Inv, FreeOrHeld, GrantedPagesUsable
<1> QED
  BY <1>1, SpecInv, PTL

(* The unchecked inner loop of pmm_request_pages stops inside the bitmap.   *)
THEOREM ScanStopsInBitmapHolds == Spec => []ScanStopsInBitmap
<1>1. Inv => ScanStopsInBitmap
  <2> SUFFICES ASSUME Inv, SoundBoot(mmap), NEW pi \in 0 .. TotalPages(mmap) - 1
               PROVE  \E b \in locked \cap Bits(mmap) : pi <= b
    BY DEF ScanStopsInBitmap
  <2>1. TotalPages(mmap) \in Nat
    BY SlackBit DEF Inv
  <2>2. TotalPages(mmap) \in locked \cap Bits(mmap) /\ pi <= TotalPages(mmap)
    BY <2>1 DEF Inv, BitmapInv
  <2> QED
    BY <2>2
<1> QED
  BY <1>1, SpecInv, PTL

(* pmm.c implements the pool of frames: a request takes free frames only,   *)
(* a release gives back frames that were held.                              *)
THEOREM ImplementsFramePoolHolds == Spec => ImplementsFramePool
<1>1. Init => Pool!Init
  BY DEF Init, Pool!Init
<1>2. Inv /\ [Next]_vars => [Pool!Next]_(Pool!vars)
  <2> SUFFICES ASSUME Inv, [Next]_vars
               PROVE  [Pool!Next]_(Pool!vars)
    OBVIOUS
  <2> DEFINE free == Bits(mmap) \ locked
  <2>1. ASSUME NEW count \in 1 .. MaxRun, NEW pi \in FirstFit(count),
               Grant(pi, count), ~ Lost
        PROVE  Pool!Next
    <3> DEFINE R == Run(pi, count)
    <3>1. pi \in Fits(count) /\ count \in Nat \ {0} /\ SoundBoot(mmap)
      BY <2>1, SizeAssumption DEF FirstFit, Lost
    <3>2. R \subseteq 0 .. TotalPages(mmap) - 1 /\ R \cap locked = {}
      BY <3>1, RunBelowSlack
    <3>3. R \subseteq free
      BY <3>2, SlackBit DEF Inv
    <3>4. mmap' = mmap /\ locked' = locked \cup R /\ held' = held \cup R
      BY <2>1 DEF Grant, LockPages
    <3>5. Pool!RequestPages(R)
      BY <3>3, <3>4 DEF Pool!RequestPages
    <3> QED
      BY <3>3, <3>5 DEF Pool!Next
  <2>2. ASSUME NEW p \in held, NEW n \in 1 .. MaxRelease, ReleasePages(p, n)
        PROVE  Pool!Next
    <3> DEFINE R == Run(p, n)
    <3>1. /\ mmap' = mmap /\ R \subseteq held
          /\ locked' = locked \ R /\ held' = held \ R
          /\ SoundBoot(mmap)
      BY <2>2 DEF ReleasePages, UnlockPages, Lost
    <3>2. R \subseteq Bits(mmap)
      BY <3>1 DEF Inv, BitmapInv
    <3>3. Pool!ReleasePages(R)
      BY <3>1, <3>2 DEF Pool!ReleasePages
    <3> QED
      BY <3>1, <3>3 DEF Pool!Next
  <2>3. ASSUME NEW count \in 1 .. MaxRun, Deny(count)
        PROVE  UNCHANGED Pool!vars
    BY <2>3 DEF Deny, Pool!vars
  <2>4. CASE UNCHANGED vars
    BY <2>4 DEF vars, Pool!vars
  <2> QED
    BY <2>1, <2>2, <2>3, <2>4 DEF Next, RequestPages
<1> QED
  BY <1>1, <1>2, SpecInv, PTL DEF Spec, ImplementsFramePool, Pool!Spec
=============================================================================
