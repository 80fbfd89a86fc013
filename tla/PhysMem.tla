------------------------------- MODULE PhysMem -------------------------------
(***************************************************************************)
(* The physical memory manager (memory/pmm.c, memory/bitmap.c): a bitmap   *)
(* with one bit per page frame, a next-fit cursor last_free, and a count   *)
(* of the free bytes.  A frame is named by its page index.  The bitmap is  *)
(* the set of the indices whose bit is 1; a byte has 8 bits, as in the     *)
(* code, and PageSize stands for 0x1000.  The kernel calls the allocator   *)
(* with interrupts disabled on one CPU, so every call is one step.         *)
(***************************************************************************)
EXTENDS Integers, FiniteSets, Functions

CONSTANTS PageSize,    \* bytes per page
          MemMaps,     \* the memory maps the boot loader may pass
          MaxRun,      \* bound: largest page count of one request
          MaxRelease   \* bound: largest page count of one release (0: none)

(* An entry of a memory map, page granular: [base, length, usable]. *)
TotalPages(m) == SumFunction([i \in DOMAIN m |-> m[i].length])

EntryPages(e) == e.base .. e.base + e.length - 1

UsablePages(m) ==
  UNION {EntryPages(m[i]) : i \in {j \in DOMAIN m : m[j].usable}}

IsEntry(e) == /\ e.base \in Nat /\ e.length \in Nat \ {0}
              /\ e.usable \in BOOLEAN

ASSUME SizeAssumption ==
  /\ PageSize \in Nat \ {0} /\ MaxRun \in Nat /\ MaxRelease \in Nat

ASSUME MapAssumption ==
  \A m \in MemMaps :
    /\ TotalPages(m) \in Nat /\ DOMAIN m \subseteq Nat
    /\ \A i \in DOMAIN m : IsEntry(m[i])
    /\ \E i \in DOMAIN m : /\ m[i].usable
                           /\ \A j \in DOMAIN m : m[j].usable => m[j].length <= m[i].length

(* A memory map of which every usable page has an index the bitmap holds a *)
(* page bit for.  It fails when address space no entry describes lies      *)
(* below usable memory: total_memory adds lengths, the index is absolute.  *)
UsableIndexed(m) == UsablePages(m) \subseteq 0 .. TotalPages(m) - 1

VARIABLES mmap,         \* the memory map of this boot
          locked,       \* indices of the bits set in page_bitmap
          last_free,    \* where the next search starts
          free_memory,  \* bytes
          held,         \* ghost: pages clients hold
          twice,        \* ghost: pages granted while a client held them
          denied        \* ghost: count of the request just answered NULL, or 0

vars == <<mmap, locked, last_free, free_memory, held, twice, denied>>

-----------------------------------------------------------------------------
(* pmm_initialize *)

BitmapBytesNoSlack(m) == TotalPages(m) \div 8

BitmapBytes(m) == TotalPages(m) \div 8 + 1

(* Every bit of the bitmap: those past TotalPages are slack. *)
Bits(m) == 0 .. 8 * BitmapBytes(m) - 1

(* The first of the usable entries of greatest length. *)
LargestEntry(m) ==
  LET usable == {i \in DOMAIN m : m[i].usable}
      largest == {i \in usable : \A j \in usable : m[j].length <= m[i].length}
  IN m[CHOOSE i \in largest : \A j \in largest : i <= j]

(* Number of pages locked for the bitmap itself: rounded down. *)
BitmapPageCount(m) == BitmapBytes(m) \div PageSize

LockedAtBootSwapped(m) ==    \* the bitmap locked before USABLE is unlocked
  Bits(m) \ UsablePages(m)

LockedAtBoot(m) ==
  LET base == LargestEntry(m).base
  IN (Bits(m) \ UsablePages(m)) \cup (base .. base + BitmapPageCount(m) - 1)

(* The pages the bytes of the bitmap really lie in, and those it fills.     *)
BitmapPages(m) ==
  LET base == LargestEntry(m).base
  IN base .. base + (BitmapBytes(m) - 1) \div PageSize

FilledPages(m) ==
  LET base == LargestEntry(m).base
  IN base .. base + BitmapBytes(m) \div PageSize - 1

(* The maps for which pmm_initialize writes nothing but a bitmap in usable  *)
(* memory.  For the others it changes bits behind the bitmap, or what lies  *)
(* behind an entry too small for it, and the model stops there.             *)
SoundBoot(m) == UsableIndexed(m) /\ BitmapPages(m) \subseteq UsablePages(m)

Init ==
  /\ mmap \in MemMaps
  /\ locked = LockedAtBoot(mmap)
  /\ last_free = 0
  /\ free_memory = PageSize * Cardinality(Bits(mmap) \ locked)
  /\ held = {}
  /\ twice = {}
  /\ denied = 0

(* A client holds a page with bytes of the bitmap and may write them: from  *)
(* there on, as after a boot that is not sound, the bits are anything and   *)
(* the model stops.                                                         *)
Lost == ~ SoundBoot(mmap) \/ held \cap BitmapPages(mmap) # {}

-----------------------------------------------------------------------------
(* pmm_request_pages and pmm_release_pages *)

Run(pi, count) == pi .. pi + count - 1

IsFreeFirstOnly(pi, count) == pi \notin locked

(* The inner loop of the search, which stops at the first locked bit. *)
IsFree(pi, count) == \A i \in Run(pi, count) : i \notin locked

(* Where the search may succeed: it starts at last_free and ends with the *)
(* last page, and takes the first index that fits.                        *)
SearchRange == last_free .. TotalPages(mmap) - 1

Fits(count) == {pi \in SearchRange : IsFree(pi, count)}

FirstFit(count) == {pi \in Fits(count) : \A q \in Fits(count) : pi <= q}

CursorAfterGrant(pi, count) == pi + count

LockPagesShort(S) ==
  /\ locked' = locked \cup {i \in S : i + 1 \in S}
  /\ free_memory' = free_memory - PageSize * Cardinality(S \ locked)

(* lock_pages on a run of unlocked pages *)
LockPages(S) ==
  /\ locked' = locked \cup S
  /\ free_memory' = free_memory - PageSize * Cardinality(S \ locked)

UnlockPagesUncounted(S) == locked' = locked \ S /\ UNCHANGED free_memory

(* unlock_pages *)
UnlockPages(S) ==
  /\ locked' = locked \ S
  /\ free_memory' = free_memory + PageSize * Cardinality(S \cap locked)

Grant(pi, count) ==
  /\ last_free' = CursorAfterGrant(pi, count)
  /\ LockPages(Run(pi, count))
  /\ twice' = twice \cup (held \cap Run(pi, count))
  /\ held' = held \cup Run(pi, count)
  /\ denied' = 0
  /\ UNCHANGED mmap

Deny(count) ==
  /\ Fits(count) = {}
  /\ denied' = count
  /\ UNCHANGED <<mmap, locked, last_free, free_memory, held, twice>>

RequestPages(count) ==
  /\ ~ Lost
  /\ \/ \E pi \in FirstFit(count) : Grant(pi, count)
     \/ Deny(count)

(* p is compared as the byte address it is, last_free holds a page index. *)
CursorAfterRelease(p) ==
  IF p * PageSize < last_free THEN p * PageSize ELSE last_free

(* A client releases pages it holds, all or part of what a request gave. *)
ReleasePages(p, n) ==
  /\ ~ Lost
  /\ Run(p, n) \subseteq held
  /\ UnlockPages(Run(p, n))
  /\ last_free' = CursorAfterRelease(p)
  /\ held' = held \ Run(p, n)
  /\ denied' = 0
  /\ UNCHANGED <<mmap, twice>>

Next ==
  \/ \E count \in 1 .. MaxRun : RequestPages(count)
  \/ \E p \in held : \E n \in 1 .. MaxRelease : ReleasePages(p, n)

Spec == Init /\ [][Next]_vars

-----------------------------------------------------------------------------
(* Properties *)

(* Types and ranges: the cursor never passes the last page, and the free    *)
(* count never becomes negative (it is a size_t in pmm.c).                  *)
TypeOK ==
  /\ mmap \in MemMaps
  /\ twice \subseteq held
  /\ denied \in 0 .. MaxRun
  /\ SoundBoot(mmap) =>
       /\ locked \subseteq Bits(mmap)
       /\ last_free \in 0 .. TotalPages(mmap)
       /\ free_memory \in Nat
       /\ held \subseteq 0 .. TotalPages(mmap) - 1

(* No page is granted while a client holds it, whatever the order of the    *)
(* requests and (partial) releases: lock_pages and unlock_pages keep the    *)
(* bitmap equal to what clients hold, although the cursor is moved wrongly. *)
NoDoubleGrant == twice = {}

(* A granted page lies in a USABLE entry and is none of those the bitmap    *)
(* fills: the runs the search accepts never cross a reserved entry nor      *)
(* reach the pages pmm_initialize locks for itself.  (The last page of the  *)
(* bitmap, which it need not fill, is granted: see BitmapKept.)             *)
GrantedPagesUsable ==
  held \subseteq UsablePages(mmap) \ FilledPages(mmap)

(* pmm.c:63, "lock bitmap pages": no page with a byte of the bitmap is      *)
(* granted.                                                                 *)
BitmapKept == held \cap BitmapPages(mmap) = {}

(* The inner loop of pmm_request_pages has no bound check: pi + i may pass  *)
(* the last page.  The slack bits past it stay set, so the loop stops at a  *)
(* bit inside the bitmap whatever count is asked for.                       *)
ScanStopsInBitmap ==
  SoundBoot(mmap) =>
    \A pi \in 0 .. TotalPages(mmap) - 1 :
      \E b \in locked \cap Bits(mmap) : pi <= b

(* free_memory, kept by adding and subtracting in lock_page and             *)
(* unlock_page, is the number of bytes whose bit is clear.                  *)
FreeMemoryCount ==
  SoundBoot(mmap) =>
    free_memory = PageSize * Cardinality(Bits(mmap) \ locked)

(* pmm.h:8-10: the manager provides page frames on request.  It answers     *)
(* NULL only when no run of that many pages is free.                        *)
NullOnlyWhenFull ==
  denied # 0 =>
    \A pi \in 0 .. TotalPages(mmap) - denied : ~ IsFree(pi, denied)

(* pmm.c implements the pool of frames its clients rely on.                 *)
Pool == INSTANCE FramePool
          WITH free <- Bits(mmap) \ locked, used <- held

ImplementsFramePool == Pool!Spec
=============================================================================
