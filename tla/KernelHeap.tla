------------------------------ MODULE KernelHeap ------------------------------
(***************************************************************************)
(* The kernel heap (malloc, mfree of libk/alloc.c): a list of chunks, each *)
(* a header followed by its block, that tile memory from the start of the  *)
(* heap region to the end of what is mapped, and a tail header of size 0.  *)
(*                                                                         *)
(* Addresses and sizes are in bytes, addresses relative to alloc.start.    *)
(* hdr maps the address of every header on the list to its contents, so    *)
(* the walk of malloc, which goes up in memory, stops at the lowest header *)
(* that fits.  Three things the code does leave memory that is no list any *)
(* more (see Take and MfreeAstray); the model shows that they do and then  *)
(* stops, without following what is written after that.                    *)
(*                                                                         *)
(* Clients free only blocks they hold, each once, and write only in their  *)
(* blocks.  Heap calls run with interrupts disabled.  vmm_request_at finds *)
(* a frame for every page here; what it does when there is none is in      *)
(* CowKernel.                                                              *)
(***************************************************************************)
EXTENDS Integers

CONSTANTS HeaderSize,  \* sizeof(struct chunk_hdr)
          PageSize,    \* 0x1000
          HeapSize,    \* KERNEL_HEAP_VIRTUAL_END - KERNEL_HEAP_VIRTUAL_START
          SizeMod,     \* 2^64, the number of values of a size_t
          Sizes        \* bound: the sizes clients ask for

ASSUME SizeAssumption ==
  /\ HeaderSize \in Nat \ {0} /\ HeapSize \in Nat
  /\ PageSize \in Nat /\ PageSize > 2 * HeaderSize
  /\ SizeMod \in Nat
  /\ Sizes \subseteq Nat
  /\ \A n \in Sizes : n + HeaderSize < SizeMod

VARIABLES hdr,     \* the headers on the list: [in_use, size, size_prev]
          mapped,  \* the end of the memory vmm_request_at has mapped
          blocks,  \* ghost: the blocks clients hold, [at, size]
          list     \* ghost: "intact", or why memory is no list any more

vars == <<hdr, mapped, blocks, list>>

intact == list = "intact"

(* struct chunk_hdr *)
HeaderType == [in_use : BOOLEAN, size : Nat, size_prev : Nat]

Header(u, s, p) == [in_use |-> u, size |-> s, size_prev |-> p]

Resized(h, s) == Header(h.in_use, s, h.size_prev)

(* NEXT_HDR and PREV_HDR; the second goes back by the size of its argument. *)
NextHdr(f, a) == a + f[a].size + HeaderSize

PrevHdr(f, a) == a - f[a].size - HeaderSize

-----------------------------------------------------------------------------
(* _malloc_init *)

Init ==
  LET size == PageSize - 2 * HeaderSize
      tail == PageSize - HeaderSize
  IN /\ hdr = [a \in {0, tail} |-> IF a = 0 THEN Header(FALSE, size, 0)
                                            ELSE Header(TRUE, 0, size)]
     /\ mapped = PageSize
     /\ blocks = {}
     /\ list = "intact"

-----------------------------------------------------------------------------
(* malloc *)

Need(n) == n + HeaderSize

SizeMinus(x, y) == IF y <= x THEN x - y ELSE x - y + SizeMod

(* Where the walk may stop: at a free chunk with room for the block and a  *)
(* header, or at the end of the list.                                      *)
FitsAny(n) == {a \in DOMAIN hdr : hdr[a].size >= Need(n)}

Fits(n) == {a \in DOMAIN hdr : ~ hdr[a].in_use /\ hdr[a].size >= Need(n)}

Ends == {a \in DOMAIN hdr : hdr[a].size = 0}

Stops(n) == Fits(n) \cup Ends

Found(n) == {a \in Stops(n) : \A b \in Stops(n) : a <= b}

(* What is left of a chunk behind the block is a free chunk.  The header   *)
(* behind that keeps its size_prev.                                        *)
SplitNoHeader(f, a, n) ==
  LET rest == a + Need(n)
  IN [b \in DOMAIN f \cup {rest} |->
        IF b = a THEN Header(TRUE, n, f[a].size_prev)
        ELSE IF b = rest THEN Header(FALSE, SizeMinus(f[a].size, n), n)
        ELSE f[b]]

Split(f, a, n) ==
  LET rest == a + Need(n)
  IN [b \in DOMAIN f \cup {rest} |->
        IF b = a THEN Header(TRUE, n, f[a].size_prev)
        ELSE IF b = rest THEN Header(FALSE, SizeMinus(f[a].size, Need(n)), n)
        ELSE f[b]]

(* The block goes to the client.  If the chunk has no byte to spare the    *)
(* rest is a header of size 0, in the middle of the list; if it is too     *)
(* small the size of the rest wraps around (all sizes are size_t).         *)
Take(f, a, n) ==
  /\ hdr' = Split(f, a, n)
  /\ list' = CASE f[a].size > Need(n) -> "intact"
               [] f[a].size = Need(n) -> "exact"
               [] OTHER               -> "short"
  /\ blocks' = blocks \cup {[at |-> a + HeaderSize, size |-> n]}

(* The bytes of the pages appended for a request. *)
Growth(n) == PageSize * ((Need(n) + PageSize - 1) \div PageSize)

(* The tail becomes the header of the appended chunk, with a new tail at   *)
(* the end of the appended pages.                                          *)
Grown(a, n) ==
  LET size == Growth(n) - HeaderSize
      tail == a + Growth(n)
  IN [b \in DOMAIN hdr \cup {tail} |->
        IF b = a THEN Resized(hdr[a], size)
        ELSE IF b = tail THEN Header(TRUE, 0, size)
        ELSE hdr[b]]

MallocFit(n) ==
  /\ intact /\ n # 0
  /\ \E a \in Found(n) : hdr[a].size # 0 /\ Take(hdr, a, n)
  /\ UNCHANGED mapped

(* Only the start of the appended memory is compared with the region's end. *)
MallocGrow(n) ==
  /\ intact /\ n # 0
  /\ \E a \in Found(n) : /\ hdr[a].size = 0
                         /\ a + HeaderSize <= HeapSize
                         /\ mapped' = a + HeaderSize + Growth(n)
                         /\ Take(Grown(a, n), a, n)

MallocNull(n) ==
  /\ intact
  /\ \/ n = 0
     \/ \E a \in Found(n) : hdr[a].size = 0 /\ a + HeaderSize > HeapSize
  /\ UNCHANGED vars

-----------------------------------------------------------------------------
(* mfree *)

(* The chunk at x, which is the one behind a, becomes part of a's. *)
Merge(f, a, x) ==
  [b \in DOMAIN f \ {x} |->
     IF b = a THEN Resized(f[a], f[a].size + f[x].size + HeaderSize) ELSE f[b]]

(* size_prev behind both is set to the size of the second alone. *)
WithSizePrev(f, a, s) ==
  [b \in DOMAIN f |-> IF b = a THEN Header(f[b].in_use, f[b].size, s) ELSE f[b]]

MergeInUse(f, a) ==
  LET next == NextHdr(f, a)
  IN IF f[next].size = 0 THEN f
     ELSE WithSizePrev(Merge(f, a, next), NextHdr(f, next), f[next].size)

(* The free chunk at a and the one behind it, unless that is in use or the *)
(* tail.                                                                   *)
MergeNext(f, a) ==
  LET next == NextHdr(f, a)
  IN IF f[next].in_use \/ f[next].size = 0 THEN f
     ELSE WithSizePrev(Merge(f, a, next), NextHdr(f, next), f[next].size)

Unused(a) ==
  [b \in DOMAIN hdr |->
     IF b = a THEN Header(FALSE, hdr[a].size, hdr[a].size_prev) ELSE hdr[b]]

(* PREV_HDR(a) is the header before a: their sizes are the same. *)
PrevIsAdjacent(a) ==
  LET p == PrevHdr(hdr, a) IN p \in DOMAIN hdr /\ NextHdr(hdr, p) = a

(* What mfree may read as in_use at PREV_HDR(a): any byte if that is the   *)
(* address of no header.  Nothing is mapped below the heap.                *)
PrevMayRead(a, u) ==
  /\ PrevHdr(hdr, a) >= 0
  /\ PrevHdr(hdr, a) \in DOMAIN hdr => hdr[PrevHdr(hdr, a)].in_use = u

MfreeAlone(a) ==
  /\ hdr[a].size_prev = 0 \/ PrevMayRead(a, TRUE)
  /\ hdr' = MergeNext(Unused(a), a)
  /\ UNCHANGED list

MfreeWithPrev(a) ==
  /\ hdr[a].size_prev # 0
  /\ PrevIsAdjacent(a) /\ PrevMayRead(a, FALSE)
  /\ LET p == PrevHdr(hdr, a)
     IN hdr' = MergeNext(Merge(hdr, p, a), p)
  /\ UNCHANGED list

(* Bytes that are no previous header are read as a free one and written,   *)
(* or reading below the heap is a page fault.                              *)
MfreeAstray(a) ==
  /\ hdr[a].size_prev # 0
  /\ ~ PrevIsAdjacent(a)
  /\ PrevMayRead(a, FALSE) \/ PrevHdr(hdr, a) < 0
  /\ hdr' = Unused(a)
  /\ list' = "astray"

Mfree(b) ==
  /\ intact
  /\ \/ MfreeAlone(b.at - HeaderSize)
     \/ MfreeWithPrev(b.at - HeaderSize)
     \/ MfreeAstray(b.at - HeaderSize)
  /\ blocks' = blocks \ {b}
  /\ UNCHANGED mapped

Next ==
  \/ \E n \in Sizes : MallocFit(n) \/ MallocGrow(n) \/ MallocNull(n)
  \/ \E b \in blocks : Mfree(b)

Spec == Init /\ [][Next]_vars

-----------------------------------------------------------------------------
(* Properties *)

(* The state keeps its types; every size written is a size_t, not negative. *)
TypeOK ==
  /\ DOMAIN hdr \subseteq Nat
  /\ hdr \in [DOMAIN hdr -> HeaderType]
  /\ mapped \in Nat
  /\ blocks \subseteq [at : Nat, size : Nat]
  /\ list \in {"intact", "exact", "short", "astray"}

(* From header to header NEXT_HDR reaches the tail, at the end of the       *)
(* mapped memory, and passes over no header: no byte of the heap is lost    *)
(* or in two chunks, whatever was split, appended and merged.               *)
Tiles(f, end) ==
  /\ {0, end - HeaderSize} \subseteq DOMAIN f
  /\ f[end - HeaderSize].size = 0 /\ f[end - HeaderSize].in_use
  /\ \A a \in DOMAIN f : a <= end - HeaderSize
  /\ \A a \in DOMAIN f \ {end - HeaderSize} :
       /\ f[a].size > 0
       /\ NextHdr(f, a) \in DOMAIN f
       /\ \A b \in DOMAIN f : b <= a \/ NextHdr(f, a) <= b

HeadersTile == intact => Tiles(hdr, mapped)

(* The chunks in use are the blocks clients hold: a block keeps its header, *)
(* with its size, until it is freed, and none is forgotten.                 *)
ChunksOf(f) == {a \in DOMAIN f : f[a].in_use /\ f[a].size # 0}

BlockOf(f, a) == [at |-> a + HeaderSize, size |-> f[a].size]

Blocks(f) == {BlockOf(f, a) : a \in ChunksOf(f)}

BlocksAreChunks == intact => blocks = Blocks(hdr)

(* No two blocks share a byte, and every block lies in mapped memory, with  *)
(* room for the tail behind it: what one client writes in its block changes *)
(* no header and nothing of another client.                                 *)
BlocksDisjoint ==
  intact =>
    /\ \A b \in blocks : b.at + b.size + HeaderSize <= mapped
    /\ \A b, c \in blocks :
         b.at < c.at => b.at + b.size + HeaderSize <= c.at
    /\ \A b, c \in blocks : b.at = c.at => b = c
=============================================================================
