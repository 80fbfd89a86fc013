------------------------------ MODULE PageTables ------------------------------
(***************************************************************************)
(* The page-table trees of memory/paging.c and the handlers that change    *)
(* them: task_create, fork, copy-on-write, heap growth and the switch of   *)
(* cr3.  CowKernel has flat maps in their place.                           *)
(*                                                                         *)
(* Three levels stand for four and Fanout for 512, so level 2 is every     *)
(* level that is neither top nor leaf.  A page is its number, the address  *)
(* without its offset.  An operator on tables takes the machine, a record  *)
(* of the variables of Machine, and returns the one it leaves behind.      *)
(***************************************************************************)
EXTENDS Integers, FiniteSets, SequencesExt

CONSTANTS Fanout,     \* entries of a table
          UserTop,    \* entries of the top table for user space, 256 of 512
          Frames,     \* page frames handed out by pmm.c
          HighMem,    \* frames above 4 GiB that the memory map lists
          DirtySets,  \* frames that are not zero at boot, one set per behaviour
          JunkFrame,  \* the frame every entry of a dirty frame refers to
          PageBytes,  \* bytes of a page
          Images,     \* ELF images: sequences of loadable segments
          HeapRoom,   \* pages of the heap region
          GrowPages,  \* pages by which malloc of a task may grow the heap
          Tasks       \* bound: tasks that may be created

Idx == 0 .. Fanout - 1
Pages == 0 .. Fanout * Fanout * Fanout - 1
Higher == UserTop * Fanout * Fanout
HeapStart == Higher + 2 * Fanout
HeapPages == HeapStart .. HeapStart + HeapRoom - 1
CopyPage == HeapStart + HeapRoom
StackPage == Higher - 1
UserPages == 0 .. Higher - 1

(* The heap and the window for copies have one table of leaves in common; in *)
(* the code the heap spans many, all of them made at boot like this one.     *)
ASSUME SizeAssumption ==
  /\ Fanout \in Nat /\ UserTop \in 1 .. Fanout - 2 /\ HeapRoom \in 1 .. Fanout - 1
  /\ HighMem \subseteq Fanout .. 2 * Fanout - 1
  /\ Frames \subseteq Nat \ {0} /\ JunkFrame \in Frames /\ PageBytes \in Nat \ {0}

(* Segments are loaded below the kernel.                                    *)
ASSUME ImageAssumption ==
  /\ Images \subseteq Seq([vaddr : Nat, memsz : Nat \ {0}])
  /\ \A im \in Images : \A s \in Range(im) : s.vaddr + s.memsz <= Higher * PageBytes
  /\ GrowPages \subseteq Nat /\ Tasks \in Nat \ {0}

VARIABLES mem,        \* mem[f]: frame f read as a table
          free,       \* frames pmm.c has not handed out
          kernel_table,
          space,      \* space[t]: the top table of task t
          cr3,        \* the task whose table is loaded, 0 before the first
          heap_end,   \* the page behind the last of the heap
          image,      \* ghost: the ELF image of the tasks
          exhausted,  \* ghost: pmm.c has answered NULL
          stale,      \* ghost: a copied table kept entries of its frame
          flushed     \* ghost: pages flushed by the last step

machine == <<mem, free, exhausted, stale, flushed>>
vars == <<machine, kernel_table, space, cr3, heap_end, image>>

Machine == [mem |-> mem, free |-> free, exhausted |-> exhausted,
            stale |-> stale, flushed |-> {}]
Becomes(m) == /\ mem' = m.mem /\ free' = m.free /\ exhausted' = m.exhausted
              /\ stale' = m.stale /\ flushed' = m.flushed

(* Physical memory as far as it matters, and entries of tables *)
Memory == {0} \cup Frames \cup HighMem
Entry == [frame : Memory, flags : SUBSET {"P", "W", "U", "H"}]

Absent == [frame |-> 0, flags |-> {}]
Present(e) == "P" \in e.flags
Huge(e) == "H" \in e.flags
ZeroTable == [i \in Idx |-> Absent]
JunkTable == [i \in Idx |-> [frame |-> JunkFrame, flags |-> {"P", "W", "U"}]]

-----------------------------------------------------------------------------
(* Operations *)

(* pmm_request_pages(1), and palloc(1): nobody looks for NULL, frame 0. *)
Request(m) ==
  IF m.free = {} THEN [m |-> [m EXCEPT !.exhausted = TRUE], frame |-> 0]
  ELSE LET f == Min(m.free) IN [m |-> [m EXCEPT !.free = @ \ {f}], frame |-> f]

Write(m, f, table) == [m EXCEPT !.mem[f] = table]
SetEntry(m, f, i, e) == [m EXCEPT !.mem[f][i] = e]

(* paging_flush_tlb *)
Flush(m, v) == [m EXCEPT !.flushed = @ \cup {v}]

(* vaddr_to_index *)
Top(v) == v \div (Fanout * Fanout)
Mid(v) == (v \div Fanout) % Fanout
Low(v) == v % Fanout

(* Entries that are not leaves get write and user access below Higher only. *)
LinkFlagsKernel(v) == {"P"}
LinkFlags(v) == IF v < Higher THEN {"P", "W", "U"} ELSE {"P"}

(* The table below entry i, created if there is none *)
Child(m, table, i, flags) ==
  LET new == Request(m)
  IN  IF Present(m.mem[table][i]) THEN [m |-> m, table |-> m.mem[table][i].frame]
      ELSE [m |-> SetEntry(Write(new.m, new.frame, ZeroTable), table, i,
                           [frame |-> new.frame, flags |-> flags]),
            table |-> new.frame]

PagingMap(m, table, v, f, flags) ==
  LET mid == Child(m, table, Top(v), LinkFlags(v))
      leaf == Child(mid.m, mid.table, Mid(v), LinkFlags(v))
  IN  Flush(SetEntry(leaf.m, leaf.table, Low(v),
                     [frame |-> f, flags |-> flags \cup {"P"}]), v)

PagingGet(m, table, v) ==
  LET top == m.mem[table][Top(v)]
      mid == m.mem[top.frame][Mid(v)]
  IN  CASE ~ Present(top) -> Absent
        [] Present(top) /\ Huge(top) -> top
        [] Present(top) /\ ~ Huge(top) /\ ~ Present(mid) -> Absent
        [] Present(top) /\ ~ Huge(top) /\ Present(mid) /\ Huge(mid) -> mid
        [] OTHER -> m.mem[mid.frame][Low(v)]

PagingUnmap(m, table, v) ==
  LET top == m.mem[table][Top(v)]
      mid == m.mem[top.frame][Mid(v)]
  IN  IF Present(top) /\ Present(mid)
        THEN Flush(SetEntry(m, mid.frame, Low(v), Absent), v)
        ELSE m

PagingCreateEmpty(m) ==
  LET new == Request(m)
  IN  [new EXCEPT !.m = Write(new.m, new.frame, [i \in Idx |->
         IF i < UserTop THEN Absent ELSE m.mem[kernel_table][i]])]

(* paging_copy_recursive, level by level: an entry of a table of leaves ...  *)
CopyLeafShared(m, dst, src, i) == SetEntry(m, dst, i, m.mem[src][i])
CopyLeaf(m, dst, src, i) ==
  LET e == m.mem[src][i]
      new == Request(m)
  IN  IF ~ Present(e) THEN m
      ELSE SetEntry(Write(new.m, new.frame, m.mem[e.frame]), dst, i,
                    [e EXCEPT !.frame = new.frame])

CopyMid(m, dst, src) ==
  LET after[n \in 0 .. Fanout] ==
        IF n = 0 THEN m ELSE CopyLeaf(after[n - 1], dst, src, n - 1)
  IN  after[Fanout]

(* ... and one of the top table, whose new table nobody clears.              *)
CopyTop(m, dst, src, i) ==
  LET e == m.mem[src][i]
      new == Request(m)
      m1 == [new.m EXCEPT !.stale = @ \/ m.mem[new.frame] # ZeroTable]
  IN  IF ~ Present(e) THEN m
      ELSE SetEntry(CopyMid(m1, new.frame, e.frame), dst, i,
                    [e EXCEPT !.frame = new.frame])

PagingCopy(m, src) ==
  LET new == PagingCreateEmpty(m)
      after[n \in 0 .. UserTop] ==
        IF n = 0 THEN new.m ELSE CopyTop(after[n - 1], new.frame, src, n - 1)
  IN  [new EXCEPT !.m = after[UserTop]]

(* The address of entry i below the entry of number v *)
EntryAddressFlat(v, i) == i
EntryAddress(v, i) == v * Fanout + i

ReadOnlyEntry(e) == [e EXCEPT !.flags = @ \ {"W"}]

(* Nothing the walk reads is changed by it, so its order does not matter.    *)
PagingMakeReadonly(m, table) ==
  LET mid(i) == m.mem[table][i].frame
      visited == {p \in (0 .. UserTop - 1) \X Idx :
                    Present(m.mem[table][p[1]]) /\ Present(m.mem[mid(p[1])][p[2]])}
      leaves == {m.mem[mid(p[1])][p[2]].frame : p \in visited}
  IN  [m EXCEPT
         !.flushed = @ \cup {EntryAddress(EntryAddress(p[1], p[2]), k) :
                               p \in visited, k \in Idx},
         !.mem = [f \in Memory |-> [k \in Idx |->
                    IF f \in leaves THEN ReadOnlyEntry(m.mem[f][k])
                    ELSE m.mem[f][k]]]]

(* vmm_request_at: n pages from v; a present page stays as it is. *)
VmmRequestPage(m, table, v, flags) ==
  LET new == Request(m)
  IN  IF Present(PagingGet(m, table, v)) THEN m
      ELSE PagingMap(new.m, table, v, new.frame, flags)

VmmRequestAt(m, table, v, n, flags) ==
  LET after[i \in 0 .. n] ==
        IF i = 0 THEN m ELSE VmmRequestPage(after[i - 1], table, v + i - 1, flags)
  IN  after[n]

-----------------------------------------------------------------------------
(* Boot: paging_initialize and _malloc_init *)

(* The tables below the upper half of kernel_table *)
KernelTop(m) ==
  LET top == Request(m)
      after[n \in 0 .. Fanout - UserTop] ==
        IF n = 0 THEN Write(top.m, top.frame, ZeroTable)
        ELSE Child(after[n - 1], top.frame, UserTop + n - 1, {"P"}).m
  IN  [top EXCEPT !.m = after[Fanout - UserTop]]

HugePage == [frame |-> 0, flags |-> {"P", "W", "H"}]

(* High memory at Higher, page by page *)
MapHighMem(m, table) ==
  LET after[n \in 0 .. Fanout] ==
        IF n = 0 THEN m
        ELSE IF Fanout + n - 1 \in HighMem
          THEN PagingMap(after[n - 1], table, Higher + Fanout + n - 1,
                         Fanout + n - 1, {"W"})
        ELSE after[n - 1]
  IN  after[Fanout]

PagingInitialize(m) ==
  LET k == KernelTop(m)
      higher == k.m.mem[k.frame][UserTop].frame
      last == k.m.mem[k.frame][Fanout - 1].frame
      m1 == SetEntry(SetEntry(k.m, higher, 0, HugePage), last, Fanout - 1, HugePage)
  IN  [m |-> PagingUnmap(MapHighMem(m1, k.frame), k.frame, 0), frame |-> k.frame]

Init ==
  /\ \E D \in DirtySets :
       LET k == PagingInitialize(
                  [mem |-> [f \in Memory |-> IF f \in D THEN JunkTable ELSE ZeroTable],
                   free |-> Frames, exhausted |-> FALSE, stale |-> FALSE,
                   flushed |-> {}])
           m == VmmRequestAt(k.m, k.frame, HeapStart, 1, {"W"})
       IN  /\ mem = m.mem /\ free = m.free /\ exhausted = m.exhausted
           /\ stale = m.stale /\ flushed = m.flushed
           /\ kernel_table = k.frame
  /\ heap_end = HeapStart + 1
  /\ space = << >> /\ cr3 = 0 /\ image \in Images

-----------------------------------------------------------------------------
(* The callers.  The model stops when pmm.c has answered NULL, or a table   *)
(* was copied onto rubbish: what memory is then, nobody says.               *)

Sound == ~ exhausted /\ ~ stale

(* addr_page_align_up(p_memsz + p_vaddr % 0x1000) / 0x1000 *)
SegmentPagesNoOffset(s) == (s.memsz + PageBytes - 1) \div PageBytes
SegmentPages(s) == (s.memsz + (s.vaddr % PageBytes) + PageBytes - 1) \div PageBytes

LoadImage(m, table) ==
  LET after[n \in 0 .. Len(image)] ==
        IF n = 0 THEN m
        ELSE VmmRequestAt(after[n - 1], table, image[n].vaddr \div PageBytes,
                          SegmentPages(image[n]), {"U", "W"})
  IN  after[Len(image)]

(* malloc of the task structure, a copy of the kernel's table, and in it the *)
(* segments and the stack                                                   *)
TaskCreate ==
  /\ Sound /\ cr3 = 0
  /\ \E n \in GrowPages :
       /\ heap_end + n <= HeapStart + HeapRoom
       /\ LET m == VmmRequestAt(Machine, kernel_table, heap_end, n, {"W"})
              new == PagingCopy(m, kernel_table)
          IN  /\ Becomes(VmmRequestAt(LoadImage(new.m, new.frame), new.frame, StackPage,
                                      1, {"U", "W"}))
              /\ space' = <<new.frame>>
       /\ heap_end' = heap_end + n
  /\ cr3' = 1
  /\ UNCHANGED <<kernel_table, image>>

(* malloc of the task structure, the copy, and both tables read-only *)
Fork ==
  /\ Sound /\ cr3 # 0 /\ Len(space) < Tasks
  /\ \E n \in GrowPages :
       /\ heap_end + n <= HeapStart + HeapRoom
       /\ LET m == VmmRequestAt(Machine, kernel_table, heap_end, n, {"W"})
              new == PagingCopy(m, space[cr3])
          IN  /\ Becomes(PagingMakeReadonly(PagingMakeReadonly(new.m, space[cr3]),
                                            new.frame))
              /\ space' = Append(space, new.frame)
       /\ heap_end' = heap_end + n
  /\ UNCHANGED <<kernel_table, cr3, image>>

(* cow_copy_on_write after a store to v that the MMU refused *)
CopyOnWrite(v) ==
  /\ Sound /\ cr3 # 0
  /\ LET table == space[cr3]
         e == PagingGet(Machine, table, v)
         m1 == PagingMap(Machine, kernel_table, CopyPage, e.frame, {})
         m2 == VmmRequestAt(PagingUnmap(m1, table, v), table, v, 1,
                            e.flags \cup {"W"})
     IN  /\ Present(e) /\ "W" \notin e.flags
         /\ Becomes(PagingUnmap(m2, kernel_table, CopyPage))
  /\ UNCHANGED <<kernel_table, space, cr3, heap_end, image>>

(* switch_to_task: paging_write_cr3, which empties the TLB *)
SwitchTo(t) ==
  /\ Sound /\ cr3 # 0 /\ t \in DOMAIN space \ {cr3}
  /\ cr3' = t /\ flushed' = Pages
  /\ UNCHANGED <<mem, free, exhausted, stale, kernel_table, space, heap_end, image>>

Next ==
  \/ TaskCreate
  \/ Fork
  \/ \E v \in UserPages : CopyOnWrite(v)
  \/ \E t \in 1 .. Tasks : SwitchTo(t)

Spec == Init /\ [][Next]_vars

-----------------------------------------------------------------------------
(* Properties *)

(* What the MMU grants: the leaf, with write and user access only if every  *)
(* entry on the way has it too.  The kernel ignores both, so the pages of   *)
(* its half are compared without them.                                      *)
Translation(table, v) ==
  LET top == mem[table][Top(v)]
      mid == mem[top.frame][Mid(v)]
      leaf == PagingGet(Machine, table, v)
  IN  IF ~ Present(leaf) THEN Absent
      ELSE IF v >= Higher THEN [leaf EXCEPT !.flags = @ \ {"W", "U"}]
      ELSE [leaf EXCEPT !.flags = {"P"} \cup (@ \cap top.flags \cap mid.flags)]

(* The tables of memory, and tasks that have each one of them.              *)
TypeOK ==
  /\ mem \in [Memory -> [Idx -> Entry]] /\ free \subseteq Frames
  /\ kernel_table \in Memory /\ \A t \in DOMAIN space : space[t] \in Memory
  /\ cr3 \in 0 .. Len(space) /\ Len(space) <= Tasks
  /\ heap_end \in HeapStart + 1 .. CopyPage /\ flushed \subseteq Pages

(* The trees: 0 is the kernel's, which has the upper half of its top table. *)
Trees == 0 .. Len(space)
Root(x) == IF x = 0 THEN kernel_table ELSE space[x]
Half(x) == IF x = 0 THEN UserTop .. Fanout - 1 ELSE 0 .. UserTop - 1

TopEntry(x, i) == mem[Root(x)][i]
MidEntry(x, i, j) == mem[TopEntry(x, i).frame][j]

(* The places for tables in the trees: a tree's top, entry i of it, entry j *)
(* of that.                                                                 *)
Linked(x, i) == i \in Half(x) /\ Present(TopEntry(x, i))
Places ==
  {<<x>> : x \in Trees}
    \cup {p \in Trees \X Idx : Linked(p[1], p[2])}
    \cup {p \in Trees \X Idx \X Idx :
            /\ Linked(p[1], p[2])
            /\ Present(MidEntry(p[1], p[2], p[3])) /\ ~ Huge(MidEntry(p[1], p[2], p[3]))}
Table(p) ==
  CASE Len(p) = 1 -> Root(p[1])
    [] Len(p) = 2 -> TopEntry(p[1], p[2]).frame
    [] Len(p) = 3 -> MidEntry(p[1], p[2], p[3]).frame
Tables == {Table(p) : p \in Places}

(* Tables of a task are its own: no table is reached in two ways, belongs   *)
(* to two trees, is mapped into user space or into the heap, or is free to  *)
(* be handed out, in any order of forks, copies and switches (paging_copy,  *)
(* paging_map).                                                             *)
TablesPrivate ==
  Sound =>
    /\ Tables \subseteq Frames \ free
    /\ \A p, q \in Places : Table(p) = Table(q) => p = q
    /\ \A x \in Trees : \A v \in IF x = 0 THEN HeapPages ELSE UserPages :
         LET e == Translation(Root(x), v)
         IN  Present(e) => e.frame \in (Frames \ free) \ Tables

(* Every task sees the kernel as kernel_table has it, also what malloc and  *)
(* the copy window map through kernel_table after the task was made: the    *)
(* tops share their children, which paging_initialize makes in advance.     *)
KernelShared ==
  Sound =>
    \A t \in DOMAIN space : \A v \in Pages \ UserPages :
      Translation(space[t], v) = Translation(kernel_table, v)

(* What holds of the trees in every state: paging_copy, paging_map and      *)
(* paging_create_empty leave every task its own tables and one kernel.      *)
TreesRight == TypeOK /\ TablesPrivate /\ KernelShared

(* The bytes of each segment that task_create fills lie on mapped pages,    *)
(* wherever in its page the segment starts (task.c:35-46).                  *)
SegmentsMapped ==
  Sound =>
    \A t \in DOMAIN space : \A s \in Range(image) :
      \A b \in s.vaddr .. s.vaddr + s.memsz - 1 :
        Present(Translation(space[t], b \div PageBytes))

(* A handler that changes a translation of the running task has flushed     *)
(* that page: the (vaddr << 9) | i of paging_make_readonly names the page   *)
(* it clears.                                                               *)
FlushedWhatChanged ==
  [][cr3 # 0 /\ Sound' =>
       \A v \in Pages :
         /\ Present(Translation(space[cr3], v))
         /\ Translation(space[cr3], v) # Translation(space[cr3], v)'
         => v \in flushed']_vars

(* The trees behave as flat maps: a copy translates as its source does and  *)
(* never follows it later, and mapping a page disturbs no other page.       *)
(* Frames that ran out, and tables copied to frames that were not zero      *)
(* (paging.c:191 clears none), are where the promise ends.                  *)
UserMaps == [t \in DOMAIN space |-> [v \in UserPages |-> Translation(space[t], v)]]
HeapMap == [v \in HeapPages |-> Translation(kernel_table, v)]

Flat == INSTANCE AddressSpaces
          WITH Unmapped <- Absent, user <- UserMaps, kern <- HeapMap,
               active <- cr3, broken <- exhausted \/ stale

ImplementsAddressSpaces == Flat!Spec
=============================================================================
