--------------------------- MODULE PageTablesProofs ---------------------------
(***************************************************************************)
(* PageTables, for tables of any size, any number of tasks and frames, any *)
(* images and any contents of memory at boot.                              *)
(*                                                                         *)
(* Every frame that was handed out has a role: the table at one place of   *)
(* one tree, or a page.  Shape says that entries lead to frames of the     *)
(* role their place asks for.  So no two places share a table, and a write *)
(* to a table changes the pages below one entry of one tree.  Each         *)
(* operation has a lemma about the roles it leaves and the pages it        *)
(* changes (Step), loops by induction on the number of passes.  The        *)
(* handlers compose these.                                                 *)
(***************************************************************************)
EXTENDS PageTables, NatLemmas

-----------------------------------------------------------------------------
(* Numbers of pages.                                                        *)

LEMMA Sizes ==
  /\ Fanout \in Nat \ {0} /\ Fanout >= 3 /\ UserTop \in Nat \ {0} /\ UserTop <= Fanout - 2
  /\ HeapRoom \in Nat \ {0} /\ HeapRoom <= Fanout - 1 /\ PageBytes \in Nat \ {0}
  /\ Frames \in SUBSET Nat /\ 0 \notin Frames /\ JunkFrame \in Frames
  /\ Fanout * Fanout \in Nat \ {0} /\ Fanout * Fanout * Fanout \in Nat \ {0}
<1>1. Fanout \in Nat /\ UserTop \in 1 .. Fanout - 2 /\ HeapRoom \in 1 .. Fanout - 1
  BY SizeAssumption
<1>2. Fanout \in Nat \ {0}
  BY <1>1
<1>3. Fanout * Fanout \in Nat \ {0}
  BY <1>2
<1>4. Fanout * Fanout * Fanout \in Nat \ {0}
  BY <1>2, <1>3
<1> QED
  BY <1>1, <1>2, <1>3, <1>4, SizeAssumption

(* A page is reached through one entry of each level, and these entries     *)
(* name the page.                                                           *)
PageAt(v, i, j, k) ==
  /\ v \in Pages /\ Top(v) = i /\ Mid(v) = j /\ Low(v) = k
  /\ v = EntryAddress(EntryAddress(i, j), k)

LEMMA IndexBound ==
  ASSUME NEW a \in Nat, NEW n \in Nat \ {0}, NEW i \in 0 .. n - 1, NEW j \in 0 .. Fanout - 1
  PROVE  i * Fanout + j \in 0 .. n * Fanout - 1
<1>1. i + 1 <= n /\ i \in Nat /\ j \in Nat /\ Fanout \in Nat /\ j + 1 <= Fanout
  BY Sizes
<1>2. (i + 1) * Fanout <= n * Fanout
  BY <1>1, Z3
<1>3. (i + 1) * Fanout = i * Fanout + Fanout /\ i * Fanout \in Nat /\ n * Fanout \in Nat
  BY <1>1, Z3
<1> QED
  BY <1>1, <1>2, <1>3

LEMMA EntriesNamePage ==
  ASSUME NEW i \in Idx, NEW j \in Idx, NEW k \in Idx
  PROVE  PageAt(EntryAddress(EntryAddress(i, j), k), i, j, k)
<1> DEFINE F == Fanout
           u == i * F + j
           v == u * F + k
<1>1. F \in Nat \ {0} /\ i \in 0 .. F - 1 /\ j \in 0 .. F - 1 /\ k \in 0 .. F - 1
  BY Sizes DEF Idx
<1>2. u \in 0 .. F * F - 1
  BY <1>1, IndexBound
<1>3. v \in 0 .. F * F * F - 1
  <2>1. F * F \in Nat \ {0}
    BY Sizes
  <2> HIDE DEF u
  <2> QED BY <1>1, <1>2, <2>1, IndexBound
<1>4. v \div F = u /\ v % F = k
  <2>1. u \in Nat /\ u * F = F * u
    BY <1>1, <1>2
  <2> HIDE DEF u
  <2> QED BY <1>1, <2>1, DivUnique
<1>5. u \div F = i /\ u % F = j
  <2>1. i * F = F * i
    BY <1>1
  <2> QED BY <1>1, <2>1, DivUnique
<1>6. v \div (F * F) = i
  <2>1. v \in Nat
    BY <1>3
  <2> HIDE DEF v
  <2>2. Nested(v, F, F)
    BY <1>1, <2>1, DivNest
  <2> QED BY <1>4, <1>5, <2>2 DEF Nested
<1> QED
  BY <1>3, <1>4, <1>5, <1>6 DEF PageAt, EntryAddress, Pages, Top, Mid, Low

LEMMA PageIndices ==
  ASSUME NEW v \in Pages
  PROVE  /\ Top(v) \in Idx /\ Mid(v) \in Idx /\ Low(v) \in Idx
         /\ PageAt(v, Top(v), Mid(v), Low(v))
<1> DEFINE F == Fanout
           u == v \div F
           i == u \div F
           j == u % F
           k == v % F
<1>1. F \in Nat \ {0} /\ v \in Nat /\ v < F * (F * F)
  <2>1. F * F * F = F * (F * F)
    BY Sizes
  <2> QED BY <2>1, Sizes DEF Pages
<1>2. u \in Nat /\ k \in 0 .. F - 1 /\ v = F * u + k
  BY <1>1, DivDef
<1>3. i \in Nat /\ j \in 0 .. F - 1 /\ u = F * i + j
  <2> HIDE DEF u
  <2> QED BY <1>1, <1>2, DivDef
<1> HIDE DEF i, j, k, u
<1>4. i <= F - 1
  <2> SUFFICES ASSUME i >= F PROVE FALSE
    BY <1>1, <1>3
  <2>1. F * i >= F * F
    BY <1>1, <1>3, Z3
  <2>2. F * i \in Nat /\ F * F \in Nat
    BY <1>1, <1>3
  <2>3. u >= F * F
    BY <1>1, <1>3, <2>1, <2>2
  <2>4. F * u >= F * (F * F)
    BY <1>1, <1>2, <2>2, <2>3, Z3
  <2>5. F * u \in Nat /\ F * (F * F) \in Nat
    BY <1>1, <1>2, <2>2
  <2> QED BY <1>1, <1>2, <2>4, <2>5
<1>5. i \in Idx /\ j \in Idx /\ k \in Idx
  BY <1>1, <1>2, <1>3, <1>4 DEF Idx
<1>6. v = EntryAddress(EntryAddress(i, j), k)
  <2>1. F * i = i * F /\ F * u = u * F
    BY <1>1, <1>2, <1>3
  <2> QED BY <1>2, <1>3, <2>1 DEF EntryAddress
<1>7. PageAt(v, i, j, k)
  BY <1>5, <1>6, EntriesNamePage
<1> QED
  BY <1>5, <1>7 DEF PageAt

(* Different pages differ in an index.                                      *)
LEMMA IndicesDiffer ==
  ASSUME NEW v \in Pages, NEW w \in Pages, v # w
  PROVE  Top(v) # Top(w) \/ Mid(v) # Mid(w) \/ Low(v) # Low(w)
  BY PageIndices DEF PageAt

(* The halves of the top table are the halves of the address space.         *)
LEMMA HalfOfPage ==
  ASSUME NEW v \in Pages
  PROVE  /\ v \in UserPages <=> Top(v) \in 0 .. UserTop - 1
         /\ v \in UserPages <=> v < Higher
         /\ v \in UserPages \/ Top(v) \in UserTop .. Fanout - 1
<1> DEFINE i == Top(v)  r == EntryAddress(0, 0)
<1>1. v \in Nat /\ Higher = UserTop * Fanout * Fanout /\ UserTop * Fanout * Fanout \in Nat
  BY Sizes DEF Pages, Higher
<1>2. /\ i \in Nat /\ v % (Fanout * Fanout) \in 0 .. Fanout * Fanout - 1
      /\ v = Fanout * Fanout * i + (v % (Fanout * Fanout))
  BY <1>1, Sizes, DivDef DEF Top
<1>3. i \in Idx
  BY PageIndices
<1> DEFINE s == Fanout * Fanout
           q == v % s
<1>4. s \in Nat \ {0} /\ Higher = s * UserTop /\ s * UserTop \in Nat /\ s * i \in Nat
  <2>1. UserTop * Fanout * Fanout = s * UserTop
    BY Sizes
  <2>2. s \in Nat \ {0}
    BY Sizes
  <2> HIDE DEF s, i
  <2> QED BY <1>1, <1>2, <2>1, <2>2, Sizes
<1>5. q \in 0 .. s - 1 /\ v = s * i + q
  BY <1>2
<1> HIDE DEF s, i, q
<1>6. CASE i < UserTop
  <2>1. s * (i + 1) <= s * UserTop
    BY <1>2, <1>4, <1>6, Sizes, Z3
  <2>2. s * (i + 1) = s * i + s
    BY <1>2, <1>4
  <2>3. v < Higher
    BY <1>1, <1>4, <1>5, <2>1, <2>2
  <2> QED BY <1>1, <1>2, <1>6, <2>3, Sizes DEF UserPages, i
<1>7. CASE i >= UserTop
  <2>1. s * UserTop <= s * i
    BY <1>2, <1>4, <1>7, Sizes, Z3
  <2>2. v >= Higher
    BY <1>1, <1>4, <1>5, <2>1
  <2> QED BY <1>1, <1>2, <1>3, <1>4, <1>7, <2>2, Sizes DEF UserPages, Idx, i
<1> QED
  BY <1>2, <1>6, <1>7, Sizes

(* High memory, the heap and the copy window are each below one table.      *)
LEMMA KernelPage ==
  ASSUME NEW j \in Idx, NEW k \in Idx
  PROVE  PageAt(Higher + j * Fanout + k, UserTop, j, k)
<1>1. UserTop \in Idx
  BY Sizes DEF Idx
<1>2. EntryAddress(EntryAddress(UserTop, j), k) = Higher + j * Fanout + k
  <2>1. j \in Nat /\ k \in Nat /\ UserTop \in Nat /\ Fanout \in Nat
    BY Sizes DEF Idx
  <2>2. /\ UserTop * Fanout \in Nat /\ UserTop * Fanout * Fanout \in Nat
        /\ j * Fanout \in Nat
    BY <2>1
  <2>3. (UserTop * Fanout + j) * Fanout = UserTop * Fanout * Fanout + j * Fanout
    BY <2>1, <2>2, Z3
  <2> QED BY <2>1, <2>2, <2>3 DEF EntryAddress, Higher
<1> QED
  BY <1>1, <1>2, EntriesNamePage

LEMMA HeapPage ==
  ASSUME NEW v \in HeapStart .. CopyPage
  PROVE  v \in Pages /\ Top(v) = UserTop /\ Mid(v) = 2 /\ v \notin UserPages
<1>1. Higher \in Nat /\ 2 * Fanout \in Nat
  BY Sizes DEF Higher
<1>2. v - HeapStart \in Idx /\ 2 \in Idx /\ v \in Nat
  BY <1>1, Sizes DEF Idx, HeapStart, CopyPage
<1>3. Higher + 2 * Fanout + (v - HeapStart) = v
  BY <1>1, <1>2 DEF HeapStart
<1>4. PageAt(v, UserTop, 2, v - HeapStart)
  BY <1>2, <1>3, KernelPage
<1> QED
  BY <1>1, <1>2, <1>4, Sizes DEF PageAt, UserPages, HeapStart

LEMMA UserPagesArePages ==
  /\ UserPages \subseteq Pages /\ StackPage \in UserPages /\ 0 \in UserPages /\ Top(0) = 0
  /\ Higher \in Nat \ {0}
<1>1. Higher \in Nat \ {0} /\ Higher <= Fanout * Fanout * Fanout
  <2>1. UserTop * (Fanout * Fanout) <= Fanout * (Fanout * Fanout)
    BY Sizes, Z3
  <2>2. /\ UserTop * (Fanout * Fanout) = UserTop * Fanout * Fanout
        /\ Fanout * (Fanout * Fanout) = Fanout * Fanout * Fanout
        /\ UserTop * Fanout * Fanout \in Nat \ {0}
    BY Sizes
  <2> QED BY <2>1, <2>2, Sizes DEF Higher
<1>2. Top(0) = 0
  <2>1. 0 \div (Fanout * Fanout) = 0
    BY Sizes, DivUnique, Z3
  <2> QED BY <2>1 DEF Top
<1> QED
  BY <1>1, <1>2, Sizes DEF UserPages, Pages, StackPage

-----------------------------------------------------------------------------
(* The machines, and that every operation leads from one to another.        *)

Row == [Idx -> Entry]
Machines ==
  [mem : [Memory -> Row], free : SUBSET Frames, exhausted : BOOLEAN,
   stale : BOOLEAN, flushed : SUBSET Pages]

(* Once memory is exhausted, or a table stale, it is so for good; nothing   *)
(* is given back or un-flushed.                                             *)
Good(m) == ~ m.exhausted /\ ~ m.stale
Onward(m, m2) ==
  /\ m2 \in Machines /\ m2.free \subseteq m.free /\ m.flushed \subseteq m2.flushed
  /\ Good(m2) => Good(m)

LEMMA OnwardTransitive ==
  ASSUME NEW m, NEW m2, NEW m3, Onward(m, m2), Onward(m2, m3)
  PROVE  Onward(m, m3)
  BY DEF Onward

LEMMA EntryFacts ==
  /\ Absent \in Entry /\ ~ Present(Absent) /\ ZeroTable \in Row /\ 0 \in Memory
  /\ Frames \subseteq Memory
  /\ \A i \in Idx : ZeroTable[i] = Absent
  BY DEF Absent, Entry, Present, ZeroTable, Row, Memory

LEMMA EntryTypes ==
  /\ \A e \in Entry : e.frame \in Memory /\ e.flags \in SUBSET {"P", "W", "U", "H"}
  /\ \A f \in Memory, s \in SUBSET {"P", "W", "U", "H"} : [frame |-> f, flags |-> s] \in Entry
  BY DEF Entry

LEMMA MemFacts ==
  ASSUME NEW m \in Machines
  PROVE  /\ \A f \in Memory : m.mem[f] \in Row
         /\ \A f \in Memory, i \in Idx : m.mem[f][i] \in Entry
         /\ \A f \in Memory, i \in Idx : m.mem[f][i].frame \in Memory
  BY DEF Machines, Row, Entry

LEMMA WriteFacts ==
  ASSUME NEW m \in Machines, NEW f \in Memory, NEW T \in Row
  PROVE  /\ Onward(m, Write(m, f, T)) /\ Write(m, f, T).mem[f] = T
         /\ \A g \in Memory : g # f => Write(m, f, T).mem[g] = m.mem[g]
         /\ Write(m, f, T).free = m.free /\ Write(m, f, T).flushed = m.flushed
         /\ Good(m) => Good(Write(m, f, T))
<1> DEFINE m2 == Write(m, f, T)
<1>1. m2 = [m EXCEPT !.mem = [m.mem EXCEPT ![f] = T]]
  BY DEF Write, Machines
<1> DEFINE M == [m.mem EXCEPT ![f] = T]
<1>2. M \in [Memory -> Row] /\ M[f] = T /\ \A g \in Memory : g # f => M[g] = m.mem[g]
  BY DEF Machines
<1> HIDE DEF m2, M
<1>3. /\ m2.mem = M /\ m2.free = m.free /\ m2.flushed = m.flushed
      /\ m2.exhausted = m.exhausted /\ m2.stale = m.stale /\ m2 \in Machines
  BY <1>1, <1>2 DEF Machines, M
<1> QED
  BY <1>2, <1>3 DEF Onward, Good, m2

LEMMA SetEntryFacts ==
  ASSUME NEW m \in Machines, NEW f \in Memory, NEW i \in Idx, NEW e \in Entry
  PROVE  /\ Onward(m, SetEntry(m, f, i, e)) /\ SetEntry(m, f, i, e).mem[f][i] = e
         /\ \A k \in Idx : k # i => SetEntry(m, f, i, e).mem[f][k] = m.mem[f][k]
         /\ \A g \in Memory : g # f => SetEntry(m, f, i, e).mem[g] = m.mem[g]
         /\ SetEntry(m, f, i, e).free = m.free /\ SetEntry(m, f, i, e).flushed = m.flushed
         /\ Good(m) => Good(SetEntry(m, f, i, e))
<1> DEFINE T == [m.mem[f] EXCEPT ![i] = e]
<1>1. m.mem[f] \in Row
  BY MemFacts
<1>2. T \in Row /\ T[i] = e /\ \A k \in Idx : k # i => T[k] = m.mem[f][k]
  BY <1>1 DEF Row
<1>3. SetEntry(m, f, i, e) = Write(m, f, T)
  BY DEF SetEntry, Write, Machines
<1> HIDE DEF T
<1> QED
  BY <1>2, <1>3, WriteFacts

LEMMA FlushFacts ==
  ASSUME NEW m \in Machines, NEW v \in Pages
  PROVE  /\ Onward(m, Flush(m, v)) /\ v \in Flush(m, v).flushed
         /\ Flush(m, v).mem = m.mem /\ Flush(m, v).free = m.free
         /\ Good(m) => Good(Flush(m, v))
  BY DEF Flush, Machines, Onward, Good

(* pmm.c hands out a frame that was free, or answers NULL.                  *)
LEMMA RequestFacts ==
  ASSUME NEW m \in Machines
  PROVE  /\ Onward(m, Request(m).m) /\ Request(m).m.mem = m.mem
         /\ Request(m).frame \in Memory /\ Request(m).m.flushed = m.flushed
         /\ Good(Request(m).m) =>
              /\ Request(m).frame \in m.free /\ Request(m).frame \in Frames
              /\ Request(m).m.free = m.free \ {Request(m).frame}
<1>1. CASE m.free = {}
  BY <1>1, EntryFacts DEF Request, Machines, Onward, Good
<1>2. CASE m.free # {}
  <2> DEFINE f == Min(m.free)
  <2>1. m.free \in SUBSET Frames /\ m.free \in SUBSET Nat
    BY Sizes DEF Machines
  <2>2. f \in m.free /\ f \in Frames /\ f \in Memory
    BY <1>2, <2>1, MinIsLeast, EntryFacts
  <2> HIDE DEF f
  <2>3. Request(m) = [m |-> [m EXCEPT !.free = @ \ {f}], frame |-> f]
    BY <1>2 DEF Request, f
  <2>4. Request(m).m = [m EXCEPT !.free = @ \ {f}] /\ Request(m).frame = f
    BY <2>3
  <2>5. [m EXCEPT !.free = @ \ {f}] \in Machines
    BY <2>1 DEF Machines
  <2> QED BY <2>2, <2>4, <2>5 DEF Machines, Onward, Good
<1> QED
  BY <1>1, <1>2

-----------------------------------------------------------------------------
(* What a frame that was handed out is for: the top table of a tree, the    *)
(* table at entry i of it, the one at entry j of that, or a page.  Tree 0   *)
(* is the kernel's.                                                         *)

TopRole(x) == <<3, x, 0, 0>>
MidRole(x, i) == <<2, x, i, 0>>
LeafRole(x, i, j) == <<1, x, i, j>>
PageRole == <<0, 0, 0, 0>>
Roles == Nat \X Nat \X Nat \X Nat

(* Where paging_initialize puts huge pages, and where frames of pages are.  *)
HugeAt(x, i, j) ==
  x = 0 /\ <<i, j>> \in {<<UserTop, 0>>, <<Fanout - 1, Fanout - 1>>}
DataAt(x, i, j, k) == x # 0 \/ EntryAddress(EntryAddress(i, j), k) \in HeapPages

(* Entries lead to tables with the role of the place.                       *)
LinkTo(m, own, e, x, role) ==
  /\ Present(e) /\ ~ Huge(e) /\ e.frame \in Frames \ m.free /\ own[e.frame] = role
  /\ x # 0 => e.flags = {"P", "W", "U"}

TopFits(m, own, row, x) ==
  \A i \in Half(x) : Present(row[i]) => LinkTo(m, own, row[i], x, MidRole(x, i))
MidFits(m, own, row, x, i) ==
  \A j \in Idx : Present(row[j]) =>
    IF HugeAt(x, i, j) THEN Huge(row[j]) ELSE LinkTo(m, own, row[j], x, LeafRole(x, i, j))
LeafFits(m, own, row, x, i, j) ==
  \A k \in Idx : Present(row[k]) =>
    /\ ~ Huge(row[k])
    /\ DataAt(x, i, j, k) => row[k].frame \in Frames \ m.free /\ own[row[k].frame] = PageRole

Fits(m, own, f) ==
  \A x, i, j \in Nat :
    /\ own[f] = TopRole(x) => TopFits(m, own, m.mem[f], x)
    /\ own[f] = MidRole(x, i) => MidFits(m, own, m.mem[f], x, i)
    /\ own[f] = LeafRole(x, i, j) => LeafFits(m, own, m.mem[f], x, i, j)

Shape(m, own) ==
  m \in Machines /\ own \in [Frames -> Roles] /\ \A f \in Frames \ m.free : Fits(m, own, f)

(* Frames keep the role they are handed out for.                            *)
Grown(m, own, m2, own2) ==
  /\ own2 \in [Frames -> Roles] /\ m2.free \subseteq m.free
  /\ \A f \in Frames \ m.free : own2[f] = own[f]

LEMMA RolesDiffer ==
  /\ \A x, y \in Nat : TopRole(x) = TopRole(y) => x = y
  /\ \A x, y, i, k \in Nat : MidRole(x, i) = MidRole(y, k) => x = y /\ i = k
  /\ \A x, y, i, j, k, l \in Nat :
       LeafRole(x, i, j) = LeafRole(y, k, l) => x = y /\ i = k /\ j = l
  /\ \A x, y, i \in Nat : TopRole(x) # MidRole(y, i)
  /\ \A x, y, i, j \in Nat : TopRole(x) # LeafRole(y, i, j)
  /\ \A x, y, i, k, j \in Nat : MidRole(x, i) # LeafRole(y, k, j)
  /\ \A x, i, j \in Nat :
       PageRole # TopRole(x) /\ PageRole # MidRole(x, i) /\ PageRole # LeafRole(x, i, j)
  BY DEF TopRole, MidRole, LeafRole, PageRole

LEMMA LeafRoleIsNew ==
  \A x, y, i, j, k \in Nat :
    LeafRole(x, i, j) # MidRole(y, k) /\ LeafRole(x, i, j) # TopRole(y)
  BY DEF TopRole, MidRole, LeafRole

LEMMA RolesAre ==
  /\ PageRole \in Roles
  /\ \A x, i, j \in Nat :
       TopRole(x) \in Roles /\ MidRole(x, i) \in Roles /\ LeafRole(x, i, j) \in Roles
  BY DEF TopRole, MidRole, LeafRole, PageRole, Roles

LEMMA GrownTransitive ==
  ASSUME NEW m, NEW own, NEW m2, NEW own2, NEW m3, NEW own3,
         Grown(m, own, m2, own2), Grown(m2, own2, m3, own3)
  PROVE  Grown(m, own, m3, own3)
  BY DEF Grown

(* Links stay right as frames are handed out.                               *)
LEMMA LinksKept ==
  ASSUME NEW m, NEW own, NEW m2, NEW own2, Grown(m, own, m2, own2)
  PROVE  \A e, x, role : LinkTo(m, own, e, x, role) => LinkTo(m2, own2, e, x, role)
  BY DEF Grown, LinkTo

LEMMA FitsKept ==
  ASSUME NEW m, NEW own, NEW m2, NEW own2, Grown(m, own, m2, own2),
         NEW f \in Frames \ m.free, m2.mem[f] = m.mem[f], Fits(m, own, f)
  PROVE  Fits(m2, own2, f)
<1>1. own2[f] = own[f]
  BY DEF Grown
<1>2. ASSUME NEW x \in Nat, own[f] = TopRole(x)
      PROVE  TopFits(m2, own2, m.mem[f], x)
  BY <1>2, LinksKept DEF Fits, TopFits
<1>3. ASSUME NEW x \in Nat, NEW i \in Nat, own[f] = MidRole(x, i)
      PROVE  MidFits(m2, own2, m.mem[f], x, i)
  BY <1>3, LinksKept DEF Fits, MidFits
<1>4. ASSUME NEW x \in Nat, NEW i \in Nat, NEW j \in Nat, own[f] = LeafRole(x, i, j)
      PROVE  LeafFits(m2, own2, m.mem[f], x, i, j)
  <2>1. LeafFits(m, own, m.mem[f], x, i, j)
    BY <1>4 DEF Fits
  <2> QED BY <2>1 DEF LeafFits, Grown
<1> QED
  BY <1>1, <1>2, <1>3, <1>4 DEF Fits

(* Only frames that are written, or handed out, need a look.                *)
LEMMA ShapeKept ==
  ASSUME NEW m, NEW own, NEW m2 \in Machines, NEW own2, Shape(m, own), Grown(m, own, m2, own2),
         \A f \in Frames \ m2.free :
           (f \notin m.free /\ m2.mem[f] = m.mem[f]) \/ Fits(m2, own2, f)
  PROVE  Shape(m2, own2)
<1>1. ASSUME NEW f \in Frames \ m2.free PROVE Fits(m2, own2, f)
  <2>1. CASE f \notin m.free /\ m2.mem[f] = m.mem[f]
    <3>1. Fits(m, own, f)
      BY <2>1 DEF Shape
    <3> QED BY <2>1, <3>1, FitsKept
  <2> QED BY <2>1
<1> QED
  BY <1>1 DEF Shape, Grown

-----------------------------------------------------------------------------
(* What the MMU and paging_get find.                                        *)

LEMMA HalfIsIdx ==
  /\ \A x \in Nat : Half(x) \subseteq Idx
  /\ Idx \subseteq Nat
  BY Sizes DEF Half, Idx

(* r is the top table of tree x, and v a page of its half.                  *)
RootOf(m, own, r, x) == x \in Nat /\ r \in Frames \ m.free /\ own[r] = TopRole(x)
PageOf(x, v) == v \in Pages /\ Top(v) \in Half(x)

(* The entries on the way to v                                              *)
TopOf(m, r, v) == m.mem[r][Top(v)]
MidOf(m, r, v) == m.mem[TopOf(m, r, v).frame][Mid(v)]
LeafOf(m, r, v) == m.mem[MidOf(m, r, v).frame][Low(v)]

Got(m, r, v) ==
  /\ ~ Present(TopOf(m, r, v)) => PagingGet(m, r, v) = Absent
  /\ Present(TopOf(m, r, v)) /\ ~ Huge(TopOf(m, r, v)) =>
       /\ ~ Present(MidOf(m, r, v)) => PagingGet(m, r, v) = Absent
       /\ Present(MidOf(m, r, v)) =>
            PagingGet(m, r, v) = IF Huge(MidOf(m, r, v)) THEN MidOf(m, r, v)
                                 ELSE LeafOf(m, r, v)

LEMMA GetIs ==
  ASSUME NEW m, NEW r, NEW v
  PROVE  Got(m, r, v)
<1> DEFINE top == TopOf(m, r, v)
           mid == MidOf(m, r, v)
<1>1. PagingGet(m, r, v) =
        CASE ~ Present(top) -> Absent
          [] Present(top) /\ Huge(top) -> top
          [] Present(top) /\ ~ Huge(top) /\ ~ Present(mid) -> Absent
          [] Present(top) /\ ~ Huge(top) /\ Present(mid) /\ Huge(mid) -> mid
          [] OTHER -> LeafOf(m, r, v)
  BY DEF PagingGet, TopOf, MidOf, LeafOf
<1> HIDE DEF top, mid
<1>2. ~ Present(top) => PagingGet(m, r, v) = Absent
  BY <1>1
<1>3. Present(top) /\ ~ Huge(top) /\ ~ Present(mid) => PagingGet(m, r, v) = Absent
  BY <1>1
<1>4. Present(top) /\ ~ Huge(top) /\ Present(mid) /\ Huge(mid) => PagingGet(m, r, v) = mid
  BY <1>1
<1>5. Present(top) /\ ~ Huge(top) /\ Present(mid) /\ ~ Huge(mid)
        => PagingGet(m, r, v) = LeafOf(m, r, v)
  BY <1>1
<1> QED
  BY <1>2, <1>3, <1>4, <1>5 DEF Got, top, mid

(* They are links to the tables of the tree.                                *)
Walk(m, own, r, x, v) ==
  Present(TopOf(m, r, v)) =>
    /\ LinkTo(m, own, TopOf(m, r, v), x, MidRole(x, Top(v)))
    /\ Present(MidOf(m, r, v)) =>
         IF HugeAt(x, Top(v), Mid(v)) THEN Huge(MidOf(m, r, v))
         ELSE LinkTo(m, own, MidOf(m, r, v), x, LeafRole(x, Top(v), Mid(v)))

LEMMA WalkIs ==
  ASSUME NEW m, NEW own, Shape(m, own), NEW r, NEW x, NEW v, RootOf(m, own, r, x), PageOf(x, v)
  PROVE  Walk(m, own, r, x, v)
<1> DEFINE top == TopOf(m, r, v)
           mid == MidOf(m, r, v)
<1>1. Top(v) \in Nat /\ Mid(v) \in Idx /\ Mid(v) \in Nat /\ Top(v) \in Half(x) /\ x \in Nat
  BY PageIndices, HalfIsIdx DEF PageOf, RootOf
<1>2. Present(top) => LinkTo(m, own, top, x, MidRole(x, Top(v)))
  BY <1>1 DEF RootOf, Shape, Fits, TopFits, TopOf
<1>3. Present(top) /\ Present(mid) =>
        IF HugeAt(x, Top(v), Mid(v)) THEN Huge(mid)
        ELSE LinkTo(m, own, mid, x, LeafRole(x, Top(v), Mid(v)))
  <2> HAVE Present(top) /\ Present(mid)
  <2>1. LinkTo(m, own, top, x, MidRole(x, Top(v)))
    BY <1>2
  <2>2. Fits(m, own, top.frame) /\ own[top.frame] = MidRole(x, Top(v))
    BY <2>1 DEF Shape, LinkTo
  <2>3. MidFits(m, own, m.mem[top.frame], x, Top(v))
    BY <1>1, <2>2 DEF Fits
  <2> QED BY <1>1, <2>3 DEF MidFits, MidOf
<1> QED
  BY <1>2, <1>3 DEF Walk

(* An entry may become a link to an empty table; then a walk still finds    *)
(* what it found, if the leaf is the same.                                  *)
Extends(m2, e, e2) ==
  \/ e2 = e
  \/ ~ Present(e) /\ Present(e2) /\ ~ Huge(e2) /\ m2.mem[e2.frame] = ZeroTable

LEMMA GetSame ==
  ASSUME NEW m, NEW own, Shape(m, own), NEW r, NEW x, NEW v, RootOf(m, own, r, x), PageOf(x, v),
         NEW m2, Extends(m2, m.mem[r][Top(v)], m2.mem[r][Top(v)]),
         \A f \in Frames \ m.free :
           /\ own[f] = MidRole(x, Top(v)) => Extends(m2, m.mem[f][Mid(v)], m2.mem[f][Mid(v)])
           /\ own[f] = LeafRole(x, Top(v), Mid(v)) => m2.mem[f][Low(v)] = m.mem[f][Low(v)]
  PROVE  PagingGet(m2, r, v) = PagingGet(m, r, v)
<1> DEFINE top == TopOf(m, r, v)
           mid == MidOf(m, r, v)
           top2 == TopOf(m2, r, v)
           mid2 == MidOf(m2, r, v)
<1>1. Mid(v) \in Idx /\ Low(v) \in Idx
  BY PageIndices DEF PageOf
<1>2. Got(m, r, v) /\ Got(m2, r, v) /\ Walk(m, own, r, x, v)
  BY GetIs, WalkIs
<1>3. Extends(m2, top, top2)
  BY DEF TopOf
<1>4. CASE top2 # top
  <2>1. ~ Present(top) /\ Present(top2) /\ ~ Huge(top2) /\ m2.mem[top2.frame] = ZeroTable
    BY <1>3, <1>4 DEF Extends
  <2>2. mid2 = Absent /\ ~ Present(mid2)
    BY <1>1, <2>1, EntryFacts DEF MidOf
  <2>3. PagingGet(m, r, v) = Absent /\ PagingGet(m2, r, v) = Absent
    BY <1>2, <2>1, <2>2 DEF Got
  <2> QED BY <2>3
<1>5. CASE top2 = top /\ ~ Present(top)
  BY <1>2, <1>5 DEF Got
<1>6. CASE top2 = top /\ Present(top)
  <2>1. LinkTo(m, own, top, x, MidRole(x, Top(v)))
    BY <1>2, <1>6 DEF Walk
  <2>2. top.frame \in Frames \ m.free /\ own[top.frame] = MidRole(x, Top(v)) /\ ~ Huge(top)
    BY <2>1 DEF LinkTo
  <2>3. Extends(m2, mid, mid2)
    BY <1>6, <2>2 DEF MidOf
  <2>4. CASE mid2 # mid
    <3>1. ~ Present(mid) /\ Present(mid2) /\ ~ Huge(mid2) /\ m2.mem[mid2.frame] = ZeroTable
      BY <2>3, <2>4 DEF Extends
    <3>2. LeafOf(m2, r, v) = Absent
      BY <1>1, <3>1, EntryFacts DEF LeafOf
    <3>3. PagingGet(m, r, v) = Absent /\ PagingGet(m2, r, v) = Absent
      BY <1>2, <1>6, <2>2, <3>1, <3>2 DEF Got
    <3> QED BY <3>3
  <2>5. CASE mid2 = mid /\ (~ Present(mid) \/ Huge(mid))
    BY <1>2, <1>6, <2>2, <2>5 DEF Got
  <2>6. CASE mid2 = mid /\ Present(mid) /\ ~ Huge(mid)
    <3>1. LinkTo(m, own, mid, x, LeafRole(x, Top(v), Mid(v)))
      BY <1>2, <1>6, <2>6 DEF Walk
    <3>2. LeafOf(m2, r, v) = LeafOf(m, r, v)
      BY <2>6, <3>1 DEF LinkTo, LeafOf
    <3> QED BY <1>2, <1>6, <2>2, <2>6, <3>2 DEF Got
  <2> QED BY <2>4, <2>5, <2>6
<1> QED
  BY <1>4, <1>5, <1>6

-----------------------------------------------------------------------------
(* What every operation keeps, whatever it is for.                          *)

(* Entries of a top table change only when its tree gets a table there.     *)
TopsKept(m, own, m2) ==
  \A f \in Frames \ m.free, x \in Nat : own[f] = TopRole(x) =>
    \A i \in Idx : i \notin Half(x) \/ Present(m.mem[f][i]) => m2.mem[f][i] = m.mem[f][i]

(* Pages other than those in A of tree y are as they were.                  *)
PagesKept(m, own, m2, y, A) ==
  \A r, x, v : RootOf(m, own, r, x) /\ PageOf(x, v) /\ (x = y => v \notin A)
    => PagingGet(m2, r, v) = PagingGet(m, r, v)

Step(m, own, m2, own2, y, A) ==
  /\ Shape(m2, own2) /\ Grown(m, own, m2, own2)
  /\ TopsKept(m, own, m2) /\ PagesKept(m, own, m2, y, A)

LEMMA RootKept ==
  ASSUME NEW m, NEW own, NEW m2, NEW own2, Grown(m, own, m2, own2)
  PROVE  \A r, x : RootOf(m, own, r, x) => RootOf(m2, own2, r, x)
  BY DEF Grown, RootOf

LEMMA StepTransitive ==
  ASSUME NEW m, NEW own, NEW m2, NEW own2, NEW m3, NEW own3, NEW y, NEW A, NEW B,
         Step(m, own, m2, own2, y, A), Step(m2, own2, m3, own3, y, B), A \subseteq B
  PROVE  Step(m, own, m3, own3, y, B)
<1>1. Grown(m, own, m3, own3)
  BY GrownTransitive DEF Step
<1>2. TopsKept(m, own, m3)
  <2> SUFFICES ASSUME NEW f \in Frames \ m.free, NEW x \in Nat, own[f] = TopRole(x),
                      NEW i \in Idx, i \notin Half(x) \/ Present(m.mem[f][i])
               PROVE  m3.mem[f][i] = m.mem[f][i]
    BY DEF TopsKept
  <2>1. m2.mem[f][i] = m.mem[f][i]
    BY DEF Step, TopsKept
  <2>2. f \in Frames \ m2.free /\ own2[f] = TopRole(x)
    BY DEF Step, Grown
  <2> QED BY <2>1, <2>2 DEF Step, TopsKept
<1>3. PagesKept(m, own, m3, y, B)
  <2> SUFFICES ASSUME NEW r, NEW x, NEW v, RootOf(m, own, r, x), PageOf(x, v), x = y => v \notin B
               PROVE  PagingGet(m3, r, v) = PagingGet(m, r, v)
    BY DEF PagesKept
  <2>1. PagingGet(m2, r, v) = PagingGet(m, r, v)
    BY DEF Step, PagesKept
  <2>2. RootOf(m2, own2, r, x)
    BY RootKept DEF Step
  <2> QED BY <2>1, <2>2 DEF Step, PagesKept
<1> QED
  BY <1>1, <1>2, <1>3 DEF Step

LEMMA StepNothing ==
  ASSUME NEW m, NEW own, Shape(m, own), NEW y, NEW A
  PROVE  Step(m, own, m, own, y, A)
  BY DEF Step, Shape, Grown, TopsKept, PagesKept

-----------------------------------------------------------------------------
(* Writes to one table.                                                     *)

LEMMA TopFitsSet ==
  ASSUME NEW m, NEW own, NEW m2, NEW own2, Grown(m, own, m2, own2),
         NEW f \in Frames \ m.free, Fits(m, own, f), NEW x \in Nat, own[f] = TopRole(x),
         NEW i \in Idx, \A k \in Idx : k # i => m2.mem[f][k] = m.mem[f][k],
         Present(m2.mem[f][i]) /\ i \in Half(x) =>
           LinkTo(m2, own2, m2.mem[f][i], x, MidRole(x, i))
  PROVE  Fits(m2, own2, f)
<1>1. own2[f] = TopRole(x)
  BY DEF Grown
<1>2. TopFits(m, own, m.mem[f], x)
  BY DEF Fits
<1>3. TopFits(m2, own2, m2.mem[f], x)
  <2> SUFFICES ASSUME NEW k \in Half(x), Present(m2.mem[f][k])
               PROVE  LinkTo(m2, own2, m2.mem[f][k], x, MidRole(x, k))
    BY DEF TopFits
  <2>1. CASE k # i
    <3>1. m2.mem[f][k] = m.mem[f][k]
      BY <2>1, HalfIsIdx
    <3>2. LinkTo(m, own, m.mem[f][k], x, MidRole(x, k))
      BY <1>2, <3>1 DEF TopFits
    <3> QED BY <3>1, <3>2, LinksKept
  <2> QED BY <2>1
<1> QED
  BY <1>1, <1>3, RolesDiffer DEF Fits

LEMMA MidFitsSet ==
  ASSUME NEW m, NEW own, NEW m2, NEW own2, Grown(m, own, m2, own2),
         NEW f \in Frames \ m.free, Fits(m, own, f),
         NEW x \in Nat, NEW h \in Nat, own[f] = MidRole(x, h),
         NEW i \in Idx, \A k \in Idx : k # i => m2.mem[f][k] = m.mem[f][k],
         Present(m2.mem[f][i]) =>
           IF HugeAt(x, h, i) THEN Huge(m2.mem[f][i])
           ELSE LinkTo(m2, own2, m2.mem[f][i], x, LeafRole(x, h, i))
  PROVE  Fits(m2, own2, f)
<1>1. own2[f] = MidRole(x, h)
  BY DEF Grown
<1>2. MidFits(m, own, m.mem[f], x, h)
  BY DEF Fits
<1>3. MidFits(m2, own2, m2.mem[f], x, h)
  BY <1>2, LinksKept DEF MidFits
<1> QED
  BY <1>1, <1>3, RolesDiffer DEF Fits

LeafEntryFits(m, own, e, x, i, j, k) ==
  Present(e) =>
    /\ ~ Huge(e)
    /\ DataAt(x, i, j, k) => e.frame \in Frames \ m.free /\ own[e.frame] = PageRole

LEMMA LeafFitsSet ==
  ASSUME NEW m, NEW own, NEW m2, NEW own2, Grown(m, own, m2, own2),
         NEW f \in Frames \ m.free, Fits(m, own, f),
         NEW x \in Nat, NEW i \in Nat, NEW j \in Nat, own[f] = LeafRole(x, i, j),
         NEW k \in Idx, \A l \in Idx : l # k => m2.mem[f][l] = m.mem[f][l],
         LeafEntryFits(m2, own2, m2.mem[f][k], x, i, j, k)
  PROVE  Fits(m2, own2, f)
<1>1. own2[f] = LeafRole(x, i, j)
  BY DEF Grown
<1>2. LeafFits(m, own, m.mem[f], x, i, j)
  BY DEF Fits
<1>3. LeafFits(m2, own2, m2.mem[f], x, i, j)
  BY <1>2 DEF LeafFits, LeafEntryFits, Grown
<1> QED
  BY <1>1, <1>3, RolesDiffer DEF Fits

(* An empty table, or a page, has any role.                                 *)
LEMMA ZeroFits ==
  ASSUME NEW m, NEW own, NEW f, m.mem[f] = ZeroTable
  PROVE  Fits(m, own, f)
<1>1. \A i \in Idx : ~ Present(m.mem[f][i])
  BY EntryFacts
<1> QED
  BY <1>1, HalfIsIdx DEF Fits, TopFits, MidFits, LeafFits

LEMMA PageFits ==
  ASSUME NEW m, NEW own, NEW f, own[f] = PageRole
  PROVE  Fits(m, own, f)
  BY RolesDiffer DEF Fits

(* A frame that is handed out gets its role.                                *)
Fresh(m, own, n, m1, own1, role) ==
  /\ n \in m.free /\ n \in Frames /\ n \in Memory /\ m1 \in Machines
  /\ m1.free = m.free \ {n} /\ m1.mem = m.mem /\ m1.flushed = m.flushed
  /\ own1[n] = role /\ Grown(m, own, m1, own1)

LEMMA RequestFresh ==
  ASSUME NEW m, NEW own, Shape(m, own), Good(Request(m).m), NEW role \in Roles
  PROVE  \E own1 : Fresh(m, own, Request(m).frame, Request(m).m, own1, role)
<1> DEFINE n == Request(m).frame
           m1 == Request(m).m
           own1 == [own EXCEPT ![n] = role]
<1>1. m \in Machines /\ own \in [Frames -> Roles]
  BY DEF Shape
<1>2. /\ m1 \in Machines /\ m1.mem = m.mem /\ n \in Memory /\ m1.flushed = m.flushed
      /\ n \in m.free /\ n \in Frames /\ m1.free = m.free \ {n}
  BY <1>1, RequestFacts DEF Onward
<1> HIDE DEF n, m1
<1>3. own1 \in [Frames -> Roles] /\ own1[n] = role /\ \A f \in Frames : f # n => own1[f] = own[f]
  BY <1>1, <1>2
<1> HIDE DEF own1
<1>4. Grown(m, own, m1, own1)
  BY <1>2, <1>3 DEF Grown
<1>5. Fresh(m, own, n, m1, own1, role)
  BY <1>2, <1>3, <1>4 DEF Fresh
<1> QED
  BY <1>5 DEF n, m1

(* Child: entry i of the table leads to a table with the role of its place. *)
PlaceOf(own, table, i, x, role) ==
  /\ x \in Nat /\ i \in Idx
  /\ \/ own[table] = TopRole(x) /\ i \in Half(x) /\ role = MidRole(x, i)
     \/ \E h \in Nat : /\ own[table] = MidRole(x, h) /\ ~ HugeAt(x, h, i)
                       /\ role = LeafRole(x, h, i)

LinkFlagsFit(flags, x) ==
  /\ flags \in SUBSET {"P", "W", "U"} /\ "P" \in flags /\ (x # 0 => flags = {"P", "W", "U"})

Linking(m, own, table, i, x, role, m2, own2, c) ==
  /\ Step(m, own, m2, own2, x, {}) /\ m2.flushed = m.flushed
  /\ c \in Frames \ m2.free /\ own2[c] = role
  /\ LinkTo(m2, own2, m2.mem[table][i], x, role) /\ m2.mem[table][i].frame = c
  /\ \A f \in Frames \ m.free, k \in Idx :
       <<f, k>> # <<table, i>> => m2.mem[f][k] = m.mem[f][k]

LEMMA ChildType ==
  ASSUME NEW m \in Machines, NEW table \in Memory, NEW i \in Idx,
         NEW flags \in SUBSET {"P", "W", "U"}
  PROVE  Onward(m, Child(m, table, i, flags).m) /\ Child(m, table, i, flags).table \in Memory
<1> DEFINE n == Request(m).frame
           m1 == Request(m).m
           m2 == Write(m1, n, ZeroTable)
           e == [frame |-> n, flags |-> flags]
           m3 == SetEntry(m2, table, i, e)
<1>1. CASE Present(m.mem[table][i])
  <2>1. Child(m, table, i, flags) = [m |-> m, table |-> m.mem[table][i].frame]
    BY <1>1 DEF Child
  <2> QED BY <2>1, MemFacts DEF Onward
<1>2. CASE ~ Present(m.mem[table][i])
  <2>1. Onward(m, m1) /\ m1 \in Machines /\ n \in Memory
    BY RequestFacts DEF Onward
  <2>2. e \in Entry
    BY <2>1, EntryTypes
  <2>3. Child(m, table, i, flags) = [m |-> m3, table |-> n]
    BY <1>2 DEF Child
  <2> HIDE DEF n, m1, e
  <2>4. Onward(m1, m2) /\ m2 \in Machines
    BY <2>1, WriteFacts, EntryFacts DEF Onward
  <2> HIDE DEF m2
  <2>5. Onward(m2, m3)
    BY <2>2, <2>4, SetEntryFacts
  <2> QED BY <2>1, <2>3, <2>4, <2>5, OnwardTransitive
<1> QED
  BY <1>1, <1>2

LEMMA ChildLinks ==
  ASSUME NEW m, NEW own, Shape(m, own), NEW table \in Frames \ m.free, NEW i, NEW x, NEW role,
         PlaceOf(own, table, i, x, role), NEW flags, LinkFlagsFit(flags, x),
         Good(Child(m, table, i, flags).m)
  PROVE  \E own2 : Linking(m, own, table, i, x, role, Child(m, table, i, flags).m, own2,
                           Child(m, table, i, flags).table)
<1> DEFINE old == m.mem[table][i]
<1>1. /\ m \in Machines /\ i \in Idx /\ x \in Nat /\ table \in Memory /\ Fits(m, own, table)
      /\ role \in Roles
  BY EntryFacts, RolesAre, HalfIsIdx DEF Shape, PlaceOf
<1>2. CASE Present(old)
  <2>1. Child(m, table, i, flags) = [m |-> m, table |-> old.frame]
    BY <1>2 DEF Child
  <2>2. LinkTo(m, own, old, x, role)
    <3>1. CASE own[table] = TopRole(x) /\ i \in Half(x) /\ role = MidRole(x, i)
      BY <1>1, <1>2, <3>1 DEF Fits, TopFits
    <3>2. CASE \E h \in Nat : /\ own[table] = MidRole(x, h) /\ ~ HugeAt(x, h, i)
                              /\ role = LeafRole(x, h, i)
      <4> PICK h \in Nat : /\ own[table] = MidRole(x, h) /\ ~ HugeAt(x, h, i)
                           /\ role = LeafRole(x, h, i)
        BY <3>2
      <4>1. MidFits(m, own, m.mem[table], x, h)
        BY <1>1 DEF Fits
      <4> QED BY <1>1, <1>2, <4>1 DEF MidFits
    <3> QED BY <3>1, <3>2 DEF PlaceOf
  <2>3. Step(m, own, m, own, x, {})
    BY StepNothing
  <2>4. Linking(m, own, table, i, x, role, m, own, old.frame)
    BY <2>2, <2>3 DEF Linking, LinkTo
  <2> QED BY <2>1, <2>4
<1>3. CASE ~ Present(old)
  <2> DEFINE n == Request(m).frame
             m1 == Request(m).m
             m2 == Write(m1, n, ZeroTable)
             e == [frame |-> n, flags |-> flags]
             m3 == SetEntry(m2, table, i, e)
  <2>1. Child(m, table, i, flags) = [m |-> m3, table |-> n]
    BY <1>3 DEF Child
  <2>2. m1 \in Machines /\ n \in Memory /\ e \in Entry
    BY <1>1, RequestFacts, EntryTypes DEF Onward, LinkFlagsFit
  <2>3. Onward(m1, m2) /\ m2 \in Machines
    BY <2>2, WriteFacts, EntryFacts DEF Onward
  <2>4. Onward(m2, m3) /\ m3 \in Machines
    <3> HIDE DEF m2, e
    <3> QED BY <1>1, <2>2, <2>3, SetEntryFacts DEF Onward
  <2>5. Good(m1)
    BY <2>1, <2>3, <2>4 DEF Onward
  <2> PICK own2 : Fresh(m, own, n, m1, own2, role)
    BY <1>1, <2>5, RequestFresh
  <2> HIDE DEF n, m1
  <2>6. n \in m.free /\ n \in Frames /\ n # table
    BY DEF Fresh
  <2>7. /\ m2.mem[n] = ZeroTable /\ \A g \in Memory : g # n => m2.mem[g] = m.mem[g]
        /\ m2.free = m.free \ {n} /\ m2.flushed = m.flushed
    BY <2>2, WriteFacts, EntryFacts DEF Fresh
  <2> HIDE DEF m2
  <2>8. /\ m3.mem[table][i] = e /\ m3.mem[n] = ZeroTable
        /\ \A k \in Idx : k # i => m3.mem[table][k] = m.mem[table][k]
        /\ \A g \in Memory : g # table /\ g # n => m3.mem[g] = m.mem[g]
        /\ m3.free = m.free \ {n} /\ m3.flushed = m.flushed
    <3> HIDE DEF e
    <3> QED BY <1>1, <2>2, <2>3, <2>6, <2>7, SetEntryFacts
  <2> HIDE DEF m3
  <2>9. Grown(m, own, m3, own2) /\ own2[n] = role
    BY <2>8 DEF Fresh, Grown
  <2>10. Present(e) /\ ~ Huge(e) /\ e.frame = n /\ e.flags = flags
    BY DEF LinkFlagsFit, Present, Huge
  <2>11. LinkTo(m3, own2, e, x, role)
    BY <2>6, <2>8, <2>9, <2>10 DEF LinkTo, LinkFlagsFit
  <2> HIDE DEF e
  <2>12. Fits(m3, own2, table)
    <3>1. CASE own[table] = TopRole(x) /\ role = MidRole(x, i)
      BY <1>1, <2>8, <2>9, <2>11, <3>1, TopFitsSet
    <3>2. CASE \E h \in Nat : /\ own[table] = MidRole(x, h) /\ ~ HugeAt(x, h, i)
                              /\ role = LeafRole(x, h, i)
      BY <1>1, <2>8, <2>9, <2>11, <3>2, MidFitsSet
    <3> QED BY <3>1, <3>2 DEF PlaceOf
  <2>13. Shape(m3, own2)
    <3>1. Fits(m3, own2, n)
      BY <2>8, ZeroFits
    <3>2. ASSUME NEW f \in Frames \ m3.free, f # n, f # table
          PROVE  f \notin m.free /\ m3.mem[f] = m.mem[f]
      BY <2>8, <3>2, EntryFacts
    <3> QED BY <2>4, <2>9, <2>12, <3>1, <3>2, ShapeKept
  <2>14. \A f \in Frames \ m.free, k \in Idx :
           <<f, k>> # <<table, i>> => m3.mem[f][k] = m.mem[f][k]
    <3>1. \A f \in Frames \ m.free : f \in Memory /\ f # n
      BY <2>6, EntryFacts
    <3> QED BY <2>8, <3>1
  <2>15. TopsKept(m, own, m3)
    <3> SUFFICES ASSUME NEW f \in Frames \ m.free, NEW y \in Nat, own[f] = TopRole(y),
                        NEW k \in Idx, k \notin Half(y) \/ Present(m.mem[f][k])
                 PROVE  m3.mem[f][k] = m.mem[f][k]
      BY DEF TopsKept
    <3>1. <<f, k>> # <<table, i>>
      BY <1>3, RolesDiffer DEF PlaceOf
    <3> QED BY <2>14, <3>1
  <2>16. PagesKept(m, own, m3, x, {})
    <3> SUFFICES ASSUME NEW r, NEW y, NEW v, RootOf(m, own, r, y), PageOf(y, v)
                 PROVE  PagingGet(m3, r, v) = PagingGet(m, r, v)
      BY DEF PagesKept
    <3>1. Mid(v) \in Idx /\ Low(v) \in Idx /\ Top(v) \in Idx /\ Top(v) \in Nat /\ Mid(v) \in Nat
      BY PageIndices, HalfIsIdx DEF PageOf
    <3>2. \A f \in Frames \ m.free, k \in Idx : Extends(m3, m.mem[f][k], m3.mem[f][k])
      BY <1>3, <2>8, <2>10, <2>14 DEF Extends
    <3>3. ASSUME NEW f \in Frames \ m.free, own[f] = LeafRole(y, Top(v), Mid(v))
          PROVE  m3.mem[f][Low(v)] = m.mem[f][Low(v)]
      <4>1. f # table
        BY <3>1, <3>3, RolesDiffer DEF PlaceOf, RootOf
      <4> QED BY <2>14, <3>1, <4>1
    <3>4. r \in Frames \ m.free
      BY DEF RootOf
    <3> QED BY <3>1, <3>2, <3>3, <3>4, GetSame
  <2>17. Linking(m, own, table, i, x, role, m3, own2, n)
    BY <2>6, <2>8, <2>9, <2>10, <2>11, <2>13, <2>14, <2>15, <2>16 DEF Linking, Step
  <2> QED BY <2>1, <2>17 DEF n
<1> QED
  BY <1>2, <1>3

-----------------------------------------------------------------------------
(* Pages of a tree.                                                         *)

LEMMA SetLeaf ==
  ASSUME NEW m, NEW own, Shape(m, own), NEW f \in Frames \ m.free,
         NEW x \in Nat, NEW i \in Nat, NEW j \in Nat, own[f] = LeafRole(x, i, j),
         NEW k \in Idx, NEW e \in Entry, LeafEntryFits(m, own, e, x, i, j, k)
  PROVE  Step(m, own, SetEntry(m, f, k, e), own, x, {EntryAddress(EntryAddress(i, j), k)})
<1> DEFINE m2 == SetEntry(m, f, k, e)
<1>1. m \in Machines /\ own \in [Frames -> Roles] /\ f \in Memory /\ Fits(m, own, f)
  BY EntryFacts DEF Shape
<1>2. /\ m2 \in Machines /\ m2.mem[f][k] = e
      /\ \A l \in Idx : l # k => m2.mem[f][l] = m.mem[f][l]
      /\ \A g \in Memory : g # f => m2.mem[g] = m.mem[g]
      /\ m2.free = m.free
  BY <1>1, SetEntryFacts DEF Onward
<1> HIDE DEF m2
<1>3. Grown(m, own, m2, own)
  BY <1>1, <1>2 DEF Grown
<1>4. LeafEntryFits(m2, own, m2.mem[f][k], x, i, j, k)
  BY <1>2 DEF LeafEntryFits
<1>5. Fits(m2, own, f)
  BY <1>1, <1>2, <1>3, <1>4, LeafFitsSet
<1>6. Shape(m2, own)
  <2>1. ASSUME NEW g \in Frames \ m2.free, g # f
        PROVE  g \notin m.free /\ m2.mem[g] = m.mem[g]
    BY <1>2, <2>1, EntryFacts
  <2> QED BY <1>2, <1>3, <1>5, <2>1, ShapeKept
<1>7. \A g \in Frames \ m.free, l \in Idx : <<g, l>> # <<f, k>> => m2.mem[g][l] = m.mem[g][l]
  BY <1>2, EntryFacts
<1>8. TopsKept(m, own, m2)
  <2>1. ASSUME NEW g \in Frames \ m.free, NEW y \in Nat, own[g] = TopRole(y)
        PROVE  g # f
    BY <2>1, RolesDiffer
  <2> QED BY <1>7, <2>1 DEF TopsKept
<1>9. PagesKept(m, own, m2, x, {EntryAddress(EntryAddress(i, j), k)})
  <2> SUFFICES ASSUME NEW r, NEW y, NEW v, RootOf(m, own, r, y), PageOf(y, v),
                      y = x => v # EntryAddress(EntryAddress(i, j), k)
               PROVE  PagingGet(m2, r, v) = PagingGet(m, r, v)
    BY DEF PagesKept
  <2>1. /\ Mid(v) \in Idx /\ Low(v) \in Idx /\ Top(v) \in Idx
        /\ v = EntryAddress(EntryAddress(Top(v), Mid(v)), Low(v))
    BY PageIndices DEF PageOf, PageAt
  <2>2. Top(v) \in Nat /\ Mid(v) \in Nat /\ y \in Nat /\ r \in Frames \ m.free
    BY <2>1, HalfIsIdx DEF RootOf
  <2>3. m2.mem[r][Top(v)] = m.mem[r][Top(v)]
    <3>1. r # f
      BY <2>2, RolesDiffer DEF RootOf
    <3> QED BY <1>7, <2>1, <2>2, <3>1
  <2>4. ASSUME NEW g \in Frames \ m.free, own[g] = MidRole(y, Top(v))
        PROVE  m2.mem[g][Mid(v)] = m.mem[g][Mid(v)]
    <3>1. g # f
      BY <2>2, <2>4, RolesDiffer
    <3> QED BY <1>7, <2>1, <3>1
  <2>5. ASSUME NEW g \in Frames \ m.free, own[g] = LeafRole(y, Top(v), Mid(v))
        PROVE  m2.mem[g][Low(v)] = m.mem[g][Low(v)]
    <3>1. g = f => y = x /\ Top(v) = i /\ Mid(v) = j
      BY <2>2, <2>5, RolesDiffer
    <3>2. <<g, Low(v)>> # <<f, k>>
      BY <2>1, <3>1
    <3> QED BY <1>7, <2>1, <3>2
  <2> QED BY <2>3, <2>4, <2>5, GetSame DEF Extends
<1> QED
  BY <1>3, <1>6, <1>8, <1>9 DEF Step, m2

LEMMA FlushShape ==
  ASSUME NEW m, NEW own, Shape(m, own), NEW v \in Pages, NEW y, NEW A
  PROVE  Step(m, own, Flush(m, v), own, y, A)
<1> DEFINE m2 == Flush(m, v)
<1>1. m \in Machines /\ own \in [Frames -> Roles]
  BY DEF Shape
<1>2. m2 \in Machines /\ m2.mem = m.mem /\ m2.free = m.free
  BY <1>1, FlushFacts DEF Onward
<1> HIDE DEF m2
<1>3. Grown(m, own, m2, own)
  BY <1>1, <1>2 DEF Grown
<1>4. Shape(m2, own)
  BY <1>2, <1>3, ShapeKept
<1>5. PagesKept(m, own, m2, y, A)
  BY <1>2 DEF PagesKept, PagingGet
<1> QED
  BY <1>2, <1>3, <1>4, <1>5 DEF Step, TopsKept, m2

LEMMA LinkFlagsAreFit ==
  ASSUME NEW x \in Nat, NEW v, PageOf(x, v)
  PROVE  LinkFlagsFit(LinkFlags(v), x) /\ LinkFlags(v) \in SUBSET {"P", "W", "U"}
<1>1. x # 0 => v < Higher
  BY HalfOfPage DEF PageOf, Half
<1> QED
  BY <1>1 DEF LinkFlags, LinkFlagsFit

(* A mapping of paging_map                                                  *)
LeafEntry(f, flags) == [frame |-> f, flags |-> flags \cup {"P"}]

LEMMA LeafEntryFacts ==
  ASSUME NEW f \in Memory, NEW flags \in SUBSET {"P", "W", "U"}
  PROVE  /\ LeafEntry(f, flags) \in Entry /\ Present(LeafEntry(f, flags))
         /\ ~ Huge(LeafEntry(f, flags)) /\ LeafEntry(f, flags).frame = f
         /\ LeafEntry(f, flags).flags = flags \cup {"P"}
  BY DEF LeafEntry, Entry, Present, Huge

LEMMA PagingMapType ==
  ASSUME NEW m \in Machines, NEW table \in Memory, NEW v \in Pages, NEW f \in Memory,
         NEW flags \in SUBSET {"P", "W", "U"}
  PROVE  Onward(m, PagingMap(m, table, v, f, flags))
<1> DEFINE mid == Child(m, table, Top(v), LinkFlags(v))
           leaf == Child(mid.m, mid.table, Mid(v), LinkFlags(v))
           m3 == SetEntry(leaf.m, leaf.table, Low(v), LeafEntry(f, flags))
<1>1. Top(v) \in Idx /\ Mid(v) \in Idx /\ Low(v) \in Idx
  BY PageIndices
<1>2. LinkFlags(v) \in SUBSET {"P", "W", "U"}
  BY DEF LinkFlags
<1>3. Onward(m, mid.m) /\ mid.m \in Machines /\ mid.table \in Memory
  BY <1>1, <1>2, ChildType DEF Onward
<1> HIDE DEF mid
<1>4. Onward(mid.m, leaf.m) /\ leaf.m \in Machines /\ leaf.table \in Memory
  BY <1>1, <1>2, <1>3, ChildType DEF Onward
<1> HIDE DEF leaf
<1>5. Onward(leaf.m, m3) /\ m3 \in Machines
  BY <1>1, <1>4, LeafEntryFacts, SetEntryFacts DEF Onward
<1> HIDE DEF m3
<1>6. Onward(m3, Flush(m3, v))
  BY <1>5, FlushFacts
<1>7. PagingMap(m, table, v, f, flags) = Flush(m3, v)
  BY DEF PagingMap, mid, leaf, m3, LeafEntry
<1> QED
  BY <1>3, <1>4, <1>5, <1>6, <1>7, OnwardTransitive

Mapping(m, own, r, x, v, m2, own2, e) ==
  /\ Step(m, own, m2, own2, x, {v}) /\ PagingGet(m2, r, v) = e
  /\ m2.flushed = m.flushed \cup {v}

LEMMA PagingMapMaps ==
  ASSUME NEW m, NEW own, Shape(m, own), NEW r, NEW x, NEW v, RootOf(m, own, r, x), PageOf(x, v),
         ~ HugeAt(x, Top(v), Mid(v)), NEW f \in Memory, NEW flags \in SUBSET {"P", "W", "U"},
         DataAt(x, Top(v), Mid(v), Low(v)) => f \in Frames \ m.free /\ own[f] = PageRole,
         Good(PagingMap(m, r, v, f, flags))
  PROVE  \E own2 : Mapping(m, own, r, x, v, PagingMap(m, r, v, f, flags), own2,
                           LeafEntry(f, flags))
<1> DEFINE mid == Child(m, r, Top(v), LinkFlags(v))
           leaf == Child(mid.m, mid.table, Mid(v), LinkFlags(v))
           e == LeafEntry(f, flags)
           m3 == SetEntry(leaf.m, leaf.table, Low(v), e)
           m4 == Flush(m3, v)
<1>1. /\ Top(v) \in Idx /\ Mid(v) \in Idx /\ Low(v) \in Idx /\ Top(v) \in Nat /\ Mid(v) \in Nat
      /\ v \in Pages /\ Top(v) \in Half(x) /\ x \in Nat /\ r \in Memory /\ m \in Machines
      /\ v = EntryAddress(EntryAddress(Top(v), Mid(v)), Low(v)) /\ r \in Frames \ m.free
      /\ own[r] = TopRole(x)
  BY PageIndices, HalfIsIdx, EntryFacts DEF PageOf, PageAt, RootOf, Shape
<1>2. LinkFlagsFit(LinkFlags(v), x) /\ LinkFlags(v) \in SUBSET {"P", "W", "U"}
  BY <1>1, LinkFlagsAreFit
<1>3. PagingMap(m, r, v, f, flags) = m4
  BY DEF PagingMap, LeafEntry
<1>4. mid.m \in Machines /\ mid.table \in Memory
  BY <1>1, <1>2, ChildType DEF Onward
<1>5. Onward(mid.m, leaf.m) /\ leaf.m \in Machines /\ leaf.table \in Memory
  <2> HIDE DEF mid
  <2> QED BY <1>1, <1>2, <1>4, ChildType DEF Onward
<1>6. Onward(leaf.m, m3) /\ Onward(m3, m4)
  <2> HIDE DEF leaf, e
  <2>1. e \in Entry
    BY LeafEntryFacts DEF e
  <2>2. Onward(leaf.m, m3) /\ m3 \in Machines
    BY <1>1, <1>5, <2>1, SetEntryFacts DEF Onward
  <2> HIDE DEF m3
  <2> QED BY <1>1, <2>2, FlushFacts
<1>7. Good(leaf.m) /\ Good(mid.m)
  BY <1>3, <1>5, <1>6 DEF Onward
<1>8. PlaceOf(own, r, Top(v), x, MidRole(x, Top(v)))
  BY <1>1 DEF PlaceOf
<1> PICK own1 : Linking(m, own, r, Top(v), x, MidRole(x, Top(v)), mid.m, own1, mid.table)
  BY <1>1, <1>2, <1>7, <1>8, ChildLinks
<1> HIDE DEF mid
<1>9. /\ Shape(mid.m, own1) /\ mid.table \in Frames \ mid.m.free
      /\ own1[mid.table] = MidRole(x, Top(v)) /\ Step(m, own, mid.m, own1, x, {v})
  <2>1. Step(m, own, m, own, x, {})
    BY StepNothing
  <2>2. Step(mid.m, own1, mid.m, own1, x, {v})
    BY StepNothing DEF Linking, Step
  <2>3. Step(m, own, mid.m, own1, x, {v})
    BY <2>2, StepTransitive DEF Linking
  <2> QED BY <2>3 DEF Linking, Step
<1>10. PlaceOf(own1, mid.table, Mid(v), x, LeafRole(x, Top(v), Mid(v)))
  BY <1>1, <1>9 DEF PlaceOf
<1> PICK own2 : Linking(mid.m, own1, mid.table, Mid(v), x, LeafRole(x, Top(v), Mid(v)),
                        leaf.m, own2, leaf.table)
  BY <1>2, <1>7, <1>9, <1>10, ChildLinks
<1> HIDE DEF leaf
<1>11. /\ Shape(leaf.m, own2) /\ leaf.table \in Frames \ leaf.m.free
       /\ own2[leaf.table] = LeafRole(x, Top(v), Mid(v)) /\ Step(m, own, leaf.m, own2, x, {v})
  <2>1. Step(leaf.m, own2, leaf.m, own2, x, {v})
    BY StepNothing DEF Linking, Step
  <2>2. Step(mid.m, own1, leaf.m, own2, x, {v})
    BY <2>1, StepTransitive DEF Linking
  <2>3. Step(m, own, leaf.m, own2, x, {v})
    BY <1>9, <2>2, StepTransitive
  <2> QED BY <2>3 DEF Linking, Step
<1>12. e \in Entry /\ Present(e) /\ ~ Huge(e) /\ e.frame = f
  BY LeafEntryFacts
<1> HIDE DEF e
<1>13. LeafEntryFits(leaf.m, own2, e, x, Top(v), Mid(v), Low(v))
  <2>1. Grown(m, own, leaf.m, own2)
    BY <1>11 DEF Step
  <2> QED BY <1>12, <2>1 DEF LeafEntryFits, Grown
<1>14. Step(leaf.m, own2, m3, own2, x, {v})
  BY <1>1, <1>11, <1>12, <1>13, SetLeaf
<1>15. /\ m3.mem[leaf.table][Low(v)] = e
       /\ \A g \in Memory : g # leaf.table => m3.mem[g] = leaf.m.mem[g]
       /\ m3.flushed = leaf.m.flushed /\ m3 \in Machines
  <2>1. Low(v) \in Idx /\ leaf.m \in Machines /\ leaf.table \in Memory /\ e \in Entry
    BY <1>1, <1>5, <1>12
  <2>2. Onward(leaf.m, m3)
    BY <2>1, SetEntryFacts
  <2>3. /\ m3.mem[leaf.table][Low(v)] = e
        /\ \A g \in Memory : g # leaf.table => m3.mem[g] = leaf.m.mem[g]
        /\ m3.flushed = leaf.m.flushed
    BY <2>1, SetEntryFacts
  <2> QED BY <2>2, <2>3 DEF Onward
<1> HIDE DEF m3
<1>16. Step(m3, own2, m4, own2, x, {v}) /\ m4.mem = m3.mem /\ m4.flushed = m3.flushed \cup {v}
  <2>1. Shape(m3, own2)
    BY <1>14 DEF Step
  <2>2. Step(m3, own2, m4, own2, x, {v})
    BY <1>1, <2>1, FlushShape
  <2>3. m4.mem = m3.mem
    BY <1>1, <1>15, FlushFacts
  <2>4. m4.flushed = m3.flushed \cup {v}
    BY <1>15 DEF Flush, Machines
  <2> QED BY <2>2, <2>3, <2>4
<1> HIDE DEF m4
<1>17. Step(m, own, m4, own2, x, {v})
  BY <1>11, <1>14, <1>16, StepTransitive
<1>18. PagingGet(m4, r, v) = e
  <2>1. r \in Frames \ mid.m.free /\ own1[r] = TopRole(x) /\ r # mid.table
    BY <1>1, <1>9, RolesDiffer DEF Step, Grown
  <2>2. r \in Frames \ leaf.m.free /\ own2[r] = TopRole(x) /\ r # leaf.table
    BY <1>1, <1>11, RolesDiffer DEF Step, Grown
  <2>3. mid.table # leaf.table
    <3>1. own2[mid.table] = MidRole(x, Top(v))
      BY <1>9 DEF Linking, Step, Grown
    <3> QED BY <1>1, <1>11, <3>1, RolesDiffer
  <2>4. leaf.m.mem[r][Top(v)] = mid.m.mem[r][Top(v)]
    BY <1>1, <2>1 DEF Linking
  <2>5. m4.mem[r][Top(v)] = mid.m.mem[r][Top(v)]
    BY <1>1, <1>15, <1>16, <2>2, <2>4
  <2>6. TopOf(m4, r, v).frame = mid.table /\ Present(TopOf(m4, r, v)) /\ ~ Huge(TopOf(m4, r, v))
    BY <2>5 DEF TopOf, Linking, LinkTo
  <2>7. MidOf(m4, r, v) = leaf.m.mem[mid.table][Mid(v)]
    BY <1>4, <1>15, <1>16, <2>3, <2>6 DEF MidOf
  <2>8. MidOf(m4, r, v).frame = leaf.table /\ Present(MidOf(m4, r, v)) /\ ~ Huge(MidOf(m4, r, v))
    BY <2>7 DEF Linking, LinkTo
  <2>9. LeafOf(m4, r, v) = e
    BY <1>15, <1>16, <2>8 DEF LeafOf
  <2> QED BY <2>6, <2>8, <2>9, GetIs DEF Got
<1>19. m4.flushed = m.flushed \cup {v}
  BY <1>15, <1>16 DEF Linking
<1>20. Mapping(m, own, r, x, v, m4, own2, e)
  BY <1>17, <1>18, <1>19 DEF Mapping
<1> QED
  BY <1>3, <1>20 DEF e, m4

LEMMA PagingUnmapType ==
  ASSUME NEW m \in Machines, NEW table \in Memory, NEW v \in Pages
  PROVE  Onward(m, PagingUnmap(m, table, v))
<1> DEFINE f == MidOf(m, table, v).frame
           m2 == SetEntry(m, f, Low(v), Absent)
<1>1. Top(v) \in Idx /\ Mid(v) \in Idx /\ Low(v) \in Idx
  BY PageIndices
<1>2. TopOf(m, table, v).frame \in Memory
  BY <1>1, MemFacts DEF TopOf
<1>3. f \in Memory
  BY <1>1, <1>2, MemFacts DEF MidOf
<1>4. PagingUnmap(m, table, v) \in {m, Flush(m2, v)}
  BY DEF PagingUnmap, MidOf, TopOf
<1> HIDE DEF f
<1>5. Onward(m, m2) /\ m2 \in Machines
  BY <1>1, <1>3, EntryFacts, SetEntryFacts DEF Onward
<1> HIDE DEF m2
<1>6. Onward(m2, Flush(m2, v)) /\ Onward(m, m)
  BY <1>5, FlushFacts DEF Onward
<1> QED
  BY <1>4, <1>5, <1>6, OnwardTransitive

Unmapping(m, own, r, x, v, m2) ==
  /\ Step(m, own, m2, own, x, {v}) /\ ~ Present(PagingGet(m2, r, v))
  /\ m2.free = m.free
  /\ Present(PagingGet(m, r, v)) => v \in m2.flushed

LEMMA PagingUnmapUnmaps ==
  ASSUME NEW m, NEW own, Shape(m, own), NEW r, NEW x, NEW v, RootOf(m, own, r, x), PageOf(x, v),
         ~ HugeAt(x, Top(v), Mid(v))
  PROVE  Unmapping(m, own, r, x, v, PagingUnmap(m, r, v))
<1> DEFINE top == TopOf(m, r, v)
           mid == MidOf(m, r, v)
           m2 == SetEntry(m, mid.frame, Low(v), Absent)
           m3 == Flush(m2, v)
<1>1. /\ Top(v) \in Idx /\ Mid(v) \in Idx /\ Low(v) \in Idx /\ Top(v) \in Nat /\ Mid(v) \in Nat
      /\ v \in Pages /\ x \in Nat /\ r \in Memory /\ m \in Machines
      /\ v = EntryAddress(EntryAddress(Top(v), Mid(v)), Low(v)) /\ r \in Frames \ m.free
      /\ own[r] = TopRole(x)
  BY PageIndices, HalfIsIdx, EntryFacts DEF PageOf, PageAt, RootOf, Shape
<1>2. Walk(m, own, r, x, v) /\ Got(m, r, v)
  BY WalkIs, GetIs
<1>3. PagingUnmap(m, r, v) = IF Present(top) /\ Present(mid) THEN m3 ELSE m
  BY DEF PagingUnmap, MidOf, TopOf
<1>4. CASE ~ (Present(top) /\ Present(mid))
  <2>1. PagingUnmap(m, r, v) = m
    BY <1>3, <1>4
  <2>2. Present(top) => ~ Huge(top)
    BY <1>2 DEF Walk, LinkTo
  <2>3. PagingGet(m, r, v) = Absent
    BY <1>2, <1>4, <2>2 DEF Got
  <2>4. Step(m, own, m, own, x, {v})
    BY StepNothing
  <2> QED BY <2>1, <2>3, <2>4, EntryFacts DEF Unmapping
<1>5. CASE Present(top) /\ Present(mid)
  <2>1. PagingUnmap(m, r, v) = m3
    BY <1>3, <1>5
  <2>2. /\ LinkTo(m, own, top, x, MidRole(x, Top(v)))
        /\ LinkTo(m, own, mid, x, LeafRole(x, Top(v), Mid(v)))
    BY <1>2, <1>5 DEF Walk
  <2>3. /\ top.frame \in Frames \ m.free /\ own[top.frame] = MidRole(x, Top(v)) /\ ~ Huge(top)
        /\ mid.frame \in Frames \ m.free /\ own[mid.frame] = LeafRole(x, Top(v), Mid(v))
        /\ mid.frame \in Memory /\ top.frame \in Memory /\ ~ Huge(mid)
    BY <2>2, EntryFacts DEF LinkTo
  <2>4. LeafEntryFits(m, own, Absent, x, Top(v), Mid(v), Low(v))
    BY EntryFacts DEF LeafEntryFits
  <2> HIDE DEF mid, top
  <2>5. Step(m, own, m2, own, x, {v})
    BY <1>1, <2>3, <2>4, EntryFacts, SetLeaf
  <2>6. /\ m2.mem[mid.frame][Low(v)] = Absent /\ m2.free = m.free /\ m2 \in Machines
        /\ \A g \in Memory : g # mid.frame => m2.mem[g] = m.mem[g]
    <3>1. Onward(m, m2)
      BY <1>1, <2>3, EntryFacts, SetEntryFacts
    <3>2. /\ m2.mem[mid.frame][Low(v)] = Absent /\ m2.free = m.free
          /\ \A g \in Memory : g # mid.frame => m2.mem[g] = m.mem[g]
      BY <1>1, <2>3, EntryFacts, SetEntryFacts
    <3> QED BY <3>1, <3>2 DEF Onward
  <2> HIDE DEF m2
  <2>7. Step(m2, own, m3, own, x, {v})
    BY <1>1, <2>5, FlushShape DEF Step
  <2>8. m3.mem = m2.mem /\ m3.free = m2.free /\ v \in m3.flushed
    BY <1>1, <2>6, FlushFacts
  <2> HIDE DEF m3
  <2>9. Step(m, own, m3, own, x, {v})
    BY <2>5, <2>7, StepTransitive
  <2>10. ~ Present(PagingGet(m3, r, v))
    <3>1. r # mid.frame /\ top.frame # mid.frame
      BY <1>1, <2>3, RolesDiffer
    <3>2. TopOf(m3, r, v) = top
      BY <1>1, <2>6, <2>8, <3>1 DEF TopOf, top
    <3>3. MidOf(m3, r, v) = mid
      BY <2>3, <2>6, <2>8, <3>1, <3>2 DEF MidOf, mid, top
    <3>4. LeafOf(m3, r, v) = Absent
      BY <2>6, <2>8, <3>3 DEF LeafOf
    <3> QED BY <1>5, <2>3, <3>2, <3>3, <3>4, GetIs, EntryFacts DEF Got
  <2> QED BY <2>1, <2>6, <2>8, <2>9, <2>10 DEF Unmapping
<1> QED
  BY <1>4, <1>5

-----------------------------------------------------------------------------
(* Loops over machines: what the n steps of a loop lead through.            *)

Loop(f, m, n, step) ==
  /\ f \in [0 .. n -> Machines]
  /\ f = [k \in 0 .. n |-> IF k = 0 THEN m ELSE step[<<k, f[k - 1]>>]]

LEMMA LoopExists ==
  ASSUME NEW m \in Machines, NEW n \in Nat, NEW step \in [(1 .. n) \X Machines -> Machines]
  PROVE  \E f : Loop(f, m, n, step)
<1> PICK f : Iterates(f, Machines, m, n, step)
  BY RecursionExists
<1>1. f \in [0 .. n -> Machines] /\ f[0] = m /\ \A k \in 1 .. n : f[k] = step[<<k, f[k - 1]>>]
  BY DEF Iterates
<1>2. ASSUME NEW k \in 0 .. n
      PROVE  f[k] = IF k = 0 THEN m ELSE step[<<k, f[k - 1]>>]
  <2>1. k # 0 => k \in 1 .. n
    OBVIOUS
  <2> QED BY <1>1, <2>1
<1> QED
  BY <1>1, <1>2 DEF Loop

-----------------------------------------------------------------------------
(* Pages on request.                                                        *)

LEMMA VmmRequestPageType ==
  ASSUME NEW m \in Machines, NEW table \in Memory, NEW v \in Pages,
         NEW flags \in SUBSET {"P", "W", "U"}
  PROVE  Onward(m, VmmRequestPage(m, table, v, flags))
<1> DEFINE new == Request(m)
           m2 == PagingMap(new.m, table, v, new.frame, flags)
<1>1. VmmRequestPage(m, table, v, flags) \in {m, m2}
  BY DEF VmmRequestPage
<1>2. Onward(m, new.m) /\ new.m \in Machines /\ new.frame \in Memory
  BY RequestFacts DEF Onward
<1> HIDE DEF new
<1>3. Onward(new.m, m2)
  BY <1>2, PagingMapType
<1>4. Onward(m, m)
  BY DEF Onward
<1> QED
  BY <1>1, <1>2, <1>3, <1>4, OnwardTransitive

(* Pages that vmm_request_at may be asked for in tree x                     *)
MayRequest(x, v) == PageOf(x, v) /\ ~ HugeAt(x, Top(v), Mid(v))

(* Pages of A that were absent have frames of their own, the others theirs. *)
Backing(m, own, r, x, A, flags, m2, own2) ==
  /\ Step(m, own, m2, own2, x, A)
  /\ \A w \in A :
       IF Present(PagingGet(m, r, w)) THEN PagingGet(m2, r, w) = PagingGet(m, r, w)
       ELSE \E g \in m.free \ m2.free : PagingGet(m2, r, w) = LeafEntry(g, flags)
  /\ \A u, w \in A :
       /\ ~ Present(PagingGet(m, r, u)) /\ ~ Present(PagingGet(m, r, w))
       /\ PagingGet(m2, r, u).frame = PagingGet(m2, r, w).frame
       => u = w

LEMMA VmmRequestPageBacks ==
  ASSUME NEW m, NEW own, Shape(m, own), NEW r, NEW x, NEW v, RootOf(m, own, r, x),
         MayRequest(x, v), NEW flags \in SUBSET {"P", "W", "U"},
         Good(VmmRequestPage(m, r, v, flags))
  PROVE  \E own2 : Backing(m, own, r, x, {v}, flags, VmmRequestPage(m, r, v, flags), own2)
<1> DEFINE new == Request(m)
           m2 == PagingMap(new.m, r, v, new.frame, flags)
<1>1. m \in Machines /\ r \in Memory /\ v \in Pages /\ x \in Nat
  BY EntryFacts DEF Shape, RootOf, MayRequest, PageOf
<1>2. CASE Present(PagingGet(m, r, v))
  <2>1. VmmRequestPage(m, r, v, flags) = m
    BY <1>2 DEF VmmRequestPage
  <2>2. Step(m, own, m, own, x, {v})
    BY StepNothing
  <2>3. Backing(m, own, r, x, {v}, flags, m, own)
    BY <1>2, <2>2 DEF Backing
  <2> QED BY <2>1, <2>3
<1>3. CASE ~ Present(PagingGet(m, r, v))
  <2>1. VmmRequestPage(m, r, v, flags) = m2
    BY <1>3 DEF VmmRequestPage
  <2>2. new.m \in Machines /\ new.frame \in Memory
    BY <1>1, RequestFacts DEF Onward
  <2>3. Onward(new.m, m2) /\ Good(new.m)
    <3> HIDE DEF new
    <3>1. Onward(new.m, m2)
      BY <1>1, <2>2, PagingMapType
    <3> QED BY <2>1, <3>1 DEF Onward
  <2> PICK own1 : Fresh(m, own, new.frame, new.m, own1, PageRole)
    BY <2>3, RequestFresh, RolesAre
  <2> HIDE DEF new
  <2>4. Grown(m, own, new.m, own1) /\ new.m.mem = m.mem /\ new.frame \in Frames \ new.m.free
    BY DEF Fresh
  <2>5. Shape(new.m, own1)
    <3>1. Fits(new.m, own1, new.frame)
      BY PageFits DEF Fresh
    <3>2. ASSUME NEW f \in Frames \ new.m.free, f # new.frame
          PROVE  f \notin m.free /\ new.m.mem[f] = m.mem[f]
      BY <3>2 DEF Fresh
    <3> QED BY <2>2, <2>4, <3>1, <3>2, ShapeKept
  <2>6. Step(m, own, new.m, own1, x, {v})
    BY <2>4, <2>5 DEF Step, TopsKept, PagesKept, PagingGet
  <2>7. RootOf(new.m, own1, r, x)
    BY <2>4, RootKept
  <2> PICK own2 : Mapping(new.m, own1, r, x, v, m2, own2, LeafEntry(new.frame, flags))
    BY <2>1, <2>2, <2>4, <2>5, <2>7, PagingMapMaps DEF MayRequest, Fresh
  <2>8. Step(m, own, m2, own2, x, {v})
    BY <2>6, StepTransitive DEF Mapping
  <2>9. new.frame \in m.free \ m2.free
    BY <2>3 DEF Fresh, Onward
  <2> HIDE DEF m2
  <2>10. Backing(m, own, r, x, {v}, flags, m2, own2)
    BY <1>3, <2>8, <2>9 DEF Backing, Mapping
  <2> QED BY <2>1, <2>10 DEF m2
<1> QED
  BY <1>2, <1>3

(* One more page                                                            *)
LEMMA BackingGrows ==
  ASSUME NEW m, NEW own, NEW r, NEW x, NEW A, NEW flags \in SUBSET {"P", "W", "U"},
         NEW m1, NEW own1, NEW v, NEW m2, NEW own2,
         Shape(m, own), RootOf(m, own, r, x), \A w \in A : PageOf(x, w), v \notin A, PageOf(x, v),
         Backing(m, own, r, x, A, flags, m1, own1),
         Backing(m1, own1, r, x, {v}, flags, m2, own2)
  PROVE  Backing(m, own, r, x, A \cup {v}, flags, m2, own2)
<1>1. Step(m, own, m2, own2, x, A \cup {v})
  <2>1. Shape(m1, own1)
    BY DEF Backing, Step
  <2>2. Step(m1, own1, m1, own1, x, A \cup {v})
    BY <2>1, StepNothing
  <2>3. Step(m, own, m1, own1, x, A \cup {v})
    BY <2>2, StepTransitive DEF Backing
  <2>4. Step(m2, own2, m2, own2, x, A \cup {v})
    BY StepNothing DEF Backing, Step
  <2>5. Step(m1, own1, m2, own2, x, A \cup {v})
    BY <2>4, StepTransitive DEF Backing
  <2> QED BY <2>3, <2>5, StepTransitive
<1>2. RootOf(m1, own1, r, x)
  BY RootKept DEF Backing, Step
<1>3. /\ m1.free \subseteq m.free /\ m2.free \subseteq m1.free
  BY DEF Backing, Step, Grown
<1>4. \A w \in A : PagingGet(m2, r, w) = PagingGet(m1, r, w)
  BY <1>2 DEF Backing, Step, PagesKept
<1>5. PagingGet(m1, r, v) = PagingGet(m, r, v)
  BY DEF Backing, Step, PagesKept
<1>6. ASSUME NEW w \in A, ~ Present(PagingGet(m, r, w))
      PROVE  \E g \in m.free \ m1.free : PagingGet(m2, r, w) = LeafEntry(g, flags)
  BY <1>4, <1>6 DEF Backing
<1>7. ASSUME ~ Present(PagingGet(m, r, v))
      PROVE  \E g \in m1.free \ m2.free : PagingGet(m2, r, v) = LeafEntry(g, flags)
  BY <1>5, <1>7 DEF Backing
<1>8. ASSUME NEW w \in A \cup {v}
      PROVE  IF Present(PagingGet(m, r, w)) THEN PagingGet(m2, r, w) = PagingGet(m, r, w)
             ELSE \E g \in m.free \ m2.free : PagingGet(m2, r, w) = LeafEntry(g, flags)
  <2>1. CASE ~ Present(PagingGet(m, r, w))
    BY <1>3, <1>6, <1>7, <2>1
  <2>2. CASE Present(PagingGet(m, r, w)) /\ w \in A
    BY <1>4, <2>2 DEF Backing
  <2>3. CASE Present(PagingGet(m, r, w)) /\ w = v
    BY <1>5, <2>3 DEF Backing
  <2> QED BY <2>1, <2>2, <2>3
<1>9. \A g : LeafEntry(g, flags).frame = g
  BY DEF LeafEntry
<1>10. ASSUME NEW u \in A \cup {v}, NEW w \in A \cup {v},
              ~ Present(PagingGet(m, r, u)), ~ Present(PagingGet(m, r, w)),
              PagingGet(m2, r, u).frame = PagingGet(m2, r, w).frame
       PROVE  u = w
  <2>1. CASE u \in A /\ w \in A
    <3>1. PagingGet(m1, r, u).frame = PagingGet(m1, r, w).frame
      BY <1>4, <1>10, <2>1
    <3> QED BY <1>10, <2>1, <3>1 DEF Backing
  <2>2. CASE u \in A /\ w = v
    BY <1>6, <1>7, <1>9, <1>10, <2>2
  <2>3. CASE u = v /\ w \in A
    BY <1>6, <1>7, <1>9, <1>10, <2>3
  <2> QED BY <2>1, <2>2, <2>3
<1> QED
  BY <1>1, <1>8, <1>10 DEF Backing

(* The loop of vmm_request_at                                               *)
Requests(m, table, v, n, flags, after) ==
  /\ after[0] = m /\ after[n] = VmmRequestAt(m, table, v, n, flags)
  /\ \A k \in 0 .. n : after[k] \in Machines
  /\ \A k \in 1 .. n : after[k] = VmmRequestPage(after[k - 1], table, v + k - 1, flags)

LEMMA VmmRequestAtSteps ==
  ASSUME NEW m \in Machines, NEW table \in Memory, NEW v \in Nat, NEW n \in Nat,
         \A k \in 1 .. n : v + k - 1 \in Pages, NEW flags \in SUBSET {"P", "W", "U"}
  PROVE  \E after : Requests(m, table, v, n, flags, after)
<1> DEFINE step == [x \in (1 .. n) \X Machines |->
                      VmmRequestPage(x[2], table, v + x[1] - 1, flags)]
           Is(f) == f = [k \in 0 .. n |-> IF k = 0 THEN m
                           ELSE VmmRequestPage(f[k - 1], table, v + k - 1, flags)]
           after == CHOOSE f : Is(f)
<1>1. step \in [(1 .. n) \X Machines -> Machines]
  <2>1. \A k \in 1 .. n, q \in Machines :
          VmmRequestPage(q, table, v + k - 1, flags) \in Machines
    BY VmmRequestPageType DEF Onward
  <2> QED BY <2>1
<1>2. \E f : Is(f)
  <2> PICK f : Loop(f, m, n, step)
    <3> HIDE DEF step
    <3> QED BY <1>1, LoopExists
  <2>1. ASSUME NEW k \in 1 .. n
        PROVE  step[<<k, f[k - 1]>>] = VmmRequestPage(f[k - 1], table, v + k - 1, flags)
    <3>1. k - 1 \in 0 .. n
      OBVIOUS
    <3>2. f[k - 1] \in Machines
      <4> HIDE DEF step
      <4> QED BY <3>1 DEF Loop
    <3> QED BY <3>2
  <2> HIDE DEF step
  <2>2. \A k \in 0 .. n : k # 0 => k \in 1 .. n
    OBVIOUS
  <2>3. [k \in 0 .. n |-> IF k = 0 THEN m ELSE step[<<k, f[k - 1]>>]]
          = [k \in 0 .. n |-> IF k = 0 THEN m
                              ELSE VmmRequestPage(f[k - 1], table, v + k - 1, flags)]
    BY <2>1, <2>2
  <2>4. Is(f)
    BY <2>3 DEF Loop
  <2> QED BY <2>4
<1>3. Is(after)
  BY <1>2
<1>4. VmmRequestAt(m, table, v, n, flags) = after[n]
  BY DEF VmmRequestAt
<1> HIDE DEF after
<1>5. after[0] = m /\ \A k \in 1 .. n :
                         after[k] = VmmRequestPage(after[k - 1], table, v + k - 1, flags)
  BY <1>3
<1>6. \A k \in Nat : k <= n => after[k] \in Machines
  <2> DEFINE T == {k \in Nat : k <= n => after[k] \in Machines}
  <2>1. 0 \in T
    BY <1>5
  <2>2. ASSUME NEW k \in Nat, k \in T PROVE k + 1 \in T
    <3> SUFFICES ASSUME k + 1 <= n PROVE after[k + 1] \in Machines
      OBVIOUS
    <3>1. k + 1 \in 1 .. n /\ k + 1 - 1 = k /\ after[k] \in Machines
      BY <2>2
    <3>2. after[k + 1] = VmmRequestPage(after[k], table, v + (k + 1) - 1, flags)
      BY <1>5, <3>1
    <3>3. v + (k + 1) - 1 \in Pages
      BY <3>1
    <3> QED BY <3>1, <3>2, <3>3, VmmRequestPageType DEF Onward
  <2> HIDE DEF T
  <2>3. Nat \subseteq T
    BY <2>1, <2>2, NatSetInduction
  <2> QED BY <2>3 DEF T
<1> QED
  BY <1>4, <1>5, <1>6 DEF Requests

LEMMA VmmRequestAtType ==
  ASSUME NEW m \in Machines, NEW table \in Memory, NEW v \in Nat, NEW n \in Nat,
         \A k \in 1 .. n : v + k - 1 \in Pages, NEW flags \in SUBSET {"P", "W", "U"}
  PROVE  Onward(m, VmmRequestAt(m, table, v, n, flags))
<1> PICK after : Requests(m, table, v, n, flags, after)
  BY VmmRequestAtSteps
<1> DEFINE T == {k \in Nat : k <= n => Onward(m, after[k])}
<1>1. 0 \in T
  BY DEF Requests, Onward
<1>2. ASSUME NEW k \in Nat, k \in T PROVE k + 1 \in T
  <2> SUFFICES ASSUME k + 1 <= n PROVE Onward(m, after[k + 1])
    OBVIOUS
  <2>1. k + 1 \in 1 .. n /\ k + 1 - 1 = k /\ Onward(m, after[k]) /\ after[k] \in Machines
    BY <1>2 DEF Requests
  <2>2. after[k + 1] = VmmRequestPage(after[k], table, v + (k + 1) - 1, flags)
    BY <2>1 DEF Requests
  <2>3. v + (k + 1) - 1 \in Pages
    BY <2>1
  <2>4. Onward(after[k], after[k + 1])
    BY <2>1, <2>2, <2>3, VmmRequestPageType
  <2> QED BY <2>1, <2>4, OnwardTransitive
<1> HIDE DEF T
<1>3. n \in T
  BY <1>1, <1>2, NatSetInduction
<1> QED
  BY <1>3 DEF T, Requests

LEMMA VmmRequestAtBacks ==
  ASSUME NEW m, NEW own, Shape(m, own), NEW r, NEW x, RootOf(m, own, r, x),
         NEW v \in Nat, NEW n \in Nat, \A k \in 1 .. n : MayRequest(x, v + k - 1),
         NEW flags \in SUBSET {"P", "W", "U"}, Good(VmmRequestAt(m, r, v, n, flags))
  PROVE  \E own2 : Backing(m, own, r, x, v .. v + n - 1, flags,
                           VmmRequestAt(m, r, v, n, flags), own2)
<1>1. m \in Machines /\ r \in Memory /\ \A k \in 1 .. n : v + k - 1 \in Pages
  BY EntryFacts DEF Shape, RootOf, MayRequest, PageOf
<1> PICK after : Requests(m, r, v, n, flags, after)
  BY <1>1, VmmRequestAtSteps
<1> DEFINE Backed(k) == \E own2 : Backing(m, own, r, x, v .. v + k - 1, flags, after[k], own2)
           T == {k \in Nat : k <= n /\ Good(after[k]) => Backed(k)}
<1>2. 0 \in T
  <2>1. v .. v + 0 - 1 = {} /\ after[0] = m
    BY DEF Requests
  <2>2. Step(m, own, m, own, x, {})
    BY StepNothing
  <2>3. Backing(m, own, r, x, v .. v + 0 - 1, flags, after[0], own)
    BY <2>1, <2>2 DEF Backing
  <2> QED BY <2>3
<1>3. ASSUME NEW k \in Nat, k \in T PROVE k + 1 \in T
  <2> SUFFICES ASSUME k + 1 <= n, Good(after[k + 1]) PROVE Backed(k + 1)
    OBVIOUS
  <2> DEFINE w == v + k
             A == v .. v + k - 1
  <2>1. k + 1 \in 1 .. n /\ k + 1 - 1 = k /\ v + (k + 1) - 1 = w /\ after[k] \in Machines
    BY DEF Requests
  <2>2. after[k + 1] = VmmRequestPage(after[k], r, w, flags)
    BY <2>1 DEF Requests
  <2>3. MayRequest(x, w) /\ w \in Pages
    BY <1>1, <2>1
  <2>4. Onward(after[k], after[k + 1])
    BY <1>1, <2>1, <2>2, <2>3, VmmRequestPageType
  <2>5. Backed(k)
    BY <1>3, <2>4 DEF Onward
  <2> PICK own1 : Backing(m, own, r, x, A, flags, after[k], own1)
    BY <2>5
  <2>6. RootOf(after[k], own1, r, x)
    BY RootKept DEF Backing, Step
  <2>7. Shape(after[k], own1)
    BY DEF Backing, Step
  <2> HIDE DEF A, w
  <2> DEFINE q == after[k]
  <2> PICK own2 : Backing(after[k], own1, r, x, {w}, flags, after[k + 1], own2)
    <3>1. Good(VmmRequestPage(q, r, w, flags))
      BY <2>2
    <3>2. Shape(q, own1) /\ RootOf(q, own1, r, x)
      BY <2>6, <2>7
    <3> HIDE DEF q
    <3>3. \E own2 : Backing(q, own1, r, x, {w}, flags, VmmRequestPage(q, r, w, flags), own2)
      BY <2>3, <3>1, <3>2, VmmRequestPageBacks
    <3> QED BY <2>2, <3>3 DEF q
  <2>8. \A u \in A : PageOf(x, u)
    <3>1. ASSUME NEW u \in A PROVE PageOf(x, u)
      <4>1. u - v + 1 \in 1 .. n /\ v + (u - v + 1) - 1 = u
        BY DEF A
      <4> QED BY <4>1 DEF MayRequest
    <3> QED BY <3>1
  <2>9. w \notin A /\ A \cup {w} = v .. v + (k + 1) - 1
    BY DEF A, w
  <2>10. Backing(m, own, r, x, A \cup {w}, flags, after[k + 1], own2)
    BY <2>3, <2>8, <2>9, BackingGrows DEF MayRequest
  <2> QED BY <2>9, <2>10
<1> HIDE DEF T
<1>4. n \in T
  BY <1>2, <1>3, NatSetInduction
<1> QED
  BY <1>4 DEF T, Requests

-----------------------------------------------------------------------------
(* Copies.                                                                  *)

(* Writes to the tables of a new tree disturb no other tree.                *)
LEMMA OthersKept ==
  ASSUME NEW m, NEW own, Shape(m, own), NEW m2, NEW x \in Nat,
         \A f \in Frames \ m.free, y \in Nat, i \in Nat, j \in Nat :
           y # x /\ own[f] \in {TopRole(y), MidRole(y, i), LeafRole(y, i, j)}
             => m2.mem[f] = m.mem[f]
  PROVE  PagesKept(m, own, m2, x, Pages)
<1> SUFFICES ASSUME NEW r, NEW y, NEW v, RootOf(m, own, r, y), PageOf(y, v), y # x
             PROVE  PagingGet(m2, r, v) = PagingGet(m, r, v)
  BY DEF PagesKept, PageOf
<1>1. Top(v) \in Nat /\ Mid(v) \in Nat /\ y \in Nat /\ r \in Frames \ m.free /\ own[r] = TopRole(y)
  BY PageIndices, HalfIsIdx DEF RootOf, PageOf
<1>2. m2.mem[r] = m.mem[r]
  BY <1>1
<1>3. \A f \in Frames \ m.free :
        own[f] \in {MidRole(y, Top(v)), LeafRole(y, Top(v), Mid(v))} => m2.mem[f] = m.mem[f]
  BY <1>1
<1> QED
  BY <1>2, <1>3, GetSame DEF Extends

LEMMA PagingCreateEmptyType ==
  ASSUME NEW m \in Machines, kernel_table \in Memory
  PROVE  Onward(m, PagingCreateEmpty(m).m) /\ PagingCreateEmpty(m).frame \in Memory
<1> DEFINE new == Request(m)
           T == [i \in Idx |-> IF i < UserTop THEN Absent ELSE m.mem[kernel_table][i]]
           m2 == Write(new.m, new.frame, T)
<1>1. Onward(m, new.m) /\ new.m \in Machines /\ new.frame \in Memory
  BY RequestFacts DEF Onward
<1>2. T \in Row
  BY MemFacts, EntryFacts DEF Row
<1>3. PagingCreateEmpty(m) = [new EXCEPT !.m = m2] /\ new = [m |-> new.m, frame |-> new.frame]
  BY DEF PagingCreateEmpty, Request
<1> HIDE DEF new, T
<1>4. Onward(new.m, m2)
  BY <1>1, <1>2, WriteFacts
<1>5. PagingCreateEmpty(m).m = m2 /\ PagingCreateEmpty(m).frame = new.frame
  BY <1>3
<1> QED
  BY <1>1, <1>4, <1>5, OnwardTransitive

(* A new tree: its user half is empty, its kernel half the kernel's.        *)
Creating(m, own, x, m2, own2, r) ==
  /\ Step(m, own, m2, own2, x, {}) /\ RootOf(m2, own2, r, x) /\ r \in m.free
  /\ m2.flushed = m.flushed /\ \A f \in Frames \ m.free : m2.mem[f] = m.mem[f]
  /\ \A i \in Idx : m2.mem[r][i] = IF i < UserTop THEN Absent ELSE m.mem[kernel_table][i]

LEMMA PagingCreateEmptyCreates ==
  ASSUME NEW m, NEW own, Shape(m, own), kernel_table \in Memory, NEW x \in Nat \ {0},
         Good(PagingCreateEmpty(m).m)
  PROVE  \E own2 : Creating(m, own, x, PagingCreateEmpty(m).m, own2, PagingCreateEmpty(m).frame)
<1> DEFINE new == Request(m)
           n == new.frame
           T == [i \in Idx |-> IF i < UserTop THEN Absent ELSE m.mem[kernel_table][i]]
           m2 == Write(new.m, n, T)
<1>1. /\ m \in Machines /\ new.m \in Machines /\ new.frame \in Memory
  BY RequestFacts DEF Onward, Shape
<1>2. T \in Row /\ \A i \in Idx : T[i] = IF i < UserTop THEN Absent ELSE m.mem[kernel_table][i]
  BY <1>1, MemFacts, EntryFacts DEF Row
<1>3. PagingCreateEmpty(m).m = m2 /\ PagingCreateEmpty(m).frame = n
  BY DEF PagingCreateEmpty, Request
<1>4. Onward(new.m, m2) /\ m2 \in Machines /\ Good(new.m)
  <2> HIDE DEF new, T
  <2>1. Onward(new.m, m2)
    BY <1>1, <1>2, WriteFacts
  <2> QED BY <1>3, <2>1 DEF Onward
<1>5. TopRole(x) \in Roles
  BY RolesAre
<1> PICK own2 : Fresh(m, own, n, new.m, own2, TopRole(x))
  BY <1>4, <1>5, RequestFresh
<1> HIDE DEF new, T
<1>6. /\ m2.mem[n] = T /\ m2.free = m.free \ {n} /\ m2.flushed = m.flushed
      /\ \A g \in Memory : g # n => m2.mem[g] = m.mem[g]
  BY <1>1, <1>2, WriteFacts DEF Fresh
<1> HIDE DEF m2
<1>7. Grown(m, own, m2, own2) /\ own2[n] = TopRole(x) /\ n \in m.free /\ n \in Frames
  BY <1>6 DEF Fresh, Grown
<1>8. Fits(m2, own2, n)
  <2>1. \A i \in Half(x) : i \in Idx /\ i < UserTop
    BY Sizes DEF Half, Idx
  <2>2. TopFits(m2, own2, m2.mem[n], x)
    BY <1>2, <1>6, <2>1, EntryFacts DEF TopFits
  <2> QED BY <1>7, <2>2, RolesDiffer DEF Fits
<1>9. \A f \in Frames \ m.free : m2.mem[f] = m.mem[f]
  BY <1>6, <1>7, EntryFacts
<1>10. Shape(m2, own2)
  <2>1. ASSUME NEW f \in Frames \ m2.free, f # n PROVE f \notin m.free
    BY <1>6, <2>1
  <2> QED BY <1>4, <1>7, <1>8, <1>9, <2>1, ShapeKept
<1>11. PagesKept(m, own, m2, x, {})
  <2> SUFFICES ASSUME NEW r, NEW y, NEW v, RootOf(m, own, r, y), PageOf(y, v)
               PROVE  PagingGet(m2, r, v) = PagingGet(m, r, v)
    BY DEF PagesKept
  <2> QED BY <1>9, GetSame DEF RootOf, Extends
<1>12. TopsKept(m, own, m2)
  BY <1>9 DEF TopsKept
<1>13. RootOf(m2, own2, n, x)
  BY <1>6, <1>7 DEF RootOf
<1>14. Creating(m, own, x, m2, own2, n)
  BY <1>2, <1>6, <1>7, <1>9, <1>10, <1>11, <1>12, <1>13 DEF Creating, Step
<1> QED
  BY <1>3, <1>14 DEF m2

(* An entry of a middle table is copied: a table of leaves of its own, with *)
(* the same pages.                                                          *)
SameLeaves(m, e, m2, e2) ==
  /\ Present(e2) <=> Present(e)
  /\ Present(e) => m2.mem[e2.frame] = m.mem[e.frame]

Copying(m, own, x, dst, i, m2, own2) ==
  /\ Step(m, own, m2, own2, x, Pages) /\ m2.flushed = m.flushed
  /\ \A f \in Frames \ m.free : f # dst => m2.mem[f] = m.mem[f]
  /\ \A k \in Idx : k # i => m2.mem[dst][k] = m.mem[dst][k]

LEMMA CopyLeafType ==
  ASSUME NEW m \in Machines, NEW dst \in Memory, NEW src \in Memory, NEW i \in Idx
  PROVE  Onward(m, CopyLeaf(m, dst, src, i))
<1> DEFINE e == m.mem[src][i]
           new == Request(m)
           m2 == Write(new.m, new.frame, m.mem[e.frame])
           e2 == [e EXCEPT !.frame = new.frame]
           m3 == SetEntry(m2, dst, i, e2)
<1>1. CopyLeaf(m, dst, src, i) \in {m, m3}
  BY DEF CopyLeaf
<1>2. Onward(m, new.m) /\ new.m \in Machines /\ new.frame \in Memory /\ Onward(m, m)
  BY RequestFacts DEF Onward
<1>3. e \in Entry /\ m.mem[e.frame] \in Row
  BY MemFacts
<1> HIDE DEF e, new
<1>4. e2 \in Entry
  BY <1>2, <1>3 DEF Entry
<1>5. Onward(new.m, m2) /\ m2 \in Machines
  BY <1>2, <1>3, WriteFacts DEF Onward
<1> HIDE DEF m2, e2
<1>6. Onward(m2, m3)
  BY <1>4, <1>5, SetEntryFacts
<1> QED
  BY <1>1, <1>2, <1>5, <1>6, OnwardTransitive

LEMMA CopyLeafCopies ==
  ASSUME NEW m, NEW own, Shape(m, own),
         NEW x \in Nat \ {0}, NEW y \in Nat \ {0}, x # y, NEW i \in Nat,
         NEW dst \in Frames \ m.free, own[dst] = MidRole(x, i),
         NEW src \in Frames \ m.free, own[src] = MidRole(y, i),
         NEW j \in Idx, ~ Present(m.mem[dst][j]), Good(CopyLeaf(m, dst, src, j))
  PROVE  \E own2 : /\ Copying(m, own, x, dst, j, CopyLeaf(m, dst, src, j), own2)
                   /\ SameLeaves(m, m.mem[src][j], CopyLeaf(m, dst, src, j),
                                 CopyLeaf(m, dst, src, j).mem[dst][j])
<1> DEFINE e == m.mem[src][j]
           new == Request(m)
           n == new.frame
           T == m.mem[e.frame]
           m2 == Write(new.m, n, T)
           e2 == [e EXCEPT !.frame = n]
           m3 == SetEntry(m2, dst, j, e2)
<1>1. m \in Machines /\ dst \in Memory /\ src \in Memory /\ j \in Nat
  BY EntryFacts, HalfIsIdx DEF Shape
<1>2. CASE ~ Present(e)
  <2>1. CopyLeaf(m, dst, src, j) = m
    BY <1>2 DEF CopyLeaf
  <2>2. Step(m, own, m, own, x, Pages)
    BY StepNothing
  <2>3. Copying(m, own, x, dst, j, m, own)
    BY <2>2 DEF Copying
  <2> QED BY <1>2, <2>1, <2>3 DEF SameLeaves
<1>3. CASE Present(e)
  <2>1. CopyLeaf(m, dst, src, j) = m3
    BY <1>3 DEF CopyLeaf
  <2>2. new.m \in Machines /\ n \in Memory /\ e \in Entry /\ T \in Row
    BY <1>1, RequestFacts, MemFacts DEF Onward
  <2>3. LinkTo(m, own, e, y, LeafRole(y, i, j))
    <3>1. MidFits(m, own, m.mem[src], y, i)
      BY DEF Shape, Fits
    <3> QED BY <1>3, <3>1 DEF MidFits, HugeAt
  <2>4. /\ e.frame \in Frames \ m.free /\ own[e.frame] = LeafRole(y, i, j)
        /\ e.flags = {"P", "W", "U"}
    BY <2>3 DEF LinkTo
  <2> HIDE DEF e, T
  <2>5. e2 \in Entry /\ e2.frame = n /\ e2.flags = {"P", "W", "U"}
    BY <2>2, <2>4 DEF Entry
  <2>6. Present(e2) /\ ~ Huge(e2)
    BY <2>5 DEF Present, Huge
  <2> HIDE DEF e2, new
  <2>7. Onward(new.m, m2) /\ m2 \in Machines
    BY <2>2, WriteFacts DEF Onward
  <2>8. Onward(m2, m3) /\ m3 \in Machines
    <3> HIDE DEF m2
    <3> QED BY <1>1, <2>5, <2>7, SetEntryFacts DEF Onward
  <2>9. Good(new.m) /\ LeafRole(x, i, j) \in Roles
    BY <1>1, <2>1, <2>7, <2>8, RolesAre DEF Onward
  <2> PICK own2 : Fresh(m, own, n, new.m, own2, LeafRole(x, i, j))
    BY <2>9, RequestFresh DEF new
  <2> HIDE DEF n
  <2>10. n \in m.free /\ n \in Frames /\ n # dst
    BY DEF Fresh
  <2>11. /\ m2.mem[n] = T /\ m2.free = m.free \ {n} /\ m2.flushed = m.flushed
         /\ \A g \in Memory : g # n => m2.mem[g] = m.mem[g]
    BY <2>2, WriteFacts DEF Fresh
  <2> HIDE DEF m2
  <2>12. /\ m3.mem[dst][j] = e2 /\ m3.mem[n] = T
         /\ \A k \in Idx : k # j => m3.mem[dst][k] = m.mem[dst][k]
         /\ \A g \in Memory : g # dst /\ g # n => m3.mem[g] = m.mem[g]
         /\ m3.free = m.free \ {n} /\ m3.flushed = m.flushed
    BY <1>1, <2>2, <2>5, <2>7, <2>10, <2>11, SetEntryFacts
  <2> HIDE DEF m3
  <2>13. /\ Grown(m, own, m3, own2) /\ own2[n] = LeafRole(x, i, j) /\ n \in Frames \ m3.free
    BY <2>10, <2>12 DEF Fresh, Grown
  <2>14. LinkTo(m3, own2, e2, x, LeafRole(x, i, j))
    BY <2>5, <2>6, <2>13 DEF LinkTo
  <2>15. Fits(m3, own2, dst)
    <3>1. Fits(m, own, dst) /\ ~ HugeAt(x, i, j)
      BY DEF Shape, HugeAt
    <3> QED BY <2>12, <2>13, <2>14, <3>1, MidFitsSet
  <2>16. Fits(m3, own2, n)
    <3>1. Fits(m, own, e.frame)
      BY <2>4 DEF Shape
    <3>2. LeafFits(m, own, T, y, i, j)
      BY <1>1, <2>4, <3>1 DEF Fits, T
    <3>3. LeafFits(m3, own2, T, x, i, j)
      BY <2>13, <3>2 DEF LeafFits, DataAt, Grown
    <3> QED BY <1>1, <2>12, <2>13, <3>3, RolesDiffer DEF Fits
  <2>17. Shape(m3, own2)
    <3>1. ASSUME NEW f \in Frames \ m3.free, f # n, f # dst
          PROVE  f \notin m.free /\ m3.mem[f] = m.mem[f]
      BY <2>12, <3>1, EntryFacts
    <3> QED BY <2>8, <2>13, <2>15, <2>16, <3>1, ShapeKept
  <2>18. \A f \in Frames \ m.free : f # dst => m3.mem[f] = m.mem[f]
    BY <2>10, <2>12, EntryFacts
  <2>19. \A z, k, l \in Nat : z # x => own[dst] \notin {TopRole(z), MidRole(z, k), LeafRole(z, k, l)}
    BY RolesDiffer
  <2>20. \A z \in Nat : own[dst] # TopRole(z)
    BY RolesDiffer
  <2>21. PagesKept(m, own, m3, x, Pages)
    BY <2>18, <2>19, OthersKept
  <2>22. TopsKept(m, own, m3)
    BY <2>18, <2>20 DEF TopsKept
  <2>23. Copying(m, own, x, dst, j, m3, own2)
    BY <2>12, <2>13, <2>17, <2>18, <2>21, <2>22 DEF Copying, Step
  <2>24. SameLeaves(m, e, m3, m3.mem[dst][j])
    BY <1>3, <2>5, <2>6, <2>12 DEF SameLeaves, T
  <2> QED BY <2>1, <2>23, <2>24 DEF e
<1> QED
  BY <1>2, <1>3

(* The loop over the entries of a middle table                              *)
LeafCopies(m, dst, src, after) ==
  /\ after[0] = m /\ after[Fanout] = CopyMid(m, dst, src)
  /\ \A k \in 0 .. Fanout : after[k] \in Machines
  /\ \A k \in 1 .. Fanout : after[k] = CopyLeaf(after[k - 1], dst, src, k - 1)

LEMMA CopyMidSteps ==
  ASSUME NEW m \in Machines, NEW dst \in Memory, NEW src \in Memory
  PROVE  \E after : LeafCopies(m, dst, src, after)
<1> DEFINE n == Fanout
           step == [x \in (1 .. n) \X Machines |-> CopyLeaf(x[2], dst, src, x[1] - 1)]
           Is(f) == f = [k \in 0 .. n |-> IF k = 0 THEN m
                                          ELSE CopyLeaf(f[k - 1], dst, src, k - 1)]
           after == CHOOSE f : Is(f)
<1>1. n \in Nat /\ \A k \in 1 .. n : k - 1 \in Idx
  BY Sizes DEF Idx
<1>2. CopyMid(m, dst, src) = after[n]
  BY DEF CopyMid
<1> HIDE DEF n
<1>3. step \in [(1 .. n) \X Machines -> Machines]
  <2>1. \A k \in 1 .. n, q \in Machines : CopyLeaf(q, dst, src, k - 1) \in Machines
    BY <1>1, CopyLeafType DEF Onward
  <2> QED BY <2>1
<1>4. \E f : Is(f)
  <2> PICK f : Loop(f, m, n, step)
    <3> HIDE DEF step
    <3> QED BY <1>1, <1>3, LoopExists
  <2>1. ASSUME NEW k \in 1 .. n
        PROVE  step[<<k, f[k - 1]>>] = CopyLeaf(f[k - 1], dst, src, k - 1)
    <3>1. k - 1 \in 0 .. n
      BY <1>1
    <3>2. f[k - 1] \in Machines
      <4> HIDE DEF step
      <4> QED BY <3>1 DEF Loop
    <3> QED BY <3>2
  <2> HIDE DEF step
  <2>2. \A k \in 0 .. n : k # 0 => k \in 1 .. n
    BY <1>1
  <2>3. [k \in 0 .. n |-> IF k = 0 THEN m ELSE step[<<k, f[k - 1]>>]]
          = [k \in 0 .. n |-> IF k = 0 THEN m ELSE CopyLeaf(f[k - 1], dst, src, k - 1)]
    BY <2>1, <2>2
  <2>4. Is(f)
    BY <2>3 DEF Loop
  <2> QED BY <2>4
<1>5. Is(after)
  BY <1>4
<1> HIDE DEF after
<1>6. /\ after[0] = m
      /\ \A k \in 1 .. n : after[k] = CopyLeaf(after[k - 1], dst, src, k - 1)
  BY <1>1, <1>5
<1>7. \A k \in Nat : k <= n => after[k] \in Machines
  <2> DEFINE T == {k \in Nat : k <= n => after[k] \in Machines}
  <2>1. 0 \in T
    BY <1>6
  <2>2. ASSUME NEW k \in Nat, k \in T PROVE k + 1 \in T
    <3> SUFFICES ASSUME k + 1 <= n PROVE after[k + 1] \in Machines
      OBVIOUS
    <3>1. k + 1 \in 1 .. n /\ k + 1 - 1 = k /\ after[k] \in Machines /\ k \in Idx
      BY <1>1, <2>2 DEF n, Idx
    <3>2. after[k + 1] = CopyLeaf(after[k], dst, src, k)
      BY <1>6, <3>1
    <3> QED BY <3>1, <3>2, CopyLeafType DEF Onward
  <2> HIDE DEF T
  <2>3. Nat \subseteq T
    BY <2>1, <2>2, NatSetInduction
  <2> QED BY <2>3 DEF T
<1> QED
  BY <1>1, <1>2, <1>6, <1>7 DEF LeafCopies, n

LEMMA CopyMidType ==
  ASSUME NEW m \in Machines, NEW dst \in Memory, NEW src \in Memory
  PROVE  Onward(m, CopyMid(m, dst, src))
<1> PICK after : LeafCopies(m, dst, src, after)
  BY CopyMidSteps
<1> DEFINE T == {k \in Nat : k <= Fanout => Onward(m, after[k])}
<1>1. 0 \in T
  BY DEF LeafCopies, Onward
<1>2. ASSUME NEW k \in Nat, k \in T PROVE k + 1 \in T
  <2> SUFFICES ASSUME k + 1 <= Fanout PROVE Onward(m, after[k + 1])
    OBVIOUS
  <2>1. /\ k + 1 \in 1 .. Fanout /\ k + 1 - 1 = k /\ Onward(m, after[k]) /\ k \in Idx
        /\ after[k] \in Machines
    BY <1>2, Sizes DEF LeafCopies, Idx
  <2>2. after[k + 1] = CopyLeaf(after[k], dst, src, k)
    BY <2>1 DEF LeafCopies
  <2>3. Onward(after[k], after[k + 1])
    BY <2>1, <2>2, CopyLeafType
  <2> QED BY <2>1, <2>3, OnwardTransitive
<1> HIDE DEF T
<1>3. Fanout \in T
  BY <1>1, <1>2, NatSetInduction, Sizes
<1> QED
  BY <1>3, Sizes DEF T, LeafCopies

(* The first n entries are copied, the others of dst as they were.          *)
LeavesCopied(m, own, x, dst, src, n, m2, own2) ==
  /\ Step(m, own, m2, own2, x, Pages) /\ m2.flushed = m.flushed
  /\ \A f \in Frames \ m.free : f # dst => m2.mem[f] = m.mem[f]
  /\ \A l \in Idx : IF l < n THEN SameLeaves(m, m.mem[src][l], m2, m2.mem[dst][l])
                    ELSE m2.mem[dst][l] = m.mem[dst][l]

LEMMA CopyMidCopies ==
  ASSUME NEW m, NEW own, Shape(m, own),
         NEW x \in Nat \ {0}, NEW y \in Nat \ {0}, x # y, NEW i \in Nat,
         NEW dst \in Frames \ m.free, own[dst] = MidRole(x, i),
         NEW src \in Frames \ m.free, own[src] = MidRole(y, i),
         \A l \in Idx : ~ Present(m.mem[dst][l]), Good(CopyMid(m, dst, src))
  PROVE  \E own2 : LeavesCopied(m, own, x, dst, src, Fanout, CopyMid(m, dst, src), own2)
<1>1. m \in Machines /\ dst \in Memory /\ src \in Memory /\ src # dst
  BY EntryFacts, RolesDiffer DEF Shape
<1> PICK after : LeafCopies(m, dst, src, after)
  BY <1>1, CopyMidSteps
<1> DEFINE Copied(k) == \E own2 : LeavesCopied(m, own, x, dst, src, k, after[k], own2)
           T == {k \in Nat : k <= Fanout /\ Good(after[k]) => Copied(k)}
<1>2. 0 \in T
  <2>1. Step(m, own, m, own, x, Pages)
    BY StepNothing
  <2>2. \A l \in Idx : ~ (l < 0)
    BY HalfIsIdx
  <2>3. LeavesCopied(m, own, x, dst, src, 0, m, own)
    BY <2>1, <2>2 DEF LeavesCopied
  <2> QED BY <2>3 DEF LeafCopies
<1>3. ASSUME NEW k \in Nat, k \in T PROVE k + 1 \in T
  <2> SUFFICES ASSUME k + 1 <= Fanout, Good(after[k + 1]) PROVE Copied(k + 1)
    OBVIOUS
  <2> DEFINE q == after[k]
             q2 == after[k + 1]
  <2>1. k + 1 \in 1 .. Fanout /\ k + 1 - 1 = k /\ q \in Machines /\ k \in Idx
    BY Sizes DEF LeafCopies, Idx
  <2>2. q2 = CopyLeaf(q, dst, src, k)
    BY <2>1 DEF LeafCopies
  <2>3. Onward(q, q2)
    BY <1>1, <2>1, <2>2, CopyLeafType
  <2>4. Copied(k)
    <3>1. Good(q) /\ k <= Fanout
      BY <2>3, Sizes DEF Onward
    <3> HIDE DEF Copied
    <3> QED BY <1>3, <3>1
  <2> PICK own1 : LeavesCopied(m, own, x, dst, src, k, q, own1)
    BY <2>4
  <2>5. Good(q2)
    OBVIOUS
  <2> HIDE DEF q, q2
  <2>6. /\ Shape(q, own1) /\ Grown(m, own, q, own1)
        /\ dst \in Frames \ q.free /\ own1[dst] = MidRole(x, i)
        /\ src \in Frames \ q.free /\ own1[src] = MidRole(y, i)
    BY DEF LeavesCopied, Step, Grown
  <2>7. ~ Present(q.mem[dst][k])
    BY <2>1 DEF LeavesCopied
  <2> PICK own2 : /\ Copying(q, own1, x, dst, k, q2, own2)
                  /\ SameLeaves(q, q.mem[src][k], q2, q2.mem[dst][k])
    BY <2>1, <2>2, <2>5, <2>6, <2>7, CopyLeafCopies
  <2>8. Step(m, own, q2, own2, x, Pages)
    BY StepTransitive DEF LeavesCopied, Copying
  <2>9. \A f \in Frames \ m.free : f # dst => q2.mem[f] = m.mem[f] /\ f \in Frames \ q.free
    BY <2>6 DEF LeavesCopied, Copying, Grown
  <2>10. q.mem[src] = m.mem[src]
    BY <1>1 DEF LeavesCopied
  <2>11. ASSUME NEW l \in Idx, Present(m.mem[src][l])
         PROVE  q.mem[m.mem[src][l].frame] = m.mem[m.mem[src][l].frame]
    <3>1. MidFits(m, own, m.mem[src], y, i)
      BY DEF Shape, Fits
    <3>2. LinkTo(m, own, m.mem[src][l], y, LeafRole(y, i, l))
      BY <2>11, <3>1 DEF MidFits, HugeAt
    <3>3. m.mem[src][l].frame # dst
      <4>1. own[m.mem[src][l].frame] = LeafRole(y, i, l) /\ l \in Nat
        BY <3>2, HalfIsIdx DEF LinkTo
      <4> QED BY <4>1, LeafRoleIsNew
    <3> QED BY <3>2, <3>3 DEF LinkTo, LeavesCopied
  <2>12. ASSUME NEW l \in Idx, l < k
         PROVE  SameLeaves(m, m.mem[src][l], q2, q2.mem[dst][l])
    <3>1. SameLeaves(m, m.mem[src][l], q, q.mem[dst][l]) /\ q2.mem[dst][l] = q.mem[dst][l]
      BY <2>1, <2>12 DEF LeavesCopied, Copying, Idx
    <3>2. ASSUME Present(q.mem[dst][l])
          PROVE  q2.mem[q.mem[dst][l].frame] = q.mem[q.mem[dst][l].frame]
      <4>1. MidFits(q, own1, q.mem[dst], x, i)
        BY <2>6 DEF Shape, Fits
      <4>2. LinkTo(q, own1, q.mem[dst][l], x, LeafRole(x, i, l))
        BY <3>2, <4>1 DEF MidFits, HugeAt
      <4>3. q.mem[dst][l].frame # dst
        BY <2>6, <4>2, RolesDiffer, HalfIsIdx DEF LinkTo
      <4> QED BY <4>2, <4>3 DEF LinkTo, Copying
    <3> QED BY <3>1, <3>2 DEF SameLeaves
  <2>13. SameLeaves(m, m.mem[src][k], q2, q2.mem[dst][k])
    BY <2>1, <2>10, <2>11 DEF SameLeaves
  <2>14. ASSUME NEW l \in Idx, ~ (l < k + 1)
         PROVE  q2.mem[dst][l] = m.mem[dst][l]
    <3>1. l # k /\ ~ (l < k)
      BY <2>14 DEF Idx
    <3> QED BY <3>1 DEF LeavesCopied, Copying
  <2>15. \A l \in Idx : l < k + 1 => l < k \/ l = k
    BY DEF Idx
  <2>16. q2.flushed = m.flushed
    BY DEF LeavesCopied, Copying
  <2>17. LeavesCopied(m, own, x, dst, src, k + 1, q2, own2)
    BY <2>8, <2>9, <2>12, <2>13, <2>14, <2>15, <2>16 DEF LeavesCopied
  <2> QED BY <2>17 DEF q2
<1> HIDE DEF T
<1>4. Fanout \in T
  BY <1>2, <1>3, NatSetInduction, Sizes
<1> QED
  BY <1>4, Sizes DEF T, LeafCopies

(* An entry of a top table: a middle table of its own, with the same leaves. *)
SameMiddles(m, e, m2, e2) ==
  /\ Present(e2) <=> Present(e)
  /\ Present(e) =>
       \A l \in Idx : SameLeaves(m, m.mem[e.frame][l], m2, m2.mem[e2.frame][l])

LEMMA SetTop ==
  ASSUME NEW m, NEW own, Shape(m, own), NEW f \in Frames \ m.free, NEW x \in Nat,
         own[f] = TopRole(x), NEW i \in Half(x), ~ Present(m.mem[f][i]),
         NEW e \in Entry, LinkTo(m, own, e, x, MidRole(x, i))
  PROVE  Step(m, own, SetEntry(m, f, i, e), own, x, Pages)
<1> DEFINE m2 == SetEntry(m, f, i, e)
<1>1. m \in Machines /\ own \in [Frames -> Roles] /\ f \in Memory /\ Fits(m, own, f) /\ i \in Idx
  BY EntryFacts, HalfIsIdx DEF Shape
<1>2. /\ m2 \in Machines /\ m2.mem[f][i] = e
      /\ \A l \in Idx : l # i => m2.mem[f][l] = m.mem[f][l]
      /\ \A g \in Memory : g # f => m2.mem[g] = m.mem[g]
      /\ m2.free = m.free
  BY <1>1, SetEntryFacts DEF Onward
<1> HIDE DEF m2
<1>3. Grown(m, own, m2, own)
  BY <1>1, <1>2 DEF Grown
<1>4. Fits(m2, own, f)
  <2>1. LinkTo(m2, own, e, x, MidRole(x, i))
    BY <1>3, LinksKept
  <2> QED BY <1>1, <1>2, <1>3, <2>1, TopFitsSet
<1>5. \A g \in Frames : g # f => m2.mem[g] = m.mem[g]
  BY <1>2, EntryFacts
<1>6. Shape(m2, own)
  BY <1>2, <1>3, <1>4, <1>5, ShapeKept
<1>7. TopsKept(m, own, m2)
  <2>1. \A y \in Nat : own[f] = TopRole(y) => y = x
    BY RolesDiffer
  <2>2. \A k \in Idx : k \notin Half(x) \/ Present(m.mem[f][k]) => m2.mem[f][k] = m.mem[f][k]
    BY <1>2
  <2> QED BY <1>5, <2>1, <2>2 DEF TopsKept
<1>8. \A y, k, l \in Nat : y # x => own[f] \notin {TopRole(y), MidRole(y, k), LeafRole(y, k, l)}
  BY RolesDiffer
<1>9. PagesKept(m, own, m2, x, Pages)
  BY <1>5, <1>8, OthersKept
<1> QED
  BY <1>3, <1>6, <1>7, <1>9 DEF Step, m2

(* A table that is not cleared is marked if it holds rubbish.               *)
Rubbish(m, zero) == [m EXCEPT !.stale = @ \/ ~ zero]

LEMMA RubbishFacts ==
  ASSUME NEW m \in Machines, NEW zero \in BOOLEAN
  PROVE  /\ Onward(m, Rubbish(m, zero)) /\ Rubbish(m, zero).mem = m.mem
         /\ Rubbish(m, zero).free = m.free /\ Rubbish(m, zero).flushed = m.flushed
         /\ Good(Rubbish(m, zero)) => zero
  BY DEF Rubbish, Machines, Onward, Good

CopyTopOf(m, dst, src, i) ==
  LET e == m.mem[src][i]
      n == Request(m).frame
      m1 == Rubbish(Request(m).m, m.mem[n] = ZeroTable)
  IN  SetEntry(CopyMid(m1, n, e.frame), dst, i, [e EXCEPT !.frame = n])

LEMMA CopyTopIs ==
  ASSUME NEW m, NEW dst, NEW src, NEW i
  PROVE  CopyTop(m, dst, src, i) =
           IF Present(m.mem[src][i]) THEN CopyTopOf(m, dst, src, i) ELSE m
  BY DEF CopyTop, CopyTopOf, Rubbish

LEMMA CopyTopType ==
  ASSUME NEW m \in Machines, NEW dst \in Memory, NEW src \in Memory, NEW i \in Idx
  PROVE  Onward(m, CopyTop(m, dst, src, i))
<1> DEFINE e == m.mem[src][i]
           n == Request(m).frame
           m0 == Request(m).m
           m1 == Rubbish(m0, m.mem[n] = ZeroTable)
           m2 == CopyMid(m1, n, e.frame)
           e2 == [e EXCEPT !.frame = n]
           m3 == SetEntry(m2, dst, i, e2)
<1>1. CopyTop(m, dst, src, i) \in {m, m3}
  BY CopyTopIs DEF CopyTopOf
<1>2. Onward(m, m0) /\ m0 \in Machines /\ n \in Memory /\ Onward(m, m)
  BY RequestFacts DEF Onward
<1>3. e \in Entry /\ e.frame \in Memory
  BY MemFacts
<1> HIDE DEF e, n, m0
<1>4. e2 \in Entry
  BY <1>2, <1>3 DEF Entry
<1>5. Onward(m0, m1) /\ m1 \in Machines
  BY <1>2, RubbishFacts DEF Onward
<1> HIDE DEF m1, e2
<1>6. Onward(m1, m2) /\ m2 \in Machines
  BY <1>2, <1>3, <1>5, CopyMidType DEF Onward
<1> HIDE DEF m2
<1>7. Onward(m2, m3)
  BY <1>4, <1>6, SetEntryFacts
<1>8. Onward(m, m1)
  BY <1>2, <1>5, OnwardTransitive
<1>9. Onward(m, m2)
  BY <1>6, <1>8, OnwardTransitive
<1>10. Onward(m, m3)
  BY <1>7, <1>9, OnwardTransitive
<1> QED
  BY <1>1, <1>2, <1>10

LEMMA CopyTopCopies ==
  ASSUME NEW m, NEW own, Shape(m, own), NEW x \in Nat \ {0}, NEW y \in Nat, x # y,
         NEW dst \in Frames \ m.free, own[dst] = TopRole(x),
         NEW src \in Frames \ m.free, own[src] = TopRole(y),
         NEW i \in 0 .. UserTop - 1, Present(m.mem[src][i]) => y # 0,
         ~ Present(m.mem[dst][i]), Good(CopyTop(m, dst, src, i))
  PROVE  \E own2 : /\ Copying(m, own, x, dst, i, CopyTop(m, dst, src, i), own2)
                   /\ SameMiddles(m, m.mem[src][i], CopyTop(m, dst, src, i),
                                  CopyTop(m, dst, src, i).mem[dst][i])
<1> DEFINE e == m.mem[src][i]
           n == Request(m).frame
           m0 == Request(m).m
           m1 == Rubbish(m0, m.mem[n] = ZeroTable)
           m2 == CopyMid(m1, n, e.frame)
           e2 == [e EXCEPT !.frame = n]
           m3 == SetEntry(m2, dst, i, e2)
<1>1. m \in Machines /\ dst \in Memory /\ src \in Memory /\ i \in Nat /\ i \in Half(x) /\ i \in Idx
  BY EntryFacts, Sizes DEF Shape, Half, Idx
<1>2. CASE ~ Present(e)
  <2>1. CopyTop(m, dst, src, i) = m
    BY <1>2, CopyTopIs
  <2>2. Step(m, own, m, own, x, Pages)
    BY StepNothing
  <2>3. Copying(m, own, x, dst, i, m, own)
    BY <2>2 DEF Copying
  <2> QED BY <1>2, <2>1, <2>3 DEF SameMiddles
<1>3. CASE Present(e)
  <2>1. CopyTop(m, dst, src, i) = m3
    BY <1>3, CopyTopIs DEF CopyTopOf
  <2>2. m0 \in Machines /\ n \in Memory /\ e \in Entry
    BY <1>1, RequestFacts, MemFacts DEF Onward
  <2>3. LinkTo(m, own, e, y, MidRole(y, i)) /\ y # 0
    <3>1. y # 0 /\ i \in Half(y)
      BY <1>3 DEF Half
    <3>2. TopFits(m, own, m.mem[src], y)
      BY DEF Shape, Fits
    <3> QED BY <1>3, <3>1, <3>2 DEF TopFits
  <2>4. /\ e.frame \in Frames \ m.free /\ own[e.frame] = MidRole(y, i)
        /\ e.flags = {"P", "W", "U"} /\ e.frame \in Memory
    BY <2>3, EntryFacts DEF LinkTo
  <2> HIDE DEF e
  <2>5. e2 \in Entry /\ e2.frame = n /\ e2.flags = {"P", "W", "U"}
    BY <2>2, <2>4 DEF Entry
  <2>6. Present(e2) /\ ~ Huge(e2)
    BY <2>5 DEF Present, Huge
  <2> HIDE DEF e2, n, m0
  <2>7. Onward(m0, m1) /\ m1 \in Machines
    BY <2>2, RubbishFacts DEF Onward
  <2>8. Onward(m1, m2) /\ m2 \in Machines
    <3> HIDE DEF m1
    <3> QED BY <2>2, <2>4, <2>7, CopyMidType DEF Onward
  <2>9. Onward(m2, m3)
    <3> HIDE DEF m2
    <3> QED BY <1>1, <2>5, <2>8, SetEntryFacts
  <2>10. Good(m2) /\ Good(m1) /\ Good(m0)
    BY <2>1, <2>7, <2>8, <2>9 DEF Onward
  <2>11. m.mem[n] = ZeroTable /\ m1.mem = m0.mem /\ m1.free = m0.free /\ m1.flushed = m0.flushed
    BY <2>2, <2>10, RubbishFacts
  <2> PICK own1 : Fresh(m, own, n, m0, own1, MidRole(x, i))
    <3>1. MidRole(x, i) \in Roles
      BY <1>1, RolesAre
    <3> QED BY <2>10, <3>1, RequestFresh DEF n, m0
  <2> HIDE DEF m1
  <2>12. /\ m1.mem = m.mem /\ m1.free = m.free \ {n} /\ m1.flushed = m.flushed
         /\ n \in m.free /\ n \in Frames /\ own1[n] = MidRole(x, i) /\ Grown(m, own, m1, own1)
    BY <2>11 DEF Fresh, Grown
  <2>13. Shape(m1, own1)
    <3>1. Fits(m1, own1, n)
      BY <2>11, <2>12, ZeroFits
    <3>2. ASSUME NEW f \in Frames \ m1.free, f # n
          PROVE  f \notin m.free /\ m1.mem[f] = m.mem[f]
      BY <2>12, <3>2
    <3> QED BY <2>7, <2>12, <3>1, <3>2, ShapeKept
  <2>14. /\ n \in Frames \ m1.free /\ e.frame \in Frames \ m1.free /\ own1[e.frame] = MidRole(y, i)
         /\ dst \in Frames \ m1.free /\ own1[dst] = TopRole(x)
    BY <2>4, <2>12 DEF Grown
  <2>15. \A l \in Idx : ~ Present(m1.mem[n][l])
    BY <2>11, <2>12, EntryFacts
  <2> PICK own2 : LeavesCopied(m1, own1, x, n, e.frame, Fanout, m2, own2)
    BY <1>1, <2>3, <2>10, <2>12, <2>13, <2>14, <2>15, CopyMidCopies
  <2> HIDE DEF m2
  <2>16. /\ Shape(m2, own2) /\ Grown(m1, own1, m2, own2)
         /\ dst \in Frames \ m2.free /\ own2[dst] = TopRole(x)
         /\ n \in Frames \ m2.free /\ own2[n] = MidRole(x, i)
    BY <2>12, <2>14 DEF LeavesCopied, Step, Grown
  <2>17. n # dst /\ m2.mem[dst] = m.mem[dst]
    <3>1. n # dst
      BY <2>12
    <3> QED BY <2>12, <2>14, <3>1 DEF LeavesCopied
  <2>18. LinkTo(m2, own2, e2, x, MidRole(x, i))
    BY <2>5, <2>6, <2>16 DEF LinkTo
  <2>19. Step(m2, own2, m3, own2, x, Pages)
    BY <1>1, <2>5, <2>16, <2>17, <2>18, SetTop
  <2>20. /\ m3.mem[dst][i] = e2
         /\ \A k \in Idx : k # i => m3.mem[dst][k] = m2.mem[dst][k]
         /\ \A g \in Memory : g # dst => m3.mem[g] = m2.mem[g]
         /\ m3.flushed = m2.flushed
    BY <1>1, <2>5, <2>8, SetEntryFacts
  <2> HIDE DEF m3
  <2>21. Step(m, own, m1, own1, x, Pages)
    <3>1. PagesKept(m, own, m1, x, Pages)
      BY <2>12 DEF PagesKept, PagingGet
    <3>2. TopsKept(m, own, m1)
      BY <2>12 DEF TopsKept
    <3> QED BY <2>12, <2>13, <3>1, <3>2 DEF Step
  <2>22. Step(m, own, m3, own2, x, Pages)
    <3>1. Step(m, own, m2, own2, x, Pages)
      BY <2>21, StepTransitive DEF LeavesCopied
    <3> QED BY <2>19, <3>1, StepTransitive
  <2>23. ASSUME NEW f \in Frames \ m.free, f # dst
         PROVE  m3.mem[f] = m.mem[f]
    <3>1. f \in Memory /\ f # n /\ f \in Frames \ m1.free
      BY <2>12, EntryFacts
    <3> QED BY <2>12, <2>20, <2>23, <3>1 DEF LeavesCopied
  <2>24. Copying(m, own, x, dst, i, m3, own2)
    BY <2>12, <2>17, <2>20, <2>22, <2>23 DEF Copying, LeavesCopied
  <2>25. ASSUME NEW l \in Idx
         PROVE  SameLeaves(m, m.mem[e.frame][l], m3, m3.mem[n][l])
    <3>1. l < Fanout
      BY Sizes DEF Idx
    <3>2. SameLeaves(m, m.mem[e.frame][l], m2, m2.mem[n][l])
      BY <2>12, <3>1 DEF LeavesCopied, SameLeaves
    <3>3. m3.mem[n][l] = m2.mem[n][l]
      BY <2>2, <2>17, <2>20
    <3>4. ASSUME Present(m2.mem[n][l])
          PROVE  m3.mem[m2.mem[n][l].frame] = m2.mem[m2.mem[n][l].frame]
      <4>1. MidFits(m2, own2, m2.mem[n], x, i)
        BY <1>1, <2>16 DEF Shape, Fits
      <4>2. LinkTo(m2, own2, m2.mem[n][l], x, LeafRole(x, i, l))
        BY <3>4, <4>1 DEF MidFits, HugeAt
      <4>3. m2.mem[n][l].frame # dst
        BY <1>1, <2>16, <4>2, RolesDiffer, HalfIsIdx DEF LinkTo
      <4> QED BY <2>20, <4>2, <4>3, EntryFacts DEF LinkTo
    <3> QED BY <3>2, <3>3, <3>4 DEF SameLeaves
  <2>26. SameMiddles(m, e, m3, m3.mem[dst][i])
    BY <1>3, <2>5, <2>6, <2>20, <2>25 DEF SameMiddles
  <2> QED BY <2>1, <2>24, <2>26 DEF e
<1> QED
  BY <1>2, <1>3

(* The links of a task's tree                                               *)
LEMMA TreeLinks ==
  ASSUME NEW m, NEW own, Shape(m, own), NEW y \in Nat \ {0},
         NEW r \in Frames \ m.free, own[r] = TopRole(y), NEW i \in 0 .. UserTop - 1,
         Present(m.mem[r][i])
  PROVE  /\ LinkTo(m, own, m.mem[r][i], y, MidRole(y, i))
         /\ \A l \in Idx : Present(m.mem[m.mem[r][i].frame][l]) =>
              LinkTo(m, own, m.mem[m.mem[r][i].frame][l], y, LeafRole(y, i, l))
<1> DEFINE e == m.mem[r][i]
<1>1. i \in Half(y) /\ i \in Nat
  BY Sizes DEF Half
<1>2. TopFits(m, own, m.mem[r], y)
  BY DEF Shape, Fits
<1>3. LinkTo(m, own, e, y, MidRole(y, i))
  BY <1>1, <1>2 DEF TopFits
<1> HIDE DEF e
<1>4. MidFits(m, own, m.mem[e.frame], y, i)
  BY <1>1, <1>3 DEF LinkTo, Shape, Fits
<1>5. \A l \in Idx : Present(m.mem[e.frame][l]) =>
        LinkTo(m, own, m.mem[e.frame][l], y, LeafRole(y, i, l))
  BY <1>4 DEF MidFits, HugeAt
<1> QED
  BY <1>3, <1>5 DEF e

(* Of the tables handed out, only dst changes.                              *)
RowsKept(m, dst, m2) == \A f \in Frames \ m.free : f # dst => m2.mem[f] = m.mem[f]

LEMMA SameMiddlesKept ==
  ASSUME NEW q, NEW own, Shape(q, own), NEW x \in Nat \ {0},
         NEW dst \in Frames \ q.free, own[dst] = TopRole(x), NEW i \in 0 .. UserTop - 1,
         NEW q2, RowsKept(q, dst, q2),
         NEW m, NEW e, SameMiddles(m, e, q, q.mem[dst][i])
  PROVE  SameMiddles(m, e, q2, q.mem[dst][i])
<1> DEFINE e2 == q.mem[dst][i]
<1> SUFFICES ASSUME Present(e), NEW l \in Idx
             PROVE  SameLeaves(m, m.mem[e.frame][l], q2, q2.mem[e2.frame][l])
  BY DEF SameMiddles
<1>1. Present(e2) /\ SameLeaves(m, m.mem[e.frame][l], q, q.mem[e2.frame][l])
  BY DEF SameMiddles
<1>2. /\ LinkTo(q, own, e2, x, MidRole(x, i))
      /\ Present(q.mem[e2.frame][l]) => LinkTo(q, own, q.mem[e2.frame][l], x, LeafRole(x, i, l))
  BY <1>1, TreeLinks
<1> HIDE DEF e2
<1>3. q2.mem[e2.frame] = q.mem[e2.frame]
  <2>1. e2.frame # dst
    BY <1>2, RolesDiffer, HalfIsIdx DEF LinkTo
  <2> QED BY <1>2, <2>1 DEF LinkTo, RowsKept
<1>4. ASSUME Present(q.mem[e2.frame][l])
      PROVE  q2.mem[q.mem[e2.frame][l].frame] = q.mem[q.mem[e2.frame][l].frame]
  <2>1. q.mem[e2.frame][l].frame # dst
    <3>1. LinkTo(q, own, q.mem[e2.frame][l], x, LeafRole(x, i, l))
      BY <1>2, <1>4
    <3>2. own[q.mem[e2.frame][l].frame] = LeafRole(x, i, l)
      BY <3>1 DEF LinkTo
    <3>3. l \in Nat /\ i \in Nat
      BY HalfIsIdx
    <3> QED BY <3>2, <3>3, LeafRoleIsNew
  <2> QED BY <1>2, <1>4, <2>1 DEF LinkTo, RowsKept
<1> QED
  BY <1>1, <1>3, <1>4 DEF SameLeaves

LEMMA SameMiddlesFrom ==
  ASSUME NEW m, NEW own, Shape(m, own), NEW x \in Nat, NEW y \in Nat,
         NEW dst \in Frames \ m.free, own[dst] = TopRole(x),
         NEW src \in Frames \ m.free, own[src] = TopRole(y), NEW i \in 0 .. UserTop - 1,
         NEW e, e = m.mem[src][i], Present(e) => y # 0,
         NEW q, RowsKept(m, dst, q),
         NEW q2, NEW e2, SameMiddles(q, e, q2, e2)
  PROVE  SameMiddles(m, e, q2, e2)
<1> SUFFICES ASSUME Present(e), NEW l \in Idx
             PROVE  SameLeaves(m, m.mem[e.frame][l], q2, q2.mem[e2.frame][l])
  BY DEF SameMiddles
<1>1. SameLeaves(q, q.mem[e.frame][l], q2, q2.mem[e2.frame][l])
  BY DEF SameMiddles
<1>2. /\ LinkTo(m, own, e, y, MidRole(y, i))
      /\ Present(m.mem[e.frame][l]) => LinkTo(m, own, m.mem[e.frame][l], y, LeafRole(y, i, l))
  BY TreeLinks
<1>3. q.mem[e.frame] = m.mem[e.frame]
  <2>1. e.frame # dst
    BY <1>2, RolesDiffer, HalfIsIdx DEF LinkTo
  <2> QED BY <1>2, <2>1 DEF LinkTo, RowsKept
<1>4. ASSUME Present(m.mem[e.frame][l])
      PROVE  q.mem[m.mem[e.frame][l].frame] = m.mem[m.mem[e.frame][l].frame]
  <2>1. m.mem[e.frame][l].frame # dst
    <3>1. LinkTo(m, own, m.mem[e.frame][l], y, LeafRole(y, i, l))
      BY <1>2, <1>4
    <3>2. own[m.mem[e.frame][l].frame] = LeafRole(y, i, l)
      BY <3>1 DEF LinkTo
    <3>3. l \in Nat /\ i \in Nat
      BY HalfIsIdx
    <3> QED BY <3>2, <3>3, LeafRoleIsNew
  <2> QED BY <1>2, <1>4, <2>1 DEF LinkTo, RowsKept
<1> QED
  BY <1>1, <1>3, <1>4 DEF SameLeaves

(* paging_copy: a new tree, and the loop over its user half                 *)
TopCopies(m, dst, src, after) ==
  /\ after[0] = m
  /\ \A k \in 0 .. UserTop : after[k] \in Machines
  /\ \A k \in 1 .. UserTop : after[k] = CopyTop(after[k - 1], dst, src, k - 1)

LEMMA PagingCopySteps ==
  ASSUME NEW m \in Machines, NEW src \in Memory, kernel_table \in Memory
  PROVE  \E after :
           /\ TopCopies(PagingCreateEmpty(m).m, PagingCreateEmpty(m).frame, src, after)
           /\ PagingCopy(m, src).m = after[UserTop]
           /\ PagingCopy(m, src).frame = PagingCreateEmpty(m).frame
<1> DEFINE n == UserTop
           m0 == PagingCreateEmpty(m).m
           dst == PagingCreateEmpty(m).frame
           step == [x \in (1 .. n) \X Machines |-> CopyTop(x[2], dst, src, x[1] - 1)]
           Is(f) == f = [k \in 0 .. n |-> IF k = 0 THEN m0
                                          ELSE CopyTop(f[k - 1], dst, src, k - 1)]
           after == CHOOSE f : Is(f)
<1>1. n \in Nat /\ \A k \in 1 .. n : k - 1 \in Idx
  BY Sizes DEF Idx
<1>2. PagingCopy(m, src).m = after[n] /\ PagingCopy(m, src).frame = dst
  BY DEF PagingCopy, PagingCreateEmpty, Request
<1>3. m0 \in Machines /\ dst \in Memory
  BY PagingCreateEmptyType DEF Onward
<1> HIDE DEF n, m0, dst
<1>4. step \in [(1 .. n) \X Machines -> Machines]
  <2>1. \A k \in 1 .. n, q \in Machines : CopyTop(q, dst, src, k - 1) \in Machines
    BY <1>1, <1>3, CopyTopType DEF Onward
  <2> QED BY <2>1
<1>5. \E f : Is(f)
  <2> PICK f : Loop(f, m0, n, step)
    <3> HIDE DEF step
    <3> QED BY <1>1, <1>3, <1>4, LoopExists
  <2>1. ASSUME NEW k \in 1 .. n
        PROVE  step[<<k, f[k - 1]>>] = CopyTop(f[k - 1], dst, src, k - 1)
    <3>1. k - 1 \in 0 .. n
      BY <1>1
    <3>2. f[k - 1] \in Machines
      <4> HIDE DEF step
      <4> QED BY <3>1 DEF Loop
    <3> QED BY <3>2
  <2> HIDE DEF step
  <2>2. \A k \in 0 .. n : k # 0 => k \in 1 .. n
    BY <1>1
  <2>3. [k \in 0 .. n |-> IF k = 0 THEN m0 ELSE step[<<k, f[k - 1]>>]]
          = [k \in 0 .. n |-> IF k = 0 THEN m0 ELSE CopyTop(f[k - 1], dst, src, k - 1)]
    BY <2>1, <2>2
  <2>4. Is(f)
    BY <2>3 DEF Loop
  <2> QED BY <2>4
<1>6. Is(after)
  BY <1>5
<1> HIDE DEF after
<1>7. /\ after[0] = m0
      /\ \A k \in 1 .. n : after[k] = CopyTop(after[k - 1], dst, src, k - 1)
  BY <1>1, <1>6
<1>8. \A k \in Nat : k <= n => after[k] \in Machines
  <2> DEFINE T == {k \in Nat : k <= n => after[k] \in Machines}
  <2>1. 0 \in T
    BY <1>3, <1>7
  <2>2. ASSUME NEW k \in Nat, k \in T PROVE k + 1 \in T
    <3> SUFFICES ASSUME k + 1 <= n PROVE after[k + 1] \in Machines
      OBVIOUS
    <3>1. k + 1 \in 1 .. n /\ k + 1 - 1 = k /\ after[k] \in Machines
      BY <1>1, <2>2
    <3>2. k \in Idx
      BY <1>1, <3>1
    <3>3. after[k + 1] = CopyTop(after[k], dst, src, k)
      BY <1>7, <3>1
    <3> QED BY <1>3, <3>1, <3>2, <3>3, CopyTopType DEF Onward
  <2> HIDE DEF T
  <2>3. Nat \subseteq T
    BY <2>1, <2>2, NatSetInduction
  <2> QED BY <2>3 DEF T
<1>9. TopCopies(m0, dst, src, after)
  BY <1>1, <1>7, <1>8 DEF TopCopies, n
<1> QED
  BY <1>2, <1>9 DEF n, m0, dst

LEMMA TopCopiesType ==
  ASSUME NEW m \in Machines, NEW dst \in Memory, NEW src \in Memory, NEW after,
         TopCopies(m, dst, src, after)
  PROVE  Onward(m, after[UserTop])
<1> DEFINE T == {k \in Nat : k <= UserTop => Onward(m, after[k])}
<1>1. 0 \in T
  BY DEF TopCopies, Onward
<1>2. ASSUME NEW k \in Nat, k \in T PROVE k + 1 \in T
  <2> SUFFICES ASSUME k + 1 <= UserTop PROVE Onward(m, after[k + 1])
    OBVIOUS
  <2>1. /\ k + 1 \in 1 .. UserTop /\ k + 1 - 1 = k /\ Onward(m, after[k]) /\ k \in Idx
        /\ after[k] \in Machines
    BY <1>2, Sizes DEF TopCopies, Idx
  <2>2. after[k + 1] = CopyTop(after[k], dst, src, k)
    BY <2>1 DEF TopCopies
  <2>3. Onward(after[k], after[k + 1])
    BY <2>1, <2>2, CopyTopType
  <2> QED BY <2>1, <2>3, OnwardTransitive
<1> HIDE DEF T
<1>3. UserTop \in T
  BY <1>1, <1>2, NatSetInduction, Sizes
<1> QED
  BY <1>3, Sizes DEF T

LEMMA PagingCopyType ==
  ASSUME NEW m \in Machines, NEW src \in Memory, kernel_table \in Memory
  PROVE  Onward(m, PagingCopy(m, src).m) /\ PagingCopy(m, src).frame \in Memory
<1> DEFINE m0 == PagingCreateEmpty(m).m
           dst == PagingCreateEmpty(m).frame
<1>1. Onward(m, m0) /\ m0 \in Machines /\ dst \in Memory
  BY PagingCreateEmptyType DEF Onward
<1> PICK after : /\ TopCopies(m0, dst, src, after)
                 /\ PagingCopy(m, src).m = after[UserTop] /\ PagingCopy(m, src).frame = dst
  BY PagingCopySteps
<1> HIDE DEF m0, dst
<1>2. Onward(m0, after[UserTop])
  BY <1>1, TopCopiesType
<1> QED
  BY <1>1, <1>2, OnwardTransitive

(* The first n entries are copied, the others of dst as they were.          *)
MiddlesCopied(m, own, x, dst, src, n, m2, own2) ==
  /\ Step(m, own, m2, own2, x, Pages) /\ m2.flushed = m.flushed
  /\ \A f \in Frames \ m.free : f # dst => m2.mem[f] = m.mem[f]
  /\ \A l \in Idx : IF l < n THEN SameMiddles(m, m.mem[src][l], m2, m2.mem[dst][l])
                    ELSE m2.mem[dst][l] = m.mem[dst][l]

LEMMA TopCopiesCopy ==
  ASSUME NEW m, NEW own, Shape(m, own), NEW x \in Nat \ {0}, NEW y \in Nat, x # y,
         NEW dst \in Frames \ m.free, own[dst] = TopRole(x),
         NEW src \in Frames \ m.free, own[src] = TopRole(y),
         \A l \in 0 .. UserTop - 1 :
           ~ Present(m.mem[dst][l]) /\ (Present(m.mem[src][l]) => y # 0),
         NEW after, TopCopies(m, dst, src, after), Good(after[UserTop])
  PROVE  \E own2 : MiddlesCopied(m, own, x, dst, src, UserTop, after[UserTop], own2)
<1>1. m \in Machines /\ dst \in Memory /\ src \in Memory /\ src # dst
  BY EntryFacts, RolesDiffer DEF Shape
<1> DEFINE Copied(k) == \E own2 : MiddlesCopied(m, own, x, dst, src, k, after[k], own2)
           T == {k \in Nat : k <= UserTop /\ Good(after[k]) => Copied(k)}
<1>2. 0 \in T
  <2>1. Step(m, own, m, own, x, Pages)
    BY StepNothing
  <2>2. \A l \in Idx : ~ (l < 0)
    BY HalfIsIdx
  <2>3. MiddlesCopied(m, own, x, dst, src, 0, m, own)
    BY <2>1, <2>2 DEF MiddlesCopied
  <2> QED BY <2>3 DEF TopCopies
<1>3. ASSUME NEW k \in Nat, k \in T PROVE k + 1 \in T
  <2> SUFFICES ASSUME k + 1 <= UserTop, Good(after[k + 1]) PROVE Copied(k + 1)
    OBVIOUS
  <2> DEFINE q == after[k]
             q2 == after[k + 1]
  <2>1. /\ k + 1 \in 1 .. UserTop /\ k + 1 - 1 = k /\ q \in Machines /\ k \in Idx
        /\ k \in 0 .. UserTop - 1
    BY Sizes DEF TopCopies, Idx
  <2>2. q2 = CopyTop(q, dst, src, k)
    BY <2>1 DEF TopCopies
  <2>3. Onward(q, q2)
    BY <1>1, <2>1, <2>2, CopyTopType
  <2>4. Copied(k)
    <3>1. Good(q) /\ k <= UserTop
      BY <2>3, Sizes DEF Onward
    <3> HIDE DEF Copied
    <3> QED BY <1>3, <3>1
  <2> PICK own1 : MiddlesCopied(m, own, x, dst, src, k, q, own1)
    BY <2>4
  <2>5. Good(q2)
    OBVIOUS
  <2> HIDE DEF q, q2
  <2>6. /\ Shape(q, own1) /\ Grown(m, own, q, own1)
        /\ dst \in Frames \ q.free /\ own1[dst] = TopRole(x)
        /\ src \in Frames \ q.free /\ own1[src] = TopRole(y)
    BY DEF MiddlesCopied, Step, Grown
  <2>7. ~ Present(q.mem[dst][k]) /\ q.mem[src] = m.mem[src]
    BY <1>1, <2>1 DEF MiddlesCopied
  <2>8. Present(q.mem[src][k]) => y # 0
    BY <2>1, <2>7
  <2> PICK own2 : /\ Copying(q, own1, x, dst, k, q2, own2)
                  /\ SameMiddles(q, q.mem[src][k], q2, q2.mem[dst][k])
    BY <2>1, <2>2, <2>5, <2>6, <2>7, <2>8, CopyTopCopies
  <2>9. Step(m, own, q2, own2, x, Pages)
    BY StepTransitive DEF MiddlesCopied, Copying
  <2>10. \A f \in Frames \ m.free : f # dst => q2.mem[f] = m.mem[f]
    BY <2>6 DEF MiddlesCopied, Copying, Grown
  <2>11. ASSUME NEW l \in Idx, l < k
         PROVE  SameMiddles(m, m.mem[src][l], q2, q2.mem[dst][l])
    <3>1. /\ SameMiddles(m, m.mem[src][l], q, q.mem[dst][l]) /\ q2.mem[dst][l] = q.mem[dst][l]
          /\ l \in 0 .. UserTop - 1
      BY <2>1, <2>11, Sizes DEF MiddlesCopied, Copying, Idx
    <3>2. RowsKept(q, dst, q2)
      BY DEF Copying, RowsKept
    <3>3. SameMiddles(m, m.mem[src][l], q2, q.mem[dst][l])
      BY <2>6, <3>1, <3>2, SameMiddlesKept
    <3> QED BY <3>1, <3>3
  <2>12. SameMiddles(m, m.mem[src][k], q2, q2.mem[dst][k])
    <3>1. SameMiddles(q, m.mem[src][k], q2, q2.mem[dst][k])
      BY <2>7
    <3>2. RowsKept(m, dst, q)
      BY DEF MiddlesCopied, RowsKept
    <3>3. Present(m.mem[src][k]) => y # 0
      BY <2>1
    <3> DEFINE e == m.mem[src][k]
    <3>4. e = m.mem[src][k]
      OBVIOUS
    <3> HIDE DEF e
    <3>5. SameMiddles(m, e, q2, q2.mem[dst][k])
      BY <2>1, <3>1, <3>2, <3>3, <3>4, SameMiddlesFrom
    <3> QED BY <3>4, <3>5
  <2>13. ASSUME NEW l \in Idx, ~ (l < k + 1)
         PROVE  q2.mem[dst][l] = m.mem[dst][l]
    <3>1. l # k /\ ~ (l < k)
      BY <2>13 DEF Idx
    <3> QED BY <3>1 DEF MiddlesCopied, Copying
  <2>14. \A l \in Idx : l < k + 1 => l < k \/ l = k
    BY DEF Idx
  <2>15. q2.flushed = m.flushed
    BY DEF MiddlesCopied, Copying
  <2>16. MiddlesCopied(m, own, x, dst, src, k + 1, q2, own2)
    BY <2>9, <2>10, <2>11, <2>12, <2>13, <2>14, <2>15 DEF MiddlesCopied
  <2> QED BY <2>16 DEF q2
<1> HIDE DEF T
<1>4. UserTop \in T
  BY <1>2, <1>3, NatSetInduction, Sizes
<1> QED
  BY <1>4, Sizes DEF T

(* A copy of tree y is a tree of its own, in which the MMU finds what it    *)
(* finds in tree y, and beside it the kernel's half.                        *)
TreeCopied(m, own, x, src, m2, own2, r) ==
  /\ Step(m, own, m2, own2, x, Pages) /\ RootOf(m2, own2, r, x) /\ r \in m.free
  /\ m2.flushed = m.flushed
  /\ \A i \in Idx : i >= UserTop => m2.mem[r][i] = m.mem[kernel_table][i]
  /\ \A i \in 0 .. UserTop - 1 : SameMiddles(m, m.mem[src][i], m2, m2.mem[r][i])

LEMMA PagingCopyCopies ==
  ASSUME NEW m, NEW own, Shape(m, own), kernel_table \in Memory,
         NEW x \in Nat \ {0}, NEW y \in Nat, x # y,
         NEW src \in Frames \ m.free, own[src] = TopRole(y),
         \A l \in 0 .. UserTop - 1 : Present(m.mem[src][l]) => y # 0,
         Good(PagingCopy(m, src).m)
  PROVE  \E own2 : TreeCopied(m, own, x, src, PagingCopy(m, src).m, own2,
                              PagingCopy(m, src).frame)
<1> DEFINE m1 == PagingCreateEmpty(m).m
           r == PagingCreateEmpty(m).frame
<1>1. m \in Machines /\ src \in Memory /\ \A l \in 0 .. UserTop - 1 : l \in Idx
  BY EntryFacts, Sizes DEF Shape, Idx
<1> PICK after : /\ TopCopies(m1, r, src, after)
                 /\ PagingCopy(m, src).m = after[UserTop] /\ PagingCopy(m, src).frame = r
  BY <1>1, PagingCopySteps
<1>2. m1 \in Machines /\ r \in Memory
  BY <1>1, PagingCreateEmptyType DEF Onward
<1> DEFINE m2 == after[UserTop]
<1>3. Onward(m1, m2) /\ Good(m2) /\ Good(m1)
  <2> HIDE DEF m1, r
  <2>1. Onward(m1, m2)
    BY <1>1, <1>2, TopCopiesType
  <2> QED BY <2>1 DEF Onward
<1> PICK own1 : Creating(m, own, x, m1, own1, r)
  BY <1>3, PagingCreateEmptyCreates
<1> HIDE DEF m1, r
<1>4. /\ Shape(m1, own1) /\ Grown(m, own, m1, own1) /\ r \in Frames \ m1.free
      /\ own1[r] = TopRole(x) /\ r \in m.free
      /\ src \in Frames \ m1.free /\ own1[src] = TopRole(y) /\ m1.mem[src] = m.mem[src]
  BY DEF Creating, Step, RootOf, Grown
<1>5. \A l \in 0 .. UserTop - 1 :
        ~ Present(m1.mem[r][l]) /\ (Present(m1.mem[src][l]) => y # 0)
  BY <1>1, <1>4, EntryFacts, Sizes DEF Creating
<1> PICK own2 : MiddlesCopied(m1, own1, x, r, src, UserTop, m2, own2)
  BY <1>3, <1>4, <1>5, TopCopiesCopy
<1> HIDE DEF m2
<1>6. Step(m, own, m2, own2, x, Pages)
  <2>1. Step(m, own, m1, own1, x, {}) /\ {} \subseteq Pages
    BY DEF Creating
  <2>2. Step(m1, own1, m1, own1, x, Pages)
    BY <1>4, StepNothing
  <2>3. Step(m, own, m1, own1, x, Pages)
    BY <2>1, <2>2, StepTransitive
  <2> QED BY <2>3, StepTransitive DEF MiddlesCopied
<1>7. RootOf(m2, own2, r, x)
  <2>1. RootOf(m1, own1, r, x)
    BY DEF Creating
  <2>2. Grown(m1, own1, m2, own2)
    BY DEF MiddlesCopied, Step
  <2> QED BY <2>1, <2>2, RootKept
<1>8. \A i \in Idx : i >= UserTop => m2.mem[r][i] = m.mem[kernel_table][i]
  BY Sizes DEF MiddlesCopied, Creating, Idx
<1>9. ASSUME NEW i \in 0 .. UserTop - 1
      PROVE  SameMiddles(m, m.mem[src][i], m2, m2.mem[r][i])
  <2> DEFINE e == m.mem[src][i]
             e2 == m2.mem[r][i]
  <2>1. i < UserTop /\ i \in Idx
    BY <1>1, Sizes
  <2>2. SameMiddles(m1, m1.mem[src][i], m2, e2)
    BY <2>1 DEF MiddlesCopied
  <2>3. SameMiddles(m1, e, m2, e2)
    BY <1>4, <2>2
  <2>4. RowsKept(m, src, m1)
    BY DEF Creating, RowsKept
  <2>5. e = m.mem[src][i] /\ (Present(e) => y # 0)
    OBVIOUS
  <2> HIDE DEF e, e2
  <2>6. SameMiddles(m, e, m2, e2)
    BY <2>3, <2>4, <2>5, SameMiddlesFrom
  <2> QED BY <2>6 DEF e, e2
<1>10. m2.flushed = m.flushed
  BY DEF MiddlesCopied, Creating
<1>11. TreeCopied(m, own, x, src, m2, own2, r)
  BY <1>4, <1>6, <1>7, <1>8, <1>9, <1>10 DEF TreeCopied
<1> QED
  BY <1>11 DEF m2

LEMMA CopyGets ==
  ASSUME NEW m, NEW own, Shape(m, own), NEW x \in Nat \ {0}, NEW y \in Nat \ {0},
         NEW src, RootOf(m, own, src, y),
         NEW m2, NEW own2, NEW r, TreeCopied(m, own, x, src, m2, own2, r),
         NEW v \in UserPages
  PROVE  PagingGet(m2, r, v) = PagingGet(m, src, v)
<1> DEFINE top == TopOf(m, src, v)
           mid == MidOf(m, src, v)
           top2 == TopOf(m2, r, v)
           mid2 == MidOf(m2, r, v)
<1>1. /\ v \in Pages /\ Top(v) \in 0 .. UserTop - 1 /\ PageOf(x, v) /\ PageOf(y, v)
      /\ Mid(v) \in Idx /\ Low(v) \in Idx
  BY UserPagesArePages, HalfOfPage, PageIndices DEF PageOf, Half
<1>2. Walk(m, own, src, y, v) /\ Got(m, src, v) /\ Got(m2, r, v) /\ Walk(m2, own2, r, x, v)
  BY <1>1, WalkIs, GetIs DEF TreeCopied, Step
<1>3. SameMiddles(m, top, m2, top2)
  BY <1>1 DEF TreeCopied, TopOf
<1>4. CASE ~ Present(top)
  BY <1>2, <1>3, <1>4 DEF SameMiddles, Got
<1>5. CASE Present(top)
  <2>1. Present(top2) /\ ~ Huge(top) /\ ~ Huge(top2)
    BY <1>2, <1>3, <1>5 DEF SameMiddles, Walk, LinkTo
  <2>2. SameLeaves(m, mid, m2, mid2)
    BY <1>1, <1>3, <1>5 DEF SameMiddles, MidOf
  <2>3. CASE ~ Present(mid)
    BY <1>2, <1>5, <2>1, <2>2, <2>3 DEF SameLeaves, Got
  <2>4. CASE Present(mid)
    <3>1. Present(mid2)
      BY <2>2, <2>4 DEF SameLeaves
    <3>2. ~ Huge(mid) /\ ~ Huge(mid2)
      BY <1>2, <1>5, <2>1, <2>4, <3>1 DEF Walk, HugeAt, LinkTo
    <3>3. LeafOf(m2, r, v) = LeafOf(m, src, v)
      BY <2>2, <2>4 DEF SameLeaves, LeafOf
    <3> QED BY <1>2, <1>5, <2>1, <2>4, <3>1, <3>2, <3>3 DEF Got
  <2> QED BY <2>3, <2>4
<1> QED
  BY <1>4, <1>5

(* A copy of the kernel's tree has no user pages.                           *)
LEMMA KernelCopyGets ==
  ASSUME NEW m, NEW own, NEW x, NEW src, \A i \in 0 .. UserTop - 1 : ~ Present(m.mem[src][i]),
         NEW m2, NEW own2, NEW r, TreeCopied(m, own, x, src, m2, own2, r),
         NEW v \in UserPages
  PROVE  PagingGet(m2, r, v) = Absent
<1>1. Top(v) \in 0 .. UserTop - 1
  BY UserPagesArePages, HalfOfPage
<1>2. ~ Present(TopOf(m2, r, v))
  BY <1>1 DEF TreeCopied, SameMiddles, TopOf
<1> QED
  BY <1>2, GetIs DEF Got

-----------------------------------------------------------------------------
(* Read-only trees.                                                         *)

LEMMA ReadOnlyFacts ==
  ASSUME NEW e \in Entry
  PROVE  /\ ReadOnlyEntry(e) \in Entry /\ ReadOnlyEntry(e).frame = e.frame
         /\ ReadOnlyEntry(e).flags = e.flags \ {"W"}
         /\ Present(ReadOnlyEntry(e)) <=> Present(e)
         /\ Huge(ReadOnlyEntry(e)) <=> Huge(e)
  BY DEF ReadOnlyEntry, Entry, Present, Huge

(* The tables that paging_make_readonly writes, and how it reaches them     *)
Visited(m, table) ==
  {p \in (0 .. UserTop - 1) \X Idx :
     /\ Present(m.mem[table][p[1]])
     /\ Present(m.mem[m.mem[table][p[1]].frame][p[2]])}
LeavesOf(m, table) == {m.mem[m.mem[table][p[1]].frame][p[2]].frame : p \in Visited(m, table)}

Cleared(m, table, m2) ==
  /\ \A f \in Memory : m2.mem[f] \in Row
  /\ \A f \in Memory, k \in Idx :
       m2.mem[f][k] = IF f \in LeavesOf(m, table) THEN ReadOnlyEntry(m.mem[f][k])
                      ELSE m.mem[f][k]
  /\ m2.free = m.free /\ m2.exhausted = m.exhausted /\ m2.stale = m.stale
  /\ m2.flushed = m.flushed \cup
       {EntryAddress(EntryAddress(p[1], p[2]), k) : p \in Visited(m, table), k \in Idx}

LEMMA PagingMakeReadonlyType ==
  ASSUME NEW m \in Machines, NEW table \in Memory
  PROVE  /\ Onward(m, PagingMakeReadonly(m, table))
         /\ Cleared(m, table, PagingMakeReadonly(m, table))
<1> DEFINE L == LeavesOf(m, table)
           M == [f \in Memory |-> [k \in Idx |->
                   IF f \in L THEN ReadOnlyEntry(m.mem[f][k]) ELSE m.mem[f][k]]]
           F == m.flushed \cup
                  {EntryAddress(EntryAddress(p[1], p[2]), k) : p \in Visited(m, table), k \in Idx}
           m2 == PagingMakeReadonly(m, table)
<1>1. m2 = [m EXCEPT !.flushed = F, !.mem = M]
  BY DEF PagingMakeReadonly, LeavesOf, Visited, ReadOnlyEntry
<1>2. F \in SUBSET Pages
  <2>1. ASSUME NEW p \in Visited(m, table), NEW k \in Idx
        PROVE  EntryAddress(EntryAddress(p[1], p[2]), k) \in Pages
    <3>1. p[1] \in Idx /\ p[2] \in Idx
      BY Sizes DEF Visited, Idx
    <3> QED BY <3>1, EntriesNamePage DEF PageAt
  <2> QED BY <2>1 DEF Machines
<1>3. M \in [Memory -> Row]
  <2>1. \A f \in Memory, k \in Idx : m.mem[f][k] \in Entry /\ ReadOnlyEntry(m.mem[f][k]) \in Entry
    BY MemFacts, ReadOnlyFacts
  <2> HIDE DEF L
  <2> QED BY <2>1 DEF Row
<1>4. \A f \in Memory, k \in Idx :
        M[f][k] = IF f \in L THEN ReadOnlyEntry(m.mem[f][k]) ELSE m.mem[f][k]
  OBVIOUS
<1> HIDE DEF M, F, L, m2
<1>5. /\ m2.mem = M /\ m2.flushed = F /\ m2.free = m.free /\ m2.exhausted = m.exhausted
      /\ m2.stale = m.stale /\ m2 \in Machines
  BY <1>1, <1>2, <1>3 DEF Machines
<1>6. Onward(m, m2)
  BY <1>5 DEF Onward, Good, F
<1>7. Cleared(m, table, m2)
  BY <1>3, <1>4, <1>5 DEF Cleared, L, F
<1> QED
  BY <1>6, <1>7 DEF m2

(* Present pages of the tree are left without write access, and flushed.    *)
Protecting(m, own, r, x, m2) ==
  /\ Step(m, own, m2, own, x, Pages)
  /\ \A v \in UserPages :
       IF Present(PagingGet(m, r, v))
         THEN PagingGet(m2, r, v) = ReadOnlyEntry(PagingGet(m, r, v)) /\ v \in m2.flushed
         ELSE ~ Present(PagingGet(m2, r, v))

LEMMA PagingMakeReadonlyProtects ==
  ASSUME NEW m, NEW own, Shape(m, own), NEW x \in Nat \ {0}, NEW r, RootOf(m, own, r, x)
  PROVE  Protecting(m, own, r, x, PagingMakeReadonly(m, r))
<1> DEFINE m2 == PagingMakeReadonly(m, r)
           L == LeavesOf(m, r)
<1>1. m \in Machines /\ r \in Memory /\ r \in Frames \ m.free /\ own[r] = TopRole(x)
  BY EntryFacts DEF Shape, RootOf
<1>2. Cleared(m, r, m2) /\ m2 \in Machines
  BY <1>1, PagingMakeReadonlyType DEF Onward
<1> HIDE DEF m2
<1>3. ASSUME NEW f \in L
      PROVE  /\ f \in Frames \ m.free
             /\ \E i \in Nat, j \in Nat : own[f] = LeafRole(x, i, j)
  <2> PICK p \in Visited(m, r) : f = m.mem[m.mem[r][p[1]].frame][p[2]].frame
    BY <1>3 DEF LeavesOf
  <2>1. p[1] \in 0 .. UserTop - 1 /\ p[1] \in Nat /\ p[2] \in Idx /\ p[2] \in Nat
    <3>1. p \in (0 .. UserTop - 1) \X Idx
      BY DEF Visited
    <3>2. p[1] \in 0 .. UserTop - 1 /\ p[2] \in Idx
      BY <3>1
    <3>3. \A i \in 0 .. UserTop - 1 : i \in Nat
      OBVIOUS
    <3> QED BY <3>2, <3>3, HalfIsIdx
  <2>2. Present(m.mem[r][p[1]]) /\ Present(m.mem[m.mem[r][p[1]].frame][p[2]])
    BY DEF Visited
  <2>3. LinkTo(m, own, m.mem[m.mem[r][p[1]].frame][p[2]], x, LeafRole(x, p[1], p[2]))
    BY <1>1, <2>1, <2>2, TreeLinks
  <2> QED BY <2>1, <2>3 DEF LinkTo
<1>4. \A f \in Frames, k \in Idx :
        /\ f \in L => m2.mem[f][k] = ReadOnlyEntry(m.mem[f][k])
        /\ f \notin L => m2.mem[f][k] = m.mem[f][k]
  BY <1>2, EntryFacts DEF Cleared
<1>5. \A f \in Frames : f \notin L => m2.mem[f] = m.mem[f]
  <2>1. \A f \in Frames : m2.mem[f] \in [Idx -> Entry] /\ m.mem[f] \in [Idx -> Entry]
    BY <1>1, <1>2, MemFacts, EntryFacts DEF Cleared, Row
  <2> HIDE DEF L
  <2> QED BY <1>4, <2>1
<1> HIDE DEF L
<1>6. Grown(m, own, m2, own)
  BY <1>2 DEF Grown, Cleared, Shape
<1>7. ASSUME NEW f \in Frames \ m.free, f \in L
      PROVE  Fits(m2, own, f)
  <2> PICK i \in Nat, j \in Nat : own[f] = LeafRole(x, i, j)
    BY <1>3, <1>7
  <2>1. LeafFits(m, own, m.mem[f], x, i, j)
    BY DEF Shape, Fits
  <2>2. ASSUME NEW k \in Idx, Present(m2.mem[f][k])
        PROVE  /\ ~ Huge(m2.mem[f][k])
               /\ DataAt(x, i, j, k) => /\ m2.mem[f][k].frame \in Frames \ m2.free
                                        /\ own[m2.mem[f][k].frame] = PageRole
    <3>1. m.mem[f][k] \in Entry /\ m2.mem[f][k] = ReadOnlyEntry(m.mem[f][k]) /\ m2.free = m.free
      BY <1>1, <1>2, <1>4, <1>7, MemFacts, EntryFacts DEF Cleared
    <3>2. /\ Present(m.mem[f][k]) /\ (Huge(m2.mem[f][k]) <=> Huge(m.mem[f][k]))
          /\ m2.mem[f][k].frame = m.mem[f][k].frame
      BY <2>2, <3>1, ReadOnlyFacts
    <3> QED BY <2>1, <3>1, <3>2 DEF LeafFits
  <2>3. LeafFits(m2, own, m2.mem[f], x, i, j)
    BY <2>2 DEF LeafFits
  <2> QED BY <2>3, RolesDiffer DEF Fits
<1>8. Shape(m2, own)
  <2>1. ASSUME NEW f \in Frames \ m2.free, f \notin L
        PROVE  f \notin m.free /\ m2.mem[f] = m.mem[f]
    BY <1>2, <1>5, <2>1 DEF Cleared
  <2>2. \A f \in Frames \ m2.free : f \in L => Fits(m2, own, f)
    BY <1>2, <1>7 DEF Cleared
  <2> QED BY <1>2, <1>6, <2>1, <2>2, ShapeKept
<1>9. \A f \in L, z \in Nat, i \in Nat, j \in Nat :
        own[f] \notin {TopRole(z), MidRole(z, i)} /\ (z # x => own[f] # LeafRole(z, i, j))
  <2> SUFFICES ASSUME NEW f \in L, NEW z \in Nat, NEW i \in Nat, NEW j \in Nat
               PROVE  /\ own[f] \notin {TopRole(z), MidRole(z, i)}
                      /\ z # x => own[f] # LeafRole(z, i, j)
    OBVIOUS
  <2> PICK k \in Nat, l \in Nat : own[f] = LeafRole(x, k, l)
    BY <1>3
  <2> QED BY RolesDiffer
<1>10. PagesKept(m, own, m2, x, Pages)
  <2>1. \A f \in Frames \ m.free, z \in Nat, i \in Nat, j \in Nat :
          z # x /\ own[f] \in {TopRole(z), MidRole(z, i), LeafRole(z, i, j)}
            => m2.mem[f] = m.mem[f]
    BY <1>5, <1>9
  <2> QED BY <2>1, OthersKept
<1>11. TopsKept(m, own, m2)
  BY <1>5, <1>9 DEF TopsKept
<1>12. ASSUME NEW v \in UserPages
       PROVE  IF Present(PagingGet(m, r, v))
                THEN PagingGet(m2, r, v) = ReadOnlyEntry(PagingGet(m, r, v)) /\ v \in m2.flushed
                ELSE ~ Present(PagingGet(m2, r, v))
  <2> DEFINE top == TopOf(m, r, v)
             mid == MidOf(m, r, v)
             leaf == LeafOf(m, r, v)
  <2>1. /\ v \in Pages /\ Top(v) \in 0 .. UserTop - 1 /\ PageOf(x, v) /\ Top(v) \in Nat
        /\ Mid(v) \in Idx /\ Low(v) \in Idx /\ Mid(v) \in Nat
        /\ v = EntryAddress(EntryAddress(Top(v), Mid(v)), Low(v))
    BY UserPagesArePages, HalfOfPage, PageIndices, HalfIsIdx DEF PageOf, Half, PageAt
  <2>2. Walk(m, own, r, x, v) /\ Got(m, r, v) /\ Got(m2, r, v)
    BY <2>1, WalkIs, GetIs
  <2>3. TopOf(m2, r, v) = top
    <3>1. r \notin L
      BY <1>1, <1>9
    <3> QED BY <1>1, <1>5, <3>1 DEF TopOf
  <2>4. CASE ~ Present(top)
    BY <2>2, <2>3, <2>4, EntryFacts DEF Got
  <2>5. CASE Present(top)
    <3>1. LinkTo(m, own, top, x, MidRole(x, Top(v))) /\ ~ Huge(top)
      BY <2>2, <2>5 DEF Walk, LinkTo
    <3>2. MidOf(m2, r, v) = mid
      <4>1. top.frame \in Frames /\ top.frame \notin L
        BY <1>9, <2>1, <3>1 DEF LinkTo
      <4> HIDE DEF top
      <4>2. m2.mem[top.frame] = m.mem[top.frame]
        BY <1>5, <4>1
      <4> QED BY <2>3, <4>2 DEF MidOf, top
    <3>3. CASE ~ Present(mid)
      BY <2>2, <2>3, <2>5, <3>1, <3>2, <3>3, EntryFacts DEF Got
    <3>4. CASE Present(mid)
      <4>1. LinkTo(m, own, mid, x, LeafRole(x, Top(v), Mid(v))) /\ ~ Huge(mid)
        BY <2>2, <2>5, <3>4 DEF Walk, HugeAt, LinkTo
      <4>2. <<Top(v), Mid(v)>> \in Visited(m, r)
        BY <2>1, <2>5, <3>4 DEF Visited, TopOf, MidOf
      <4>3. mid.frame \in L
        <5> DEFINE p == <<Top(v), Mid(v)>>
        <5>1. m.mem[m.mem[r][p[1]].frame][p[2]].frame \in L
          BY <4>2 DEF L, LeavesOf
        <5> QED BY <5>1 DEF TopOf, MidOf
      <4>4. LeafOf(m2, r, v) = ReadOnlyEntry(leaf) /\ leaf \in Entry
        <5>1. mid.frame \in Frames /\ mid.frame \in Memory
          BY <4>1, EntryFacts DEF LinkTo
        <5> HIDE DEF mid
        <5>2. m2.mem[mid.frame][Low(v)] = ReadOnlyEntry(m.mem[mid.frame][Low(v)])
          BY <1>4, <2>1, <4>3, <5>1
        <5>3. m.mem[mid.frame][Low(v)] \in Entry
          BY <1>1, <2>1, <5>1, MemFacts
        <5> QED BY <3>2, <5>2, <5>3 DEF LeafOf, mid
      <4>5. PagingGet(m, r, v) = leaf /\ PagingGet(m2, r, v) = ReadOnlyEntry(leaf)
        BY <2>2, <2>3, <2>5, <3>1, <3>2, <3>4, <4>1, <4>4 DEF Got
      <4>6. v \in m2.flushed
        <5>1. v \in {EntryAddress(EntryAddress(p[1], p[2]), k) : p \in Visited(m, r), k \in Idx}
          BY <2>1, <4>2
        <5> QED BY <1>2, <5>1 DEF Cleared
      <4> HIDE DEF leaf
      <4> QED BY <4>4, <4>5, <4>6, ReadOnlyFacts
    <3> QED BY <3>3, <3>4
  <2> QED BY <2>4, <2>5
<1> QED
  BY <1>6, <1>8, <1>10, <1>11, <1>12 DEF Protecting, Step, m2

-----------------------------------------------------------------------------
(* Boot.                                                                    *)

(* Entries of the kernel's top table are present from UserTop on, to the    *)
(* n-th, and no page of the heap is.                                        *)
KernelTree(m, own, r, n) ==
  /\ Shape(m, own) /\ RootOf(m, own, r, 0)
  /\ \A i \in Idx : Present(m.mem[r][i]) <=> i >= UserTop /\ i < UserTop + n
  /\ \A v \in HeapPages : ~ Present(PagingGet(m, r, v))

LEMMA HeapPageOf ==
  /\ \A v \in HeapPages : v \in HeapStart .. CopyPage /\ v \in Nat
  /\ \A v \in HeapStart .. CopyPage :
       PageOf(0, v) /\ Top(v) = UserTop /\ Mid(v) = 2 /\ MayRequest(0, v) /\ v \in Pages
<1>1. /\ HeapStart \in Nat /\ HeapRoom \in Nat /\ UserTop \in Half(0)
      /\ ~ HugeAt(0, UserTop, 2)
  BY Sizes DEF HeapStart, Higher, Half, HugeAt
<1>2. ASSUME NEW v \in HeapStart .. CopyPage
      PROVE  PageOf(0, v) /\ Top(v) = UserTop /\ Mid(v) = 2 /\ MayRequest(0, v) /\ v \in Pages
  BY <1>1, HeapPage DEF PageOf, MayRequest
<1> QED
  BY <1>1, <1>2 DEF HeapPages, CopyPage

LEMMA KernelTreeKept ==
  ASSUME NEW m, NEW own, NEW r, KernelTree(m, own, r, Fanout - UserTop),
         NEW m2, NEW own2, NEW A, Step(m, own, m2, own2, 0, A), A \cap HeapPages = {}
  PROVE  KernelTree(m2, own2, r, Fanout - UserTop)
<1>1. Shape(m2, own2) /\ RootOf(m2, own2, r, 0)
  BY RootKept DEF Step, KernelTree
<1>2. ASSUME NEW i \in Idx
      PROVE  Present(m2.mem[r][i]) <=> i >= UserTop /\ i < UserTop + (Fanout - UserTop)
  <2>1. i \notin Half(0) \/ Present(m.mem[r][i])
    BY Sizes DEF KernelTree, Half, Idx
  <2>2. m2.mem[r][i] = m.mem[r][i]
    BY <2>1 DEF Step, TopsKept, KernelTree, RootOf
  <2> QED BY <2>2 DEF KernelTree
<1>3. ASSUME NEW v \in HeapPages PROVE ~ Present(PagingGet(m2, r, v))
  <2>1. PageOf(0, v) /\ v \notin A
    BY HeapPageOf
  <2>2. PagingGet(m2, r, v) = PagingGet(m, r, v)
    BY <2>1 DEF Step, PagesKept, KernelTree
  <2> QED BY <2>2 DEF KernelTree
<1> QED
  BY <1>1, <1>2, <1>3 DEF KernelTree

(* The loop that makes the tables below the kernel's half                   *)
Children(m, r, after) ==
  /\ after[0] = m
  /\ \A k \in 0 .. Fanout - UserTop : after[k] \in Machines
  /\ \A k \in 1 .. Fanout - UserTop : after[k] = Child(after[k - 1], r, UserTop + k - 1, {"P"}).m

LEMMA KernelTopSteps ==
  ASSUME NEW m \in Machines
  PROVE  \E after :
           /\ Children(Write(Request(m).m, Request(m).frame, ZeroTable), Request(m).frame, after)
           /\ KernelTop(m).m = after[Fanout - UserTop] /\ KernelTop(m).frame = Request(m).frame
<1> DEFINE n == Fanout - UserTop
           r == Request(m).frame
           m0 == Write(Request(m).m, r, ZeroTable)
           step == [x \in (1 .. n) \X Machines |-> Child(x[2], r, UserTop + x[1] - 1, {"P"}).m]
           Is(f) == f = [k \in 0 .. n |-> IF k = 0 THEN m0
                                          ELSE Child(f[k - 1], r, UserTop + k - 1, {"P"}).m]
           after == CHOOSE f : Is(f)
<1>1. n \in Nat /\ \A k \in 1 .. n : UserTop + k - 1 \in Idx
  BY Sizes DEF Idx
<1>2. KernelTop(m).m = after[n] /\ KernelTop(m).frame = r
  BY DEF KernelTop, Request
<1>3. m0 \in Machines /\ r \in Memory
  <2>1. Request(m).m \in Machines /\ r \in Memory
    BY RequestFacts DEF Onward
  <2> QED BY <2>1, WriteFacts, EntryFacts DEF Onward
<1> HIDE DEF n, m0, r
<1>4. step \in [(1 .. n) \X Machines -> Machines]
  <2>1. \A k \in 1 .. n, q \in Machines : Child(q, r, UserTop + k - 1, {"P"}).m \in Machines
    BY <1>1, <1>3, ChildType DEF Onward
  <2> QED BY <2>1
<1>5. \E f : Is(f)
  <2> PICK f : Loop(f, m0, n, step)
    <3> HIDE DEF step
    <3> QED BY <1>1, <1>3, <1>4, LoopExists
  <2>1. ASSUME NEW k \in 1 .. n
        PROVE  step[<<k, f[k - 1]>>] = Child(f[k - 1], r, UserTop + k - 1, {"P"}).m
    <3>1. k - 1 \in 0 .. n
      BY <1>1
    <3>2. f[k - 1] \in Machines
      <4> HIDE DEF step
      <4> QED BY <3>1 DEF Loop
    <3> QED BY <3>2
  <2> HIDE DEF step
  <2>2. \A k \in 0 .. n : k # 0 => k \in 1 .. n
    BY <1>1
  <2>3. [k \in 0 .. n |-> IF k = 0 THEN m0 ELSE step[<<k, f[k - 1]>>]]
          = [k \in 0 .. n |-> IF k = 0 THEN m0
                              ELSE Child(f[k - 1], r, UserTop + k - 1, {"P"}).m]
    BY <2>1, <2>2
  <2>4. Is(f)
    BY <2>3 DEF Loop
  <2> QED BY <2>4
<1>6. Is(after)
  BY <1>5
<1> HIDE DEF after
<1>7. /\ after[0] = m0
      /\ \A k \in 1 .. n : after[k] = Child(after[k - 1], r, UserTop + k - 1, {"P"}).m
  BY <1>1, <1>6
<1>8. \A k \in Nat : k <= n => after[k] \in Machines
  <2> DEFINE T == {k \in Nat : k <= n => after[k] \in Machines}
  <2>1. 0 \in T
    BY <1>3, <1>7
  <2>2. ASSUME NEW k \in Nat, k \in T PROVE k + 1 \in T
    <3> SUFFICES ASSUME k + 1 <= n PROVE after[k + 1] \in Machines
      OBVIOUS
    <3>1. k + 1 \in 1 .. n /\ k + 1 - 1 = k /\ after[k] \in Machines
      BY <1>1, <2>2
    <3>2. UserTop + (k + 1) - 1 \in Idx
      BY <1>1, <3>1
    <3>3. after[k + 1] = Child(after[k], r, UserTop + (k + 1) - 1, {"P"}).m
      BY <1>7, <3>1
    <3> QED BY <1>3, <3>1, <3>2, <3>3, ChildType DEF Onward
  <2> HIDE DEF T
  <2>3. Nat \subseteq T
    BY <2>1, <2>2, NatSetInduction
  <2> QED BY <2>3 DEF T
<1>9. Children(m0, r, after)
  BY <1>1, <1>7, <1>8 DEF Children, n
<1> QED
  BY <1>2, <1>9 DEF n, m0, r

LEMMA ChildrenType ==
  ASSUME NEW m \in Machines, NEW r \in Memory, NEW after, Children(m, r, after)
  PROVE  Onward(m, after[Fanout - UserTop])
<1> DEFINE n == Fanout - UserTop
           T == {k \in Nat : k <= n => Onward(m, after[k])}
<1>1. 0 \in T
  BY DEF Children, Onward
<1>2. ASSUME NEW k \in Nat, k \in T PROVE k + 1 \in T
  <2> SUFFICES ASSUME k + 1 <= n PROVE Onward(m, after[k + 1])
    OBVIOUS
  <2>1. /\ k + 1 \in 1 .. n /\ k + 1 - 1 = k /\ Onward(m, after[k]) /\ after[k] \in Machines
        /\ UserTop + (k + 1) - 1 \in Idx
    BY <1>2, Sizes DEF Children, Idx
  <2>2. after[k + 1] = Child(after[k], r, UserTop + (k + 1) - 1, {"P"}).m
    BY <2>1 DEF Children
  <2>3. Onward(after[k], after[k + 1])
    BY <2>1, <2>2, ChildType
  <2> QED BY <2>1, <2>3, OnwardTransitive
<1> HIDE DEF T
<1>3. n \in Nat
  BY Sizes
<1>4. n \in T
  BY <1>1, <1>2, <1>3, NatSetInduction
<1> QED
  BY <1>3, <1>4 DEF T

LEMMA KernelTopType ==
  ASSUME NEW m \in Machines
  PROVE  Onward(m, KernelTop(m).m) /\ KernelTop(m).frame \in Memory
<1> DEFINE r == Request(m).frame
           m0 == Write(Request(m).m, r, ZeroTable)
<1>1. Onward(m, Request(m).m) /\ Request(m).m \in Machines /\ r \in Memory
  BY RequestFacts DEF Onward
<1>2. Onward(Request(m).m, m0) /\ m0 \in Machines
  BY <1>1, WriteFacts, EntryFacts DEF Onward
<1> PICK after : /\ Children(m0, r, after)
                 /\ KernelTop(m).m = after[Fanout - UserTop] /\ KernelTop(m).frame = r
  BY KernelTopSteps
<1> HIDE DEF m0
<1>3. Onward(m0, after[Fanout - UserTop])
  <2> HIDE DEF r
  <2> QED BY <1>1, <1>2, ChildrenType
<1>4. Onward(m, m0)
  BY <1>1, <1>2, OnwardTransitive
<1> QED
  BY <1>1, <1>3, <1>4, OnwardTransitive

LEMMA ChildrenMake ==
  ASSUME NEW m, NEW own, NEW r, KernelTree(m, own, r, 0), NEW after, Children(m, r, after),
         Good(after[Fanout - UserTop])
  PROVE  \E own2 : KernelTree(after[Fanout - UserTop], own2, r, Fanout - UserTop)
<1> DEFINE n == Fanout - UserTop
           Made(k) == \E own2 : KernelTree(after[k], own2, r, k)
           T == {k \in Nat : k <= n /\ Good(after[k]) => Made(k)}
<1>1. r \in Memory /\ n \in Nat
  BY EntryFacts, Sizes DEF KernelTree, RootOf
<1>2. 0 \in T
  BY DEF Children
<1>3. ASSUME NEW k \in Nat, k \in T PROVE k + 1 \in T
  <2> SUFFICES ASSUME k + 1 <= n, Good(after[k + 1]) PROVE Made(k + 1)
    OBVIOUS
  <2> DEFINE q == after[k]
             q2 == after[k + 1]
             i == UserTop + k
             c == Child(q, r, i, {"P"})
  <2>1. /\ k + 1 \in 1 .. n /\ k + 1 - 1 = k /\ q \in Machines /\ i \in Idx /\ i \in Half(0)
        /\ UserTop + (k + 1) - 1 = i
    BY Sizes DEF Children, Idx, Half
  <2>2. q2 = c.m
    BY <2>1 DEF Children
  <2>3. Onward(q, q2)
    BY <1>1, <2>1, <2>2, ChildType
  <2>4. Made(k)
    <3>1. Good(q) /\ k <= n
      BY <1>1, <2>3 DEF Onward
    <3> HIDE DEF Made
    <3> QED BY <1>3, <3>1
  <2> PICK own1 : KernelTree(q, own1, r, k)
    BY <2>4
  <2>5. /\ PlaceOf(own1, r, i, 0, MidRole(0, i)) /\ LinkFlagsFit({"P"}, 0)
        /\ Shape(q, own1) /\ r \in Frames \ q.free /\ own1[r] = TopRole(0)
    BY <2>1 DEF PlaceOf, LinkFlagsFit, KernelTree, RootOf
  <2>6. Good(c.m)
    BY <2>2
  <2> HIDE DEF q, q2, i
  <2> PICK own2 : Linking(q, own1, r, i, 0, MidRole(0, i), c.m, own2, c.table)
    BY <2>5, <2>6, ChildLinks
  <2> HIDE DEF c
  <2>7. Shape(q2, own2) /\ RootOf(q2, own2, r, 0)
    BY <2>2, RootKept DEF Linking, Step, KernelTree
  <2>8. ASSUME NEW j \in Idx
        PROVE  Present(q2.mem[r][j]) <=> j >= UserTop /\ j < UserTop + (k + 1)
    <3>1. CASE j = i
      <4>1. Present(q2.mem[r][j])
        BY <2>2, <3>1 DEF Linking, LinkTo
      <4> QED BY <3>1, <4>1, Sizes DEF i
    <3>2. CASE j # i
      <4>1. q2.mem[r][j] = q.mem[r][j]
        BY <2>2, <2>5, <3>2 DEF Linking
      <4>2. Present(q.mem[r][j]) <=> j >= UserTop /\ j < UserTop + k
        BY DEF KernelTree
      <4> QED BY <3>2, <4>1, <4>2, Sizes DEF i, Idx
    <3> QED BY <3>1, <3>2
  <2>9. ASSUME NEW v \in HeapPages PROVE ~ Present(PagingGet(q2, r, v))
    <3>1. PageOf(0, v) /\ RootOf(q, own1, r, 0)
      BY HeapPageOf DEF KernelTree
    <3>2. PagingGet(q2, r, v) = PagingGet(q, r, v)
      BY <2>2, <3>1 DEF Linking, Step, PagesKept
    <3> QED BY <3>2 DEF KernelTree
  <2>10. KernelTree(q2, own2, r, k + 1)
    BY <2>7, <2>8, <2>9 DEF KernelTree
  <2> QED BY <2>10 DEF q2
<1> HIDE DEF T
<1>4. n \in T
  BY <1>1, <1>2, <1>3, NatSetInduction
<1> QED
  BY <1>1, <1>4 DEF T

LEMMA KernelTopMakes ==
  ASSUME NEW m, NEW own, Shape(m, own), Good(KernelTop(m).m)
  PROVE  \E own2 : KernelTree(KernelTop(m).m, own2, KernelTop(m).frame, Fanout - UserTop)
<1> DEFINE r == Request(m).frame
           m0 == Request(m).m
           m1 == Write(m0, r, ZeroTable)
<1>1. m \in Machines
  BY DEF Shape
<1> PICK after : /\ Children(m1, r, after)
                 /\ KernelTop(m).m = after[Fanout - UserTop] /\ KernelTop(m).frame = r
  BY <1>1, KernelTopSteps
<1>2. m0 \in Machines /\ r \in Memory
  BY <1>1, RequestFacts DEF Onward
<1>3. Onward(m0, m1) /\ m1 \in Machines
  BY <1>2, WriteFacts, EntryFacts DEF Onward
<1>4. Good(m1) /\ Good(m0)
  <2>1. Onward(m1, after[Fanout - UserTop])
    <3> HIDE DEF m1, r
    <3> QED BY <1>2, <1>3, ChildrenType
  <2> QED BY <1>3, <2>1 DEF Onward
<1> PICK own1 : Fresh(m, own, r, m0, own1, TopRole(0))
  BY <1>4, RequestFresh, RolesAre
<1> HIDE DEF r, m0
<1>5. m1.mem[r] = ZeroTable /\ m1.free = m0.free /\ \A g \in Memory : g # r => m1.mem[g] = m0.mem[g]
  BY <1>2, WriteFacts, EntryFacts
<1> HIDE DEF m1
<1>6. Grown(m, own, m1, own1)
  BY <1>5 DEF Fresh, Grown
<1>7. Shape(m1, own1)
  <2>1. Fits(m1, own1, r)
    BY <1>5, ZeroFits
  <2>2. ASSUME NEW f \in Frames \ m1.free, f # r
        PROVE  f \notin m.free /\ m1.mem[f] = m.mem[f]
    BY <1>5, <2>2, EntryFacts DEF Fresh
  <2> QED BY <1>3, <1>6, <2>1, <2>2, ShapeKept
<1>8. RootOf(m1, own1, r, 0)
  BY <1>5 DEF Fresh, RootOf
<1>9. \A i \in Idx : ~ Present(m1.mem[r][i])
  BY <1>5, EntryFacts
<1>10. \A i \in Idx : ~ (i >= UserTop /\ i < UserTop + 0)
  BY Sizes DEF Idx
<1>11. ASSUME NEW v \in HeapPages PROVE ~ Present(PagingGet(m1, r, v))
  <2>1. Top(v) \in Idx
    BY HeapPageOf, PageIndices
  <2>2. ~ Present(TopOf(m1, r, v))
    BY <1>9, <2>1 DEF TopOf
  <2> QED BY <2>2, GetIs, EntryFacts DEF Got
<1>12. KernelTree(m1, own1, r, 0)
  BY <1>7, <1>8, <1>9, <1>10, <1>11 DEF KernelTree
<1>13. Good(after[Fanout - UserTop])
  OBVIOUS
<1>14. \E own2 : KernelTree(after[Fanout - UserTop], own2, r, Fanout - UserTop)
  BY <1>12, <1>13, ChildrenMake
<1> QED
  BY <1>14

(* A huge page at its place                                                 *)
HugeSpan(h, j) == {v \in Pages : Top(v) = h /\ Mid(v) = j}

LEMMA SetHuge ==
  ASSUME NEW m, NEW own, Shape(m, own), NEW f \in Frames \ m.free, NEW h \in Nat,
         own[f] = MidRole(0, h), NEW j \in Idx, HugeAt(0, h, j),
         NEW e \in Entry, Huge(e)
  PROVE  Step(m, own, SetEntry(m, f, j, e), own, 0, HugeSpan(h, j))
<1> DEFINE m2 == SetEntry(m, f, j, e)
<1>1. m \in Machines /\ own \in [Frames -> Roles] /\ f \in Memory /\ Fits(m, own, f)
  BY EntryFacts DEF Shape
<1>2. /\ m2 \in Machines /\ m2.mem[f][j] = e
      /\ \A l \in Idx : l # j => m2.mem[f][l] = m.mem[f][l]
      /\ \A g \in Memory : g # f => m2.mem[g] = m.mem[g]
      /\ m2.free = m.free
  BY <1>1, SetEntryFacts DEF Onward
<1> HIDE DEF m2
<1>3. Grown(m, own, m2, own)
  BY <1>1, <1>2 DEF Grown
<1>4. Fits(m2, own, f)
  BY <1>1, <1>2, <1>3, MidFitsSet
<1>5. \A g \in Frames : g # f => m2.mem[g] = m.mem[g]
  BY <1>2, EntryFacts
<1>6. Shape(m2, own)
  BY <1>2, <1>3, <1>4, <1>5, ShapeKept
<1>7. TopsKept(m, own, m2)
  <2>1. \A y \in Nat : own[f] # TopRole(y)
    BY RolesDiffer
  <2> QED BY <1>5, <2>1 DEF TopsKept
<1>8. PagesKept(m, own, m2, 0, HugeSpan(h, j))
  <2> SUFFICES ASSUME NEW r, NEW y, NEW v, RootOf(m, own, r, y), PageOf(y, v),
                      y = 0 => v \notin HugeSpan(h, j)
               PROVE  PagingGet(m2, r, v) = PagingGet(m, r, v)
    BY DEF PagesKept
  <2>1. Mid(v) \in Idx /\ Low(v) \in Idx /\ Top(v) \in Idx /\ v \in Pages
    BY PageIndices DEF PageOf
  <2>2. Top(v) \in Nat /\ Mid(v) \in Nat /\ y \in Nat /\ r \in Frames \ m.free
    BY <2>1, HalfIsIdx DEF RootOf
  <2>3. m2.mem[r] = m.mem[r]
    BY <1>5, <2>2, RolesDiffer DEF RootOf
  <2>4. ASSUME NEW g \in Frames \ m.free, own[g] = MidRole(y, Top(v))
        PROVE  m2.mem[g][Mid(v)] = m.mem[g][Mid(v)]
    <3>1. g = f => y = 0 /\ Top(v) = h
      BY <2>2, <2>4, RolesDiffer
    <3>2. g = f => Mid(v) # j
      BY <2>1, <3>1 DEF HugeSpan
    <3> QED BY <1>2, <1>5, <2>1, <3>2
  <2>5. ASSUME NEW g \in Frames \ m.free, own[g] = LeafRole(y, Top(v), Mid(v))
        PROVE  m2.mem[g] = m.mem[g]
    <3>1. g # f
      BY <2>2, <2>5, RolesDiffer
    <3> QED BY <1>5, <3>1
  <2> QED BY <2>3, <2>4, <2>5, GetSame DEF Extends
<1> QED
  BY <1>3, <1>6, <1>7, <1>8 DEF Step, m2

(* High memory                                                              *)
HighSteps(m, table, after) ==
  /\ after[0] = m /\ after[Fanout] = MapHighMem(m, table)
  /\ \A k \in 0 .. Fanout : after[k] \in Machines
  /\ \A k \in 1 .. Fanout :
       after[k] = IF Fanout + k - 1 \in HighMem
                    THEN PagingMap(after[k - 1], table, Higher + Fanout + k - 1,
                                   Fanout + k - 1, {"W"})
                    ELSE after[k - 1]

LEMMA HighPage ==
  ASSUME NEW k \in 1 .. Fanout
  PROVE  LET v == Higher + Fanout + k - 1
         IN  PageOf(0, v) /\ Top(v) = UserTop /\ Mid(v) = 1 /\ v \in Pages /\ v \notin HeapPages
<1> DEFINE v == Higher + Fanout + k - 1
<1>1. k - 1 \in Idx /\ 1 \in Idx /\ Higher \in Nat /\ Fanout \in Nat
  BY Sizes, UserPagesArePages DEF Idx
<1>2. v = Higher + 1 * Fanout + (k - 1)
  BY <1>1
<1>3. PageAt(v, UserTop, 1, k - 1)
  BY <1>1, <1>2, KernelPage
<1>4. v \notin HeapPages
  BY <1>3, HeapPageOf DEF PageAt
<1>5. UserTop \in Half(0)
  BY Sizes DEF Half
<1> QED BY <1>3, <1>4, <1>5 DEF PageOf, PageAt

LEMMA HighMemSteps ==
  ASSUME NEW m \in Machines, NEW table \in Memory
  PROVE  \E after : HighSteps(m, table, after)
<1> DEFINE Stepped(q, k) == IF Fanout + k - 1 \in HighMem
                            THEN PagingMap(q, table, Higher + Fanout + k - 1,
                                           Fanout + k - 1, {"W"})
                            ELSE q
           step == [x \in (1 .. Fanout) \X Machines |-> Stepped(x[2], x[1])]
           Is(f) == f = [n \in 0 .. Fanout |-> IF n = 0 THEN m
                                               ELSE Stepped(f[n - 1], n)]
           after == CHOOSE f : Is(f)
<1>1. ASSUME NEW k \in 1 .. Fanout, NEW q \in Machines PROVE Stepped(q, k) \in Machines
  <2>1. Fanout + k - 1 \in HighMem => Fanout + k - 1 \in Memory
    BY DEF Memory
  <2>2. Higher + Fanout + k - 1 \in Pages
    BY HighPage
  <2> QED BY <2>1, <2>2, PagingMapType DEF Onward
<1>2. step \in [(1 .. Fanout) \X Machines -> Machines]
  <2> HIDE DEF Stepped
  <2> QED BY <1>1
<1>3. \E f : Is(f)
  <2> PICK f : Loop(f, m, Fanout, step)
    <3> HIDE DEF step
    <3> QED BY <1>2, LoopExists, Sizes
  <2> HIDE DEF Stepped
  <2>1. ASSUME NEW k \in 1 .. Fanout
        PROVE  step[<<k, f[k - 1]>>] = Stepped(f[k - 1], k)
    <3>1. k - 1 \in 0 .. Fanout
      BY Sizes
    <3>2. f[k - 1] \in Machines
      <4> HIDE DEF step
      <4> QED BY <3>1 DEF Loop
    <3> QED BY <3>2
  <2> HIDE DEF step
  <2>2. \A k \in 0 .. Fanout : k # 0 => k \in 1 .. Fanout
    BY Sizes
  <2>3. [k \in 0 .. Fanout |-> IF k = 0 THEN m ELSE step[<<k, f[k - 1]>>]]
          = [k \in 0 .. Fanout |-> IF k = 0 THEN m ELSE Stepped(f[k - 1], k)]
    BY <2>1, <2>2
  <2>4. Is(f)
    BY <2>3 DEF Loop
  <2> QED BY <2>4
<1>4. Is(after)
  BY <1>3
<1>5. MapHighMem(m, table) = after[Fanout]
  BY DEF MapHighMem
<1> HIDE DEF after
<1>6. after[0] = m /\ \A k \in 1 .. Fanout : after[k] = Stepped(after[k - 1], k)
  <2> HIDE DEF Stepped
  <2> QED BY <1>4, Sizes
<1>7. \A k \in Nat : k <= Fanout => after[k] \in Machines
  <2> HIDE DEF Stepped
  <2> DEFINE T == {k \in Nat : k <= Fanout => after[k] \in Machines}
  <2>1. 0 \in T
    BY <1>6
  <2>2. ASSUME NEW k \in Nat, k \in T PROVE k + 1 \in T
    <3> SUFFICES ASSUME k + 1 <= Fanout PROVE after[k + 1] \in Machines
      OBVIOUS
    <3>1. k + 1 \in 1 .. Fanout /\ k + 1 - 1 = k /\ after[k] \in Machines
      BY <2>2, Sizes
    <3>2. after[k + 1] = Stepped(after[k], k + 1)
      BY <1>6, <3>1
    <3> QED BY <1>1, <3>1, <3>2
  <2> HIDE DEF T
  <2>3. Nat \subseteq T
    BY <2>1, <2>2, NatSetInduction
  <2> QED BY <2>3 DEF T
<1> QED
  BY <1>5, <1>6, <1>7 DEF HighSteps

LEMMA MapHighMemType ==
  ASSUME NEW m \in Machines, NEW table \in Memory
  PROVE  Onward(m, MapHighMem(m, table))
<1> PICK after : HighSteps(m, table, after)
  BY HighMemSteps
<1> DEFINE T == {k \in Nat : k <= Fanout => Onward(m, after[k])}
<1>1. 0 \in T
  BY DEF HighSteps, Onward
<1>2. ASSUME NEW k \in Nat, k \in T PROVE k + 1 \in T
  <2> SUFFICES ASSUME k + 1 <= Fanout PROVE Onward(m, after[k + 1])
    OBVIOUS
  <2>1. k + 1 \in 1 .. Fanout /\ k + 1 - 1 = k /\ Onward(m, after[k]) /\ after[k] \in Machines
    BY <1>2, Sizes DEF HighSteps
  <2>2. after[k + 1] = IF Fanout + (k + 1) - 1 \in HighMem
                         THEN PagingMap(after[k], table, Higher + Fanout + (k + 1) - 1,
                                        Fanout + (k + 1) - 1, {"W"})
                         ELSE after[k]
    BY <2>1 DEF HighSteps
  <2>3. Higher + Fanout + (k + 1) - 1 \in Pages
    BY <2>1, HighPage
  <2>4. Fanout + (k + 1) - 1 \in HighMem => Fanout + (k + 1) - 1 \in Memory
    BY DEF Memory
  <2>5. Onward(after[k], after[k + 1])
    <3>1. CASE Fanout + (k + 1) - 1 \in HighMem
      BY <2>1, <2>2, <2>3, <2>4, <3>1, PagingMapType
    <3>2. CASE Fanout + (k + 1) - 1 \notin HighMem
      BY <2>1, <2>2, <3>2 DEF Onward
    <3> QED BY <3>1, <3>2
  <2> QED BY <2>1, <2>5, OnwardTransitive
<1> HIDE DEF T
<1>3. Fanout \in T
  BY <1>1, <1>2, NatSetInduction, Sizes
<1> QED
  BY <1>3, Sizes DEF T, HighSteps

LEMMA MapHighMemKeeps ==
  ASSUME NEW m, NEW own, NEW r, KernelTree(m, own, r, Fanout - UserTop),
         Good(MapHighMem(m, r))
  PROVE  \E own2 : KernelTree(MapHighMem(m, r), own2, r, Fanout - UserTop)
<1>1. m \in Machines /\ r \in Memory
  BY EntryFacts DEF KernelTree, Shape, RootOf
<1> PICK after : HighSteps(m, r, after)
  BY <1>1, HighMemSteps
<1> DEFINE Kept(k) == \E own2 : KernelTree(after[k], own2, r, Fanout - UserTop)
           T == {k \in Nat : k <= Fanout /\ Good(after[k]) => Kept(k)}
<1>2. 0 \in T
  BY DEF HighSteps
<1>3. ASSUME NEW k \in Nat, k \in T PROVE k + 1 \in T
  <2> SUFFICES ASSUME k + 1 <= Fanout, Good(after[k + 1]) PROVE Kept(k + 1)
    OBVIOUS
  <2> DEFINE q == after[k]
             q2 == after[k + 1]
             v == Higher + Fanout + (k + 1) - 1
             f == Fanout + (k + 1) - 1
  <2>1. k + 1 \in 1 .. Fanout /\ k + 1 - 1 = k /\ q \in Machines
    BY Sizes DEF HighSteps
  <2>2. q2 = IF f \in HighMem THEN PagingMap(q, r, v, f, {"W"}) ELSE q
    BY <2>1 DEF HighSteps
  <2>3. PageOf(0, v) /\ Top(v) = UserTop /\ Mid(v) = 1 /\ v \in Pages /\ v \notin HeapPages
    BY <2>1, HighPage
  <2>4. CASE f \notin HighMem
    <3>1. after[k + 1] = after[k] /\ k <= Fanout
      BY <2>2, <2>4, Sizes
    <3>2. Kept(k)
      <4> HIDE DEF Kept
      <4> QED BY <1>3, <3>1
    <3> QED BY <3>1, <3>2
  <2>5. CASE f \in HighMem
    <3>1. f \in Memory
      BY <2>5 DEF Memory
    <3>2. q2 = PagingMap(q, r, v, f, {"W"})
      BY <2>2, <2>5
    <3> HIDE DEF q, q2, v, f
    <3>3. Onward(q, q2)
      BY <1>1, <2>1, <2>3, <3>1, <3>2, PagingMapType
    <3>4. Kept(k)
      <4>1. Good(q) /\ k <= Fanout
        BY <3>3, Sizes DEF Onward, q2
      <4> HIDE DEF Kept
      <4> QED BY <1>3, <4>1 DEF q
    <3> PICK own1 : KernelTree(q, own1, r, Fanout - UserTop)
      BY <3>4 DEF q
    <3>5. Shape(q, own1) /\ RootOf(q, own1, r, 0)
      BY DEF KernelTree
    <3>6. ~ HugeAt(0, Top(v), Mid(v))
      BY <2>3, Sizes DEF HugeAt
    <3>7. ~ DataAt(0, Top(v), Mid(v), Low(v))
      BY <2>3, PageIndices DEF DataAt, PageAt
    <3>8. Good(PagingMap(q, r, v, f, {"W"}))
      BY <3>2 DEF q2
    <3> PICK own2 : Mapping(q, own1, r, 0, v, PagingMap(q, r, v, f, {"W"}), own2,
                            LeafEntry(f, {"W"}))
      BY <2>3, <3>1, <3>5, <3>6, <3>7, <3>8, PagingMapMaps
    <3>9. Step(q, own1, q2, own2, 0, {v})
      BY <3>2 DEF Mapping
    <3>10. KernelTree(q2, own2, r, Fanout - UserTop)
      BY <2>3, <3>9, KernelTreeKept
    <3> QED BY <3>10 DEF q2
  <2> QED BY <2>4, <2>5
<1> HIDE DEF T
<1>4. Fanout \in T
  BY <1>2, <1>3, NatSetInduction, Sizes
<1> QED
  BY <1>4, Sizes DEF T, HighSteps

(* paging_initialize                                                        *)
Huge1(m, r) == SetEntry(m, m.mem[r][UserTop].frame, 0, HugePage)
Huges(m, m0, r) == SetEntry(m, m0.mem[r][Fanout - 1].frame, Fanout - 1, HugePage)

LEMMA PagingInitializeIs ==
  ASSUME NEW m
  PROVE  LET k == KernelTop(m)
             m1 == Huges(Huge1(k.m, k.frame), k.m, k.frame)
         IN  PagingInitialize(m) = [m |-> PagingUnmap(MapHighMem(m1, k.frame), k.frame, 0),
                                    frame |-> k.frame]
BY DEF PagingInitialize, Huge1, Huges

LEMMA HugePageFacts == HugePage \in Entry /\ Huge(HugePage) /\ 0 \in Idx /\ Fanout - 1 \in Idx
BY EntryFacts, EntryTypes, Sizes DEF HugePage, Huge, Idx

LEMMA HugeType ==
  ASSUME NEW m \in Machines, NEW m0 \in Machines, NEW r \in Memory
  PROVE  /\ Onward(m, Huge1(m, r)) /\ Huge1(m, r) \in Machines
         /\ Onward(m, Huges(m, m0, r)) /\ Huges(m, m0, r) \in Machines
<1>1. m.mem[r][UserTop].frame \in Memory /\ m0.mem[r][Fanout - 1].frame \in Memory
  BY MemFacts, Sizes DEF Idx
<1> DEFINE h == m.mem[r][UserTop].frame  h0 == m0.mem[r][Fanout - 1].frame
<1>2. Huge1(m, r) = SetEntry(m, h, 0, HugePage) /\ Huges(m, m0, r) = SetEntry(m, h0, Fanout - 1, HugePage)
  BY DEF Huge1, Huges
<1> HIDE DEF h, h0
<1>3. Onward(m, SetEntry(m, h, 0, HugePage)) /\ Onward(m, SetEntry(m, h0, Fanout - 1, HugePage))
  BY <1>1, HugePageFacts, SetEntryFacts DEF h, h0
<1> QED
  BY <1>2, <1>3 DEF Onward

LEMMA PagingInitializeType ==
  ASSUME NEW m \in Machines
  PROVE  Onward(m, PagingInitialize(m).m) /\ PagingInitialize(m).frame \in Memory
<1> DEFINE k == KernelTop(m)
           m1 == Huge1(k.m, k.frame)
           m2 == Huges(m1, k.m, k.frame)
           m3 == MapHighMem(m2, k.frame)
           m4 == PagingUnmap(m3, k.frame, 0)
<1>1. PagingInitialize(m).m = m4 /\ PagingInitialize(m).frame = k.frame
  BY PagingInitializeIs
<1>2. Onward(m, k.m) /\ k.m \in Machines /\ k.frame \in Memory
  BY KernelTopType DEF Onward
<1> HIDE DEF k
<1>4. Onward(k.m, m1) /\ m1 \in Machines
  BY <1>2, HugeType
<1> HIDE DEF m1
<1>5. Onward(m1, m2) /\ m2 \in Machines
  BY <1>2, <1>4, HugeType
<1> HIDE DEF m2
<1>6. Onward(m2, m3) /\ m3 \in Machines
  BY <1>2, <1>5, MapHighMemType DEF Onward
<1> HIDE DEF m3
<1>7. Onward(m3, m4)
  BY <1>2, <1>6, PagingUnmapType, UserPagesArePages
<1> HIDE DEF m4
<1> QED
  BY <1>1, <1>2, <1>4, <1>5, <1>6, <1>7, OnwardTransitive

LEMMA PagingInitializeMakes ==
  ASSUME NEW m, NEW own, Shape(m, own), Good(PagingInitialize(m).m)
  PROVE  \E own2 : KernelTree(PagingInitialize(m).m, own2, PagingInitialize(m).frame,
                              Fanout - UserTop)
<1> DEFINE k == KernelTop(m)
           r == k.frame
           n == Fanout - UserTop
           h1 == k.m.mem[r][UserTop].frame
           h2 == k.m.mem[r][Fanout - 1].frame
           m1 == Huge1(k.m, r)
           m2 == Huges(m1, k.m, r)
           m3 == MapHighMem(m2, r)
           m4 == PagingUnmap(m3, r, 0)
<1>1. PagingInitialize(m).m = m4 /\ PagingInitialize(m).frame = r
  BY PagingInitializeIs
<1>2. Onward(m, k.m) /\ k.m \in Machines /\ r \in Memory
  BY KernelTopType DEF Shape, Onward
<1>3. Good(k.m) => \E own2 : KernelTree(k.m, own2, r, n)
  BY KernelTopMakes
<1> HIDE DEF k
<1>4. h1 \in Memory /\ h2 \in Memory /\ UserTop \in Idx
  BY <1>2, MemFacts, Sizes DEF Idx
<1>5. Onward(k.m, m1) /\ m1 \in Machines
  BY <1>2, HugeType
<1>6. Onward(m1, m2) /\ m2 \in Machines
  <2> HIDE DEF m1
  <2> QED BY <1>2, <1>5, HugeType
<1>7. Onward(m2, m3) /\ m3 \in Machines
  <2> HIDE DEF m2
  <2> QED BY <1>2, <1>6, MapHighMemType DEF Onward
<1>8. Onward(m3, m4)
  <2> HIDE DEF m3
  <2> QED BY <1>2, <1>7, PagingUnmapType, UserPagesArePages
<1>9. Good(k.m) /\ Good(m1) /\ Good(m2) /\ Good(m3)
  <2> HIDE DEF m1, m2, m3, m4
  <2> QED BY <1>1, <1>5, <1>6, <1>7, <1>8 DEF Onward
<1> HIDE DEF n, r
<1> PICK own1 : KernelTree(k.m, own1, r, n)
  BY <1>3, <1>9
<1>10. /\ Shape(k.m, own1) /\ r \in Frames \ k.m.free /\ own1[r] = TopRole(0)
       /\ LinkTo(k.m, own1, k.m.mem[r][UserTop], 0, MidRole(0, UserTop))
       /\ LinkTo(k.m, own1, k.m.mem[r][Fanout - 1], 0, MidRole(0, Fanout - 1))
  <2>1. /\ Shape(k.m, own1) /\ r \in Frames \ k.m.free /\ own1[r] = TopRole(0)
        /\ TopFits(k.m, own1, k.m.mem[r], 0)
    BY DEF KernelTree, RootOf, Shape, Fits
  <2>2. UserTop \in Half(0) /\ Fanout - 1 \in Half(0) /\ Fanout - 1 \in Idx
    BY Sizes DEF Half, Idx
  <2>3. Present(k.m.mem[r][UserTop]) /\ Present(k.m.mem[r][Fanout - 1])
    BY <1>4, <2>2, Sizes DEF KernelTree, n
  <2> QED BY <2>1, <2>2, <2>3 DEF TopFits
<1> DEFINE A1 == HugeSpan(UserTop, 0)
           A2 == HugeSpan(Fanout - 1, Fanout - 1)
<1>11. A1 \cap HeapPages = {} /\ A2 \cap HeapPages = {}
  BY HeapPageOf, Sizes DEF HugeSpan
<1>12. HugeAt(0, UserTop, 0) /\ HugeAt(0, Fanout - 1, Fanout - 1) /\ UserTop \in Nat /\ Fanout - 1 \in Nat
  BY Sizes DEF HugeAt
<1>13. Step(k.m, own1, m1, own1, 0, A1)
  BY <1>10, <1>12, HugePageFacts, SetHuge DEF Huge1, LinkTo
<1> HIDE DEF A1, A2
<1>14. KernelTree(m1, own1, r, n)
  <2> HIDE DEF m1
  <2> QED BY <1>11, <1>13, KernelTreeKept DEF n
<1>15. Step(m1, own1, m2, own1, 0, A2)
  <2> HIDE DEF m1
  <2>1. Shape(m1, own1) /\ h2 \in Frames \ m1.free /\ own1[h2] = MidRole(0, Fanout - 1)
    BY <1>10, <1>13 DEF Step, Grown, LinkTo
  <2> QED BY <1>12, <2>1, HugePageFacts, SetHuge DEF Huges, A2
<1>16. KernelTree(m2, own1, r, n)
  <2> HIDE DEF m1, m2
  <2> QED BY <1>11, <1>14, <1>15, KernelTreeKept DEF n
<1> PICK own3 : KernelTree(m3, own3, r, n)
  <2> HIDE DEF m2
  <2> QED BY <1>9, <1>16, MapHighMemKeeps DEF n
<1> HIDE DEF m3
<1>17. m4 = m3
  <2>1. ~ Present(m3.mem[r][Top(0)])
    BY UserPagesArePages, Sizes DEF KernelTree, Idx
  <2> QED BY <2>1 DEF PagingUnmap
<1> QED
  BY <1>1, <1>17 DEF n

-----------------------------------------------------------------------------
(* The trees of the kernel and of the tasks.                                *)

TreesOf(m, own, kt, sp) ==
  /\ Shape(m, own) /\ sp \in Seq(Memory)
  /\ RootOf(m, own, kt, 0) /\ \A t \in DOMAIN sp : RootOf(m, own, sp[t], t)
  /\ \A i \in Idx : Present(m.mem[kt][i]) <=> i >= UserTop
  /\ \A t \in DOMAIN sp, i \in Idx : i >= UserTop => m.mem[sp[t]][i] = m.mem[kt][i]

LEMMA TreesStep ==
  ASSUME NEW m, NEW own, NEW kt, NEW sp, TreesOf(m, own, kt, sp),
         NEW m2, NEW own2, NEW y, NEW A, Step(m, own, m2, own2, y, A)
  PROVE  TreesOf(m2, own2, kt, sp)
<1>1. /\ Shape(m2, own2) /\ RootOf(m2, own2, kt, 0)
      /\ \A t \in DOMAIN sp : RootOf(m2, own2, sp[t], t)
  BY RootKept DEF TreesOf, Step
<1>2. ASSUME NEW i \in Idx PROVE m2.mem[kt][i] = m.mem[kt][i]
  <2>1. i \notin Half(0) \/ Present(m.mem[kt][i])
    BY Sizes DEF TreesOf, Half, Idx
  <2> QED BY <2>1 DEF Step, TopsKept, TreesOf, RootOf
<1>3. ASSUME NEW t \in DOMAIN sp, NEW i \in Idx, i >= UserTop
      PROVE  m2.mem[sp[t]][i] = m.mem[sp[t]][i]
  <2>1. t \in Nat /\ t # 0
    BY DEF TreesOf
  <2>2. i \notin Half(t)
    BY <1>3, <2>1, Sizes DEF Half, Idx
  <2> QED BY <2>2 DEF Step, TopsKept, TreesOf, RootOf
<1> QED
  BY <1>1, <1>2, <1>3 DEF TreesOf

(* A copied tree joins them.                                                *)
LEMMA TreesCopied ==
  ASSUME NEW m, NEW own, NEW sp, TreesOf(m, own, kernel_table, sp),
         NEW src, NEW m2, NEW own2, NEW r, TreeCopied(m, own, Len(sp) + 1, src, m2, own2, r)
  PROVE  TreesOf(m2, own2, kernel_table, Append(sp, r))
<1>1. TreesOf(m2, own2, kernel_table, sp)
  BY TreesStep DEF TreeCopied
<1>2. RootOf(m2, own2, r, Len(sp) + 1) /\ r \in Memory
  BY EntryFacts DEF TreeCopied, RootOf
<1>3. ASSUME NEW i \in Idx PROVE m2.mem[kernel_table][i] = m.mem[kernel_table][i]
  <2>1. i \notin Half(0) \/ Present(m.mem[kernel_table][i])
    BY Sizes DEF TreesOf, Half, Idx
  <2> QED BY <2>1 DEF TreeCopied, Step, TopsKept, TreesOf, RootOf
<1>4. \A i \in Idx : i >= UserTop => m2.mem[r][i] = m2.mem[kernel_table][i]
  BY <1>3 DEF TreeCopied
<1>5. sp \in Seq(Memory)
  BY <1>1 DEF TreesOf
<1>6. /\ Append(sp, r) \in Seq(Memory) /\ DOMAIN Append(sp, r) = DOMAIN sp \cup {Len(sp) + 1}
      /\ \A t \in DOMAIN sp : Append(sp, r)[t] = sp[t]
      /\ Append(sp, r)[Len(sp) + 1] = r
  BY <1>2, <1>5
<1> QED
  BY <1>1, <1>2, <1>4, <1>6 DEF TreesOf

(* Pages lead to frames that were handed out for pages.                     *)
Private(m, own, e) ==
  e \in Entry /\ ~ Huge(e) /\ e.frame \in Frames \ m.free /\ own[e.frame] = PageRole

LEMMA LeafGets ==
  ASSUME NEW m, NEW own, Shape(m, own), NEW r, NEW x, NEW v, RootOf(m, own, r, x), PageOf(x, v),
         ~ HugeAt(x, Top(v), Mid(v)), DataAt(x, Top(v), Mid(v), Low(v)),
         Present(PagingGet(m, r, v))
  PROVE  /\ PagingGet(m, r, v) = LeafOf(m, r, v) /\ Private(m, own, LeafOf(m, r, v))
         /\ LinkTo(m, own, TopOf(m, r, v), x, MidRole(x, Top(v)))
         /\ LinkTo(m, own, MidOf(m, r, v), x, LeafRole(x, Top(v), Mid(v)))
<1>1. Walk(m, own, r, x, v) /\ Got(m, r, v)
  BY WalkIs, GetIs
<1>2. Present(TopOf(m, r, v)) /\ ~ Huge(TopOf(m, r, v))
  BY <1>1, EntryFacts DEF Walk, Got, LinkTo
<1>3. Present(MidOf(m, r, v))
  BY <1>1, <1>2, EntryFacts DEF Got
<1>4. /\ LinkTo(m, own, TopOf(m, r, v), x, MidRole(x, Top(v)))
      /\ LinkTo(m, own, MidOf(m, r, v), x, LeafRole(x, Top(v), Mid(v)))
  BY <1>1, <1>2, <1>3 DEF Walk
<1>5. PagingGet(m, r, v) = LeafOf(m, r, v)
  BY <1>1, <1>2, <1>3, <1>4 DEF Got, LinkTo
<1>6. x \in Nat /\ Top(v) \in Nat /\ Mid(v) \in Nat /\ Low(v) \in Idx /\ m \in Machines
  BY PageIndices, HalfIsIdx DEF PageOf, RootOf, Shape
<1>7. LET f == MidOf(m, r, v).frame
      IN  f \in Frames \ m.free /\ own[f] = LeafRole(x, Top(v), Mid(v)) /\ Fits(m, own, f)
  BY <1>4 DEF LinkTo, Shape
<1>8. LeafFits(m, own, m.mem[MidOf(m, r, v).frame], x, Top(v), Mid(v))
  BY <1>6, <1>7 DEF Fits
<1>9. LeafOf(m, r, v) \in Entry
  BY <1>6, <1>7, MemFacts, EntryFacts DEF LeafOf
<1>10. Private(m, own, LeafOf(m, r, v))
  BY <1>5, <1>6, <1>8, <1>9 DEF LeafFits, LeafOf, Private
<1> QED
  BY <1>4, <1>5, <1>10

LEMMA UserPageOf ==
  ASSUME NEW x \in Nat \ {0}, NEW v \in UserPages
  PROVE  PageOf(x, v) /\ MayRequest(x, v) /\ DataAt(x, Top(v), Mid(v), Low(v)) /\ v \in Pages
<1>1. v \in Pages /\ Top(v) \in 0 .. UserTop - 1
  BY UserPagesArePages, HalfOfPage
<1> QED
  BY <1>1 DEF PageOf, MayRequest, HugeAt, DataAt, Half

LEMMA UserGets ==
  ASSUME NEW m, NEW own, NEW kt, NEW sp, TreesOf(m, own, kt, sp), NEW t \in DOMAIN sp,
         NEW v \in UserPages, Present(PagingGet(m, sp[t], v))
  PROVE  /\ Private(m, own, PagingGet(m, sp[t], v))
         /\ PagingGet(m, sp[t], v) = LeafOf(m, sp[t], v)
         /\ TopOf(m, sp[t], v).flags = {"P", "W", "U"}
         /\ MidOf(m, sp[t], v).flags = {"P", "W", "U"}
         /\ TopOf(m, sp[t], v).frame \in Frames
<1>1. t \in Nat \ {0} /\ Shape(m, own) /\ RootOf(m, own, sp[t], t)
  BY DEF TreesOf
<1>2. PageOf(t, v) /\ ~ HugeAt(t, Top(v), Mid(v)) /\ DataAt(t, Top(v), Mid(v), Low(v))
  BY <1>1, UserPageOf DEF MayRequest
<1>3. /\ PagingGet(m, sp[t], v) = LeafOf(m, sp[t], v) /\ Private(m, own, LeafOf(m, sp[t], v))
      /\ LinkTo(m, own, TopOf(m, sp[t], v), t, MidRole(t, Top(v)))
      /\ LinkTo(m, own, MidOf(m, sp[t], v), t, LeafRole(t, Top(v), Mid(v)))
  BY <1>1, <1>2, LeafGets
<1> QED
  BY <1>1, <1>3 DEF LinkTo

LEMMA HeapGets ==
  ASSUME NEW m, NEW own, Shape(m, own), NEW kt, RootOf(m, own, kt, 0),
         NEW v \in HeapPages, Present(PagingGet(m, kt, v))
  PROVE  Private(m, own, PagingGet(m, kt, v))
<1>1. v \in Pages /\ PageOf(0, v) /\ ~ HugeAt(0, Top(v), Mid(v))
  BY HeapPageOf DEF MayRequest
<1>2. DataAt(0, Top(v), Mid(v), Low(v))
  BY <1>1, PageIndices DEF DataAt, PageAt
<1> QED
  BY <1>1, <1>2, LeafGets

(* The kernel's half is the same in all of them.                            *)
LEMMA KernelGets ==
  ASSUME NEW m, NEW own, NEW kt, NEW sp, TreesOf(m, own, kt, sp), NEW t \in DOMAIN sp,
         NEW v \in Pages \ UserPages
  PROVE  PagingGet(m, sp[t], v) = PagingGet(m, kt, v)
<1>1. Top(v) \in Idx /\ Top(v) >= UserTop
  BY HalfOfPage, PageIndices, Sizes
<1>2. m.mem[sp[t]][Top(v)] = m.mem[kt][Top(v)]
  BY <1>1 DEF TreesOf
<1> QED
  BY <1>2 DEF PagingGet

(* What the MMU grants, without the way to it                               *)
TransIn(m, table, v) ==
  LET top == m.mem[table][Top(v)]
      mid == m.mem[top.frame][Mid(v)]
      leaf == PagingGet(m, table, v)
  IN  IF ~ Present(leaf) THEN Absent
      ELSE IF v >= Higher THEN [leaf EXCEPT !.flags = @ \ {"W", "U"}]
      ELSE [leaf EXCEPT !.flags = {"P"} \cup (@ \cap top.flags \cap mid.flags)]

UserView(m, r, v) == IF Present(PagingGet(m, r, v)) THEN PagingGet(m, r, v) ELSE Absent
Bare(e) == [e EXCEPT !.flags = @ \ {"W", "U"}]
KernelView(m, r, v) == IF Present(PagingGet(m, r, v)) THEN Bare(PagingGet(m, r, v)) ELSE Absent

LEMMA KernelTranslation ==
  ASSUME NEW m, NEW r, NEW v \in Pages \ UserPages
  PROVE  TransIn(m, r, v) = KernelView(m, r, v)
<1>1. v >= Higher
  BY Sizes, UserPagesArePages DEF UserPages, Pages
<1> QED
  BY <1>1 DEF TransIn, KernelView, Bare

LEMMA UserTranslation ==
  ASSUME NEW m, NEW own, NEW kt, NEW sp, TreesOf(m, own, kt, sp), NEW t \in DOMAIN sp,
         NEW v \in UserPages
  PROVE  TransIn(m, sp[t], v) = UserView(m, sp[t], v)
<1> DEFINE e == PagingGet(m, sp[t], v)
           top == TopOf(m, sp[t], v)
           mid == MidOf(m, sp[t], v)
<1>1. ~ (v >= Higher)
  BY UserPagesArePages DEF UserPages
<1>2. CASE ~ Present(e)
  BY <1>2 DEF TransIn, UserView
<1>3. CASE Present(e)
  <2>1. e \in Entry /\ ~ Huge(e) /\ top.flags = {"P", "W", "U"} /\ mid.flags = {"P", "W", "U"}
    BY <1>3, UserGets DEF Private
  <2>2. TransIn(m, sp[t], v) = [e EXCEPT !.flags = {"P"} \cup (@ \cap top.flags \cap mid.flags)]
    BY <1>1, <1>3 DEF TransIn, TopOf, MidOf
  <2>3. UserView(m, sp[t], v) = e
    BY <1>3 DEF UserView
  <2> HIDE DEF e, top, mid
  <2>4. e = [frame |-> e.frame, flags |-> e.flags] /\ e.flags \in SUBSET {"P", "W", "U", "H"}
    BY <2>1 DEF Entry
  <2>5. {"P"} \cup (e.flags \cap top.flags \cap mid.flags) = e.flags
    BY <1>3, <2>1, <2>4 DEF Present, Huge
  <2>6. [e EXCEPT !.flags = {"P"} \cup (@ \cap top.flags \cap mid.flags)]
          = [frame |-> e.frame, flags |-> {"P"} \cup (e.flags \cap top.flags \cap mid.flags)]
    BY <2>4
  <2> QED BY <2>2, <2>3, <2>4, <2>5, <2>6
<1> QED
  BY <1>2, <1>3

-----------------------------------------------------------------------------
(* Steps of a handler, one after the other: the frames of pages.            *)

(* Pages of A that were absent are given frames of their own.               *)
Given(m, r, A, flags, m2) ==
  /\ \A w \in A :
       IF Present(PagingGet(m, r, w)) THEN PagingGet(m2, r, w) = PagingGet(m, r, w)
       ELSE \E g \in m.free \ m2.free : PagingGet(m2, r, w) = LeafEntry(g, flags)
  /\ \A u, w \in A :
       /\ ~ Present(PagingGet(m, r, u)) /\ ~ Present(PagingGet(m, r, w))
       /\ PagingGet(m2, r, u).frame = PagingGet(m2, r, w).frame
       => u = w

LEMMA BackingGives ==
  ASSUME NEW m, NEW own, NEW r, NEW x, NEW A, NEW flags, NEW m2, NEW own2,
         Backing(m, own, r, x, A, flags, m2, own2)
  PROVE  Step(m, own, m2, own2, x, A) /\ Given(m, r, A, flags, m2)
BY DEF Backing, Given

LEMMA GivenKept ==
  ASSUME NEW m, NEW r, NEW A, NEW flags, NEW m2, Given(m, r, A, flags, m2),
         NEW m3, m3.free \subseteq m2.free,
         \A w \in A : PagingGet(m3, r, w) = PagingGet(m2, r, w)
  PROVE  Given(m, r, A, flags, m3)
<1>1. ASSUME NEW w \in A
      PROVE  IF Present(PagingGet(m, r, w)) THEN PagingGet(m3, r, w) = PagingGet(m, r, w)
             ELSE \E g \in m.free \ m3.free : PagingGet(m3, r, w) = LeafEntry(g, flags)
  BY DEF Given
<1>2. ASSUME NEW u \in A, NEW w \in A,
             ~ Present(PagingGet(m, r, u)), ~ Present(PagingGet(m, r, w)),
             PagingGet(m3, r, u).frame = PagingGet(m3, r, w).frame
      PROVE  u = w
  BY <1>2 DEF Given
<1> QED
  BY <1>1, <1>2 DEF Given

(* What fork leaves: m1 after malloc, m2 after the copy.                    *)
Forked(m, y, h, n, sp, r, m4) ==
  /\ \A t \in DOMAIN sp \ {y}, v \in UserPages :
       PagingGet(m4, sp[t], v) = PagingGet(m, sp[t], v)
  /\ \A v \in UserPages : \A s \in {sp[y], r} :
       IF Present(PagingGet(m, sp[y], v))
         THEN PagingGet(m4, s, v) = ReadOnlyEntry(PagingGet(m, sp[y], v))
         ELSE ~ Present(PagingGet(m4, s, v))
  /\ \A v \in UserPages : Present(PagingGet(m, sp[y], v)) => v \in m4.flushed
  /\ \A v \in Pages \ UserPages :
       v \notin h .. h + n - 1 => PagingGet(m4, kernel_table, v) = PagingGet(m, kernel_table, v)
  /\ Given(m, kernel_table, h .. h + n - 1, {"W"}, m4)

ForkMachine(m, h, n, src) == PagingCopy(VmmRequestAt(m, kernel_table, h, n, {"W"}), src)
ForkResult(m, src, r) == PagingMakeReadonly(PagingMakeReadonly(m, src), r)

LEMMA ForkPages ==
  ASSUME NEW h \in Nat, NEW n \in Nat, h > HeapStart, h + n <= CopyPage
  PROVE  /\ \A k \in 1 .. n : MayRequest(0, h + k - 1) /\ h + k - 1 \in Pages
         /\ h .. h + n - 1 \subseteq HeapPages
<1>1. HeapStart \in Nat /\ CopyPage \in Nat /\ CopyPage = HeapStart + HeapRoom
  BY Sizes, UserPagesArePages DEF HeapStart, CopyPage
<1>2. ASSUME NEW k \in 1 .. n PROVE h + k - 1 \in HeapStart .. CopyPage
  BY <1>1
<1>3. \A k \in 1 .. n : MayRequest(0, h + k - 1) /\ h + k - 1 \in Pages
  BY <1>2, HeapPageOf
<1>4. h .. h + n - 1 \subseteq HeapPages
  BY <1>1, Sizes DEF HeapPages
<1> QED BY <1>3, <1>4

LEMMA ForkType ==
  ASSUME NEW m \in Machines, kernel_table \in Memory, NEW src \in Memory,
         NEW h \in Nat, NEW n \in Nat, h > HeapStart, h + n <= CopyPage
  PROVE  LET new == ForkMachine(m, h, n, src)
         IN  new.frame \in Memory /\ Onward(m, ForkResult(new.m, src, new.frame))
<1> DEFINE m1 == VmmRequestAt(m, kernel_table, h, n, {"W"})
           new == PagingCopy(m1, src)
           m3 == PagingMakeReadonly(new.m, src)
           m4 == PagingMakeReadonly(m3, new.frame)
<1>1. Onward(m, m1) /\ m1 \in Machines
  BY ForkPages, VmmRequestAtType DEF Onward
<1> HIDE DEF m1
<1>2. Onward(m1, new.m) /\ new.m \in Machines /\ new.frame \in Memory
  BY <1>1, PagingCopyType DEF Onward
<1> HIDE DEF new
<1>3. Onward(new.m, m3) /\ m3 \in Machines
  BY <1>2, PagingMakeReadonlyType DEF Onward
<1> HIDE DEF m3
<1>4. Onward(m3, m4)
  BY <1>2, <1>3, PagingMakeReadonlyType
<1>5. Onward(m, m4)
  <2> HIDE DEF m4
  <2> QED BY <1>1, <1>2, <1>3, <1>4, OnwardTransitive
<1> QED
  BY <1>2, <1>5 DEF ForkMachine, ForkResult, new, m1, m3, m4

(* A page of tree x, and what a step of another tree leaves of it           *)
LEMMA GetKept ==
  ASSUME NEW m, NEW own, NEW m2, NEW own2, NEW y, NEW A, Step(m, own, m2, own2, y, A),
         NEW r, NEW x, NEW v, RootOf(m, own, r, x), PageOf(x, v), x = y => v \notin A
  PROVE  PagingGet(m2, r, v) = PagingGet(m, r, v)
BY DEF Step, PagesKept

LEMMA KernelPageOf ==
  ASSUME NEW v \in Pages \ UserPages
  PROVE  PageOf(0, v)
BY HalfOfPage DEF PageOf, Half

LEMMA ForkDoes ==
  ASSUME NEW m, NEW own, NEW sp, TreesOf(m, own, kernel_table, sp), NEW y \in DOMAIN sp,
         NEW h \in Nat, NEW n \in Nat, h > HeapStart, h + n <= CopyPage,
         NEW new, new = ForkMachine(m, h, n, sp[y]),
         NEW m4, m4 = ForkResult(new.m, sp[y], new.frame), Good(m4)
  PROVE  \E own2 : /\ TreesOf(m4, own2, kernel_table, Append(sp, new.frame))
                   /\ Forked(m, y, h, n, sp, new.frame, m4)
<1> DEFINE m1 == VmmRequestAt(m, kernel_table, h, n, {"W"})
           m2 == new.m
           r == new.frame
           m3 == PagingMakeReadonly(m2, sp[y])
           A == h .. h + n - 1
           x == Len(sp) + 1
<1>1. /\ Shape(m, own) /\ m \in Machines /\ kernel_table \in Memory /\ sp[y] \in Memory
      /\ RootOf(m, own, kernel_table, 0) /\ RootOf(m, own, sp[y], y)
      /\ sp \in Seq(Memory) /\ DOMAIN sp = 1 .. Len(sp) /\ Len(sp) \in Nat
  BY EntryFacts DEF TreesOf, RootOf, Shape
<1>2. Onward(m, m1) /\ m1 \in Machines
  BY <1>1, ForkPages, VmmRequestAtType DEF Onward
<1>3. new = PagingCopy(m1, sp[y]) /\ m4 = PagingMakeReadonly(m3, r)
  BY DEF ForkMachine, ForkResult
<1>4. Onward(m1, m2) /\ m2 \in Machines /\ r \in Memory
  <2> HIDE DEF m1
  <2> QED BY <1>1, <1>2, <1>3, PagingCopyType DEF Onward
<1>5. Onward(m2, m3) /\ m3 \in Machines
  <2> HIDE DEF m2
  <2> QED BY <1>1, <1>4, PagingMakeReadonlyType DEF Onward
<1>6. Onward(m3, m4)
  <2> HIDE DEF m3
  <2> QED BY <1>3, <1>4, <1>5, PagingMakeReadonlyType
<1>7. Good(m1) /\ Good(m2)
  BY <1>4, <1>5, <1>6 DEF Onward
<1> PICK own1 : Backing(m, own, kernel_table, 0, A, {"W"}, m1, own1)
  BY <1>1, <1>7, ForkPages, VmmRequestAtBacks
<1>8. Step(m, own, m1, own1, 0, A) /\ Given(m, kernel_table, A, {"W"}, m1)
  BY BackingGives
<1> HIDE DEF m1, A
<1>9. TreesOf(m1, own1, kernel_table, sp)
  BY <1>8, TreesStep
<1>10. /\ Shape(m1, own1) /\ RootOf(m1, own1, sp[y], y) /\ x \in Nat \ {0} /\ y \in Nat \ {0}
       /\ x # y /\ sp[y] \in Frames \ m1.free /\ own1[sp[y]] = TopRole(y) /\ x \notin DOMAIN sp
  BY <1>1, <1>9 DEF TreesOf, RootOf
<1> HIDE DEF x
<1> PICK own2 : TreeCopied(m1, own1, x, sp[y], m2, own2, r)
  <2>1. Good(PagingCopy(m1, sp[y]).m)
    BY <1>3, <1>7
  <2>2. \E own2 : TreeCopied(m1, own1, x, sp[y], PagingCopy(m1, sp[y]).m, own2,
                             PagingCopy(m1, sp[y]).frame)
    BY <1>1, <1>10, <2>1, PagingCopyCopies
  <2> QED BY <1>3, <2>2
<1> HIDE DEF m2, r
<1> DEFINE sp2 == Append(sp, r)
<1>11. TreesOf(m2, own2, kernel_table, sp2)
  BY <1>9, TreesCopied DEF x
<1>12. Shape(m2, own2) /\ RootOf(m2, own2, sp[y], y) /\ RootOf(m2, own2, r, x)
  BY <1>10, RootKept DEF TreeCopied, Step
<1>13. Step(m2, own2, m3, own2, y, Pages) /\ Protecting(m2, own2, sp[y], y, m3)
  BY <1>10, <1>12, PagingMakeReadonlyProtects DEF Protecting
<1> HIDE DEF m3
<1>14. Shape(m3, own2) /\ RootOf(m3, own2, r, x) /\ RootOf(m3, own2, sp[y], y)
  BY <1>12, <1>13, RootKept DEF Step
<1>15. Step(m3, own2, m4, own2, x, Pages) /\ Protecting(m3, own2, r, x, m4)
  BY <1>3, <1>10, <1>14, PagingMakeReadonlyProtects DEF Protecting
<1> HIDE DEF sp2
<1>16. TreesOf(m4, own2, kernel_table, sp2) /\ TreesOf(m3, own2, kernel_table, sp2)
  BY <1>11, <1>13, <1>15, TreesStep
<1>17. Step(m1, own1, m2, own2, x, Pages)
  BY DEF TreeCopied
<1>18. ASSUME NEW s, NEW t, NEW v, RootOf(m, own, s, t), PageOf(t, v),
              t # x, t # y, t = 0 => v \notin A
       PROVE  PagingGet(m4, s, v) = PagingGet(m, s, v)
  <2>1. RootOf(m1, own1, s, t) /\ PagingGet(m1, s, v) = PagingGet(m, s, v)
    BY <1>8, <1>18, RootKept, GetKept DEF Step
  <2>2. RootOf(m2, own2, s, t) /\ PagingGet(m2, s, v) = PagingGet(m1, s, v)
    BY <1>17, <1>18, <2>1, RootKept, GetKept DEF Step
  <2>3. RootOf(m3, own2, s, t) /\ PagingGet(m3, s, v) = PagingGet(m2, s, v)
    BY <1>13, <1>18, <2>2, RootKept, GetKept DEF Step
  <2>4. PagingGet(m4, s, v) = PagingGet(m3, s, v)
    BY <1>15, <1>18, <2>3, GetKept
  <2> QED BY <2>1, <2>2, <2>3, <2>4
<1>19. ASSUME NEW t \in DOMAIN sp \ {y}, NEW v \in UserPages
       PROVE  PagingGet(m4, sp[t], v) = PagingGet(m, sp[t], v)
  <2>1. t \in Nat \ {0} /\ t # x /\ RootOf(m, own, sp[t], t)
    BY <1>1, <1>10 DEF TreesOf
  <2> QED BY <1>18, <2>1, UserPageOf
<1>20. ASSUME NEW v \in Pages \ UserPages, v \notin A
       PROVE  PagingGet(m4, kernel_table, v) = PagingGet(m, kernel_table, v)
  BY <1>1, <1>10, <1>18, <1>20, KernelPageOf
<1>21. ASSUME NEW v \in UserPages
       PROVE  /\ PagingGet(m2, sp[y], v) = PagingGet(m, sp[y], v)
              /\ PagingGet(m2, r, v) = PagingGet(m, sp[y], v)
  <2>1. PageOf(y, v)
    BY <1>10, UserPageOf
  <2>2. PagingGet(m1, sp[y], v) = PagingGet(m, sp[y], v)
    BY <1>1, <1>8, <1>10, <2>1, GetKept
  <2>3. PagingGet(m2, sp[y], v) = PagingGet(m1, sp[y], v)
    BY <1>10, <1>17, <2>1, GetKept
  <2>4. PagingGet(m2, r, v) = PagingGet(m1, sp[y], v)
    BY <1>10, CopyGets
  <2> QED BY <2>2, <2>3, <2>4
<1>22. ASSUME NEW v \in UserPages
       PROVE  /\ PagingGet(m4, sp[y], v) = PagingGet(m3, sp[y], v)
              /\ PagingGet(m3, r, v) = PagingGet(m2, r, v)
  <2>1. PageOf(y, v) /\ PageOf(x, v)
    BY <1>10, UserPageOf
  <2> QED BY <1>10, <1>12, <1>13, <1>14, <1>15, <2>1, GetKept
<1>23. ASSUME NEW v \in UserPages, NEW s \in {sp[y], r}
       PROVE  IF Present(PagingGet(m, sp[y], v))
                THEN PagingGet(m4, s, v) = ReadOnlyEntry(PagingGet(m, sp[y], v))
                ELSE ~ Present(PagingGet(m4, s, v))
  <2>1. CASE s = sp[y]
    BY <1>13, <1>21, <1>22, <2>1 DEF Protecting
  <2>2. CASE s = r
    BY <1>15, <1>21, <1>22, <2>2 DEF Protecting
  <2> QED BY <2>1, <2>2
<1>24. ASSUME NEW v \in UserPages, Present(PagingGet(m, sp[y], v)) PROVE v \in m4.flushed
  <2>1. v \in m3.flushed
    BY <1>13, <1>21, <1>24 DEF Protecting
  <2> QED BY <1>6, <2>1 DEF Onward
<1>25. Given(m, kernel_table, A, {"W"}, m4)
  <2>1. m4.free \subseteq m1.free
    BY <1>4, <1>5, <1>6 DEF Onward
  <2>2. ASSUME NEW w \in A PROVE PagingGet(m4, kernel_table, w) = PagingGet(m1, kernel_table, w)
    <3>1. w \in HeapPages
      BY ForkPages DEF A
    <3>2. PageOf(0, w) /\ 0 # x /\ 0 # y
      BY <1>10, <3>1, HeapPageOf
    <3>3. /\ RootOf(m1, own1, kernel_table, 0) /\ RootOf(m2, own2, kernel_table, 0)
          /\ RootOf(m3, own2, kernel_table, 0)
      BY <1>9, <1>11, <1>16 DEF TreesOf
    <3> QED BY <1>13, <1>15, <1>17, <3>2, <3>3, GetKept
  <2> QED BY <1>8, <2>1, <2>2, GivenKept
<1>26. Forked(m, y, h, n, sp, r, m4)
  BY <1>19, <1>20, <1>23, <1>24, <1>25 DEF Forked, A
<1> QED
  BY <1>16, <1>26 DEF sp2, r

(* What a copy on write leaves                                              *)
Copied(m, y, v, sp, m4) ==
  /\ \A t \in DOMAIN sp, w \in UserPages :
       t # y \/ w # v => PagingGet(m4, sp[t], w) = PagingGet(m, sp[t], w)
  /\ \E g \in m.free \ m4.free :
       PagingGet(m4, sp[y], v) = LeafEntry(g, PagingGet(m, sp[y], v).flags \cup {"W"})
  /\ \A w \in Pages \ UserPages :
       w # CopyPage => PagingGet(m4, kernel_table, w) = PagingGet(m, kernel_table, w)
  /\ {v, CopyPage} \subseteq m4.flushed

CopyMachine(m, table, v) ==
  LET e == PagingGet(m, table, v)
      m1 == PagingMap(m, kernel_table, CopyPage, e.frame, {})
  IN  VmmRequestAt(PagingUnmap(m1, table, v), table, v, 1, e.flags \cup {"W"})
CopyResult(m, table, v) == PagingUnmap(CopyMachine(m, table, v), kernel_table, CopyPage)

LEMMA CopyPageFacts ==
  /\ CopyPage \in Pages \ UserPages /\ PageOf(0, CopyPage) /\ CopyPage \notin HeapPages
  /\ ~ HugeAt(0, Top(CopyPage), Mid(CopyPage))
  /\ ~ DataAt(0, Top(CopyPage), Mid(CopyPage), Low(CopyPage))
<1>1. CopyPage \in HeapStart .. CopyPage /\ CopyPage \notin HeapPages
  BY Sizes, UserPagesArePages DEF HeapStart, CopyPage, HeapPages
<1>2. CopyPage \in Pages \ UserPages /\ PageOf(0, CopyPage)
  BY <1>1, HeapPage, HeapPageOf
<1>3. ~ HugeAt(0, Top(CopyPage), Mid(CopyPage))
  BY <1>1, HeapPageOf DEF MayRequest
<1>4. ~ DataAt(0, Top(CopyPage), Mid(CopyPage), Low(CopyPage))
  BY <1>1, <1>2, PageIndices DEF DataAt, PageAt
<1> QED BY <1>1, <1>2, <1>3, <1>4

LEMMA OnePage ==
  ASSUME NEW v \in Nat
  PROVE  v .. v + 1 - 1 = {v} /\ \A k \in 1 .. 1 : v + k - 1 = v
OBVIOUS

LEMMA CopyType ==
  ASSUME NEW m \in Machines, kernel_table \in Memory, NEW table \in Memory, NEW v \in UserPages,
         PagingGet(m, table, v) \in Entry, ~ Huge(PagingGet(m, table, v))
  PROVE  Onward(m, CopyResult(m, table, v))
<1> DEFINE e == PagingGet(m, table, v)
           m1 == PagingMap(m, kernel_table, CopyPage, e.frame, {})
           m2 == PagingUnmap(m1, table, v)
           m3 == VmmRequestAt(m2, table, v, 1, e.flags \cup {"W"})
           m4 == PagingUnmap(m3, kernel_table, CopyPage)
<1>1. e.frame \in Memory /\ e.flags \cup {"W"} \in SUBSET {"P", "W", "U"}
  <2> HIDE DEF e
  <2>1. e.frame \in Memory /\ e.flags \in SUBSET {"P", "W", "U", "H"}
    BY EntryTypes DEF e
  <2> QED BY <2>1 DEF e, Huge
<1> HIDE DEF e
<1>2. v \in Pages /\ v \in Nat /\ CopyPage \in Pages
  BY UserPagesArePages, CopyPageFacts DEF Pages
<1>3. Onward(m, m1) /\ m1 \in Machines
  BY <1>1, <1>2, PagingMapType DEF Onward
<1> HIDE DEF m1
<1>4. Onward(m1, m2) /\ m2 \in Machines
  BY <1>2, <1>3, PagingUnmapType DEF Onward
<1> HIDE DEF m2
<1>5. Onward(m2, m3) /\ m3 \in Machines
  BY <1>1, <1>2, <1>4, OnePage, VmmRequestAtType DEF Onward
<1> HIDE DEF m3
<1>6. Onward(m3, m4)
  BY <1>2, <1>5, PagingUnmapType
<1>7. Onward(m, m4)
  <2> HIDE DEF m4
  <2> QED BY <1>3, <1>4, <1>5, <1>6, OnwardTransitive
<1> QED
  BY <1>7 DEF CopyResult, CopyMachine, m4, m3, m2, m1, e

LEMMA CopyDoes ==
  ASSUME NEW m, NEW own, NEW sp, TreesOf(m, own, kernel_table, sp), NEW y \in DOMAIN sp,
         NEW v \in UserPages, Present(PagingGet(m, sp[y], v)),
         NEW m4, m4 = CopyResult(m, sp[y], v), Good(m4)
  PROVE  /\ Onward(m, m4)
         /\ \E own2 : TreesOf(m4, own2, kernel_table, sp)
         /\ Copied(m, y, v, sp, m4)
<1> DEFINE r == sp[y]
           e == PagingGet(m, r, v)
           flags == e.flags \cup {"W"}
           m1 == PagingMap(m, kernel_table, CopyPage, e.frame, {})
           m2 == PagingUnmap(m1, r, v)
           m3 == VmmRequestAt(m2, r, v, 1, flags)
<1>1. /\ Shape(m, own) /\ m \in Machines /\ kernel_table \in Memory /\ r \in Memory
      /\ RootOf(m, own, kernel_table, 0) /\ RootOf(m, own, r, y) /\ y \in Nat \ {0}
  BY EntryFacts DEF TreesOf, RootOf, Shape
<1>2. e \in Entry /\ ~ Huge(e)
  BY UserGets DEF Private
<1>3. e.frame \in Memory /\ flags \in SUBSET {"P", "W", "U"}
  <2> HIDE DEF e
  <2>1. e.frame \in Memory /\ e.flags \in SUBSET {"P", "W", "U", "H"}
    BY <1>2, EntryTypes
  <2> QED BY <1>2, <2>1 DEF Huge
<1>4. /\ v \in Pages /\ v \in Nat /\ CopyPage \in Pages /\ PageOf(y, v) /\ MayRequest(y, v)
      /\ ~ HugeAt(y, Top(v), Mid(v))
  BY <1>1, UserPagesArePages, CopyPageFacts, UserPageOf DEF Pages, MayRequest
<1>5. m4 = PagingUnmap(m3, kernel_table, CopyPage)
  BY DEF CopyResult, CopyMachine
<1> HIDE DEF flags, e, r
<1>6. Onward(m, m1) /\ m1 \in Machines
  BY <1>1, <1>3, <1>4, PagingMapType DEF Onward
<1>7. Onward(m1, m2) /\ m2 \in Machines
  <2> HIDE DEF m1
  <2> QED BY <1>1, <1>4, <1>6, PagingUnmapType DEF Onward
<1>8. Onward(m2, m3) /\ m3 \in Machines
  <2> HIDE DEF m2
  <2> QED BY <1>1, <1>3, <1>4, <1>7, OnePage, VmmRequestAtType DEF Onward
<1>9. Onward(m3, m4)
  <2> HIDE DEF m3
  <2> QED BY <1>1, <1>4, <1>5, <1>8, PagingUnmapType
<1>10. Good(m1) /\ Good(m3)
  BY <1>7, <1>8, <1>9 DEF Onward
<1> PICK own1 : Mapping(m, own, kernel_table, 0, CopyPage, m1, own1, LeafEntry(e.frame, {}))
  BY <1>1, <1>3, <1>10, CopyPageFacts, PagingMapMaps
<1>11. Step(m, own, m1, own1, 0, {CopyPage}) /\ CopyPage \in m1.flushed
  BY DEF Mapping
<1> HIDE DEF m1
<1>12. Shape(m1, own1) /\ RootOf(m1, own1, r, y) /\ RootOf(m1, own1, kernel_table, 0)
  BY <1>1, <1>11, RootKept DEF Step
<1>13. PagingGet(m1, r, v) = e
  BY <1>1, <1>4, <1>11, GetKept DEF e
<1>14. Unmapping(m1, own1, r, y, v, m2)
  BY <1>4, <1>12, PagingUnmapUnmaps
<1>15. Step(m1, own1, m2, own1, y, {v}) /\ ~ Present(PagingGet(m2, r, v)) /\ v \in m2.flushed
  BY <1>13, <1>14 DEF Unmapping, e, r
<1> HIDE DEF m2
<1>16. Shape(m2, own1) /\ RootOf(m2, own1, r, y) /\ RootOf(m2, own1, kernel_table, 0)
  BY <1>12, <1>15, RootKept DEF Step
<1> PICK own2 : Backing(m2, own1, r, y, {v}, flags, m3, own2)
  <2>1. \A k \in 1 .. 1 : MayRequest(y, v + k - 1)
    BY <1>4, OnePage
  <2>2. \E own2 : Backing(m2, own1, r, y, v .. v + 1 - 1, flags, m3, own2)
    BY <1>3, <1>4, <1>10, <1>16, <2>1, VmmRequestAtBacks
  <2> QED BY <1>4, <2>2, OnePage
<1>17. Step(m2, own1, m3, own2, y, {v}) /\ Given(m2, r, {v}, flags, m3)
  BY BackingGives
<1> HIDE DEF m3
<1>18. Shape(m3, own2) /\ RootOf(m3, own2, kernel_table, 0) /\ RootOf(m3, own2, r, y)
  BY <1>16, <1>17, RootKept DEF Step
<1>19. Step(m3, own2, m4, own2, 0, {CopyPage})
  BY <1>5, <1>18, CopyPageFacts, PagingUnmapUnmaps DEF Unmapping
<1>20. TreesOf(m4, own2, kernel_table, sp)
  <2>1. TreesOf(m1, own1, kernel_table, sp)
    BY <1>11, TreesStep
  <2>2. TreesOf(m2, own1, kernel_table, sp)
    BY <1>15, <2>1, TreesStep
  <2>3. TreesOf(m3, own2, kernel_table, sp)
    BY <1>17, <2>2, TreesStep
  <2> QED BY <1>19, <2>3, TreesStep
<1>21. ASSUME NEW s, NEW t, NEW w, RootOf(m, own, s, t), PageOf(t, w),
              t = 0 => w # CopyPage, t = y => w # v
       PROVE  PagingGet(m4, s, w) = PagingGet(m, s, w)
  <2>1. RootOf(m1, own1, s, t) /\ PagingGet(m1, s, w) = PagingGet(m, s, w)
    BY <1>11, <1>21, RootKept, GetKept DEF Step
  <2>2. RootOf(m2, own1, s, t) /\ PagingGet(m2, s, w) = PagingGet(m1, s, w)
    BY <1>15, <1>21, <2>1, RootKept, GetKept DEF Step
  <2>3. RootOf(m3, own2, s, t) /\ PagingGet(m3, s, w) = PagingGet(m2, s, w)
    BY <1>17, <1>21, <2>2, RootKept, GetKept DEF Step
  <2>4. PagingGet(m4, s, w) = PagingGet(m3, s, w)
    BY <1>19, <1>21, <2>3, GetKept
  <2> QED BY <2>1, <2>2, <2>3, <2>4
<1>22. ASSUME NEW t \in DOMAIN sp, NEW w \in UserPages, t # y \/ w # v
       PROVE  PagingGet(m4, sp[t], w) = PagingGet(m, sp[t], w)
  <2>1. t \in Nat \ {0} /\ RootOf(m, own, sp[t], t)
    BY DEF TreesOf
  <2> QED BY <1>21, <1>22, <2>1, UserPageOf
<1>23. ASSUME NEW w \in Pages \ UserPages, w # CopyPage
       PROVE  PagingGet(m4, kernel_table, w) = PagingGet(m, kernel_table, w)
  BY <1>1, <1>21, <1>23, KernelPageOf
<1>24. \E g \in m.free \ m4.free : PagingGet(m4, sp[y], v) = LeafEntry(g, e.flags \cup {"W"})
  <2>1. PagingGet(m4, r, v) = PagingGet(m3, r, v)
    BY <1>1, <1>4, <1>18, <1>19, GetKept
  <2> PICK g \in m2.free \ m3.free : PagingGet(m3, r, v) = LeafEntry(g, flags)
    BY <1>15, <1>17 DEF Given
  <2>2. g \in m.free \ m4.free
    BY <1>6, <1>7, <1>9 DEF Onward
  <2> QED BY <2>1, <2>2 DEF flags, r
<1>25. Onward(m, m4)
  BY <1>6, <1>7, <1>8, <1>9, OnwardTransitive
<1>26. {v, CopyPage} \subseteq m4.flushed
  BY <1>7, <1>8, <1>9, <1>11, <1>15 DEF Onward
<1>27. Copied(m, y, v, sp, m4)
  BY <1>22, <1>23, <1>24, <1>26 DEF Copied, e, r
<1> QED
  BY <1>20, <1>25, <1>27

(* The pages of a segment are user pages, and hold its bytes.               *)
SegmentFirst(s) == s.vaddr \div PageBytes
SegmentFits(s) ==
  /\ SegmentFirst(s) \in Nat /\ SegmentPages(s) \in Nat
  /\ SegmentFirst(s) + SegmentPages(s) <= Higher
  /\ \A b \in s.vaddr .. s.vaddr + s.memsz - 1 :
       b \div PageBytes \in SegmentFirst(s) .. SegmentFirst(s) + SegmentPages(s) - 1

(* Bytes a to a + z - 1 lie in n blocks of d bytes from q on, below top.    *)
Spans(a, z, d, top, q, n) ==
  /\ q \in Nat /\ n \in Nat /\ q + n <= top
  /\ \A b \in a .. a + z - 1 : b \div d \in q .. q + n - 1

LEMMA Distributes ==
  ASSUME NEW a \in Nat, NEW b \in Nat, NEW c \in Nat
  PROVE  a * (b + c) = a * b + a * c
OBVIOUS

LEMMA PagesOfSegment ==
  ASSUME NEW a \in Nat, NEW z \in Nat \ {0}, NEW d \in Nat \ {0}, NEW top \in Nat \ {0},
         a + z <= top * d
  PROVE  Spans(a, z, d, top, a \div d, (z + (a % d) + d - 1) \div d)
<1> DEFINE o == a % d
           w == z + o + d - 1
           q == a \div d
           n == w \div d
<1>1. q \in Nat /\ o \in 0 .. d - 1 /\ a = d * q + o
  BY DivDef
<1> HIDE DEF o, q
<1>2. w \in Nat
  BY <1>1
<1>3. n \in Nat /\ w % d \in 0 .. d - 1 /\ w = d * n + (w % d)
  <2> HIDE DEF w
  <2> QED BY <1>2, DivDef
<1> HIDE DEF n
<1>4. d * q \in Nat /\ d * n \in Nat /\ top * d \in Nat
  BY <1>1, <1>3
<1>5. d * n >= z + o
  BY <1>1, <1>3, <1>4
<1>6. q <= top - 1
  <2>1. a < d * ((top - 1) + 1)
    <3>1. d * ((top - 1) + 1) = top * d
      OBVIOUS
    <3> QED BY <3>1, <1>4
  <2> QED BY <2>1, DivBound DEF q
<1>7. q + n <= top
  <2> DEFINE k == top - q
  <2>1. k \in Nat /\ d * k = top * d - d * q
    BY <1>1, <1>6
  <2>2. d * (k + 1) = d * k + d
    BY <2>1
  <2> HIDE DEF k
  <2>3. w < d * (k + 1)
    BY <1>1, <1>4, <2>1, <2>2
  <2> HIDE DEF w
  <2>4. n <= k
    BY <1>2, <2>1, <2>3, DivBound DEF n
  <2> QED BY <1>1, <1>3, <2>4 DEF k
<1>8. ASSUME NEW b \in a .. a + z - 1 PROVE b \div d \in q .. q + n - 1
  <2>1. b \in Nat /\ a <= b /\ b < a + z
    OBVIOUS
  <2>2. b \div d \in Nat /\ q <= b \div d
    BY <2>1, DivDef, DivMonotone DEF q
  <2>3. n >= 1
    BY <1>1, <1>3, <1>5
  <2> DEFINE k == q + n - 1
  <2>4. k \in Nat /\ d * (k + 1) = d * q + d * n
    <3>1. k \in Nat /\ k + 1 = q + n
      BY <1>1, <1>3, <2>3
    <3>2. d * (q + n) = d * q + d * n
      BY <1>1, <1>3, Distributes
    <3> HIDE DEF k
    <3> QED BY <3>1, <3>2
  <2> HIDE DEF k
  <2>5. b < d * (k + 1)
    BY <1>1, <1>4, <1>5, <2>1, <2>4
  <2>6. b \div d <= k
    BY <2>1, <2>4, <2>5, DivBound
  <2> QED BY <1>1, <1>3, <2>2, <2>6 DEF k
<1> QED
  BY <1>1, <1>3, <1>7, <1>8 DEF Spans, q, n, w, o

LEMMA SegmentsFit ==
  ASSUME NEW im \in Images, NEW n \in 1 .. Len(im)
  PROVE  SegmentFits(im[n])
<1> DEFINE S == [vaddr : Nat, memsz : Nat \ {0}]
           s == im[n]
           q == SegmentFirst(s)
           p == SegmentPages(s)
<1>1. im \in Seq(S)
  BY ImageAssumption
<1>2. s \in S /\ n \in DOMAIN im
  <2> HIDE DEF S
  <2> QED BY <1>1
<1>3. s \in Range(im)
  BY <1>2 DEF Range
<1>4. s.vaddr \in Nat /\ s.memsz \in Nat \ {0} /\ s.vaddr + s.memsz <= Higher * PageBytes
  BY <1>2, <1>3, ImageAssumption
<1>5. /\ q = s.vaddr \div PageBytes
      /\ p = (s.memsz + (s.vaddr % PageBytes) + PageBytes - 1) \div PageBytes
  BY DEF SegmentFirst, SegmentPages
<1>6. PageBytes \in Nat \ {0} /\ Higher \in Nat \ {0}
  BY Sizes, UserPagesArePages
<1> HIDE DEF s, q, p
<1>7. Spans(s.vaddr, s.memsz, PageBytes, Higher, q, p)
  BY <1>4, <1>5, <1>6, PagesOfSegment
<1> QED
  BY <1>7 DEF SegmentFits, Spans, q, p, s

(* The loop of task_create over the segments                                *)
Loads(m, table, after) ==
  /\ after[0] = m /\ after[Len(image)] = LoadImage(m, table)
  /\ \A k \in 0 .. Len(image) : after[k] \in Machines
  /\ \A k \in 1 .. Len(image) :
       after[k] = VmmRequestAt(after[k - 1], table, SegmentFirst(image[k]),
                               SegmentPages(image[k]), {"U", "W"})

(* The pages of a segment that fits                                         *)
LEMMA SegmentPagesAre ==
  ASSUME NEW s, SegmentFits(s)
  PROVE  /\ SegmentFirst(s) .. SegmentFirst(s) + SegmentPages(s) - 1 \subseteq UserPages
         /\ \A k \in 1 .. SegmentPages(s) : SegmentFirst(s) + k - 1 \in UserPages
         /\ \A k \in 1 .. SegmentPages(s) : SegmentFirst(s) + k - 1 \in Pages
BY UserPagesArePages DEF SegmentFits, UserPages

LEMMA LoadType ==
  ASSUME image \in Images, NEW table \in Memory, NEW k \in 1 .. Len(image), NEW q \in Machines
  PROVE  Onward(q, VmmRequestAt(q, table, SegmentFirst(image[k]), SegmentPages(image[k]),
                                {"U", "W"}))
<1>1. SegmentFits(image[k])
  BY SegmentsFit
<1>2. SegmentFirst(image[k]) \in Nat /\ SegmentPages(image[k]) \in Nat
  BY <1>1 DEF SegmentFits
<1> QED
  BY <1>1, <1>2, SegmentPagesAre, VmmRequestAtType

LEMMA LoadSteps ==
  ASSUME image \in Images, NEW m \in Machines, NEW table \in Memory
  PROVE  /\ Len(image) \in Nat /\ \E after : Loads(m, table, after)
<1> DEFINE Stepped(q, k) == VmmRequestAt(q, table, SegmentFirst(image[k]),
                                         SegmentPages(image[k]), {"U", "W"})
           len == Len(image)
           step == [x \in (1 .. len) \X Machines |-> Stepped(x[2], x[1])]
           Is(f) == f = [n \in 0 .. len |-> IF n = 0 THEN m
                                            ELSE Stepped(f[n - 1], n)]
           after == CHOOSE f : Is(f)
<1>1. ASSUME NEW k \in 1 .. len, NEW q \in Machines PROVE Stepped(q, k) \in Machines
  BY LoadType DEF Onward
<1>2. step \in [(1 .. len) \X Machines -> Machines]
  <2> HIDE DEF Stepped
  <2> QED BY <1>1
<1>3. len \in Nat
  <2> DEFINE S == [vaddr : Nat, memsz : Nat \ {0}]
  <2>1. image \in Seq(S)
    BY ImageAssumption
  <2> HIDE DEF S
  <2> QED BY <2>1
<1>4. \E f : Is(f)
  <2> PICK f : Loop(f, m, len, step)
    <3> HIDE DEF step, len
    <3> QED BY <1>2, <1>3, LoopExists
  <2> HIDE DEF Stepped, len
  <2>1. ASSUME NEW k \in 1 .. len
        PROVE  step[<<k, f[k - 1]>>] = Stepped(f[k - 1], k)
    <3>1. k - 1 \in 0 .. len
      BY <1>3
    <3>2. f[k - 1] \in Machines
      <4> HIDE DEF step
      <4> QED BY <3>1 DEF Loop
    <3> QED BY <3>2
  <2> HIDE DEF step
  <2>2. \A k \in 0 .. len : k # 0 => k \in 1 .. len
    BY <1>3
  <2>3. [k \in 0 .. len |-> IF k = 0 THEN m ELSE step[<<k, f[k - 1]>>]]
          = [k \in 0 .. len |-> IF k = 0 THEN m ELSE Stepped(f[k - 1], k)]
    BY <2>1, <2>2
  <2>4. Is(f)
    BY <2>3 DEF Loop
  <2> QED BY <2>4
<1>5. Is(after)
  BY <1>4
<1>6. LoadImage(m, table) = after[len]
  BY DEF LoadImage, SegmentFirst
<1> HIDE DEF after, len
<1>7. after[0] = m /\ \A k \in 1 .. len : after[k] = Stepped(after[k - 1], k)
  <2> HIDE DEF Stepped
  <2> QED BY <1>3, <1>5
<1>8. \A k \in Nat : k <= len => after[k] \in Machines
  <2> HIDE DEF Stepped
  <2> DEFINE T == {k \in Nat : k <= len => after[k] \in Machines}
  <2>1. 0 \in T
    BY <1>7
  <2>2. ASSUME NEW k \in Nat, k \in T PROVE k + 1 \in T
    <3> SUFFICES ASSUME k + 1 <= len PROVE after[k + 1] \in Machines
      OBVIOUS
    <3>1. k + 1 \in 1 .. len /\ k + 1 - 1 = k /\ after[k] \in Machines
      BY <1>3, <2>2
    <3>2. after[k + 1] = Stepped(after[k], k + 1)
      BY <1>7, <3>1
    <3> QED BY <1>1, <3>1, <3>2
  <2> HIDE DEF T
  <2>3. Nat \subseteq T
    BY <2>1, <2>2, NatSetInduction
  <2> QED BY <2>3 DEF T
<1>9. Loads(m, table, after)
  BY <1>6, <1>7, <1>8 DEF Loads, len
<1> QED
  BY <1>3, <1>9 DEF len

LEMMA LoadImageType ==
  ASSUME image \in Images, NEW m \in Machines, NEW table \in Memory
  PROVE  Onward(m, LoadImage(m, table))
<1> PICK after : Loads(m, table, after)
  BY LoadSteps
<1> DEFINE len == Len(image)
           T == {k \in Nat : k <= len => Onward(m, after[k])}
<1>1. 0 \in T
  BY DEF Loads, Onward
<1>2. len \in Nat
  BY LoadSteps
<1>3. ASSUME NEW k \in Nat, k \in T PROVE k + 1 \in T
  <2> SUFFICES ASSUME k + 1 <= len PROVE Onward(m, after[k + 1])
    OBVIOUS
  <2>1. k + 1 \in 1 .. len /\ k + 1 - 1 = k /\ Onward(m, after[k]) /\ after[k] \in Machines
    BY <1>2, <1>3 DEF Loads
  <2>2. after[k + 1] = VmmRequestAt(after[k], table, SegmentFirst(image[k + 1]),
                                    SegmentPages(image[k + 1]), {"U", "W"})
    BY <2>1 DEF Loads
  <2>3. Onward(after[k], after[k + 1])
    BY <2>1, <2>2, LoadType
  <2> QED BY <2>1, <2>3, OnwardTransitive
<1> HIDE DEF T
<1>4. len \in T
  BY <1>1, <1>2, <1>3, NatSetInduction
<1> QED
  BY <1>2, <1>4 DEF T, Loads

(* The user pages of a new task are its own.                                *)
OnlyNew(m, r, q) ==
  /\ \A v \in UserPages :
       Present(PagingGet(q, r, v)) =>
         \E g \in m.free \ q.free : PagingGet(q, r, v) = LeafEntry(g, {"U", "W"})
  /\ \A u, v \in UserPages :
       /\ Present(PagingGet(q, r, u)) /\ Present(PagingGet(q, r, v))
       /\ PagingGet(q, r, u).frame = PagingGet(q, r, v).frame
       => u = v
HasPages(q, r, A) == \A w \in A : Present(PagingGet(q, r, w))
KeepsPages(q, r, q2) ==
  \A v \in UserPages :
    Present(PagingGet(q, r, v)) => PagingGet(q2, r, v) = PagingGet(q, r, v)
SegmentSpan(s) == SegmentFirst(s) .. SegmentFirst(s) + SegmentPages(s) - 1

LEMMA OnlyNewGrows ==
  ASSUME NEW m, NEW r, NEW q, OnlyNew(m, r, q), q.free \in SUBSET m.free, m.free \in SUBSET Frames,
         NEW own1, NEW x \in Nat \ {0}, RootOf(q, own1, r, x), NEW A \in SUBSET UserPages,
         NEW q2, NEW own2, Backing(q, own1, r, x, A, {"U", "W"}, q2, own2)
  PROVE  OnlyNew(m, r, q2) /\ HasPages(q2, r, A) /\ KeepsPages(q, r, q2)
<1>1. Step(q, own1, q2, own2, x, A) /\ q2.free \subseteq q.free
  BY DEF Backing, Step, Grown
<1>2. ASSUME NEW v \in UserPages, v \notin A
      PROVE  PagingGet(q2, r, v) = PagingGet(q, r, v)
  BY <1>1, <1>2, UserPageOf, GetKept
<1>3. ASSUME NEW v \in A
      PROVE  IF Present(PagingGet(q, r, v)) THEN PagingGet(q2, r, v) = PagingGet(q, r, v)
             ELSE \E g \in q.free \ q2.free : PagingGet(q2, r, v) = LeafEntry(g, {"U", "W"})
  BY DEF Backing
<1>4. ASSUME NEW v \in UserPages
      PROVE  \/ PagingGet(q2, r, v) = PagingGet(q, r, v)
             \/ /\ ~ Present(PagingGet(q, r, v)) /\ v \in A
                /\ \E g \in q.free \ q2.free : PagingGet(q2, r, v) = LeafEntry(g, {"U", "W"})
  BY <1>2, <1>3
<1>5. \A g \in m.free : LeafEntry(g, {"U", "W"}).frame = g /\ Present(LeafEntry(g, {"U", "W"}))
  BY LeafEntryFacts, EntryFacts
<1>6. ASSUME NEW v \in UserPages, Present(PagingGet(q2, r, v))
      PROVE  \E g \in m.free \ q2.free : PagingGet(q2, r, v) = LeafEntry(g, {"U", "W"})
  <2>1. CASE PagingGet(q2, r, v) = PagingGet(q, r, v)
    <3>1. \E g \in m.free \ q.free : PagingGet(q, r, v) = LeafEntry(g, {"U", "W"})
      BY <1>6, <2>1 DEF OnlyNew
    <3> QED BY <1>1, <2>1, <3>1
  <2>2. CASE PagingGet(q2, r, v) # PagingGet(q, r, v)
    BY <1>4, <2>2
  <2> QED BY <2>1, <2>2
<1>7. ASSUME NEW u \in UserPages, NEW v \in UserPages,
             Present(PagingGet(q2, r, u)), Present(PagingGet(q2, r, v)),
             PagingGet(q2, r, u).frame = PagingGet(q2, r, v).frame
      PROVE  u = v
  <2> DEFINE Old(w) == Present(PagingGet(q, r, w))
  <2>1. ASSUME NEW w \in UserPages, Old(w)
        PROVE  PagingGet(q2, r, w) = PagingGet(q, r, w) /\ PagingGet(q, r, w).frame \notin q.free
    <3>1. \E g \in m.free \ q.free : PagingGet(q, r, w) = LeafEntry(g, {"U", "W"})
      BY <2>1 DEF OnlyNew
    <3> QED BY <1>4, <1>5, <2>1, <3>1
  <2>2. ASSUME NEW w \in UserPages, ~ Old(w), Present(PagingGet(q2, r, w))
        PROVE  w \in A /\ PagingGet(q2, r, w).frame \in q.free
    <3>1. w \in A /\ \E g \in q.free \ q2.free : PagingGet(q2, r, w) = LeafEntry(g, {"U", "W"})
      BY <1>4, <2>2
    <3> QED BY <1>5, <3>1
  <2>3. CASE Old(u) /\ Old(v)
    BY <1>7, <2>1, <2>3 DEF OnlyNew
  <2>4. CASE ~ Old(u) /\ ~ Old(v)
    <3>1. u \in A /\ v \in A
      BY <1>7, <2>2, <2>4
    <3> QED BY <1>7, <2>4, <3>1 DEF Backing
  <2>5. CASE Old(u) /\ ~ Old(v)
    <3>1. PagingGet(q2, r, u).frame \notin q.free /\ PagingGet(q2, r, v).frame \in q.free
      BY <1>7, <2>1, <2>2, <2>5
    <3> QED BY <1>7, <3>1
  <2>6. CASE ~ Old(u) /\ Old(v)
    <3>1. PagingGet(q2, r, v).frame \notin q.free /\ PagingGet(q2, r, u).frame \in q.free
      BY <1>7, <2>1, <2>2, <2>6
    <3> QED BY <1>7, <3>1
  <2> QED BY <2>3, <2>4, <2>5, <2>6
<1>8. ASSUME NEW w \in A PROVE Present(PagingGet(q2, r, w))
  BY <1>3, <1>5
<1>9. KeepsPages(q, r, q2)
  BY <1>2, <1>3 DEF KeepsPages
<1>10. OnlyNew(m, r, q2)
  BY <1>6, <1>7 DEF OnlyNew
<1> QED
  BY <1>8, <1>9, <1>10 DEF HasPages

LEMMA LoadImageFills ==
  ASSUME image \in Images, NEW m0, m0.free \in SUBSET Frames, NEW m, NEW own, Shape(m, own),
         NEW x \in Nat \ {0}, NEW r, RootOf(m, own, r, x), m.free \in SUBSET m0.free,
         OnlyNew(m0, r, m), Good(LoadImage(m, r))
  PROVE  \E own2 : /\ Step(m, own, LoadImage(m, r), own2, x, UserPages)
                   /\ OnlyNew(m0, r, LoadImage(m, r))
                   /\ \A k \in 1 .. Len(image) :
                        HasPages(LoadImage(m, r), r, SegmentSpan(image[k]))
<1>1. m \in Machines /\ r \in Memory
  BY EntryFacts DEF Shape, RootOf
<1> PICK after : Loads(m, r, after)
  BY <1>1, LoadSteps
<1> DEFINE len == Len(image)
           Filled(q, k, own2) == /\ Step(m, own, q, own2, x, UserPages) /\ OnlyNew(m0, r, q)
                                 /\ \A j \in 1 .. k : HasPages(q, r, SegmentSpan(image[j]))
           T == {k \in Nat : k <= len /\ Good(after[k]) => \E own2 : Filled(after[k], k, own2)}
<1>2. 0 \in T
  <2>1. after[0] = m /\ Step(m, own, m, own, x, UserPages)
    BY StepNothing DEF Loads
  <2>2. Filled(after[0], 0, own)
    BY <2>1
  <2> QED BY <2>2
<1>3. len \in Nat
  BY <1>1, LoadSteps
<1>4. ASSUME NEW k \in Nat, k \in T PROVE k + 1 \in T
  <2> SUFFICES ASSUME k + 1 <= len, Good(after[k + 1])
               PROVE  \E own2 : Filled(after[k + 1], k + 1, own2)
    OBVIOUS
  <2> DEFINE q == after[k]
             q2 == after[k + 1]
             s == image[k + 1]
             A == SegmentSpan(s)
  <2>1. k + 1 \in 1 .. len /\ k + 1 - 1 = k /\ q \in Machines
    BY <1>3 DEF Loads
  <2>2. q2 = VmmRequestAt(q, r, SegmentFirst(s), SegmentPages(s), {"U", "W"})
    BY <2>1 DEF Loads
  <2>3. Onward(q, q2)
    BY <1>1, <2>1, <2>2, LoadType
  <2>4. \E own2 : Filled(q, k, own2)
    <3>1. Good(q) /\ k <= len
      BY <1>3, <2>3 DEF Onward
    <3> HIDE DEF Filled
    <3> QED BY <1>4, <3>1
  <2>5. SegmentFits(s)
    BY <2>1, SegmentsFit
  <2> HIDE DEF q, q2, s, Filled
  <2> PICK own1 : Filled(q, k, own1)
    BY <2>4
  <2>6. Shape(q, own1) /\ RootOf(q, own1, r, x) /\ OnlyNew(m0, r, q) /\ Step(m, own, q, own1, x, UserPages)
    BY RootKept DEF Filled, Step
  <2>7. q.free \in SUBSET m0.free
    BY <2>6 DEF Step, Grown
  <2>8. A \in SUBSET UserPages /\ \A j \in 1 .. SegmentPages(s) : MayRequest(x, SegmentFirst(s) + j - 1)
    BY <2>5, SegmentPagesAre, UserPageOf DEF SegmentSpan
  <2>9. SegmentFirst(s) \in Nat /\ SegmentPages(s) \in Nat
    BY <2>5 DEF SegmentFits
  <2> PICK own2 : Backing(q, own1, r, x, A, {"U", "W"}, q2, own2)
    <3>1. Good(VmmRequestAt(q, r, SegmentFirst(s), SegmentPages(s), {"U", "W"}))
      BY <2>2 DEF q2
    <3> QED BY <2>2, <2>6, <2>8, <2>9, <3>1, VmmRequestAtBacks DEF SegmentSpan
  <2>10. OnlyNew(m0, r, q2) /\ HasPages(q2, r, A) /\ KeepsPages(q, r, q2)
    BY <2>6, <2>7, <2>8, OnlyNewGrows
  <2>11. Step(m, own, q2, own2, x, UserPages)
    <3>1. Step(q, own1, q2, own2, x, A)
      BY BackingGives
    <3>2. Step(q2, own2, q2, own2, x, UserPages)
      BY <3>1, StepNothing DEF Step
    <3>3. Step(q, own1, q2, own2, x, UserPages)
      BY <2>8, <3>1, <3>2, StepTransitive
    <3> QED BY <2>6, <3>3, StepTransitive
  <2>12. ASSUME NEW j \in 1 .. k + 1 PROVE HasPages(q2, r, SegmentSpan(image[j]))
    <3>1. CASE j = k + 1
      BY <2>10, <3>1 DEF s
    <3>2. CASE j # k + 1
      <4>1. j \in 1 .. k /\ j \in 1 .. len
        BY <2>1, <3>2
      <4>2. HasPages(q, r, SegmentSpan(image[j]))
        BY <4>1 DEF Filled
      <4>3. SegmentSpan(image[j]) \subseteq UserPages
        BY <4>1, SegmentsFit, SegmentPagesAre DEF SegmentSpan
      <4> QED BY <2>10, <4>2, <4>3 DEF HasPages, KeepsPages
    <3> QED BY <3>1, <3>2
  <2>13. Filled(q2, k + 1, own2)
    BY <2>10, <2>11, <2>12 DEF Filled
  <2> QED BY <2>13 DEF q2
<1> HIDE DEF T
<1>5. len \in T
  BY <1>2, <1>3, <1>4, NatSetInduction
<1> QED
  BY <1>3, <1>5 DEF T, Loads

(* What task_create leaves                                                  *)
Made(m, r, m4) ==
  /\ OnlyNew(m, r, m4)
  /\ \A k \in 1 .. Len(image) : HasPages(m4, r, SegmentSpan(image[k]))
  /\ \A v \in Pages \ UserPages :
       PagingGet(m4, kernel_table, v) = PagingGet(m, kernel_table, v)

TaskResult(m, r) == VmmRequestAt(LoadImage(m, r), r, StackPage, 1, {"U", "W"})

LEMMA StackFacts ==
  /\ StackPage \in UserPages /\ StackPage \in Nat /\ StackPage \in Pages
  /\ \A k \in 1 .. 1 : StackPage + k - 1 = StackPage
  /\ StackPage .. StackPage + 1 - 1 = {StackPage} /\ {StackPage} \in SUBSET UserPages
  /\ \A k \in 1 .. 1 : StackPage + k - 1 \in Pages
  /\ {"U", "W"} \in SUBSET {"P", "W", "U"} /\ 1 \in Nat \ {0}
<1>1. StackPage \in UserPages /\ StackPage \in Pages
  BY UserPagesArePages
<1>2. StackPage \in Nat
  BY <1>1, UserPagesArePages DEF UserPages
<1> QED
  BY <1>1, <1>2, OnePage

LEMMA TaskType ==
  ASSUME image \in Images, NEW m \in Machines, kernel_table \in Memory
  PROVE  LET new == PagingCopy(m, kernel_table)
         IN  new.frame \in Memory /\ Onward(m, TaskResult(new.m, new.frame))
<1> DEFINE new == PagingCopy(m, kernel_table)
           m2 == LoadImage(new.m, new.frame)
           m3 == VmmRequestAt(m2, new.frame, StackPage, 1, {"U", "W"})
<1>1. Onward(m, new.m) /\ new.m \in Machines /\ new.frame \in Memory
  BY PagingCopyType DEF Onward
<1> HIDE DEF new
<1>2. Onward(new.m, m2) /\ m2 \in Machines
  BY <1>1, LoadImageType DEF Onward
<1> HIDE DEF m2
<1>3. Onward(m2, m3)
  BY <1>1, <1>2, StackFacts, VmmRequestAtType
<1>4. Onward(m, m3)
  <2> HIDE DEF m3
  <2> QED BY <1>1, <1>2, <1>3, OnwardTransitive
<1> QED
  BY <1>1, <1>4 DEF TaskResult, m3, m2, new

LEMMA TaskDoes ==
  ASSUME image \in Images, NEW m, NEW own, TreesOf(m, own, kernel_table, << >>),
         NEW new, new = PagingCopy(m, kernel_table),
         NEW m4, m4 = TaskResult(new.m, new.frame), Good(m4)
  PROVE  /\ \E own2 : TreesOf(m4, own2, kernel_table, <<new.frame>>)
         /\ Made(m, new.frame, m4)
<1> DEFINE r == new.frame
           m1 == new.m
           m2 == LoadImage(m1, r)
           kt == kernel_table
<1>1. /\ Shape(m, own) /\ m \in Machines /\ kt \in Memory /\ RootOf(m, own, kt, 0)
      /\ kt \in Frames \ m.free /\ own[kt] = TopRole(0) /\ m.free \in SUBSET Frames
  BY EntryFacts DEF TreesOf, RootOf, Shape, Machines
<1>2. Onward(m, m1) /\ m1 \in Machines /\ r \in Memory
  BY <1>1, PagingCopyType DEF Onward
<1> HIDE DEF m1, r
<1>3. Onward(m1, m2) /\ m2 \in Machines
  BY <1>2, LoadImageType DEF Onward
<1>4. m4 = VmmRequestAt(m2, r, StackPage, 1, {"U", "W"})
  BY DEF TaskResult, r, m1
<1> HIDE DEF m2
<1>5. Onward(m2, m4)
  <2>1. 1 \in Nat
    OBVIOUS
  <2>2. Onward(m2, VmmRequestAt(m2, r, StackPage, 1, {"U", "W"}))
    BY <1>2, <1>3, <2>1, StackFacts, VmmRequestAtType
  <2> QED BY <1>4, <2>2
<1>6. Good(m1) /\ Good(m2)
  BY <1>3, <1>5 DEF Onward
<1>7. \A i \in 0 .. UserTop - 1 : ~ Present(m.mem[kt][i])
  <2>1. \A i \in 0 .. UserTop - 1 : i \in Idx /\ ~ (i >= UserTop)
    BY Sizes DEF Idx
  <2> QED BY <2>1 DEF TreesOf
<1> PICK own1 : TreeCopied(m, own, 1, kt, m1, own1, r)
  <2>1. Good(PagingCopy(m, kt).m)
    BY <1>6 DEF m1
  <2>2. 1 \in Nat \ {0} /\ 0 \in Nat /\ 1 # 0
    OBVIOUS
  <2>3. \E own1 : TreeCopied(m, own, 1, kt, PagingCopy(m, kt).m, own1, PagingCopy(m, kt).frame)
    BY <1>1, <1>7, <2>1, <2>2, PagingCopyCopies
  <2> QED BY <2>3 DEF m1, r
<1>8. TreesOf(m1, own1, kt, <<r>>)
  <2>1. Len(<< >>) + 1 = 1 /\ Append(<< >>, r) = <<r>>
    OBVIOUS
  <2>2. TreesOf(m1, own1, kt, Append(<< >>, r))
    BY <2>1, TreesCopied
  <2> QED BY <2>1, <2>2
<1>9. /\ Shape(m1, own1) /\ RootOf(m1, own1, r, 1) /\ m1.free \in SUBSET m.free
      /\ Step(m, own, m1, own1, 1, Pages)
  BY DEF TreeCopied, Step, Grown
<1>10. OnlyNew(m, r, m1)
  <2>1. \A v \in UserPages : PagingGet(m1, r, v) = Absent
    BY <1>7, KernelCopyGets
  <2> QED BY <2>1, EntryFacts DEF OnlyNew
<1> PICK own2 : /\ Step(m1, own1, m2, own2, 1, UserPages) /\ OnlyNew(m, r, m2)
                /\ \A k \in 1 .. Len(image) : HasPages(m2, r, SegmentSpan(image[k]))
  <2>1. Good(LoadImage(m1, r))
    BY <1>6 DEF m2
  <2>2. \E own2 : /\ Step(m1, own1, LoadImage(m1, r), own2, 1, UserPages)
                  /\ OnlyNew(m, r, LoadImage(m1, r))
                  /\ \A k \in 1 .. Len(image) :
                       HasPages(LoadImage(m1, r), r, SegmentSpan(image[k]))
    BY <1>1, <1>9, <1>10, <2>1, StackFacts, LoadImageFills
  <2> QED BY <2>2 DEF m2
<1>11. Shape(m2, own2) /\ RootOf(m2, own2, r, 1) /\ m2.free \in SUBSET m.free
  BY <1>9, RootKept DEF Step, Grown
<1> PICK own3 : Backing(m2, own2, r, 1, {StackPage}, {"U", "W"}, m4, own3)
  <2>1. \A k \in 1 .. 1 : MayRequest(1, StackPage + k - 1)
    BY StackFacts, UserPageOf
  <2>2. \E own3 : Backing(m2, own2, r, 1, StackPage .. StackPage + 1 - 1, {"U", "W"}, m4, own3)
    <3>1. Good(VmmRequestAt(m2, r, StackPage, 1, {"U", "W"}))
      BY <1>4
    <3>2. 1 \in Nat
      OBVIOUS
    <3>3. \E own3 : Backing(m2, own2, r, 1, StackPage .. StackPage + 1 - 1, {"U", "W"},
                            VmmRequestAt(m2, r, StackPage, 1, {"U", "W"}), own3)
      BY <1>11, <2>1, <3>1, <3>2, StackFacts, VmmRequestAtBacks
    <3> QED BY <1>4, <3>3
  <2> QED BY <2>2, StackFacts
<1>12. OnlyNew(m, r, m4) /\ KeepsPages(m2, r, m4)
  BY <1>1, <1>11, StackFacts, OnlyNewGrows
<1>13. Step(m2, own2, m4, own3, 1, {StackPage})
  BY BackingGives
<1>14. TreesOf(m4, own3, kt, <<r>>)
  BY <1>8, <1>13, TreesStep
<1>15. ASSUME NEW k \in 1 .. Len(image) PROVE HasPages(m4, r, SegmentSpan(image[k]))
  <2>1. SegmentSpan(image[k]) \subseteq UserPages
    BY SegmentsFit, SegmentPagesAre DEF SegmentSpan
  <2> QED BY <1>12, <2>1 DEF HasPages, KeepsPages
<1>16. ASSUME NEW v \in Pages \ UserPages
       PROVE  PagingGet(m4, kt, v) = PagingGet(m, kt, v)
  <2>1. PageOf(0, v)
    BY KernelPageOf
  <2>2. PagingGet(m1, kt, v) = PagingGet(m, kt, v) /\ RootOf(m1, own1, kt, 0)
    BY <1>1, <1>9, <2>1, GetKept, RootKept DEF Step
  <2>3. PagingGet(m2, kt, v) = PagingGet(m1, kt, v) /\ RootOf(m2, own2, kt, 0)
    BY <2>1, <2>2, GetKept, RootKept DEF Step
  <2>4. PagingGet(m4, kt, v) = PagingGet(m2, kt, v)
    BY <1>13, <2>1, <2>3, GetKept
  <2> QED BY <2>2, <2>3, <2>4
<1>17. Made(m, r, m4)
  BY <1>12, <1>15, <1>16 DEF Made
<1> QED
  BY <1>14, <1>17 DEF r

(* What malloc leaves when it grows the heap by n pages                     *)
HeapGrown(m, h, n, q) ==
  /\ q.free \in SUBSET m.free /\ Given(m, kernel_table, h .. h + n - 1, {"W"}, q)
  /\ \A v \in HeapPages \ (h .. h + n - 1) :
       PagingGet(q, kernel_table, v) = PagingGet(m, kernel_table, v)

LEMMA MallocDoes ==
  ASSUME NEW m, NEW own, NEW sp, TreesOf(m, own, kernel_table, sp),
         NEW h \in Nat, NEW n \in Nat, h > HeapStart, h + n <= CopyPage,
         NEW q, q = VmmRequestAt(m, kernel_table, h, n, {"W"})
  PROVE  /\ Onward(m, q) /\ q \in Machines
         /\ Good(q) => /\ \E own2 : TreesOf(q, own2, kernel_table, sp)
                       /\ HeapGrown(m, h, n, q)
<1> DEFINE A == h .. h + n - 1
<1>1. Shape(m, own) /\ m \in Machines /\ kernel_table \in Memory /\ RootOf(m, own, kernel_table, 0)
  BY EntryFacts DEF TreesOf, RootOf, Shape
<1>2. Onward(m, q) /\ q \in Machines
  BY <1>1, ForkPages, VmmRequestAtType DEF Onward
<1>3. ASSUME Good(q)
      PROVE  (\E own2 : TreesOf(q, own2, kernel_table, sp)) /\ HeapGrown(m, h, n, q)
  <2> PICK own2 : Backing(m, own, kernel_table, 0, A, {"W"}, q, own2)
    BY <1>1, <1>3, ForkPages, VmmRequestAtBacks
  <2>1. Step(m, own, q, own2, 0, A) /\ Given(m, kernel_table, A, {"W"}, q)
    BY BackingGives
  <2>2. TreesOf(q, own2, kernel_table, sp)
    BY <2>1, TreesStep
  <2> HIDE DEF A
  <2>3. ASSUME NEW v \in HeapPages \ A
        PROVE  PagingGet(q, kernel_table, v) = PagingGet(m, kernel_table, v)
    BY <1>1, <2>1, HeapPageOf, GetKept
  <2>4. q.free \in SUBSET m.free
    BY <2>1 DEF Step, Grown
  <2> QED BY <2>1, <2>2, <2>3, <2>4 DEF HeapGrown, A
<1> QED
  BY <1>2, <1>3

(* The machine that boot leaves: the heap has one page.                     *)
Reset(D) ==
  [mem |-> [f \in Memory |-> IF f \in D THEN JunkTable ELSE ZeroTable],
   free |-> Frames, exhausted |-> FALSE, stale |-> FALSE, flushed |-> {}]
BootHeap(k) == VmmRequestAt(k.m, k.frame, HeapStart, 1, {"W"})

Booted(m, kt) ==
  /\ \E own : TreesOf(m, own, kt, << >>)
  /\ \A v \in HeapPages \ {HeapStart} : ~ Present(PagingGet(m, kt, v))

LEMMA ResetShape ==
  ASSUME NEW D
  PROVE  Shape(Reset(D), [f \in Frames |-> PageRole])
<1>1. JunkTable \in Row
  <2>1. {"P", "W", "U"} \in SUBSET {"P", "W", "U", "H"} /\ JunkFrame \in Memory
    BY Sizes, EntryFacts
  <2>2. [frame |-> JunkFrame, flags |-> {"P", "W", "U"}] \in Entry
    BY <2>1, EntryTypes
  <2> QED BY <2>2 DEF JunkTable, Row
<1>2. Reset(D) \in Machines
  <2> DEFINE M == [f \in Memory |-> IF f \in D THEN JunkTable ELSE ZeroTable]
  <2>1. M \in [Memory -> Row]
    BY <1>1, EntryFacts
  <2> HIDE DEF M
  <2>2. Reset(D) = [mem |-> M, free |-> Frames, exhausted |-> FALSE, stale |-> FALSE,
                    flushed |-> {}]
    BY DEF Reset, M
  <2> QED BY <2>1, <2>2 DEF Machines
<1>3. Frames \ Reset(D).free = {}
  BY DEF Reset
<1>4. [f \in Frames |-> PageRole] \in [Frames -> Roles]
  BY RolesAre
<1> QED
  BY <1>2, <1>3, <1>4 DEF Shape

LEMMA HeapStartFacts ==
  /\ HeapStart \in HeapPages /\ HeapStart \in Nat /\ 1 \in Nat
  /\ {"W"} \in SUBSET {"P", "W", "U"} /\ HeapStart .. HeapStart + 1 - 1 = {HeapStart}
  /\ \A k \in 1 .. 1 : HeapStart + k - 1 = HeapStart
  /\ \A k \in 1 .. 1 : HeapStart + k - 1 \in Pages
  /\ \A k \in 1 .. 1 : MayRequest(0, HeapStart + k - 1)
<1>1. HeapStart \in Nat /\ HeapRoom \in Nat \ {0}
  BY Sizes, UserPagesArePages DEF HeapStart
<1>2. HeapStart \in HeapPages
  BY <1>1 DEF HeapPages
<1>3. HeapStart .. HeapStart + 1 - 1 = {HeapStart} /\ \A k \in 1 .. 1 : HeapStart + k - 1 = HeapStart
  BY <1>1, OnePage
<1>4. HeapStart \in Pages /\ MayRequest(0, HeapStart)
  BY <1>2, HeapPageOf
<1> QED
  BY <1>1, <1>2, <1>3, <1>4

LEMMA BootDoes ==
  ASSUME NEW D, NEW k, k = PagingInitialize(Reset(D)), NEW m, m = BootHeap(k)
  PROVE  m \in Machines /\ k.frame \in Memory /\ (Good(m) => Booted(m, k.frame))
<1> DEFINE own0 == [f \in Frames |-> PageRole]
           m0 == Reset(D)
<1>1. Shape(m0, own0) /\ m0 \in Machines
  BY ResetShape DEF Shape
<1> HIDE DEF m0, own0
<1>2. k = PagingInitialize(m0)
  BY DEF m0
<1>3. k.m \in Machines /\ k.frame \in Memory
  BY <1>1, <1>2, PagingInitializeType DEF Onward
<1>4. Onward(k.m, BootHeap(k))
  BY <1>3, HeapStartFacts, VmmRequestAtType DEF BootHeap
<1>5. m \in Machines
  BY <1>4 DEF Onward
<1>6. ASSUME Good(m) PROVE Booted(m, k.frame)
  <2>1. Good(PagingInitialize(m0).m)
    BY <1>2, <1>4, <1>6 DEF Onward
  <2> PICK own1 : KernelTree(k.m, own1, k.frame, Fanout - UserTop)
    BY <1>1, <1>2, <2>1, PagingInitializeMakes
  <2>2. Shape(k.m, own1) /\ RootOf(k.m, own1, k.frame, 0)
    BY DEF KernelTree
  <2>3. TreesOf(k.m, own1, k.frame, << >>)
    <3>1. \A i \in Idx : Present(k.m.mem[k.frame][i]) <=> i >= UserTop
      <4>1. \A i \in Idx : i < UserTop + (Fanout - UserTop)
        BY Sizes DEF Idx
      <4> QED BY <4>1 DEF KernelTree
    <3>2. << >> \in Seq(Memory) /\ DOMAIN << >> = {}
      OBVIOUS
    <3> QED BY <2>2, <3>1, <3>2 DEF TreesOf
  <2> PICK own2 : Backing(k.m, own1, k.frame, 0, {HeapStart}, {"W"}, m, own2)
    <3>1. Good(VmmRequestAt(k.m, k.frame, HeapStart, 1, {"W"}))
      BY <1>6 DEF BootHeap
    <3>2. \E own2 : Backing(k.m, own1, k.frame, 0, HeapStart .. HeapStart + 1 - 1, {"W"},
                            VmmRequestAt(k.m, k.frame, HeapStart, 1, {"W"}), own2)
      BY <2>2, <3>1, HeapStartFacts, VmmRequestAtBacks
    <3> QED BY <3>2, HeapStartFacts DEF BootHeap
  <2>4. Step(k.m, own1, m, own2, 0, {HeapStart})
    BY BackingGives
  <2>5. TreesOf(m, own2, k.frame, << >>)
    BY <2>3, <2>4, TreesStep
  <2>6. ASSUME NEW v \in HeapPages \ {HeapStart} PROVE ~ Present(PagingGet(m, k.frame, v))
    <3>1. PagingGet(m, k.frame, v) = PagingGet(k.m, k.frame, v)
      BY <2>2, <2>4, HeapPageOf, GetKept
    <3> QED BY <3>1 DEF KernelTree
  <2> QED BY <2>5, <2>6 DEF Booted
<1> QED
  BY <1>3, <1>5, <1>6

-----------------------------------------------------------------------------
(* The invariant: types; while memory is sound, trees whose frames have     *)
(* fitting roles, and in every task the pages of the image.                 *)

Typed ==
  /\ Machine \in Machines /\ kernel_table \in Memory /\ space \in Seq(Memory)
  /\ cr3 \in 0 .. Len(space) /\ Len(space) <= Tasks /\ (cr3 = 0 <=> space = << >>)
  /\ heap_end \in HeapStart + 1 .. CopyPage /\ flushed \subseteq Pages /\ image \in Images

Rooted == Sound => \E own : TreesOf(Machine, own, kernel_table, space)

Loaded ==
  Sound => \A t \in DOMAIN space, k \in 1 .. Len(image) :
             HasPages(Machine, space[t], SegmentSpan(image[k]))

IInv == Typed /\ Rooted /\ Loaded

LEMMA SameMemory ==
  ASSUME NEW m \in Machines, NEW q \in Machines, q.mem = m.mem, q.free = m.free
  PROVE  /\ \A own, kt, sp : TreesOf(m, own, kt, sp) => TreesOf(q, own, kt, sp)
         /\ \A r, v : PagingGet(q, r, v) = PagingGet(m, r, v)
<1>1. ASSUME NEW own, Shape(m, own) PROVE Shape(q, own)
  <2>1. Grown(m, own, q, own)
    BY <1>1 DEF Shape, Grown
  <2> QED BY <1>1, <2>1, ShapeKept
<1>2. \A own, r, x : RootOf(m, own, r, x) => RootOf(q, own, r, x)
  BY DEF RootOf
<1>3. \A r, v : PagingGet(q, r, v) = PagingGet(m, r, v)
  BY DEF PagingGet
<1> QED
  BY <1>1, <1>2, <1>3 DEF TreesOf

(* What a handler leaves is the state.                                      *)
LEMMA Settles ==
  ASSUME NEW m \in Machines, Becomes(m)
  PROVE  /\ Machine' \in Machines /\ Machine'.mem = m.mem /\ Machine'.free = m.free
         /\ Sound' <=> Good(m)
         /\ flushed' = m.flushed /\ flushed' \subseteq Pages
<1>1. /\ m.mem \in [Memory -> Row] /\ m.free \in SUBSET Frames /\ m.exhausted \in BOOLEAN
      /\ m.stale \in BOOLEAN /\ m.flushed \in SUBSET Pages
  BY DEF Machines
<1>2. /\ mem' = m.mem /\ free' = m.free /\ exhausted' = m.exhausted /\ stale' = m.stale
      /\ flushed' = m.flushed
  BY DEF Becomes
<1>3. Machine' = [mem |-> mem', free |-> free', exhausted |-> exhausted', stale |-> stale',
                  flushed |-> {}]
  BY DEF Machine
<1>4. Machine' \in Machines
  BY <1>1, <1>2, <1>3 DEF Machines
<1>5. Machine'.mem = m.mem /\ Machine'.free = m.free
  BY <1>2, <1>3
<1>6. Sound' <=> Good(m)
  BY <1>2 DEF Sound, Good
<1> QED
  BY <1>1, <1>2, <1>4, <1>5, <1>6

LEMMA InitIInv ==
  Init => IInv
<1> SUFFICES ASSUME Init PROVE IInv
  OBVIOUS
<1> PICK D \in DirtySets :
      LET k == PagingInitialize(Reset(D))
          m == BootHeap(k)
      IN  /\ mem = m.mem /\ free = m.free /\ exhausted = m.exhausted
          /\ stale = m.stale /\ flushed = m.flushed /\ kernel_table = k.frame
  BY DEF Init, Reset, BootHeap
<1> DEFINE k == PagingInitialize(Reset(D))
           m == BootHeap(k)
<1>1. /\ mem = m.mem /\ free = m.free /\ exhausted = m.exhausted
      /\ stale = m.stale /\ flushed = m.flushed /\ kernel_table = k.frame
  OBVIOUS
<1>2. m \in Machines /\ k.frame \in Memory /\ (Good(m) => Booted(m, k.frame))
  BY BootDoes
<1> HIDE DEF m, k
<1>3. /\ m.mem \in [Memory -> Row] /\ m.free \in SUBSET Frames /\ m.exhausted \in BOOLEAN
      /\ m.stale \in BOOLEAN /\ m.flushed \in SUBSET Pages
  BY <1>2 DEF Machines
<1>4. Machine \in Machines /\ Machine.mem = m.mem /\ Machine.free = m.free
  BY <1>1, <1>3 DEF Machines, Machine
<1>5. heap_end = HeapStart + 1 /\ space = << >> /\ cr3 = 0 /\ image \in Images
  BY DEF Init
<1>6. Typed
  <2>1. heap_end \in HeapStart + 1 .. CopyPage
    BY <1>5, Sizes, HeapStartFacts DEF CopyPage
  <2>2. space \in Seq(Memory) /\ Len(space) = 0 /\ Tasks \in Nat
    BY <1>5, ImageAssumption
  <2> QED BY <1>1, <1>2, <1>3, <1>4, <1>5, <2>1, <2>2 DEF Typed
<1>7. Rooted
  <2> SUFFICES ASSUME Sound PROVE \E own : TreesOf(Machine, own, kernel_table, space)
    BY DEF Rooted
  <2>1. Good(m)
    BY <1>1 DEF Sound, Good
  <2> PICK own : TreesOf(m, own, k.frame, << >>)
    BY <1>2, <2>1 DEF Booted
  <2>2. TreesOf(Machine, own, kernel_table, space)
    BY <1>1, <1>2, <1>4, <1>5, SameMemory
  <2> QED BY <2>2
<1>8. Loaded
  BY <1>5 DEF Loaded
<1> QED
  BY <1>6, <1>7, <1>8 DEF IInv

-----------------------------------------------------------------------------
(* The handlers.                                                            *)

LEMMA TypedFacts ==
  ASSUME Typed
  PROVE  /\ Machine \in Machines /\ kernel_table \in Memory /\ image \in Images
         /\ space \in Seq(Memory) /\ DOMAIN space = 1 .. Len(space) /\ Len(space) \in Nat
         /\ (cr3 # 0 => cr3 \in DOMAIN space /\ space[cr3] \in Memory)
         /\ heap_end \in Nat /\ heap_end > HeapStart /\ heap_end <= CopyPage
         /\ (cr3 = 0 => space = << >>)
<1>1. HeapStart \in Nat
  BY HeapStartFacts
<1>2. heap_end \in HeapStart + 1 .. CopyPage
  BY DEF Typed
<1>3. heap_end \in Nat /\ heap_end > HeapStart /\ heap_end <= CopyPage
  BY <1>1, <1>2
<1>4. space \in Seq(Memory) /\ cr3 \in 0 .. Len(space)
  BY DEF Typed
<1>5. cr3 # 0 => cr3 \in DOMAIN space /\ space[cr3] \in Memory
  BY <1>4
<1> QED
  BY <1>3, <1>4, <1>5 DEF Typed

(* The task is made after malloc has left q.                                *)
TaskEffect(n, q, r, m4) ==
  /\ q \in Machines /\ m4 \in Machines /\ Becomes(m4) /\ r \in Memory
  /\ space = << >> /\ space' = <<r>> /\ cr3 = 0 /\ cr3' = 1
  /\ n \in Nat /\ heap_end + n <= CopyPage /\ heap_end' = heap_end + n
  /\ UNCHANGED <<kernel_table, image>>
  /\ Good(m4) => /\ \E own : TreesOf(m4, own, kernel_table, <<r>>)
                 /\ \E own : TreesOf(q, own, kernel_table, << >>)
                 /\ HeapGrown(Machine, heap_end, n, q) /\ Made(q, r, m4)

LEMMA TaskCreateDoes ==
  ASSUME IInv, TaskCreate
  PROVE  \E n, q, r, m4 : TaskEffect(n, q, r, m4)
<1> PICK n \in GrowPages :
      LET q == VmmRequestAt(Machine, kernel_table, heap_end, n, {"W"})
          new == PagingCopy(q, kernel_table)
      IN  /\ heap_end + n <= HeapStart + HeapRoom
          /\ Becomes(TaskResult(new.m, new.frame))
          /\ space' = <<new.frame>> /\ heap_end' = heap_end + n
  BY DEF TaskCreate, TaskResult
<1> DEFINE q == VmmRequestAt(Machine, kernel_table, heap_end, n, {"W"})
           new == PagingCopy(q, kernel_table)
           r == new.frame
           m4 == TaskResult(new.m, r)
<1>1. /\ Sound /\ cr3 = 0 /\ Becomes(m4) /\ space' = <<r>> /\ cr3' = 1
      /\ heap_end + n <= HeapStart + HeapRoom /\ heap_end' = heap_end + n
      /\ UNCHANGED <<kernel_table, image>>
  BY DEF TaskCreate
<1>2. /\ Machine \in Machines /\ kernel_table \in Memory /\ image \in Images /\ space = << >>
      /\ heap_end \in Nat /\ heap_end > HeapStart
  BY <1>1, TypedFacts DEF IInv
<1>3. n \in Nat /\ heap_end + n <= CopyPage
  BY <1>1, ImageAssumption DEF CopyPage
<1> PICK own : TreesOf(Machine, own, kernel_table, << >>)
  BY <1>1, <1>2 DEF IInv, Rooted
<1>4. /\ q \in Machines
      /\ Good(q) => /\ \E own2 : TreesOf(q, own2, kernel_table, << >>)
                    /\ HeapGrown(Machine, heap_end, n, q)
  BY <1>2, <1>3, MallocDoes
<1> HIDE DEF q
<1>5. r \in Memory /\ Onward(q, m4)
  BY <1>2, <1>4, TaskType
<1>6. m4 \in Machines
  BY <1>5 DEF Onward
<1>7. ASSUME Good(m4)
      PROVE  /\ \E own2 : TreesOf(m4, own2, kernel_table, <<r>>)
             /\ \E own2 : TreesOf(q, own2, kernel_table, << >>)
             /\ HeapGrown(Machine, heap_end, n, q) /\ Made(q, r, m4)
  <2>1. Good(q)
    BY <1>5, <1>7 DEF Onward
  <2> PICK own2 : TreesOf(q, own2, kernel_table, << >>)
    BY <1>4, <2>1
  <2>2. new = PagingCopy(q, kernel_table) /\ m4 = TaskResult(new.m, new.frame)
    OBVIOUS
  <2> HIDE DEF new, m4
  <2>3. (\E own3 : TreesOf(m4, own3, kernel_table, <<r>>)) /\ Made(q, r, m4)
    BY <1>2, <1>7, <2>2, TaskDoes
  <2> QED BY <1>4, <2>1, <2>3
<1> HIDE DEF m4, r
<1>8. TaskEffect(n, q, r, m4)
  BY <1>1, <1>2, <1>3, <1>4, <1>5, <1>6, <1>7 DEF TaskEffect
<1> QED
  BY <1>8

ForkEffect(n, r, m4) ==
  /\ m4 \in Machines /\ Becomes(m4) /\ r \in Memory
  /\ Sound /\ cr3 \in DOMAIN space /\ Len(space) < Tasks
  /\ n \in Nat /\ heap_end + n <= CopyPage
  /\ space' = Append(space, r) /\ heap_end' = heap_end + n
  /\ UNCHANGED <<kernel_table, cr3, image>>
  /\ Good(m4) => /\ \E own : TreesOf(m4, own, kernel_table, Append(space, r))
                 /\ Forked(Machine, cr3, heap_end, n, space, r, m4)

LEMMA ForkIs ==
  ASSUME IInv, Fork
  PROVE  \E n, r, m4 : ForkEffect(n, r, m4)
<1> PICK n \in GrowPages :
      LET new == ForkMachine(Machine, heap_end, n, space[cr3])
      IN  /\ heap_end + n <= HeapStart + HeapRoom
          /\ Becomes(ForkResult(new.m, space[cr3], new.frame))
          /\ space' = Append(space, new.frame) /\ heap_end' = heap_end + n
  BY DEF Fork, ForkMachine, ForkResult
<1> DEFINE new == ForkMachine(Machine, heap_end, n, space[cr3])
           r == new.frame
           m4 == ForkResult(new.m, space[cr3], r)
<1>1. /\ Sound /\ cr3 # 0 /\ Len(space) < Tasks /\ UNCHANGED <<kernel_table, cr3, image>>
      /\ heap_end + n <= HeapStart + HeapRoom /\ Becomes(m4)
      /\ space' = Append(space, r) /\ heap_end' = heap_end + n
  BY DEF Fork
<1>2. /\ Machine \in Machines /\ kernel_table \in Memory /\ cr3 \in DOMAIN space
      /\ space[cr3] \in Memory /\ heap_end \in Nat /\ heap_end > HeapStart
  BY <1>1, TypedFacts DEF IInv
<1>3. n \in Nat /\ heap_end + n <= CopyPage
  BY <1>1, ImageAssumption DEF CopyPage
<1>4. r \in Memory /\ Onward(Machine, m4)
  BY <1>2, <1>3, ForkType
<1>5. m4 \in Machines
  BY <1>4 DEF Onward
<1>6. ASSUME Good(m4)
      PROVE  /\ \E own : TreesOf(m4, own, kernel_table, Append(space, r))
             /\ Forked(Machine, cr3, heap_end, n, space, r, m4)
  <2> PICK own : TreesOf(Machine, own, kernel_table, space)
    BY <1>1 DEF IInv, Rooted
  <2>1. /\ new = ForkMachine(Machine, heap_end, n, space[cr3])
        /\ m4 = ForkResult(new.m, space[cr3], new.frame)
    OBVIOUS
  <2> HIDE DEF new, m4
  <2> QED BY <1>2, <1>3, <1>6, <2>1, ForkDoes
<1> HIDE DEF m4, r
<1>7. ForkEffect(n, r, m4)
  BY <1>1, <1>2, <1>3, <1>4, <1>5, <1>6 DEF ForkEffect
<1> QED
  BY <1>7

CopyEffect(v, m4) ==
  /\ m4 \in Machines /\ Becomes(m4) /\ Sound /\ cr3 \in DOMAIN space
  /\ UNCHANGED <<kernel_table, space, cr3, heap_end, image>>
  /\ Present(PagingGet(Machine, space[cr3], v))
  /\ "W" \notin PagingGet(Machine, space[cr3], v).flags
  /\ Good(m4) => /\ \E own : TreesOf(m4, own, kernel_table, space)
                 /\ Copied(Machine, cr3, v, space, m4)

LEMMA CopyOnWriteDoes ==
  ASSUME IInv, NEW v \in UserPages, CopyOnWrite(v)
  PROVE  \E m4 : CopyEffect(v, m4)
<1> DEFINE m4 == CopyResult(Machine, space[cr3], v)
           e == PagingGet(Machine, space[cr3], v)
<1>1. /\ Sound /\ cr3 # 0 /\ UNCHANGED <<kernel_table, space, cr3, heap_end, image>>
      /\ Present(e) /\ "W" \notin e.flags /\ Becomes(m4)
  BY DEF CopyOnWrite, CopyResult, CopyMachine
<1>2. /\ Machine \in Machines /\ kernel_table \in Memory /\ cr3 \in DOMAIN space
      /\ space[cr3] \in Memory
  BY <1>1, TypedFacts DEF IInv
<1> PICK own : TreesOf(Machine, own, kernel_table, space)
  BY <1>1 DEF IInv, Rooted
<1>3. e \in Entry /\ ~ Huge(e)
  BY <1>1, <1>2, UserGets DEF Private
<1>4. Onward(Machine, m4)
  BY <1>2, <1>3, CopyType
<1>5. m4 \in Machines
  BY <1>4 DEF Onward
<1>6. ASSUME Good(m4)
      PROVE  /\ \E own2 : TreesOf(m4, own2, kernel_table, space)
             /\ Copied(Machine, cr3, v, space, m4)
  <2>1. m4 = CopyResult(Machine, space[cr3], v)
    OBVIOUS
  <2> HIDE DEF m4
  <2> QED BY <1>1, <1>2, <1>6, <2>1, CopyDoes
<1> HIDE DEF m4
<1> QED
  BY <1>1, <1>2, <1>5, <1>6 DEF CopyEffect

LEMMA TreesSettle ==
  ASSUME NEW m \in Machines, Becomes(m), NEW kt, NEW sp, kernel_table' = kt, space' = sp,
         \E own : TreesOf(m, own, kt, sp)
  PROVE  Rooted'
<1> PICK own : TreesOf(m, own, kt, sp)
  OBVIOUS
<1>1. Machine' \in Machines /\ Machine'.mem = m.mem /\ Machine'.free = m.free
  BY Settles
<1>2. TreesOf(Machine', own, kernel_table', space')
  BY <1>1, SameMemory
<1> QED
  BY <1>2 DEF Rooted

LEMMA TaskKeeps ==
  ASSUME IInv, NEW n, NEW q, NEW r, NEW m4, TaskEffect(n, q, r, m4)
  PROVE  IInv'
<1>1. /\ m4 \in Machines /\ Becomes(m4) /\ r \in Memory /\ space' = <<r>> /\ cr3' = 1
      /\ kernel_table' = kernel_table /\ image' = image
      /\ n \in Nat /\ heap_end + n <= CopyPage /\ heap_end' = heap_end + n
  BY DEF TaskEffect
<1>2. /\ Machine' \in Machines /\ Machine'.mem = m4.mem /\ Machine'.free = m4.free
      /\ Sound' <=> Good(m4)
      /\ flushed' \subseteq Pages
  BY <1>1, Settles
<1>3. Typed'
  <2>1. space' \in Seq(Memory) /\ Len(space') = 1 /\ space' # << >>
    BY <1>1
  <2>2. cr3' \in 0 .. Len(space') /\ Len(space') <= Tasks /\ (cr3' = 0 <=> space' = << >>)
    BY <1>1, <2>1, ImageAssumption
  <2>3. heap_end' \in HeapStart + 1 .. CopyPage
    BY <1>1, TypedFacts, HeapStartFacts, CopyPageFacts DEF IInv, Pages, Typed
  <2> QED BY <1>1, <1>2, <2>1, <2>2, <2>3 DEF Typed, IInv
<1>4. Rooted'
  <2>1. CASE Sound'
    BY <1>1, <1>2, <2>1, TreesSettle DEF TaskEffect
  <2>2. CASE ~ Sound'
    BY <2>2 DEF Rooted
  <2> QED BY <2>1, <2>2
<1>5. Loaded'
  <2> SUFFICES ASSUME Sound', NEW t \in DOMAIN space', NEW k \in 1 .. Len(image')
               PROVE  HasPages(Machine', space'[t], SegmentSpan(image'[k]))
    BY DEF Loaded
  <2>1. space'[t] = r
    BY <1>1
  <2>2. HasPages(m4, r, SegmentSpan(image[k]))
    BY <1>1, <1>2 DEF TaskEffect, Made
  <2>3. HasPages(Machine', r, SegmentSpan(image[k]))
    BY <1>1, <1>2, <2>2, SameMemory DEF HasPages
  <2> QED BY <1>1, <2>1, <2>3
<1> QED
  BY <1>3, <1>4, <1>5 DEF IInv

LEMMA ForkKeeps ==
  ASSUME IInv, NEW n, NEW r, NEW m4, ForkEffect(n, r, m4)
  PROVE  IInv'
<1>1. /\ m4 \in Machines /\ Becomes(m4) /\ r \in Memory /\ space' = Append(space, r)
      /\ kernel_table' = kernel_table /\ heap_end' = heap_end + n /\ image' = image /\ cr3' = cr3
      /\ n \in Nat /\ heap_end + n <= CopyPage /\ Len(space) < Tasks /\ Sound
      /\ cr3 \in DOMAIN space
  BY DEF ForkEffect
<1>2. /\ Machine' \in Machines /\ Machine'.mem = m4.mem /\ Machine'.free = m4.free
      /\ Sound' <=> Good(m4)
      /\ flushed' \subseteq Pages
  BY <1>1, Settles
<1>3. /\ space \in Seq(Memory) /\ Len(space) \in Nat /\ Machine \in Machines /\ image \in Images
      /\ DOMAIN space = 1 .. Len(space)
  BY TypedFacts DEF IInv
<1>4. /\ space' \in Seq(Memory) /\ Len(space') = Len(space) + 1 /\ space' # << >>
      /\ DOMAIN space' = 1 .. Len(space) + 1 /\ space'[Len(space) + 1] = r
      /\ \A t \in DOMAIN space : space'[t] = space[t]
  BY <1>1, <1>3
<1>5. Typed'
  <2>1. cr3' \in 0 .. Len(space') /\ Len(space') <= Tasks /\ (cr3' = 0 <=> space' = << >>)
    BY <1>1, <1>3, <1>4, ImageAssumption
  <2>2. heap_end' \in HeapStart + 1 .. CopyPage
    BY <1>1, TypedFacts, HeapStartFacts, CopyPageFacts DEF IInv, Pages, Typed
  <2> QED BY <1>1, <1>2, <1>4, <2>1, <2>2 DEF Typed, IInv
<1>6. Rooted'
  <2>1. CASE Sound'
    BY <1>1, <1>2, <2>1, TreesSettle DEF ForkEffect
  <2>2. CASE ~ Sound'
    BY <2>2 DEF Rooted
  <2> QED BY <2>1, <2>2
<1>7. Loaded'
  <2> SUFFICES ASSUME Sound', NEW t \in DOMAIN space', NEW k \in 1 .. Len(image')
               PROVE  HasPages(Machine', space'[t], SegmentSpan(image'[k]))
    BY DEF Loaded
  <2> DEFINE A == SegmentSpan(image[k])
  <2>1. Forked(Machine, cr3, heap_end, n, space, r, m4)
    BY <1>2 DEF ForkEffect
  <2>2. A \subseteq UserPages
    BY <1>1, <1>3, SegmentsFit, SegmentPagesAre DEF SegmentSpan
  <2>3. \A s \in DOMAIN space : HasPages(Machine, space[s], A)
    BY <1>1 DEF IInv, Loaded
  <2> HIDE DEF A
  <2>4. HasPages(m4, space'[t], A)
    <3>1. CASE t \in DOMAIN space \ {cr3}
      BY <1>4, <2>1, <2>2, <2>3, <3>1 DEF HasPages, Forked
    <3>2. CASE t \notin DOMAIN space \ {cr3}
      <4>1. space'[t] \in {space[cr3], r}
        BY <1>1, <1>3, <1>4, <3>2
      <4>2. ASSUME NEW v \in A PROVE Present(PagingGet(m4, space'[t], v))
        <5> DEFINE e == PagingGet(Machine, space[cr3], v)
        <5>1. Present(e) /\ v \in UserPages
          BY <1>1, <2>2, <2>3 DEF HasPages
        <5>2. PagingGet(m4, space'[t], v) = ReadOnlyEntry(e)
          BY <2>1, <4>1, <5>1 DEF Forked
        <5>3. e \in Entry
          BY <1>1, <5>1, UserGets DEF IInv, Rooted, Private
        <5> HIDE DEF e
        <5> QED BY <5>1, <5>2, <5>3, ReadOnlyFacts
      <4> QED BY <4>2 DEF HasPages
    <3> QED BY <3>1, <3>2
  <2>5. HasPages(Machine', space'[t], A)
    BY <1>1, <1>2, <2>4, SameMemory DEF HasPages
  <2> QED BY <1>1, <2>5 DEF A
<1> QED
  BY <1>5, <1>6, <1>7 DEF IInv

LEMMA CopyKeeps ==
  ASSUME IInv, NEW v \in UserPages, NEW m4, CopyEffect(v, m4)
  PROVE  IInv'
<1>1. /\ m4 \in Machines /\ Becomes(m4) /\ Sound /\ cr3 \in DOMAIN space
      /\ kernel_table' = kernel_table /\ heap_end' = heap_end /\ image' = image /\ cr3' = cr3
      /\ space' = space
  BY DEF CopyEffect
<1>2. /\ Machine' \in Machines /\ Machine'.mem = m4.mem /\ Machine'.free = m4.free
      /\ Sound' <=> Good(m4)
      /\ flushed' \subseteq Pages
  BY <1>1, Settles
<1>3. Machine \in Machines /\ image \in Images
  BY TypedFacts DEF IInv
<1>4. Typed'
  BY <1>1, <1>2 DEF Typed, IInv
<1>5. Rooted'
  <2>1. CASE Sound'
    BY <1>1, <1>2, <2>1, TreesSettle DEF CopyEffect
  <2>2. CASE ~ Sound'
    BY <2>2 DEF Rooted
  <2> QED BY <2>1, <2>2
<1>6. Loaded'
  <2> SUFFICES ASSUME Sound', NEW t \in DOMAIN space', NEW k \in 1 .. Len(image')
               PROVE  HasPages(Machine', space'[t], SegmentSpan(image'[k]))
    BY DEF Loaded
  <2> DEFINE A == SegmentSpan(image[k])
  <2>1. Copied(Machine, cr3, v, space, m4)
    BY <1>2 DEF CopyEffect
  <2>2. A \subseteq UserPages
    BY <1>1, <1>3, SegmentsFit, SegmentPagesAre DEF SegmentSpan
  <2>3. HasPages(Machine, space[t], A)
    BY <1>1 DEF IInv, Loaded
  <2> HIDE DEF A
  <2>4. ASSUME NEW w \in A PROVE Present(PagingGet(m4, space[t], w))
    <3>1. CASE t # cr3 \/ w # v
      BY <1>1, <2>1, <2>2, <2>3, <3>1 DEF Copied, HasPages
    <3>2. CASE t = cr3 /\ w = v
      <4> DEFINE flags == PagingGet(Machine, space[cr3], v).flags \cup {"W"}
      <4> PICK g \in Machine.free \ m4.free : PagingGet(m4, space[cr3], v) = LeafEntry(g, flags)
        BY <2>1 DEF Copied
      <4> HIDE DEF flags
      <4>1. Present(LeafEntry(g, flags))
        BY DEF Present, LeafEntry
      <4> QED BY <3>2, <4>1
    <3> QED BY <3>1, <3>2
  <2>5. HasPages(Machine', space[t], A)
    BY <1>1, <1>2, <2>4, SameMemory DEF HasPages
  <2> QED BY <1>1, <2>5 DEF A
<1> QED
  BY <1>4, <1>5, <1>6 DEF IInv

LEMMA SwitchKeeps ==
  ASSUME IInv, NEW t, SwitchTo(t)
  PROVE  IInv'
<1>1. /\ UNCHANGED <<mem, free, exhausted, stale, kernel_table, space, heap_end, image>>
      /\ flushed' = Pages /\ cr3' = t /\ t \in DOMAIN space
  BY DEF SwitchTo
<1>2. Machine' = Machine /\ Sound' = Sound
  BY <1>1 DEF Machine, Sound
<1>3. Typed'
  <2>1. cr3' \in 0 .. Len(space) /\ cr3' # 0 /\ space # << >>
    BY <1>1, TypedFacts DEF IInv
  <2> QED BY <1>1, <1>2, <2>1 DEF Typed, IInv
<1> QED
  BY <1>1, <1>2, <1>3 DEF IInv, Rooted, Loaded

LEMMA StutterKeeps ==
  ASSUME IInv, UNCHANGED vars
  PROVE  IInv'
<1>1. UNCHANGED <<mem, free, exhausted, stale, flushed, kernel_table, space, cr3, heap_end, image>>
  BY DEF vars, machine
<1>2. Machine' = Machine /\ Sound' = Sound
  BY <1>1 DEF Machine, Sound
<1> QED
  BY <1>1, <1>2 DEF IInv, Typed, Rooted, Loaded

LEMMA NextIInv ==
  IInv /\ [Next]_vars => IInv'
<1> SUFFICES ASSUME IInv, [Next]_vars PROVE IInv'
  OBVIOUS
<1>1. CASE TaskCreate
  BY <1>1, TaskCreateDoes, TaskKeeps
<1>2. CASE Fork
  BY <1>2, ForkIs, ForkKeeps
<1>3. CASE \E v \in UserPages : CopyOnWrite(v)
  BY <1>3, CopyOnWriteDoes, CopyKeeps
<1>4. CASE \E t \in 1 .. Tasks : SwitchTo(t)
  BY <1>4, SwitchKeeps
<1>5. CASE UNCHANGED vars
  BY <1>5, StutterKeeps
<1> QED
  BY <1>1, <1>2, <1>3, <1>4, <1>5 DEF Next

(* In every state the frames handed out have roles that fit the entries     *)
(* leading to them, and the segments are mapped: boot makes it so, and no   *)
(* handler (task_create, syscall_fork, cow_copy_on_write) breaks it.        *)
THEOREM SpecIInv == Spec => []IInv
BY InitIInv, NextIInv, PTL DEF Spec

-----------------------------------------------------------------------------
(* The properties of the trees.                                             *)

(* The frame at a place of the trees has the role of the place.             *)
Placed(own, p) ==
  \/ \E x \in Nat : p = <<x>> /\ own[Table(p)] = TopRole(x)
  \/ \E x, i \in Nat : p = <<x, i>> /\ own[Table(p)] = MidRole(x, i)
  \/ \E x, i, j \in Nat : p = <<x, i, j>> /\ own[Table(p)] = LeafRole(x, i, j)

LEMMA RootsOfTrees ==
  ASSUME NEW own, TreesOf(Machine, own, kernel_table, space), NEW x \in Trees
  PROVE  RootOf(Machine, own, Root(x), x) /\ x \in Nat
<1>1. space \in Seq(Memory) /\ RootOf(Machine, own, kernel_table, 0)
      /\ \A t \in DOMAIN space : RootOf(Machine, own, space[t], t)
  BY DEF TreesOf
<1>2. x \in Nat /\ (x # 0 => x \in DOMAIN space)
  BY <1>1 DEF Trees
<1> QED
  BY <1>1, <1>2 DEF Root

LEMMA MachineFields == Machine.mem = mem /\ Machine.free = free
BY DEF Machine

LEMMA TopPlace ==
  ASSUME NEW own, TreesOf(Machine, own, kernel_table, space), NEW x \in Trees, NEW i, Linked(x, i)
  PROVE  LinkTo(Machine, own, TopEntry(x, i), x, MidRole(x, i)) /\ i \in Half(x)
<1>1. RootOf(Machine, own, Root(x), x) /\ x \in Nat
  BY RootsOfTrees
<1>2. i \in Half(x) /\ Present(Machine.mem[Root(x)][i]) /\ TopEntry(x, i) = Machine.mem[Root(x)][i]
  BY MachineFields DEF Linked, TopEntry
<1>3. Fits(Machine, own, Root(x)) /\ own[Root(x)] = TopRole(x)
  BY <1>1 DEF RootOf, TreesOf, Shape
<1>4. TopFits(Machine, own, Machine.mem[Root(x)], x)
  BY <1>1, <1>3 DEF Fits
<1> QED
  BY <1>2, <1>4 DEF TopFits

LEMMA MidPlace ==
  ASSUME NEW own, TreesOf(Machine, own, kernel_table, space), NEW x \in Trees, NEW i, Linked(x, i),
         NEW j \in Idx, Present(MidEntry(x, i, j)), ~ Huge(MidEntry(x, i, j))
  PROVE  LinkTo(Machine, own, MidEntry(x, i, j), x, LeafRole(x, i, j))
<1> DEFINE f == TopEntry(x, i).frame
<1>1. x \in Nat /\ i \in Half(x) /\ LinkTo(Machine, own, TopEntry(x, i), x, MidRole(x, i))
  BY TopPlace, RootsOfTrees
<1>2. f \in Frames \ Machine.free /\ own[f] = MidRole(x, i) /\ i \in Nat
  BY <1>1, HalfIsIdx DEF LinkTo
<1>3. MidEntry(x, i, j) = Machine.mem[f][j]
  BY MachineFields DEF MidEntry
<1> HIDE DEF f
<1>4. MidFits(Machine, own, Machine.mem[f], x, i)
  BY <1>1, <1>2 DEF TreesOf, Shape, Fits
<1> QED
  BY <1>3, <1>4 DEF MidFits

LEMMA PlacesPlaced ==
  ASSUME NEW own, TreesOf(Machine, own, kernel_table, space), NEW p \in Places
  PROVE  Placed(own, p) /\ Table(p) \in Frames \ free
<1>1. CASE \E x \in Trees : p = <<x>>
  <2> PICK x \in Trees : p = <<x>>
    BY <1>1
  <2>1. Table(p) = Root(x)
    BY DEF Table
  <2>2. RootOf(Machine, own, Root(x), x) /\ x \in Nat
    BY RootsOfTrees
  <2> QED BY <2>1, <2>2, MachineFields DEF RootOf, Placed
<1>2. CASE p \in {q \in Trees \X Idx : Linked(q[1], q[2])}
  <2> PICK x \in Trees, i \in Idx : p = <<x, i>> /\ Linked(x, i)
    BY <1>2
  <2>1. Table(p) = TopEntry(x, i).frame
    BY DEF Table
  <2>2. LinkTo(Machine, own, TopEntry(x, i), x, MidRole(x, i))
    BY TopPlace
  <2>3. x \in Nat /\ i \in Nat
    BY RootsOfTrees, HalfIsIdx
  <2> QED BY <2>1, <2>2, <2>3, MachineFields DEF LinkTo, Placed
<1>3. CASE p \in {q \in Trees \X Idx \X Idx :
                    /\ Linked(q[1], q[2])
                    /\ Present(MidEntry(q[1], q[2], q[3])) /\ ~ Huge(MidEntry(q[1], q[2], q[3]))}
  <2> PICK x \in Trees, i \in Idx, j \in Idx :
        /\ p = <<x, i, j>> /\ Linked(x, i)
        /\ Present(MidEntry(x, i, j)) /\ ~ Huge(MidEntry(x, i, j))
    BY <1>3
  <2>1. Table(p) = MidEntry(x, i, j).frame
    BY DEF Table
  <2>2. LinkTo(Machine, own, MidEntry(x, i, j), x, LeafRole(x, i, j))
    BY MidPlace
  <2>3. x \in Nat /\ i \in Nat /\ j \in Nat
    BY RootsOfTrees, HalfIsIdx
  <2> QED BY <2>1, <2>2, <2>3, MachineFields DEF LinkTo, Placed
<1> QED
  BY <1>1, <1>2, <1>3 DEF Places

LEMMA RoleNamesPlace ==
  ASSUME NEW own, NEW p, NEW q, Placed(own, p), Placed(own, q), Table(p) = Table(q)
  PROVE  p = q
<1>1. CASE \E x \in Nat : p = <<x>> /\ own[Table(p)] = TopRole(x)
  <2> PICK x \in Nat : p = <<x>> /\ own[Table(p)] = TopRole(x)
    BY <1>1
  <2>1. own[Table(q)] = TopRole(x)
    OBVIOUS
  <2> QED BY <2>1, RolesDiffer DEF Placed
<1>2. CASE \E x, i \in Nat : p = <<x, i>> /\ own[Table(p)] = MidRole(x, i)
  <2> PICK x \in Nat, i \in Nat : p = <<x, i>> /\ own[Table(p)] = MidRole(x, i)
    BY <1>2
  <2>1. own[Table(q)] = MidRole(x, i)
    OBVIOUS
  <2> QED BY <2>1, RolesDiffer DEF Placed
<1>3. CASE \E x, i, j \in Nat : p = <<x, i, j>> /\ own[Table(p)] = LeafRole(x, i, j)
  <2> PICK x \in Nat, i \in Nat, j \in Nat :
        p = <<x, i, j>> /\ own[Table(p)] = LeafRole(x, i, j)
    BY <1>3
  <2>1. own[Table(q)] = LeafRole(x, i, j)
    OBVIOUS
  <2>2. CASE \E y \in Nat : q = <<y>> /\ own[Table(q)] = TopRole(y)
    <3> PICK y \in Nat : own[Table(q)] = TopRole(y)
      BY <2>2
    <3> QED BY <2>1 DEF TopRole, LeafRole
  <2>3. CASE \E y, k \in Nat : q = <<y, k>> /\ own[Table(q)] = MidRole(y, k)
    <3> PICK y \in Nat, k \in Nat : own[Table(q)] = MidRole(y, k)
      BY <2>3
    <3> QED BY <2>1 DEF MidRole, LeafRole
  <2>4. CASE \E y, k, l \in Nat : q = <<y, k, l>> /\ own[Table(q)] = LeafRole(y, k, l)
    <3> PICK y \in Nat, k \in Nat, l \in Nat :
          q = <<y, k, l>> /\ own[Table(q)] = LeafRole(y, k, l)
      BY <2>4
    <3>1. y = x /\ k = i /\ l = j
      BY <2>1 DEF LeafRole
    <3> QED BY <3>1
  <2> QED BY <2>2, <2>3, <2>4 DEF Placed
<1> QED
  BY <1>1, <1>2, <1>3 DEF Placed

LEMMA TranslationIs ==
  ASSUME NEW r, NEW v
  PROVE  Translation(r, v) = TransIn(Machine, r, v)
BY MachineFields DEF Translation, TransIn

(* Mapped pages and tables do not meet.                                     *)
LEMMA PagePlaced ==
  ASSUME NEW own, TreesOf(Machine, own, kernel_table, space),
         NEW x \in Trees, NEW v \in IF x = 0 THEN HeapPages ELSE UserPages,
         Present(Translation(Root(x), v))
  PROVE  LET f == Translation(Root(x), v).frame
         IN  f \in Frames \ free /\ own[f] = PageRole
<1> DEFINE e == PagingGet(Machine, Root(x), v)
<1>1. Shape(Machine, own) /\ RootOf(Machine, own, kernel_table, 0) /\ space \in Seq(Memory)
  BY DEF TreesOf
<1>2. CASE x = 0
  <2>1. Root(x) = kernel_table /\ v \in HeapPages /\ v \in Pages \ UserPages
    BY <1>2, HeapPageOf, HeapPage DEF Root
  <2>2. Translation(Root(x), v) = KernelView(Machine, Root(x), v)
    BY <2>1, TranslationIs, KernelTranslation
  <2>3. Present(e) /\ Translation(Root(x), v) = Bare(e)
    BY <2>2, EntryFacts DEF KernelView
  <2>4. Private(Machine, own, e)
    BY <1>1, <2>1, <2>3, HeapGets
  <2>5. Bare(e).frame = e.frame
    <3>1. e \in Entry
      BY <2>4 DEF Private
    <3> HIDE DEF e
    <3> QED BY <3>1 DEF Bare, Entry
  <2> QED BY <2>3, <2>4, <2>5, MachineFields DEF Private
<1>3. CASE x # 0
  <2>1. x \in DOMAIN space /\ Root(x) = space[x] /\ v \in UserPages
    BY <1>1, <1>3 DEF Trees, Root
  <2>2. Translation(Root(x), v) = UserView(Machine, Root(x), v)
    BY <2>1, TranslationIs, UserTranslation
  <2>3. Present(e) /\ Translation(Root(x), v) = e
    BY <2>2, EntryFacts DEF UserView
  <2>4. Private(Machine, own, e)
    BY <2>1, <2>3, UserGets
  <2> QED BY <2>3, <2>4, MachineFields DEF Private
<1> QED
  BY <1>2, <1>3

LEMMA IInvTables ==
  IInv => TablesPrivate
<1> SUFFICES ASSUME IInv, Sound
             PROVE  /\ Tables \subseteq Frames \ free
                    /\ \A p, q \in Places : Table(p) = Table(q) => p = q
                    /\ \A x \in Trees : \A v \in IF x = 0 THEN HeapPages ELSE UserPages :
                         LET e == Translation(Root(x), v)
                         IN  Present(e) => e.frame \in (Frames \ free) \ Tables
  BY DEF TablesPrivate
<1> PICK own : TreesOf(Machine, own, kernel_table, space)
  BY DEF IInv, Rooted
<1>1. \A p \in Places : Placed(own, p) /\ Table(p) \in Frames \ free
  BY PlacesPlaced
<1>2. \A p, q \in Places : Table(p) = Table(q) => p = q
  BY <1>1, RoleNamesPlace
<1>3. ASSUME NEW f \in Tables PROVE own[f] # PageRole
  <2> PICK p \in Places : f = Table(p)
    BY DEF Tables
  <2>1. Placed(own, p)
    BY <1>1
  <2> QED BY <2>1, RolesDiffer DEF Placed
<1>4. ASSUME NEW x \in Trees, NEW v \in IF x = 0 THEN HeapPages ELSE UserPages,
             Present(Translation(Root(x), v))
      PROVE  Translation(Root(x), v).frame \in (Frames \ free) \ Tables
  BY <1>3, <1>4, PagePlaced
<1>5. Tables \subseteq Frames \ free
  BY <1>1 DEF Tables
<1> QED
  BY <1>2, <1>4, <1>5

LEMMA IInvKernel ==
  IInv => KernelShared
<1> SUFFICES ASSUME IInv, Sound, NEW t \in DOMAIN space, NEW v \in Pages \ UserPages
             PROVE  Translation(space[t], v) = Translation(kernel_table, v)
  BY DEF KernelShared
<1> PICK own : TreesOf(Machine, own, kernel_table, space)
  BY DEF IInv, Rooted
<1>1. PagingGet(Machine, space[t], v) = PagingGet(Machine, kernel_table, v)
  BY KernelGets
<1> QED
  BY <1>1, TranslationIs, KernelTranslation DEF KernelView

LEMMA IInvTypes ==
  IInv => TypeOK
<1> SUFFICES ASSUME IInv PROVE TypeOK
  OBVIOUS
<1>1. mem \in [Memory -> [Idx -> Entry]] /\ free \in SUBSET Frames
  BY MachineFields DEF IInv, Typed, Machines, Row
<1>2. \A t \in DOMAIN space : space[t] \in Memory
  BY DEF IInv, Typed
<1> QED
  BY <1>1, <1>2 DEF IInv, Typed, TypeOK

(* In every state, for every number of tasks, frames and entries: the trees *)
(* are each task's own, and their kernel halves one (paging_copy,           *)
(* paging_map, paging_create_empty).                                        *)
THEOREM TreesRightHolds == Spec => []TreesRight
<1>1. IInv => TreesRight
  BY IInvTypes, IInvTables, IInvKernel DEF TreesRight
<1> QED
  BY <1>1, SpecIInv, PTL

(* Every byte of a segment lies on a mapped page of every task, whatever    *)
(* its offset in a page (task_create), after any forks and copies.          *)
THEOREM SegmentsMappedHolds == Spec => []SegmentsMapped
<1>1. ASSUME IInv PROVE SegmentsMapped
  <2> SUFFICES ASSUME Sound, NEW t \in DOMAIN space, NEW s \in Range(image),
                      NEW b \in s.vaddr .. s.vaddr + s.memsz - 1
               PROVE  Present(Translation(space[t], b \div PageBytes))
    BY DEF SegmentsMapped
  <2> DEFINE v == b \div PageBytes
  <2>1. image \in Images
    BY <1>1, TypedFacts DEF IInv
  <2>2. DOMAIN image = 1 .. Len(image)
    <3> DEFINE S == [vaddr : Nat, memsz : Nat \ {0}]
    <3>1. image \in Seq(S)
      BY <2>1, ImageAssumption
    <3> HIDE DEF S
    <3> QED BY <3>1
  <2> PICK k \in 1 .. Len(image) : s = image[k]
    BY <2>2 DEF Range
  <2>3. SegmentFits(s)
    BY <2>1, SegmentsFit
  <2>4. v \in SegmentSpan(s) /\ v \in UserPages
    BY <2>3, SegmentPagesAre DEF SegmentFits, SegmentSpan
  <2> HIDE DEF v
  <2>5. Present(PagingGet(Machine, space[t], v))
    BY <1>1, <2>4 DEF IInv, Loaded, HasPages
  <2> PICK own : TreesOf(Machine, own, kernel_table, space)
    BY <1>1 DEF IInv, Rooted
  <2>6. Translation(space[t], v) = UserView(Machine, space[t], v)
    BY <2>4, TranslationIs, UserTranslation
  <2> QED BY <2>5, <2>6 DEF UserView, v
<1>2. IInv => SegmentsMapped
  BY <1>1
<1> QED
  BY <1>2, SpecIInv, PTL

(* What a task sees of a page                                               *)
Seen(m, kt, sp, t, v) ==
  IF v \in UserPages THEN UserView(m, sp[t], v) ELSE KernelView(m, kt, v)

LEMMA SeenIs ==
  ASSUME NEW m, NEW own, NEW kt, NEW sp, TreesOf(m, own, kt, sp), NEW t \in DOMAIN sp,
         NEW v \in Pages
  PROVE  TransIn(m, sp[t], v) = Seen(m, kt, sp, t, v)
<1>1. CASE v \in UserPages
  BY <1>1, UserTranslation DEF Seen
<1>2. CASE v \notin UserPages
  <2>1. PagingGet(m, sp[t], v) = PagingGet(m, kt, v)
    BY <1>2, KernelGets
  <2>2. TransIn(m, sp[t], v) = KernelView(m, sp[t], v)
    BY <1>2, KernelTranslation
  <2> QED BY <1>2, <2>1, <2>2 DEF Seen, KernelView
<1> QED
  BY <1>1, <1>2

LEMMA ForkFlushes ==
  ASSUME NEW n, NEW r, NEW m4, ForkEffect(n, r, m4), Good(m4), NEW v \in Pages,
         Present(Seen(Machine, kernel_table, space, cr3, v))
  PROVE  \/ v \in m4.flushed
         \/ Seen(m4, kernel_table, space, cr3, v) = Seen(Machine, kernel_table, space, cr3, v)
<1>1. Forked(Machine, cr3, heap_end, n, space, r, m4)
  BY DEF ForkEffect
<1>2. CASE v \in UserPages
  <2>1. Present(PagingGet(Machine, space[cr3], v))
    BY <1>2, EntryFacts DEF Seen, UserView
  <2> QED BY <1>1, <1>2, <2>1 DEF Forked
<1>3. CASE v \notin UserPages
  <2>1. Present(PagingGet(Machine, kernel_table, v))
    BY <1>3, EntryFacts DEF Seen, KernelView
  <2>2. PagingGet(m4, kernel_table, v) = PagingGet(Machine, kernel_table, v)
    BY <1>1, <1>3, <2>1 DEF Forked, Given
  <2> QED BY <1>3, <2>2 DEF Seen, KernelView
<1> QED
  BY <1>2, <1>3

LEMMA CopyFlushes ==
  ASSUME NEW w, NEW m4, CopyEffect(w, m4), Good(m4), NEW v \in Pages
  PROVE  \/ v \in m4.flushed
         \/ Seen(m4, kernel_table, space, cr3, v) = Seen(Machine, kernel_table, space, cr3, v)
<1>1. Copied(Machine, cr3, w, space, m4) /\ cr3 \in DOMAIN space
  BY DEF CopyEffect
<1>2. CASE v \in {w, CopyPage}
  BY <1>1, <1>2 DEF Copied
<1>3. CASE v \in UserPages /\ v # w
  <2>1. PagingGet(m4, space[cr3], v) = PagingGet(Machine, space[cr3], v)
    BY <1>1, <1>3 DEF Copied
  <2> QED BY <1>3, <2>1 DEF Seen, UserView
<1>4. CASE v \notin UserPages /\ v # CopyPage
  <2>1. PagingGet(m4, kernel_table, v) = PagingGet(Machine, kernel_table, v)
    BY <1>1, <1>4 DEF Copied
  <2> QED BY <1>4, <2>1 DEF Seen, KernelView
<1> QED
  BY <1>2, <1>3, <1>4

LEMMA SeenSettles ==
  ASSUME IInv', Sound', cr3' # 0, NEW m \in Machines, Becomes(m), NEW v \in Pages
  PROVE  Translation(space[cr3], v)' = Seen(m, kernel_table', space', cr3', v)
<1>1. Translation(space[cr3], v)' = TransIn(Machine', space'[cr3'], v)
  BY DEF Translation, TransIn, Machine
<1> PICK own : TreesOf(Machine', own, kernel_table', space')
  BY DEF IInv, Rooted
<1>2. cr3' \in DOMAIN space'
  <2>1. space' \in Seq(Memory) /\ cr3' \in 0 .. Len(space')
    BY DEF IInv, Typed
  <2> QED BY <2>1
<1>3. Translation(space[cr3], v)' = Seen(Machine', kernel_table', space', cr3', v)
  BY <1>1, <1>2, SeenIs
<1>4. \A r : PagingGet(Machine', r, v) = PagingGet(m, r, v)
  <2>1. Machine' \in Machines /\ Machine'.mem = m.mem /\ Machine'.free = m.free
    BY Settles
  <2> QED BY <2>1, SameMemory
<1> QED
  BY <1>3, <1>4 DEF Seen, UserView, KernelView

(* What a handler changes of the running task's translations it has         *)
(* flushed, among them the pages that (vaddr << 9) | i names in             *)
(* paging_make_readonly.                                                    *)
THEOREM FlushedWhatChangedHolds == Spec => FlushedWhatChanged
<1> DEFINE Flushed == cr3 # 0 /\ Sound' =>
             \A v \in Pages :
               /\ Present(Translation(space[cr3], v))
               /\ Translation(space[cr3], v) # Translation(space[cr3], v)'
               => v \in flushed'
<1>1. ASSUME IInv, Next, IInv' PROVE Flushed
  <2> SUFFICES ASSUME cr3 # 0, Sound', NEW v \in Pages,
                      Present(Translation(space[cr3], v)),
                      Translation(space[cr3], v) # Translation(space[cr3], v)'
               PROVE  v \in flushed'
    OBVIOUS
  <2>1. ASSUME Sound
        PROVE  Translation(space[cr3], v) = Seen(Machine, kernel_table, space, cr3, v)
    <3> PICK own : TreesOf(Machine, own, kernel_table, space)
      BY <1>1, <2>1 DEF IInv, Rooted
    <3>1. cr3 \in DOMAIN space
      BY <1>1, TypedFacts DEF IInv
    <3> QED BY <3>1, SeenIs, TranslationIs
  <2>2. CASE TaskCreate
    BY <2>2 DEF TaskCreate
  <2>3. CASE Fork
    <3> PICK n, r, m4 : ForkEffect(n, r, m4)
      BY <1>1, <2>3, ForkIs
    <3>1. /\ m4 \in Machines /\ Becomes(m4) /\ Sound /\ cr3' = cr3
          /\ kernel_table' = kernel_table /\ space' = Append(space, r) /\ cr3 \in DOMAIN space
      BY DEF ForkEffect
    <3>2. Good(m4) /\ flushed' = m4.flushed
      BY <3>1, Settles
    <3>3. Translation(space[cr3], v)' = Seen(m4, kernel_table', space', cr3', v)
      BY <1>1, <3>1, SeenSettles
    <3>4. space'[cr3'] = space[cr3]
      BY <1>1, <3>1, TypedFacts DEF IInv
    <3>5. Translation(space[cr3], v)' = Seen(m4, kernel_table, space, cr3, v)
      BY <3>1, <3>3, <3>4 DEF Seen
    <3> QED BY <2>1, <3>1, <3>2, <3>5, ForkFlushes
  <2>4. CASE \E w \in UserPages : CopyOnWrite(w)
    <3> PICK w \in UserPages : CopyOnWrite(w)
      BY <2>4
    <3> PICK m4 : CopyEffect(w, m4)
      BY <1>1, CopyOnWriteDoes
    <3>1. /\ m4 \in Machines /\ Becomes(m4) /\ Sound /\ cr3' = cr3
          /\ kernel_table' = kernel_table /\ space' = space
      BY DEF CopyEffect
    <3>2. Good(m4) /\ flushed' = m4.flushed
      BY <3>1, Settles
    <3>3. Translation(space[cr3], v)' = Seen(m4, kernel_table', space', cr3', v)
      BY <1>1, <3>1, SeenSettles
    <3>4. Translation(space[cr3], v)' = Seen(m4, kernel_table, space, cr3, v)
      BY <3>1, <3>3
    <3> QED BY <2>1, <3>1, <3>2, <3>4, CopyFlushes
  <2>5. CASE \E t \in 1 .. Tasks : SwitchTo(t)
    BY <2>5 DEF SwitchTo
  <2> QED BY <1>1, <2>2, <2>3, <2>4, <2>5 DEF Next
<1>2. IInv /\ IInv' /\ [Next]_vars => [Flushed]_vars
  BY <1>1
<1> QED
  BY <1>2, SpecIInv, PTL DEF Spec, FlushedWhatChanged

-----------------------------------------------------------------------------
(* The trees as flat maps.                                                  *)

MapsOf(m, sp) == [t \in DOMAIN sp |-> [v \in UserPages |-> UserView(m, sp[t], v)]]
HeapOf(m, kt) == [v \in HeapPages |-> KernelView(m, kt, v)]

LEMMA HeapPagesAreKernel ==
  HeapPages \subseteq Pages \ UserPages
BY HeapPageOf, HeapPage

LEMMA MapsAre ==
  ASSUME IInv, Sound
  PROVE  UserMaps = MapsOf(Machine, space) /\ HeapMap = HeapOf(Machine, kernel_table)
<1> PICK own : TreesOf(Machine, own, kernel_table, space)
  BY DEF IInv, Rooted
<1>1. \A t \in DOMAIN space, v \in UserPages :
        Translation(space[t], v) = UserView(Machine, space[t], v)
  BY TranslationIs, UserTranslation
<1>2. \A v \in HeapPages : Translation(kernel_table, v) = KernelView(Machine, kernel_table, v)
  BY HeapPagesAreKernel, TranslationIs, KernelTranslation
<1> QED
  BY <1>1, <1>2 DEF UserMaps, HeapMap, MapsOf, HeapOf

LEMMA MapsSettle ==
  ASSUME IInv', Sound', NEW m \in Machines, Becomes(m)
  PROVE  UserMaps' = MapsOf(m, space') /\ HeapMap' = HeapOf(m, kernel_table')
<1> PICK own : TreesOf(Machine', own, kernel_table', space')
  BY DEF IInv, Rooted
<1>1. \A r, v : PagingGet(Machine', r, v) = PagingGet(m, r, v)
  <2>1. Machine' \in Machines /\ Machine'.mem = m.mem /\ Machine'.free = m.free
    BY Settles
  <2> QED BY <2>1, SameMemory
<1>2. UserMaps' = [t \in DOMAIN space' |->
                     [v \in UserPages |-> TransIn(Machine', space'[t], v)]]
  BY DEF UserMaps, Translation, TransIn, Machine
<1>3. HeapMap' = [v \in HeapPages |-> TransIn(Machine', kernel_table', v)]
  BY DEF HeapMap, Translation, TransIn, Machine
<1>4. \A t \in DOMAIN space', v \in UserPages :
        TransIn(Machine', space'[t], v) = UserView(m, space'[t], v)
  BY <1>1, UserTranslation DEF UserView
<1>5. \A v \in HeapPages : TransIn(Machine', kernel_table', v) = KernelView(m, kernel_table', v)
  BY <1>1, HeapPagesAreKernel, KernelTranslation DEF KernelView
<1> QED
  BY <1>2, <1>3, <1>4, <1>5 DEF MapsOf, HeapOf

LEMMA BareFacts ==
  ASSUME NEW e \in Entry
  PROVE  Bare(e).frame = e.frame /\ (Present(e) => Bare(e) # Absent /\ e # Absent)
BY DEF Bare, Entry, Present, Absent

(* Frames that the maps use are not free.                                   *)
LEMMA InUseTaken ==
  ASSUME IInv, Sound, NEW f \in Flat!InUse
  PROVE  f \in Frames \ Machine.free
<1> PICK own : TreesOf(Machine, own, kernel_table, space)
  BY DEF IInv, Rooted
<1>1. UserMaps = MapsOf(Machine, space) /\ HeapMap = HeapOf(Machine, kernel_table)
  BY MapsAre
<1>2. CASE f \in Flat!FramesOf(HeapMap, HeapPages)
  <2> PICK v \in HeapPages : HeapMap[v] # Absent /\ f = HeapMap[v].frame
    BY <1>2 DEF Flat!FramesOf
  <2> DEFINE e == PagingGet(Machine, kernel_table, v)
  <2>1. Present(e) /\ f = Bare(e).frame
    BY <1>1 DEF HeapOf, KernelView
  <2>2. Private(Machine, own, e)
    BY <2>1, HeapGets DEF TreesOf
  <2> HIDE DEF e
  <2> QED BY <2>1, <2>2, BareFacts DEF Private
<1>3. CASE \E t \in DOMAIN UserMaps : f \in Flat!FramesOf(UserMaps[t], UserPages)
  <2> PICK t \in DOMAIN UserMaps, v \in UserPages :
             UserMaps[t][v] # Absent /\ f = UserMaps[t][v].frame
    BY <1>3 DEF Flat!FramesOf
  <2> DEFINE e == PagingGet(Machine, space[t], v)
  <2>1. t \in DOMAIN space /\ UserMaps[t][v] = UserView(Machine, space[t], v)
    BY <1>1 DEF MapsOf
  <2>2. Present(e) /\ f = e.frame
    BY <2>1 DEF UserView
  <2>3. Private(Machine, own, e)
    BY <2>1, <2>2, UserGets
  <2> HIDE DEF e
  <2> QED BY <2>2, <2>3 DEF Private
<1> QED
  BY <1>2, <1>3 DEF Flat!InUse

LEMMA HeapKept ==
  ASSUME NEW m, NEW m2, NEW kt,
         \A v \in HeapPages : PagingGet(m2, kt, v) = PagingGet(m, kt, v)
  PROVE  HeapOf(m2, kt) = HeapOf(m, kt)
BY DEF HeapOf, KernelView

(* malloc gives the heap pages of frames that were free.                    *)
LEMMA GivenBacks ==
  ASSUME IInv, Sound, NEW A \in SUBSET HeapPages, NEW m2, HeapMap = HeapOf(Machine, kernel_table),
         Given(Machine, kernel_table, A, {"W"}, m2), NEW map, map = HeapOf(m2, kernel_table),
         \A v \in HeapPages \ A :
           PagingGet(m2, kernel_table, v) = PagingGet(Machine, kernel_table, v)
  PROVE  Flat!Backed(HeapMap, map, HeapPages)
<1> DEFINE added == {p \in HeapPages : HeapMap[p] = Absent /\ map[p] # Absent}
<1>1. ASSUME NEW v \in HeapPages
      PROVE  /\ HeapMap[v] = KernelView(Machine, kernel_table, v)
             /\ map[v] = KernelView(m2, kernel_table, v)
  BY DEF HeapOf
<1> PICK own : TreesOf(Machine, own, kernel_table, space)
  BY DEF IInv, Rooted
<1>2. ASSUME NEW v \in HeapPages, HeapMap[v] = Absent
      PROVE  ~ Present(PagingGet(Machine, kernel_table, v))
  <2> SUFFICES ASSUME Present(PagingGet(Machine, kernel_table, v)) PROVE FALSE
    OBVIOUS
  <2>1. PagingGet(Machine, kernel_table, v) \in Entry
    BY HeapGets DEF TreesOf, Private
  <2> QED BY <1>1, <1>2, <2>1, BareFacts DEF KernelView
<1>3. ASSUME NEW v \in added
      PROVE  /\ v \in A /\ ~ Present(PagingGet(Machine, kernel_table, v))
             /\ map[v].frame = PagingGet(m2, kernel_table, v).frame
             /\ map[v].frame \in Machine.free
  <2>1. ~ Present(PagingGet(Machine, kernel_table, v))
    BY <1>2
  <2>2. v \in A
    BY <1>1, <2>1 DEF KernelView
  <2> PICK g \in Machine.free : PagingGet(m2, kernel_table, v) = LeafEntry(g, {"W"})
    BY <2>1, <2>2 DEF Given
  <2>3. Bare(LeafEntry(g, {"W"})).frame = g /\ LeafEntry(g, {"W"}).frame = g
    BY DEF Bare, LeafEntry
  <2>4. map[v] = Bare(LeafEntry(g, {"W"}))
    BY <1>1 DEF KernelView
  <2> QED BY <2>1, <2>2, <2>3, <2>4
<1>4. ASSUME NEW v \in HeapPages \ added PROVE map[v] = HeapMap[v]
  <2>1. CASE v \notin A
    BY <1>1, <2>1 DEF KernelView
  <2>2. CASE v \in A /\ Present(PagingGet(Machine, kernel_table, v))
    <3>1. PagingGet(m2, kernel_table, v) = PagingGet(Machine, kernel_table, v)
      BY <2>2 DEF Given
    <3> QED BY <1>1, <3>1 DEF KernelView
  <2>3. CASE ~ Present(PagingGet(Machine, kernel_table, v))
    BY <1>1, <2>3 DEF KernelView
  <2> QED BY <2>1, <2>2, <2>3
<1>5. \A v \in added : map[v].frame \notin Flat!InUse
  BY <1>3, InUseTaken
<1>6. ASSUME NEW u \in added, NEW v \in added, map[u].frame = map[v].frame PROVE u = v
  BY <1>3, <1>6 DEF Given
<1> QED
  BY <1>4, <1>5, <1>6 DEF Flat!Backed

LEMMA CreatesFlat ==
  ASSUME IInv, Sound, IInv', Sound', NEW n, NEW q, NEW r, NEW m4, TaskEffect(n, q, r, m4)
  PROVE  Flat!Create(1)
<1> DEFINE A == heap_end .. heap_end + n - 1
<1>1. /\ m4 \in Machines /\ Becomes(m4) /\ space = << >> /\ space' = <<r>> /\ cr3' = 1
      /\ kernel_table' = kernel_table /\ n \in Nat /\ heap_end + n <= CopyPage
  BY DEF TaskEffect
<1>2. /\ Made(q, r, m4) /\ HeapGrown(Machine, heap_end, n, q)
      /\ \E own : TreesOf(q, own, kernel_table, << >>)
  BY <1>1, Settles DEF TaskEffect
<1>3. /\ UserMaps = MapsOf(Machine, space) /\ HeapMap = HeapOf(Machine, kernel_table)
      /\ UserMaps' = MapsOf(m4, <<r>>) /\ HeapMap' = HeapOf(m4, kernel_table)
  BY <1>1, MapsAre, MapsSettle
<1>4. HeapMap' = HeapOf(q, kernel_table)
  <2>1. \A v \in HeapPages : PagingGet(m4, kernel_table, v) = PagingGet(q, kernel_table, v)
    BY <1>2, HeapPagesAreKernel DEF Made
  <2> QED BY <1>3, <2>1, HeapKept
<1>5. Flat!Backed(HeapMap, HeapMap', HeapPages)
  <2>1. A \in SUBSET HeapPages
    BY <1>1, TypedFacts, ForkPages DEF IInv
  <2>2. /\ Given(Machine, kernel_table, A, {"W"}, q)
        /\ \A v \in HeapPages \ A :
             PagingGet(q, kernel_table, v) = PagingGet(Machine, kernel_table, v)
    BY <1>2 DEF HeapGrown
  <2> HIDE DEF A
  <2> QED BY <1>3, <1>4, <2>1, <2>2, GivenBacks
<1>6. DOMAIN UserMaps = {} /\ DOMAIN UserMaps' = {1} /\ 1 \in DOMAIN <<r>> /\ <<r>>[1] = r
  BY <1>1, <1>3 DEF MapsOf
<1> DEFINE map == UserMaps'[1]
<1>7. map = [v \in UserPages |-> UserView(m4, r, v)]
  BY <1>3, <1>6 DEF MapsOf
<1>8. ASSUME NEW v \in UserPages, map[v] # Absent
      PROVE  /\ map[v] = PagingGet(m4, r, v) /\ Present(PagingGet(m4, r, v))
             /\ \E g \in q.free : map[v] = LeafEntry(g, {"U", "W"})
  <2>1. Present(PagingGet(m4, r, v)) /\ map[v] = PagingGet(m4, r, v)
    BY <1>7, <1>8 DEF UserView
  <2> QED BY <1>2, <2>1 DEF Made, OnlyNew
<1> HIDE DEF map
<1>9. ASSUME NEW v \in UserPages, map[v] # Absent
      PROVE  "W" \in map[v].flags /\ map[v].frame \in q.free
  <2> PICK g \in q.free : map[v] = LeafEntry(g, {"U", "W"})
    BY <1>8, <1>9
  <2> QED BY DEF LeafEntry
<1>10. \A f \in q.free : f \notin Flat!InUse
  BY <1>2, InUseTaken DEF HeapGrown
<1>11. ASSUME NEW u \in UserPages, NEW v \in UserPages, map[u] # Absent, map[v] # Absent,
              map[u].frame = map[v].frame
       PROVE  u = v
  <2>1. /\ Present(PagingGet(m4, r, u)) /\ map[u] = PagingGet(m4, r, u)
        /\ Present(PagingGet(m4, r, v)) /\ map[v] = PagingGet(m4, r, v)
    BY <1>8, <1>11
  <2> QED BY <1>2, <1>11, <2>1 DEF Made, OnlyNew
<1>12. Flat!Backed([p \in UserPages |-> Absent], map, UserPages)
  BY <1>9, <1>10, <1>11 DEF Flat!Backed
<1>13. Flat!FramesOf(map, UserPages) \cap Flat!FramesOf(HeapMap', HeapPages) = {}
  <2>1. \A f \in Flat!FramesOf(map, UserPages) : f \in q.free
    BY <1>9 DEF Flat!FramesOf
  <2>2. ASSUME NEW f \in Flat!FramesOf(HeapMap', HeapPages) PROVE f \notin q.free
    <3> PICK own : TreesOf(q, own, kernel_table, << >>)
      BY <1>2
    <3> PICK v \in HeapPages : HeapMap'[v] # Absent /\ f = HeapMap'[v].frame
      BY DEF Flat!FramesOf
    <3> DEFINE e == PagingGet(q, kernel_table, v)
    <3>1. Present(e) /\ f = Bare(e).frame
      BY <1>4 DEF HeapOf, KernelView
    <3>2. Private(q, own, e)
      BY <3>1, HeapGets DEF TreesOf
    <3> HIDE DEF e
    <3> QED BY <3>1, <3>2, BareFacts DEF Private
  <2> QED BY <2>1, <2>2
<1> QED
  BY <1>1, <1>5, <1>6, <1>9, <1>12, <1>13 DEF Flat!Create, map

LEMMA ForksFlat ==
  ASSUME IInv, Sound, IInv', Sound', NEW n, NEW r, NEW m4, ForkEffect(n, r, m4)
  PROVE  Flat!Fork(Len(space) + 1)
<1> DEFINE c == Len(space) + 1
           A == heap_end .. heap_end + n - 1
<1>1. /\ m4 \in Machines /\ Becomes(m4) /\ space' = Append(space, r) /\ cr3' = cr3
      /\ kernel_table' = kernel_table /\ n \in Nat /\ heap_end + n <= CopyPage
      /\ cr3 \in DOMAIN space
  BY DEF ForkEffect
<1>2. Forked(Machine, cr3, heap_end, n, space, r, m4)
  BY <1>1, Settles DEF ForkEffect
<1>3. /\ space \in Seq(Memory) /\ DOMAIN space = 1 .. Len(space) /\ Len(space) \in Nat
      /\ heap_end \in Nat /\ heap_end > HeapStart
  BY TypedFacts DEF IInv
<1>4. /\ UserMaps = MapsOf(Machine, space) /\ HeapMap = HeapOf(Machine, kernel_table)
      /\ UserMaps' = MapsOf(m4, Append(space, r)) /\ HeapMap' = HeapOf(m4, kernel_table)
  BY <1>1, MapsAre, MapsSettle
<1>5. /\ c \notin DOMAIN space /\ DOMAIN Append(space, r) = DOMAIN space \cup {c}
      /\ Append(space, r)[c] = r /\ \A t \in DOMAIN space : Append(space, r)[t] = space[t]
  BY <1>1, <1>3
<1>6. Flat!Backed(HeapMap, HeapMap', HeapPages)
  <2>1. A \in SUBSET HeapPages
    BY <1>1, <1>3, ForkPages
  <2>2. \A v \in HeapPages \ A :
          PagingGet(m4, kernel_table, v) = PagingGet(Machine, kernel_table, v)
    BY <1>2, HeapPagesAreKernel DEF Forked
  <2>3. Given(Machine, kernel_table, A, {"W"}, m4)
    BY <1>2 DEF Forked
  <2> HIDE DEF A
  <2> QED BY <1>4, <2>1, <2>2, <2>3, GivenBacks
<1> HIDE DEF c
<1> DEFINE old(t) == [v \in UserPages |-> UserView(Machine, space[t], v)]
           new(t) == [v \in UserPages |-> UserView(m4, Append(space, r)[t], v)]
           ro == Flat!ReadOnly(old(cr3))
<1>7. ASSUME NEW t \in {c, cr3} PROVE new(t) = ro
  <2>1. Append(space, r)[t] \in {space[cr3], r}
    BY <1>1, <1>5
  <2>2. ASSUME NEW v \in UserPages
        PROVE  UserView(m4, Append(space, r)[t], v)
                 = IF UserView(Machine, space[cr3], v) = Absent THEN Absent
                   ELSE ReadOnlyEntry(UserView(Machine, space[cr3], v))
    <3> DEFINE e == PagingGet(Machine, space[cr3], v)
               s == Append(space, r)[t]
    <3>1. IF Present(e) THEN PagingGet(m4, s, v) = ReadOnlyEntry(e)
          ELSE ~ Present(PagingGet(m4, s, v))
      BY <1>2, <2>1 DEF Forked
    <3>2. CASE Present(e)
      <4>1. e \in Entry
        BY <1>1, <3>2, UserGets DEF IInv, Rooted, Private
      <4>2. Present(ReadOnlyEntry(e)) /\ e # Absent
        BY <3>2, <4>1, ReadOnlyFacts, BareFacts
      <4> QED BY <3>1, <3>2, <4>2 DEF UserView
    <3>3. CASE ~ Present(e)
      BY <3>1, <3>3 DEF UserView
    <3> QED BY <3>2, <3>3
  <2> QED BY <2>2 DEF Flat!ReadOnly, ReadOnlyEntry
<1>8. ASSUME NEW t \in DOMAIN space, t # cr3 PROVE new(t) = old(t)
  <2>1. \A v \in UserPages : PagingGet(m4, space[t], v) = PagingGet(Machine, space[t], v)
    BY <1>2, <1>8 DEF Forked
  <2> QED BY <1>5, <2>1 DEF UserView
<1>9. DOMAIN UserMaps = DOMAIN space /\ \A t \in DOMAIN space : UserMaps[t] = old(t)
  BY <1>4 DEF MapsOf
<1>10. UserMaps' = [t \in DOMAIN space \cup {c} |-> new(t)]
  BY <1>4, <1>5 DEF MapsOf
<1> HIDE DEF old, new, ro
<1>11. UserMaps' = [t \in DOMAIN space \cup {c} |->
                      IF t \in {c, cr3} THEN ro ELSE UserMaps[t]]
  BY <1>7, <1>8, <1>9, <1>10
<1>12. ro = Flat!ReadOnly(UserMaps[cr3])
  BY <1>1, <1>9 DEF ro
<1>13. c \notin DOMAIN UserMaps /\ cr3 \in DOMAIN UserMaps
  BY <1>1, <1>5, <1>9
<1>14. Flat!Fork(c)
  BY <1>1, <1>6, <1>9, <1>11, <1>12, <1>13 DEF Flat!Fork
<1> QED
  BY <1>14 DEF c

LEMMA CopiesFlat ==
  ASSUME IInv, Sound, IInv', Sound', NEW v \in UserPages, NEW m4, CopyEffect(v, m4)
  PROVE  Flat!Copy(v)
<1>1. /\ m4 \in Machines /\ Becomes(m4) /\ space' = space /\ cr3' = cr3
      /\ kernel_table' = kernel_table /\ cr3 \in DOMAIN space
      /\ Present(PagingGet(Machine, space[cr3], v))
  BY DEF CopyEffect
<1>2. Copied(Machine, cr3, v, space, m4)
  BY <1>1, Settles DEF CopyEffect
<1>3. /\ UserMaps = MapsOf(Machine, space) /\ HeapMap = HeapOf(Machine, kernel_table)
      /\ UserMaps' = MapsOf(m4, space) /\ HeapMap' = HeapOf(m4, kernel_table)
  BY <1>1, MapsAre, MapsSettle
<1>4. HeapMap' = HeapMap
  <2>1. \A w \in HeapPages : PagingGet(m4, kernel_table, w) = PagingGet(Machine, kernel_table, w)
    BY <1>2, HeapPagesAreKernel, CopyPageFacts DEF Copied
  <2> QED BY <1>3, <2>1, HeapKept
<1> DEFINE e == PagingGet(Machine, space[cr3], v)
           e2 == PagingGet(m4, space[cr3], v)
<1>5. e \in Entry /\ e # Absent
  <2>1. e \in Entry
    BY <1>1, UserGets DEF IInv, Rooted, Private
  <2> QED BY <1>1, <2>1, BareFacts
<1> PICK g \in Machine.free \ m4.free : e2 = LeafEntry(g, e.flags \cup {"W"})
  BY <1>2 DEF Copied
<1>6. e2 = [frame |-> g, flags |-> e.flags \cup {"W"}] /\ Present(e2)
  BY <1>1 DEF LeafEntry, Present
<1>7. g \notin Flat!InUse
  BY InUseTaken
<1>8. /\ DOMAIN UserMaps = DOMAIN space /\ DOMAIN UserMaps' = DOMAIN space
      /\ \A t \in DOMAIN space :
           /\ UserMaps[t] = [w \in UserPages |-> UserView(Machine, space[t], w)]
           /\ UserMaps'[t] = [w \in UserPages |-> UserView(m4, space[t], w)]
  BY <1>3 DEF MapsOf
<1>9. UserMaps[cr3][v] = e /\ UserMaps'[cr3][v] = e2
  BY <1>1, <1>6, <1>8 DEF UserView
<1> HIDE DEF e, e2
<1>10. /\ UserMaps'[cr3][v] \in [frame : {UserMaps'[cr3][v].frame} \ Flat!InUse,
                                 flags : {UserMaps[cr3][v].flags \cup {"W"}}]
  BY <1>6, <1>7, <1>9
<1>11. UserMaps' = [UserMaps EXCEPT ![cr3][v] = UserMaps'[cr3][v]]
  <2>1. \A t \in DOMAIN space \ {cr3} : UserMaps'[t] = UserMaps[t]
    <3>1. \A t \in DOMAIN space \ {cr3}, w \in UserPages :
            UserView(m4, space[t], w) = UserView(Machine, space[t], w)
      BY <1>2 DEF Copied, UserView
    <3> QED BY <1>8, <3>1
  <2>2. UserMaps'[cr3] = [UserMaps[cr3] EXCEPT ![v] = UserMaps'[cr3][v]]
    <3>1. \A w \in UserPages \ {v} :
            UserView(m4, space[cr3], w) = UserView(Machine, space[cr3], w)
      BY <1>1, <1>2 DEF Copied, UserView
    <3> QED BY <1>1, <1>8, <3>1
  <2>3. /\ UserMaps = [t \in DOMAIN UserMaps |-> UserMaps[t]]
        /\ UserMaps' = [t \in DOMAIN UserMaps |-> UserMaps'[t]]
    BY <1>3, <1>8 DEF MapsOf
  <2> QED BY <1>1, <1>8, <2>1, <2>2, <2>3
<1> QED
  BY <1>1, <1>4, <1>5, <1>8, <1>9, <1>10, <1>11 DEF Flat!Copy

LEMMA InitFlat ==
  Init => Flat!Init
<1> SUFFICES ASSUME Init PROVE Flat!Init
  OBVIOUS
<1> PICK D \in DirtySets :
      LET k == PagingInitialize(Reset(D))
          m == BootHeap(k)
      IN  /\ mem = m.mem /\ free = m.free /\ exhausted = m.exhausted
          /\ stale = m.stale /\ flushed = m.flushed /\ kernel_table = k.frame
  BY DEF Init, Reset, BootHeap
<1> DEFINE k == PagingInitialize(Reset(D))
           m == BootHeap(k)
<1>1. /\ mem = m.mem /\ free = m.free /\ exhausted = m.exhausted
      /\ stale = m.stale /\ flushed = m.flushed /\ kernel_table = k.frame
  OBVIOUS
<1>2. m \in Machines /\ (Good(m) => Booted(m, k.frame))
  BY BootDoes
<1> HIDE DEF m, k
<1>3. IInv /\ Machine.mem = m.mem /\ Machine.free = m.free /\ Machine \in Machines
  BY <1>1, InitIInv, TypedFacts DEF Machine, IInv
<1>4. UserMaps = << >>
  <2>1. space = << >>
    BY DEF Init
  <2> QED BY <2>1 DEF UserMaps
<1>5. ASSUME Sound, NEW p \in HeapPages, HeapMap[p] # Absent PROVE p = HeapStart
  <2> SUFFICES ASSUME p # HeapStart PROVE FALSE
    OBVIOUS
  <2>1. Booted(m, k.frame)
    BY <1>1, <1>2, <1>5 DEF Sound, Good
  <2>2. ~ Present(PagingGet(m, kernel_table, p))
    BY <1>1, <2>1 DEF Booted
  <2>3. ~ Present(PagingGet(Machine, kernel_table, p))
    BY <1>2, <1>3, <2>2, SameMemory
  <2>4. HeapMap[p] = KernelView(Machine, kernel_table, p)
    BY <1>3, <1>5, MapsAre DEF HeapOf
  <2> QED BY <1>5, <2>3, <2>4 DEF KernelView
<1>6. (exhausted \/ stale) \in BOOLEAN
  OBVIOUS
<1> QED
  BY <1>4, <1>5, <1>6 DEF Flat!Init, Sound

LEMMA NextFlat ==
  ASSUME IInv, IInv', [Next]_vars
  PROVE  [Flat!Next]_Flat!vars
<1>1. CASE ~ Sound'
  <2>1. exhausted' \/ stale'
    BY <1>1 DEF Sound
  <2> QED BY <2>1 DEF Flat!Next
<1>2. CASE UNCHANGED vars
  <2>1. UNCHANGED <<Machine, kernel_table, space, cr3, exhausted, stale>> /\ UNCHANGED mem
    BY <1>2 DEF vars, machine, Machine
  <2>2. UserMaps' = UserMaps /\ HeapMap' = HeapMap
    BY <2>1 DEF UserMaps, HeapMap, Translation
  <2> QED BY <2>1, <2>2 DEF Flat!vars
<1>3. CASE Sound' /\ Next
  <2>1. Sound
    BY <1>3 DEF Next, TaskCreate, Fork, CopyOnWrite, SwitchTo
  <2>2. ~ (exhausted \/ stale) /\ (exhausted \/ stale)' = FALSE
    BY <1>3, <2>1 DEF Sound
  <2>3. CASE TaskCreate
    <3> PICK n, q, r, m4 : TaskEffect(n, q, r, m4)
      BY <2>3, TaskCreateDoes
    <3>1. Flat!Create(1)
      BY <1>3, <2>1, CreatesFlat
    <3>2. 1 \in DOMAIN UserMaps'
      <4>1. space' = <<r>> /\ DOMAIN <<r>> = {1}
        BY DEF TaskEffect
      <4> QED BY <4>1 DEF UserMaps
    <3> QED BY <2>2, <3>1, <3>2 DEF Flat!Next
  <2>4. CASE Fork
    <3> PICK n, r, m4 : ForkEffect(n, r, m4)
      BY <2>4, ForkIs
    <3>1. Flat!Fork(Len(space) + 1)
      BY <1>3, <2>1, ForksFlat
    <3>2. Len(space) + 1 \in DOMAIN UserMaps'
      <4>1. space' = Append(space, r) /\ space \in Seq(Memory) /\ r \in Memory
        BY TypedFacts DEF ForkEffect, IInv
      <4>2. Len(space) + 1 \in DOMAIN space'
        BY <4>1
      <4> QED BY <4>2 DEF UserMaps
    <3> QED BY <2>2, <3>1, <3>2 DEF Flat!Next
  <2>5. CASE \E v \in UserPages : CopyOnWrite(v)
    <3> PICK v \in UserPages : CopyOnWrite(v)
      BY <2>5
    <3> PICK m4 : CopyEffect(v, m4)
      BY CopyOnWriteDoes
    <3>1. Flat!Copy(v)
      BY <1>3, <2>1, CopiesFlat
    <3> QED BY <2>2, <3>1 DEF Flat!Next
  <2>6. CASE \E t \in 1 .. Tasks : SwitchTo(t)
    <3> PICK t : SwitchTo(t)
      BY <2>6
    <3>1. /\ t \in DOMAIN space /\ cr3' = t
          /\ UNCHANGED <<Machine, mem, kernel_table, space>>
      BY DEF SwitchTo, Machine
    <3>2. UserMaps' = UserMaps /\ HeapMap' = HeapMap /\ t \in DOMAIN UserMaps
      BY <3>1 DEF UserMaps, HeapMap, Translation
    <3>3. Flat!Activate(t)
      BY <3>1, <3>2 DEF Flat!Activate
    <3> QED BY <2>2, <3>2, <3>3 DEF Flat!Next
  <2> QED BY <1>3, <2>3, <2>4, <2>5, <2>6 DEF Next
<1> QED
  BY <1>1, <1>2, <1>3

(* The trees are flat maps: fork copies one, task_create and copy on write  *)
(* give pages frames that nothing else maps, a switch of cr3 changes none,  *)
(* and this until frames have run out or a table was copied onto rubbish.   *)
THEOREM ImplementsAddressSpacesHolds == Spec => ImplementsAddressSpaces
<1>1. IInv /\ IInv' /\ [Next]_vars => [Flat!Next]_Flat!vars
  BY NextFlat
<1> QED
  BY <1>1, InitFlat, SpecIInv, PTL DEF Spec, ImplementsAddressSpaces, Flat!Spec
===============================================================================
