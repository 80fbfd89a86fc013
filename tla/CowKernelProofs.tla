--------------------------- MODULE CowKernelProofs ---------------------------
(***************************************************************************)
(* Proofs about CowKernel, for every number of tasks, pages and frames.    *)
(***************************************************************************)
EXTENDS CowKernel, FiniteSetTheorems, TLAPS

USE DEF Pages

-----------------------------------------------------------------------------
(* Type correctness *)

LEMMA EntryType ==
  ASSUME NEW e \in Entry
  PROVE  /\ e.frame \in Frames \cup {Null}
         /\ e.flags \subseteq {"P", "W"}
         /\ ReadOnly(e) \in Entry
         /\ ReadOnly(e).frame = e.frame
         /\ ReadOnly(e).flags = e.flags \ {"W"}
  BY DEF Entry, ReadOnly

LEMMA MappingType ==
  ASSUME NEW f \in Frames \cup {Null}, NEW flags \in SUBSET {"P", "W"}
  PROVE  Mapping(f, flags) \in Entry
  BY DEF Entry, Mapping

LEMMA AbsentType == Absent \in Entry /\ ~ Present(Absent)
  BY DEF Entry, Absent, Present

(* A faulting page gets the new frame, present and writable.                *)
LEMMA CowEntryType ==
  ASSUME NEW e \in Entry, NEW f \in Frames \cup {Null}
  PROVE  /\ CowEntry(e, f) \in Entry
         /\ CowEntry(e, f).frame = f
         /\ Writable(CowEntry(e, f))
<1>1. e.flags \cup {"W"} \in SUBSET {"P", "W"}
  BY EntryType
<1>2. CowEntry(e, f) = Mapping(f, e.flags \cup {"W"})
  BY AbsentType DEF CowEntry, VmmRequestAt
<1> QED
  BY <1>1, <1>2, MappingType DEF Mapping, Writable

LEMMA EntriesType ==
  ASSUME TypeOK
  PROVE  /\ current \in Tasks
         /\ \A t \in Tasks, p \in Pages : vmap[t][p] \in Entry
         /\ \A p \in Pages : tlb[p] \in Entry
<1>1. current \in Tasks
  BY DEF TypeOK
<1>2. vmap \in [Tasks -> [Pages -> Entry]] /\ tlb \in [Pages -> Entry]
  BY DEF TypeOK
<1> QED
  BY <1>1, <1>2

LEMMA TypeInit == Init => TypeOK
<1> SUFFICES ASSUME Init
             PROVE  TypeOK
  OBVIOUS
<1> USE DEF Init
<1>1. /\ tasks \subseteq Tasks /\ current \in tasks
      /\ next_task \in [Tasks -> Tasks \cup {None}]
      /\ \A t \in tasks : next_task[t] \in tasks
  BY TaskAssumption
<1>2. /\ cpu \in [rax : Vals, insn : Program]
      /\ ctx \in [Tasks -> [rax : Vals, insn : Program]]
  BY ValsAssumption
<1>3. left \in [Tasks -> Unset .. Quantum]
  BY TimeAssumption DEF Unset
<1>4. vmap \in [Tasks -> [Pages -> Entry]] /\ tlb \in [Pages -> Entry]
  <2>1. Absent \in Entry
    BY AbsentType
  <2>2. ASSUME NEW f \in Frames
        PROVE  Mapping(f, {"W"}) \in Entry
    BY MappingType
  <2> QED
    BY <2>1, <2>2, PageAssumption
<1>5. content \in [Frames \cup {Null} -> Vals]
  BY ValsAssumption
<1>6. free \subseteq Frames /\ tables \subseteq Frames \ free
  OBVIOUS
<1>7. /\ exhausted \in BOOLEAN
      /\ mode \in {"user", "parent", "child", "halted"}
      /\ pos \in 0 .. NPages /\ stage \in {"flush", "clear"}
      /\ child \in Tasks \cup {None}
      /\ mode \in {"parent", "child"} <=> child # None
      /\ child \notin tasks
      /\ stage = "clear" => pos < NPages /\ child # None
  <2>1. /\ exhausted = FALSE /\ mode = "user" /\ pos = 0
        /\ stage = "flush" /\ child = None /\ tasks = {InitTask}
    OBVIOUS
  <2> HIDE DEF Init
  <2>2. exhausted \in BOOLEAN /\ mode \in {"user", "parent", "child", "halted"}
    BY <2>1
  <2>3. pos \in 0 .. NPages /\ stage \in {"flush", "clear"} /\ stage # "clear"
    BY <2>1, PageAssumption
  <2>4. child \in Tasks \cup {None} /\ child \notin tasks /\ child = None
    BY <2>1, TaskAssumption
  <2>5. mode \notin {"parent", "child"}
    BY <2>1
  <2> QED
    BY <2>2, <2>3, <2>4, <2>5
<1> QED
  BY <1>1, <1>2, <1>3, <1>4, <1>5, <1>6, <1>7 DEF TypeOK

LEMMA TypeNext == TypeOK /\ [Next]_vars => TypeOK'
<1> SUFFICES ASSUME TypeOK, [Next]_vars
             PROVE  TypeOK'
  OBVIOUS
<1> USE DEF TypeOK
<1>1. ASSUME NEW p \in Pages, Load(p)
      PROVE  TypeOK'
  <2>1. Translate(p).frame \in Frames \cup {Null}
    <3>1. Translate(p) \in Entry
      BY EntriesType DEF Translate
    <3> QED
      BY <3>1, EntryType
  <2>2. cpu' \in [rax : Vals, insn : Program]
    BY <1>1, <2>1 DEF Load, Retire
  <2> QED
    BY <1>1, <2>2 DEF Load, sched, mmu, phys, forking
<1>2. ASSUME NEW p \in Pages, Store(p)
      PROVE  TypeOK'
  <2>1. cpu.rax \in Vals
    OBVIOUS
  <2>2. /\ cpu' \in [rax : Vals, insn : Program]
        /\ content' \in [Frames \cup {Null} -> Vals]
    BY <1>2, <2>1 DEF Store, Retire
  <2> QED
    BY <1>2, <2>2 DEF Store, sched, mmu, forking
<1>3. ASSUME NEW p \in Pages, CopyOnWrite(p)
      PROVE  TypeOK'
  <2>1. PICK f \in Frames \cup {Null} :
          /\ RequestPage(f)
          /\ vmap' = [vmap EXCEPT ![current][p] =
                        CowEntry(vmap[current][p], f)]
          /\ content' = [content EXCEPT ![f] =
                           content[vmap[current][p].frame]]
    BY <1>3 DEF CopyOnWrite
  <2>2. CowEntry(vmap[current][p], f) \in Entry
    BY EntriesType, CowEntryType
  <2>3. vmap' \in [Tasks -> [Pages -> Entry]]
    BY <2>1, <2>2
  <2>4. vmap[current][p].frame \in Frames \cup {Null}
    BY EntriesType, EntryType
  <2>5. content' \in [Frames \cup {Null} -> Vals]
    BY <2>1, <2>4
  <2>6. /\ free' \subseteq Frames /\ free' \subseteq free
        /\ exhausted' \in BOOLEAN
    BY <2>1 DEF RequestPage, Pool!RequestPages
  <2>7. tlb' \in [Pages -> Entry]
    BY <1>3, AbsentType DEF CopyOnWrite, Flushed
  <2> QED
    BY <1>3, <2>3, <2>5, <2>6, <2>7 DEF CopyOnWrite, sched, forking
<1>4. ASSUME NEW p \in Pages, FatalFault(p)
      PROVE  TypeOK'
  BY <1>4 DEF FatalFault, Faults, Executing, sched, mmu, phys, forking
<1>5. CASE Compute
  <2>1. cpu' \in [rax : Vals, insn : Program]
    BY <1>5 DEF Compute, Retire
  <2> QED
    BY <1>5, <2>1 DEF Compute, sched, mmu, phys, forking
<1>6. CASE Syscall
  <2>1. cpu' \in [rax : Vals, insn : Program]
    BY <1>6, ValsAssumption DEF Syscall, Retire, SyscallResult
  <2> QED
    BY <1>6, <2>1 DEF Syscall, sched, mmu, phys, forking
<1>7. ASSUME NEW c \in Tasks, ForkBegin(c)
      PROVE  TypeOK'
  <2>1. PICK n \in ForkFrames : RequestKernelPages(n)
    BY <1>7 DEF ForkBegin
  <2>2. Lowest(n) \subseteq free
    BY DEF Lowest
  <2>3. /\ free' \subseteq Frames /\ tables' \subseteq Frames \ free'
        /\ exhausted' \in BOOLEAN
    BY <2>1, <2>2 DEF RequestKernelPages, Pool!RequestPages
  <2>4. /\ ctx' \in [Tasks -> [rax : Vals, insn : Program]]
        /\ vmap' \in [Tasks -> [Pages -> Entry]]
    BY <1>7 DEF ForkBegin
  <2>5. c # None /\ c \notin tasks /\ 0 \in 0 .. NPages
    BY <1>7, TaskAssumption, PageAssumption DEF ForkBegin
  <2> QED
    BY <1>7, <2>3, <2>4, <2>5 DEF ForkBegin
<1>8. CASE FlushPage
  <2>1. tlb' \in [Pages -> Entry]
    BY <1>8, AbsentType, PageAssumption DEF FlushPage, Flushed
  <2> QED
    BY <1>8, <2>1 DEF FlushPage, sched, phys
<1>9. CASE ClearWritable
  <2>1. Target \in Tasks /\ pos \in Pages
    BY <1>9, PageAssumption DEF ClearWritable, Target
  <2>2. ReadOnly(vmap[Target][pos]) \in Entry
    BY <2>1, EntriesType, EntryType
  <2>3. vmap' \in [Tasks -> [Pages -> Entry]]
    BY <1>9, <2>1, <2>2 DEF ClearWritable
  <2>4. pos' \in 0 .. NPages
    BY <1>9, PageAssumption DEF ClearWritable
  <2> QED
    BY <1>9, <2>3, <2>4 DEF ClearWritable, sched, phys
<1>10. CASE MakeChildReadonly
  <2>1. stage # "clear" /\ 0 \in 0 .. NPages
    BY <1>10, PageAssumption DEF MakeChildReadonly
  <2> QED
    BY <1>10, <2>1 DEF MakeChildReadonly, sched, mmu, phys
<1>11. CASE ForkEnd
  <2>1. child \in Tasks /\ 2 \in Vals /\ 0 \in Vals /\ 0 \in 0 .. NPages
    BY <1>11, ValsAssumption, PageAssumption DEF ForkEnd
  <2>2. /\ cpu' \in [rax : Vals, insn : Program]
        /\ ctx' \in [Tasks -> [rax : Vals, insn : Program]]
    BY <1>11, <2>1 DEF ForkEnd, Retire
  <2>3. /\ next_task' \in [Tasks -> Tasks \cup {None}]
        /\ \A t \in tasks' : next_task'[t] \in tasks'
    <3>1. /\ next_task' = RingInsert(child)
          /\ tasks' = tasks \cup {child}
          /\ current \in Tasks /\ current # child
      BY <1>11 DEF ForkEnd
    <3>2. RingInsert(child) \in [Tasks -> Tasks \cup {None}]
      BY <2>1, <3>1 DEF RingInsert
    <3>3. /\ RingInsert(child)[current] = child
          /\ RingInsert(child)[child] = next_task[current]
          /\ \A t \in tasks \ {current} : RingInsert(child)[t] = next_task[t]
      BY <2>1, <3>1 DEF RingInsert
    <3> QED
      BY <3>1, <3>2, <3>3
  <2>4. stage # "clear" /\ None \notin Tasks
    BY <1>11, TaskAssumption DEF ForkEnd
  <2> QED
    BY <1>11, <2>1, <2>2, <2>3, <2>4 DEF ForkEnd, mmu, phys
<1>12. ASSUME NEW d \in 1 .. MaxDus, Tick(d)
       PROVE  TypeOK'
  <2>1. Elapse(d) \in [Tasks -> Unset .. Quantum]
    BY TimeAssumption DEF Elapse, Unset
  <2>2. next_task[current] \in tasks /\ next_task[current] \in Tasks
    OBVIOUS
  <2>3. left' \in [Tasks -> Unset .. Quantum]
    <3>1. Quantum \in Unset .. Quantum
      BY TimeAssumption DEF Unset
    <3>2. NewDeadline(d) \in [Tasks -> Unset .. Quantum]
      BY <2>1, <2>2, <3>1 DEF NewDeadline
    <3> QED
      BY <1>12, <2>1, <3>2 DEF Tick, SwitchToTask
  <2>4. SavedContext \in [Tasks -> [rax : Vals, insn : Program]]
    BY DEF SavedContext
  <2>5. /\ ctx' \in [Tasks -> [rax : Vals, insn : Program]]
        /\ cpu' \in [rax : Vals, insn : Program]
        /\ current' \in tasks
        /\ tlb' \in [Pages -> Entry]
    BY <1>12, <2>2, <2>4, AbsentType DEF Tick, SwitchToTask
  <2> QED
    BY <1>12, <2>3, <2>5 DEF Tick, SwitchToTask, phys, forking
<1>13. ASSUME NEW p \in Pages, TlbFill(p) \/ TlbEvict(p)
       PROVE  TypeOK'
  <2>1. tlb' \in [Pages -> Entry]
    BY <1>13, EntriesType, AbsentType DEF TlbFill, TlbEvict
  <2> QED
    BY <1>13, <2>1 DEF TlbFill, TlbEvict, sched, phys, forking
<1>14. CASE UNCHANGED vars
  BY <1>14 DEF vars, sched, mmu, phys, forking
<1> QED
  BY <1>1, <1>2, <1>3, <1>4, <1>5, <1>6, <1>7, <1>8, <1>9, <1>10, <1>11,
     <1>12, <1>13, <1>14
  DEF Next, UserStep, ForkStep, TimerStep, TlbStep

(* Every variable keeps its type; the running task and its successors exist. *)
THEOREM TypeOKHolds == Spec => []TypeOK
  BY TypeInit, TypeNext, PTL DEF Spec

-----------------------------------------------------------------------------
(* Sharing: copy-on-write and the TLB *)

LEMMA SharingInit == Init => SharingInv
<1> SUFFICES ASSUME Init
             PROVE  SharingInv
  OBVIOUS
<1>1. PICK map \in [Image -> Frames] :
        /\ \A p, q \in Image : p < q => map[p] < map[q]
        /\ vmap = [t \in Tasks |-> [p \in Pages |->
                     IF t = InitTask /\ p \in Image
                       THEN Mapping(map[p], {"W"}) ELSE Absent]]
        /\ free = Frames \ {map[p] : p \in Image}
  BY DEF Init
<1>2. /\ mode = "user" /\ tables = {} /\ tasks = {InitTask}
      /\ tlb = [p \in Pages |-> Absent]
  BY DEF Init
<1>3. ASSUME NEW t \in Tasks, NEW p \in Pages, Present(vmap[t][p])
      PROVE  t = InitTask /\ p \in Image /\ vmap[t][p].frame = map[p]
  BY <1>1, <1>3, AbsentType DEF Mapping
<1>4. MappedFramesHeld
  BY <1>1, <1>2, <1>3 DEF MappedFramesHeld
<1>5. ForkProgress
  BY <1>2 DEF ForkProgress
<1>6. TlbBounded
  BY <1>2, AbsentType DEF TlbBounded
<1>7. ASSUME NEW p \in Image, NEW q \in Image, map[p] = map[q]
      PROVE  p = q
  <2>1. map[p] \in Nat /\ map[q] \in Nat /\ p \in Int /\ q \in Int
    <3>1. map[p] \in Frames /\ map[q] \in Frames
      BY <1>1
    <3>2. p \in Pages /\ q \in Pages
      BY PageAssumption
    <3>3. map[p] \in Nat /\ map[q] \in Nat
      BY <3>1, FrameAssumption
    <3>4. p \in Int /\ q \in Int
      BY <3>2
    <3> QED
      BY <3>3, <3>4
  <2>2. ~ (p < q) /\ ~ (q < p)
    BY <1>1, <1>7, <2>1
  <2> QED
    BY <2>1, <2>2
<1>8. WritableFramesPrivate
  <2> SUFFICES ASSUME NEW t \in tasks, NEW u \in tasks,
                      NEW p \in Pages, NEW q \in Pages,
                      Writable(vmap[t][p]), Present(vmap[u][q]),
                      vmap[t][p].frame = vmap[u][q].frame
               PROVE  t = u /\ p = q
    BY DEF WritableFramesPrivate
  <2>1. t = InitTask /\ u = InitTask /\ InitTask \in Tasks
    BY <1>2, TaskAssumption
  <2>2. Present(vmap[t][p])
    BY DEF Writable, Present
  <2>3. /\ p \in Image /\ vmap[t][p].frame = map[p]
        /\ q \in Image /\ vmap[u][q].frame = map[q]
    BY <1>3, <2>1, <2>2
  <2> QED
    BY <1>7, <2>1, <2>3
<1> QED
  BY <1>4, <1>5, <1>6, <1>8 DEF SharingInv

(* A step that changes none of these variables keeps the invariant.         *)
LEMMA SharingUnchanged ==
  ASSUME SharingInv,
         UNCHANGED <<tasks, current, vmap, tlb, free, tables, exhausted>>,
         UNCHANGED <<mode, child, pos, stage>>
  PROVE  SharingInv'
  BY DEF SharingInv, MappedFramesHeld, ForkProgress, TlbBounded,
         StaleAllowed, WritableFramesPrivate

LEMMA CopyOnWriteSharing ==
  ASSUME TypeOK, SharingInv, NEW p \in Pages, CopyOnWrite(p)
  PROVE  SharingInv'
<1>1. PICK f \in Frames \cup {Null} :
        /\ RequestPage(f)
        /\ vmap' = [vmap EXCEPT ![current][p] = CowEntry(vmap[current][p], f)]
  BY DEF CopyOnWrite
<1>2. /\ tlb' = Flushed(p) /\ mode = "user"
      /\ UNCHANGED <<tasks, current, tables, mode, child, pos, stage>>
  BY DEF CopyOnWrite, Faults, Executing, sched, forking
<1>3. /\ current \in Tasks /\ current \in tasks /\ tasks \subseteq Tasks
      /\ vmap \in [Tasks -> [Pages -> Entry]] /\ tlb \in [Pages -> Entry]
      /\ tables \subseteq Frames \ free
  BY EntriesType DEF TypeOK
<1> DEFINE e == CowEntry(vmap[current][p], f)
<1>4. e.frame = f /\ Writable(e) /\ Present(e)
  <2>1. vmap[current][p] \in Entry
    BY EntriesType
  <2>2. e.frame = f /\ Writable(e)
    BY <2>1, CowEntryType
  <2> HIDE DEF e
  <2> QED
    BY <2>2 DEF Writable, Present
<1> HIDE DEF e
<1>5. /\ vmap'[current][p] = e
      /\ \A t \in Tasks, q \in Pages :
           t # current \/ q # p => vmap'[t][q] = vmap[t][q]
  BY <1>1, <1>3 DEF e
<1>6. ASSUME ~ exhausted'
      PROVE  ~ exhausted /\ f \in free /\ free' = free \ {f}
  BY <1>1, <1>6 DEF RequestPage, Pool!RequestPages, Lowest
<1>7. MappedFramesHeld'
  <2> SUFFICES ASSUME ~ exhausted',
                      NEW t \in Tasks, NEW q \in Pages, Present(vmap'[t][q])
               PROVE  /\ vmap'[t][q].frame \in Frames \ free'
                      /\ vmap'[t][q].frame \notin tables'
    BY DEF MappedFramesHeld, Present
  <2>1. f \in free /\ free \subseteq Frames /\ free' = free \ {f}
        /\ tables' = tables
    BY <1>2, <1>6 DEF TypeOK
  <2>2. CASE t = current /\ q = p
    BY <2>1, <2>2, <1>3, <1>4, <1>5
  <2>3. CASE t # current \/ q # p
    BY <2>1, <2>3, <1>5, <1>6 DEF SharingInv, MappedFramesHeld
  <2> QED
    BY <2>2, <2>3
<1>8. ForkProgress'
  BY <1>2 DEF ForkProgress
<1>9. TlbBounded'
  <2> SUFFICES ASSUME NEW q \in Pages, Present(tlb'[q])
               PROVE  /\ Present(vmap'[current][q])
                      /\ tlb'[q].frame = vmap'[current][q].frame
                      /\ Writable(tlb'[q]) => Writable(vmap'[current][q])
    BY <1>2 DEF TlbBounded, Present, Writable
  <2>1. q # p
    BY <1>2, <1>3, AbsentType DEF Flushed
  <2>2. tlb'[q] = tlb[q] /\ vmap'[current][q] = vmap[current][q]
    BY <1>2, <1>3, <1>5, <2>1 DEF Flushed
  <2>3. ~ StaleAllowed(q)
    BY <1>2 DEF StaleAllowed
  <2> QED
    BY <2>2, <2>3 DEF SharingInv, TlbBounded
<1>10. WritableFramesPrivate'
  <2> SUFFICES ASSUME ~ exhausted',
                      NEW t \in tasks, NEW u \in tasks,
                      NEW q \in Pages, NEW r \in Pages,
                      Writable(vmap'[t][q]), Present(vmap'[u][r]),
                      vmap'[t][q].frame = vmap'[u][r].frame
               PROVE  t = u /\ q = r
    BY <1>2 DEF WritableFramesPrivate, Writable, Present
  <2>1. t \in Tasks /\ u \in Tasks
    BY <1>3
  <2>2. ASSUME NEW w \in Tasks, NEW s \in Pages, Present(vmap[w][s])
        PROVE  vmap[w][s].frame # f
    BY <1>6, <2>2 DEF SharingInv, MappedFramesHeld
  <2>3. Present(vmap'[t][q])
    BY DEF Writable, Present
  <2>4. CASE t = current /\ q = p
    BY <1>4, <1>5, <2>1, <2>2, <2>4
  <2>5. CASE u = current /\ r = p
    BY <1>4, <1>5, <2>1, <2>2, <2>3, <2>5
  <2>6. CASE (t # current \/ q # p) /\ (u # current \/ r # p)
    BY <1>5, <1>6, <2>1, <2>6 DEF SharingInv, WritableFramesPrivate
  <2> QED
    BY <2>4, <2>5, <2>6
<1> QED
  BY <1>7, <1>8, <1>9, <1>10 DEF SharingInv

LEMMA ForkBeginSharing ==
  ASSUME TypeOK, SharingInv, NEW c \in Tasks, ForkBegin(c)
  PROVE  SharingInv'
<1>1. /\ mode = "user" /\ mode' = "parent" /\ child' = c /\ pos' = 0
      /\ c \notin tasks
      /\ vmap' = [vmap EXCEPT ![c] = vmap[current]]
      /\ UNCHANGED <<tasks, current, tlb>>
  BY DEF ForkBegin, Executing
<1>2. /\ current \in Tasks /\ current \in tasks /\ current # c
      /\ vmap \in [Tasks -> [Pages -> Entry]] /\ tasks \subseteq Tasks
      /\ free \subseteq Frames /\ NPages \in Nat
  BY <1>1, PageAssumption DEF TypeOK
<1>3. /\ vmap'[c] = vmap[current]
      /\ \A t \in Tasks \ {c} : vmap'[t] = vmap[t]
  BY <1>1, <1>2
<1>4. PICK n \in ForkFrames : RequestKernelPages(n)
  BY DEF ForkBegin
<1>5. /\ free' = free \ Lowest(n) /\ tables' = tables \cup Lowest(n)
      /\ Lowest(n) \subseteq free
      /\ ~ exhausted' => ~ exhausted
  BY <1>4 DEF RequestKernelPages, Pool!RequestPages, Lowest
<1>6. MappedFramesHeld'
  <2> SUFFICES ASSUME ~ exhausted',
                      NEW t \in Tasks, NEW p \in Pages, Present(vmap'[t][p])
               PROVE  /\ vmap'[t][p].frame \in Frames \ free'
                      /\ vmap'[t][p].frame \notin tables'
    BY DEF MappedFramesHeld, Present
  <2>1. PICK u \in Tasks : vmap'[t][p] = vmap[u][p]
    BY <1>2, <1>3
  <2> QED
    BY <2>1, <1>5 DEF SharingInv, MappedFramesHeld
<1>7. ForkProgress'
  BY <1>1, <1>2, <1>3 DEF ForkProgress, Present
<1>8. TlbBounded'
  BY <1>1, <1>2, <1>3 DEF SharingInv, TlbBounded, StaleAllowed, Present, Writable
<1>9. WritableFramesPrivate'
  <2>1. \A t \in tasks : vmap'[t] = vmap[t]
    BY <1>1, <1>2, <1>3
  <2> QED
    BY <2>1, <1>1, <1>5
    DEF SharingInv, WritableFramesPrivate, Present, Writable
<1> QED
  BY <1>6, <1>7, <1>8, <1>9 DEF SharingInv

LEMMA FlushPageSharing ==
  ASSUME TypeOK, SharingInv, FlushPage
  PROVE  SharingInv'
<1>1. /\ tlb' = [tlb EXCEPT ![pos] = Absent] /\ stage' = "clear"
      /\ UNCHANGED <<tasks, current, vmap, free, tables, exhausted>>
      /\ UNCHANGED <<mode, child, pos>>
      /\ pos \in Pages /\ stage = "flush"
  BY PageAssumption DEF FlushPage, Flushed, sched, phys, TypeOK
<1>2. tlb \in [Pages -> Entry]
  BY DEF TypeOK
<1>3. TlbBounded'
  <2> SUFFICES ASSUME NEW p \in Pages, Present(tlb'[p])
               PROVE  /\ Present(vmap[current][p])
                      /\ tlb'[p].frame = vmap[current][p].frame
                      /\ Writable(tlb'[p]) =>
                           Writable(vmap[current][p]) \/ StaleAllowed(p)'
    BY <1>1 DEF TlbBounded, Present, Writable
  <2>1. p # pos
    BY <1>1, <1>2, AbsentType
  <2>2. tlb'[p] = tlb[p]
    BY <1>1, <1>2, <2>1
  <2>3. StaleAllowed(p) => StaleAllowed(p)'
    BY <1>1, <2>1 DEF StaleAllowed
  <2> QED
    BY <2>2, <2>3 DEF SharingInv, TlbBounded
<1> QED
  BY <1>1, <1>3
  DEF SharingInv, MappedFramesHeld, ForkProgress, WritableFramesPrivate

LEMMA ClearWritableSharing ==
  ASSUME TypeOK, SharingInv, ClearWritable
  PROVE  SharingInv'
<1> DEFINE e == ReadOnly(vmap[Target][pos])
<1>1. /\ vmap' = [vmap EXCEPT ![Target][pos] = e]
      /\ pos' = pos + 1 /\ stage = "clear" /\ stage' = "flush"
      /\ mode \in {"parent", "child"}
      /\ UNCHANGED <<tasks, current, tlb, free, tables, exhausted>>
      /\ UNCHANGED <<mode, child>>
  BY DEF ClearWritable, sched, phys
<1>2. /\ vmap \in [Tasks -> [Pages -> Entry]] /\ tlb \in [Pages -> Entry]
      /\ current \in Tasks /\ current \in tasks /\ tasks \subseteq Tasks
      /\ child \in Tasks /\ child \notin tasks /\ Target \in Tasks
      /\ pos \in Pages /\ pos \in Int
  BY <1>1, PageAssumption DEF TypeOK, Target
<1>3. vmap[Target][pos] \in Entry
  BY <1>2
<1>4. /\ e.frame = vmap[Target][pos].frame
      /\ e.flags = vmap[Target][pos].flags \ {"W"}
  BY <1>3, EntryType
<1> HIDE DEF e
<1>5. /\ vmap'[Target][pos] = e
      /\ \A t \in Tasks, p \in Pages :
           t # Target \/ p # pos => vmap'[t][p] = vmap[t][p]
  BY <1>1, <1>2
(* Only PAGING_WRITABLE of one entry changes. *)
<1>6. \A t \in Tasks, p \in Pages :
        /\ vmap'[t][p].frame = vmap[t][p].frame
        /\ Present(vmap'[t][p]) <=> Present(vmap[t][p])
        /\ vmap'[t][p].flags \subseteq vmap[t][p].flags
  BY <1>4, <1>5 DEF Present
<1>7. \A t \in Tasks, p \in Pages :
        Writable(vmap'[t][p]) => Writable(vmap[t][p])
  BY <1>6 DEF Writable
<1>8. MappedFramesHeld'
  BY <1>1, <1>6 DEF SharingInv, MappedFramesHeld, Present
<1>9. ForkProgress'
  <2>1. \A p \in Pages : /\ vmap'[child][p].frame = vmap'[current][p].frame
                         /\ Present(vmap'[child][p]) <=> Present(vmap'[current][p])
    BY <1>1, <1>2, <1>6 DEF SharingInv, ForkProgress
  <2>2. "W" \notin vmap'[Target][pos].flags
    BY <1>4, <1>5
  <2>3. ASSUME mode = "parent", NEW p \in Pages, p < pos + 1
        PROVE  "W" \notin vmap'[current][p].flags
    <3>1. CASE p = pos
      BY <2>2, <2>3, <3>1 DEF Target
    <3>2. CASE p < pos
      BY <1>2, <1>6, <2>3, <3>2 DEF SharingInv, ForkProgress
    <3> QED
      BY <1>2, <2>3, <3>1, <3>2
  <2>4. ASSUME mode = "child", NEW p \in Pages
        PROVE  "W" \notin vmap'[current][p].flags
    BY <1>2, <1>6, <2>4 DEF SharingInv, ForkProgress
  <2>5. ASSUME mode = "child", NEW p \in Pages, p < pos + 1
        PROVE  "W" \notin vmap'[child][p].flags
    <3>1. CASE p = pos
      BY <2>2, <2>5, <3>1 DEF Target
    <3>2. CASE p < pos
      BY <1>2, <1>6, <2>5, <3>2 DEF SharingInv, ForkProgress
    <3> QED
      BY <1>2, <2>5, <3>1, <3>2
  <2> QED
    BY <1>1, <2>1, <2>3, <2>4, <2>5 DEF ForkProgress, Present
<1>10. TlbBounded'
  <2> SUFFICES ASSUME NEW p \in Pages, Present(tlb[p])
               PROVE  /\ Present(vmap'[current][p])
                      /\ tlb[p].frame = vmap'[current][p].frame
                      /\ Writable(tlb[p]) =>
                           Writable(vmap'[current][p]) \/ StaleAllowed(p)'
    BY <1>1 DEF TlbBounded, Present, Writable
  <2>1. /\ Present(vmap[current][p])
        /\ tlb[p].frame = vmap[current][p].frame
        /\ Writable(tlb[p]) => Writable(vmap[current][p]) \/ StaleAllowed(p)
    BY DEF SharingInv, TlbBounded
  <2>2. CASE mode = "parent"
    BY <1>1, <1>2, <1>6, <2>1, <2>2 DEF StaleAllowed
  <2>3. CASE mode = "child"
    <3>1. vmap'[current][p] = vmap[current][p]
      BY <1>2, <1>5, <2>3 DEF Target
    <3>2. StaleAllowed(p) => StaleAllowed(p)'
      <4>1. p \in Int
        OBVIOUS
      <4> QED
        BY <1>1, <1>2, <2>3, <4>1 DEF StaleAllowed
    <3> QED
      BY <2>1, <3>1, <3>2
  <2> QED
    BY <1>1, <2>2, <2>3
<1>11. WritableFramesPrivate'
  BY <1>1, <1>2, <1>6, <1>7
  DEF SharingInv, WritableFramesPrivate, Present, Writable
<1> QED
  BY <1>8, <1>9, <1>10, <1>11 DEF SharingInv

LEMMA MakeChildReadonlySharing ==
  ASSUME TypeOK, SharingInv, MakeChildReadonly
  PROVE  SharingInv'
<1>1. /\ mode = "parent" /\ pos = NPages /\ mode' = "child" /\ pos' = 0
      /\ UNCHANGED <<tasks, current, vmap, tlb, free, tables, exhausted>>
      /\ UNCHANGED <<child, stage>>
  BY DEF MakeChildReadonly, sched, mmu, phys
<1>2. NPages \in Nat
  BY PageAssumption
<1>3. stage = "flush"
  BY <1>1, <1>2 DEF TypeOK
<1>4. ForkProgress'
  <2>1. \A p \in Pages : p < pos /\ ~ (p < 0)
    BY <1>1, <1>2
  <2> QED
    BY <1>1, <2>1 DEF SharingInv, ForkProgress
<1>5. TlbBounded'
  <2>1. \A p \in Pages : StaleAllowed(p)'
    BY <1>1, <1>2, <1>3 DEF StaleAllowed
  <2> QED
    BY <1>1, <2>1 DEF SharingInv, TlbBounded
<1> QED
  BY <1>1, <1>4, <1>5 DEF SharingInv, MappedFramesHeld, WritableFramesPrivate

LEMMA ForkEndSharing ==
  ASSUME TypeOK, SharingInv, ForkEnd
  PROVE  SharingInv'
<1>1. /\ mode = "child" /\ pos = NPages /\ mode' = "user"
      /\ tasks' = tasks \cup {child}
      /\ UNCHANGED <<current, vmap, tlb, free, tables, exhausted>>
  BY DEF ForkEnd, mmu, phys
<1>2. NPages \in Nat /\ current \in tasks /\ child \notin tasks
  BY PageAssumption DEF TypeOK
(* Neither side of the fork can write what both map.                        *)
<1>3. \A p \in Pages : /\ "W" \notin vmap[current][p].flags
                       /\ "W" \notin vmap[child][p].flags
                       /\ vmap[child][p].frame = vmap[current][p].frame
                       /\ Present(vmap[child][p]) <=> Present(vmap[current][p])
  BY <1>1, <1>2 DEF SharingInv, ForkProgress
<1>4. TlbBounded'
  <2>1. \A p \in Pages : ~ StaleAllowed(p)
    BY <1>1, <1>2 DEF StaleAllowed
  <2> QED
    BY <1>1, <2>1 DEF SharingInv, TlbBounded
<1>5. WritableFramesPrivate'
  <2> SUFFICES ASSUME ~ exhausted,
                      NEW t \in tasks \cup {child}, NEW u \in tasks \cup {child},
                      NEW p \in Pages, NEW q \in Pages,
                      Writable(vmap[t][p]), Present(vmap[u][q]),
                      vmap[t][p].frame = vmap[u][q].frame
               PROVE  t = u /\ p = q
    BY <1>1 DEF WritableFramesPrivate
  <2>1. t # child /\ t # current
    BY <1>3 DEF Writable
  <2>2. CASE u # child
    BY <2>1, <2>2 DEF SharingInv, WritableFramesPrivate
  <2>3. CASE u = child
    <3>1. /\ Present(vmap[current][q])
          /\ vmap[t][p].frame = vmap[current][q].frame
      BY <1>3, <2>3
    <3>2. t = current
      BY <1>2, <2>1, <3>1 DEF SharingInv, WritableFramesPrivate
    <3> QED
      BY <2>1, <3>2
  <2> QED
    BY <2>2, <2>3
<1> QED
  BY <1>1, <1>4, <1>5 DEF SharingInv, MappedFramesHeld, ForkProgress

LEMMA TickSharing ==
  ASSUME TypeOK, SharingInv, NEW d \in 1 .. MaxDus, Tick(d)
  PROVE  SharingInv'
<1>1. /\ mode = "user"
      /\ UNCHANGED <<tasks, vmap, free, tables, exhausted>>
      /\ UNCHANGED <<mode, child, pos, stage>>
  BY DEF Tick, SwitchToTask, phys, forking
<1>2. TlbBounded'
  <2>1. CASE UNCHANGED <<current, tlb>>
    BY <1>1, <2>1 DEF SharingInv, TlbBounded, StaleAllowed
  <2>2. CASE tlb' = [p \in Pages |-> Absent]
    BY <2>2, AbsentType DEF TlbBounded
  <2> QED
    BY <2>1, <2>2 DEF Tick, SwitchToTask
<1> QED
  BY <1>1, <1>2
  DEF SharingInv, MappedFramesHeld, ForkProgress, WritableFramesPrivate

LEMMA TlbSharing ==
  ASSUME TypeOK, SharingInv, NEW p \in Pages, TlbFill(p) \/ TlbEvict(p)
  PROVE  SharingInv'
<1>1. /\ UNCHANGED <<tasks, current, vmap, free, tables, exhausted>>
      /\ UNCHANGED <<mode, child, pos, stage>>
      /\ tlb' = [tlb EXCEPT ![p] = vmap[current][p]]
           \/ tlb' = [tlb EXCEPT ![p] = Absent]
  BY DEF TlbFill, TlbEvict, sched, phys, forking
<1>2. tlb \in [Pages -> Entry]
  BY DEF TypeOK
<1>3. TlbBounded'
  <2>1. \A q \in Pages : \/ tlb'[q] = tlb[q]
                         \/ tlb'[q] = vmap[current][q]
                         \/ ~ Present(tlb'[q])
    BY <1>1, <1>2, AbsentType
  <2> QED
    BY <1>1, <2>1 DEF SharingInv, TlbBounded, StaleAllowed
<1> QED
  BY <1>1, <1>3
  DEF SharingInv, MappedFramesHeld, ForkProgress, WritableFramesPrivate

LEMMA SharingNext ==
  ASSUME TypeOK, SharingInv, [Next]_vars
  PROVE  SharingInv'
<1>1. ASSUME NEW p \in Pages, Load(p) \/ Store(p)
      PROVE  SharingInv'
  BY <1>1, SharingUnchanged DEF Load, Store, sched, mmu, phys, forking
<1>2. ASSUME NEW p \in Pages, CopyOnWrite(p)
      PROVE  SharingInv'
  BY <1>2, CopyOnWriteSharing
<1>3. ASSUME NEW p \in Pages, FatalFault(p)
      PROVE  SharingInv'
  <2>1. /\ mode = "user" /\ mode' = "halted"
        /\ UNCHANGED <<tasks, current, vmap, tlb, free, tables, exhausted>>
        /\ UNCHANGED <<child, pos, stage>>
    BY <1>3 DEF FatalFault, Faults, Executing, sched, mmu, phys, forking
  <2> QED
    BY <2>1 DEF SharingInv, MappedFramesHeld, ForkProgress, TlbBounded,
                StaleAllowed, WritableFramesPrivate
<1>4. CASE Compute \/ Syscall
  BY <1>4, SharingUnchanged DEF Compute, Syscall, sched, mmu, phys, forking
<1>5. ASSUME NEW c \in Tasks, ForkBegin(c)
      PROVE  SharingInv'
  BY <1>5, ForkBeginSharing
<1>6. CASE ForkStep
  BY <1>6, FlushPageSharing, ClearWritableSharing, MakeChildReadonlySharing,
     ForkEndSharing DEF ForkStep
<1>7. CASE TimerStep
  BY <1>7, TickSharing DEF TimerStep
<1>8. CASE TlbStep
  BY <1>8, TlbSharing DEF TlbStep
<1>9. CASE UNCHANGED vars
  BY <1>9, SharingUnchanged DEF vars, sched, mmu, phys, forking
<1> QED
  BY <1>1, <1>2, <1>3, <1>4, <1>5, <1>6, <1>7, <1>8, <1>9 DEF Next, UserStep

THEOREM SharingInvHolds == Spec => []SharingInv
<1>1. Init => SharingInv
  BY SharingInit
<1>2. TypeOK /\ SharingInv /\ [Next]_vars => SharingInv'
  BY SharingNext
<1> QED
  BY <1>1, <1>2, TypeOKHolds, PTL DEF Spec

(* A frame one task may write is mapped nowhere else.                       *)
THEOREM WritableFramesPrivateHolds == Spec => []WritableFramesPrivate
<1>1. SharingInv => WritableFramesPrivate
  BY DEF SharingInv
<1> QED
  BY <1>1, SharingInvHolds, PTL

(* User code never runs with a translation the page tables do not grant.    *)
THEOREM TlbCoherentHolds == Spec => []TlbCoherent
<1>1. SharingInv => TlbCoherent
  BY DEF SharingInv, TlbBounded, StaleAllowed, TlbCoherent
<1> QED
  BY <1>1, SharingInvHolds, PTL

-----------------------------------------------------------------------------
(* The scheduler *)

LEMMA RingNext ==
  ASSUME TypeOK, RingIsAllTasks, [Next]_vars
  PROVE  RingIsAllTasks'
<1>1. CASE ForkEnd
  <2>1. /\ tasks' = tasks \cup {child} /\ child \notin tasks
        /\ current \in tasks
        /\ \A t \in tasks : next_task[t] \in tasks
    BY <1>1 DEF ForkEnd, TypeOK
  <2>2. /\ next_task'[current] = child
        /\ next_task'[child] = next_task[current]
        /\ \A t \in tasks \ {current} : next_task'[t] = next_task[t]
    BY <1>1 DEF ForkEnd, RingInsert, TypeOK
  <2> SUFFICES ASSUME NEW S \in SUBSET (tasks \cup {child}), S # {},
                      \A t \in S : next_task'[t] \in S
               PROVE  S = tasks \cup {child}
    BY <2>1 DEF RingIsAllTasks
  <2>3. S \ {child} # {}
    BY <2>1, <2>2
  <2>4. \A t \in S \ {child} : next_task[t] \in S \ {child}
    BY <2>1, <2>2
  <2>5. S \ {child} = tasks
    BY <2>3, <2>4 DEF RingIsAllTasks
  <2> QED
    BY <2>1, <2>2, <2>5
<1>2. CASE UNCHANGED <<tasks, next_task>>
  BY <1>2 DEF RingIsAllTasks
<1> QED
  BY <1>1, <1>2
  DEF Next, UserStep, ForkStep, TimerStep, TlbStep, vars, sched,
      Load, Store, Compute, Syscall, CopyOnWrite, FatalFault, ForkBegin,
      FlushPage, ClearWritable, MakeChildReadonly, Tick, SwitchToTask, TlbFill, TlbEvict

(* However forks nest, the ring links all tasks and the scheduler reaches   *)
(* every one of them.                                                       *)
THEOREM RingIsAllTasksHolds == Spec => []RingIsAllTasks
<1>1. Init => RingIsAllTasks
  BY DEF Init, RingIsAllTasks
<1>2. TypeOK /\ RingIsAllTasks /\ [Next]_vars => RingIsAllTasks'
  BY RingNext
<1> QED
  BY <1>1, <1>2, TypeOKHolds, PTL DEF Spec

(* The deadline the timer interrupt reads was written by a switch.          *)
THEOREM DeadlineSetHolds == Spec => []DeadlineSet
<1>1. Init => DeadlineSet
  BY TaskAssumption, TimeAssumption DEF Init, DeadlineSet, Unset
<1>2. ASSUME TypeOK, DeadlineSet, [Next]_vars
      PROVE  DeadlineSet'
  <2>1. ASSUME NEW d \in 1 .. MaxDus, Tick(d)
        PROVE  DeadlineSet'
    <3>1. /\ current \in Tasks /\ next_task[current] \in Tasks
          /\ left \in [Tasks -> Unset .. Quantum]
      BY <1>2 DEF TypeOK
    <3>2. Elapse(d)[current] # Unset
      BY <1>2, <3>1 DEF Elapse, DeadlineSet, Unset
    <3>3. NewDeadline(d)[next_task[current]] # Unset
      BY <3>1, TimeAssumption DEF NewDeadline, Elapse, Unset
    <3> QED
      BY <1>2, <2>1, <3>1, <3>2, <3>3 DEF Tick, SwitchToTask, DeadlineSet
  <2>2. CASE UNCHANGED <<current, left>>
    BY <1>2, <2>2 DEF DeadlineSet
  <2> QED
    BY <1>2, <2>1, <2>2
    DEF Next, UserStep, ForkStep, TimerStep, TlbStep, vars, sched,
        Load, Store, Compute, Syscall, CopyOnWrite, FatalFault, ForkBegin,
        FlushPage, ClearWritable, MakeChildReadonly, ForkEnd, TlbFill, TlbEvict
<1> QED
  BY <1>1, <1>2, TypeOKHolds, PTL DEF Spec

-----------------------------------------------------------------------------
(* The frames copy-on-write takes, counted: FrameBudget, for every number   *)
(* of tasks, pages and frames.  Each frame a fault still may take is        *)
(* charged to the entry that will fault, when fork makes it read-only; a    *)
(* copy moves the charge from the entries to the frames.                    *)

UserFrames == Frames \ (free \cup tables)

(* The tasks, with the one a fork is making.                                *)
Alive == tasks \cup (IF child = None THEN {} ELSE {child})

(* The entries a copy may still be made for: those that are not writable,   *)
(* and those of both sides of a fork that has not ended.                    *)
Cost ==
  {tp \in Alive \X Image :
     \/ ~ Writable(vmap[tp[1]][tp[2]])
     \/ child # None /\ tp[1] \in {current, child}}

(* Only pages of the image are ever mapped.                                 *)
ImageOnly ==
  \A t \in Tasks : \A p \in Pages : Present(vmap[t][p]) => p \in Image

(* A cached entry that is read-only is read-only in the tables, so a write  *)
(* fault is always at a read-only entry.                                    *)
TlbNotStricter ==
  \A p \in Pages :
    Present(tlb[p]) /\ Writable(vmap[current][p]) => Writable(tlb[p])

Charged ==
  /\ IsFiniteSet(tasks)
  /\ Cardinality(UserFrames) + Cardinality(Cost)
       <= Cardinality(Image) * (2 * Cardinality(Alive) - 1)

BudgetInv == ImageOnly /\ TlbNotStricter /\ Charged

-----------------------------------------------------------------------------
LEMMA ImageFinite == IsFiniteSet(Image) /\ Cardinality(Image) \in Nat
<1>1. IsFiniteSet(Pages)
  <2>1. 0 \in Int /\ NPages - 1 \in Int
    BY PageAssumption
  <2> QED
    BY <2>1, FS_Interval DEF Pages
<1>2. IsFiniteSet(Image)
  BY <1>1, PageAssumption, FS_Subset
<1> QED
  BY <1>2, FS_CardinalityType

(* All the sets that are counted are finite.                                *)
LEMMA CountsType ==
  ASSUME IsFiniteSet(tasks)
  PROVE  /\ IsFiniteSet(UserFrames) /\ Cardinality(UserFrames) \in Nat
         /\ IsFiniteSet(Cost) /\ Cardinality(Cost) \in Nat
         /\ IsFiniteSet(Alive) /\ Cardinality(Alive) \in Nat
         /\ Cardinality(tasks) \in Nat
<1>1. IsFiniteSet(UserFrames)
  BY FrameAssumption, FS_Difference DEF UserFrames
<1>2. IsFiniteSet(Alive)
  BY FS_AddElement DEF Alive
<1>3. IsFiniteSet(Alive \X Image)
  BY <1>2, ImageFinite, FS_Product
<1>4. IsFiniteSet(Cost)
  BY <1>3, FS_Subset DEF Cost
<1> QED
  BY <1>1, <1>2, <1>4, FS_CardinalityType

(* The arithmetic of a fork: one task more is two copies more per page.     *)
LEMMA OneMoreTask ==
  ASSUME NEW i \in Nat, NEW a \in Nat
  PROVE  i * (2 * (a + 1) - 1) = i * (2 * a - 1) + 2 * i
<1>1. 2 * (a + 1) - 1 = (2 * a - 1) + 2
  OBVIOUS
<1>2. \A b \in Int : i * (b + 2) = i * b + 2 * i
  OBVIOUS
<1> QED
  BY <1>1, <1>2

-----------------------------------------------------------------------------
(* A step that uses no frame and charges nothing new.                       *)
LEMMA NothingCharged ==
  ASSUME Charged, IsFiniteSet(tasks'),
         UserFrames' = UserFrames, Alive' = Alive, Cost' \subseteq Cost
  PROVE  Charged'
<1>1. Cardinality(Cost') <= Cardinality(Cost) /\ Cardinality(Cost') \in Nat
  <2>1. IsFiniteSet(Cost)
    BY CountsType DEF Charged
  <2> QED
    BY <2>1, FS_Subset, FS_CardinalityType
<1>2. /\ Cardinality(UserFrames) \in Nat /\ Cardinality(Cost) \in Nat
      /\ Cardinality(Image) * (2 * Cardinality(Alive) - 1) \in Int
  BY CountsType, ImageFinite DEF Charged
<1>3. Cardinality(UserFrames) + Cardinality(Cost)
        <= Cardinality(Image) * (2 * Cardinality(Alive) - 1)
  BY DEF Charged
<1>4. Cardinality(UserFrames) + Cardinality(Cost')
        <= Cardinality(Image) * (2 * Cardinality(Alive) - 1)
  BY <1>1, <1>2, <1>3
<1> QED
  BY <1>4 DEF Charged

LEMMA BudgetUnchanged ==
  ASSUME BudgetInv,
         UNCHANGED <<tasks, current, vmap, tlb, free, tables, child>>
  PROVE  BudgetInv'
<1>1. UserFrames' = UserFrames /\ Alive' = Alive /\ Cost' = Cost
  BY DEF UserFrames, Alive, Cost
<1>2. Charged'
  BY <1>1, NothingCharged DEF BudgetInv, Charged
<1> QED
  BY <1>2 DEF BudgetInv, ImageOnly, TlbNotStricter

LEMMA BudgetInit == Init => BudgetInv
<1> SUFFICES ASSUME Init
             PROVE  BudgetInv
  OBVIOUS
<1>1. PICK map \in [Image -> Frames] :
        /\ vmap = [t \in Tasks |-> [p \in Pages |->
                     IF t = InitTask /\ p \in Image
                       THEN Mapping(map[p], {"W"}) ELSE Absent]]
        /\ free = Frames \ {map[p] : p \in Image}
  BY DEF Init
<1>2. /\ tables = {} /\ tasks = {InitTask} /\ child = None
      /\ tlb = [p \in Pages |-> Absent] /\ InitTask \in Tasks
  BY TaskAssumption DEF Init
<1>3. ImageOnly
  BY <1>1, AbsentType DEF ImageOnly
<1>4. TlbNotStricter
  BY <1>2, AbsentType DEF TlbNotStricter
<1>5. Cardinality(UserFrames) <= Cardinality(Image)
  <2>1. UserFrames = {map[p] : p \in Image}
    BY <1>1, <1>2 DEF UserFrames
  <2>2. map \in Surjection(Image, UserFrames)
    BY <2>1 DEF Surjection
  <2> QED
    BY <2>2, ImageFinite, FS_Surjection
<1>6. Cost = {} /\ Cardinality(Cost) = 0
  <2>1. \A p \in Image : Writable(vmap[InitTask][p])
    BY <1>1, <1>2, PageAssumption DEF Mapping, Writable
  <2>2. Cost = {}
    BY <1>2, <2>1 DEF Cost, Alive
  <2> QED
    BY <2>2, FS_EmptySet
<1>7. Cardinality(Alive) = 1 /\ IsFiniteSet(tasks)
  BY <1>2, FS_Singleton DEF Alive
<1>8. Charged
  <2>1. Cardinality(UserFrames) \in Nat /\ Cardinality(Image) \in Nat
    BY <1>7, CountsType, ImageFinite
  <2>2. Cardinality(Image) * (2 * Cardinality(Alive) - 1) = Cardinality(Image)
    BY <1>7, <2>1
  <2>3. Cardinality(UserFrames) + Cardinality(Cost) <= Cardinality(Image)
    BY <1>5, <1>6, <2>1
  <2> QED
    BY <1>7, <2>2, <2>3 DEF Charged
<1> QED
  BY <1>3, <1>4, <1>8 DEF BudgetInv

(* A copy takes at most one frame, and pays for it with the charge of the   *)
(* entry that faulted, which is writable afterwards.                        *)
LEMMA CopyOnWriteBudget ==
  ASSUME TypeOK, BudgetInv, NEW p \in Pages, CopyOnWrite(p)
  PROVE  BudgetInv'
<1>1. PICK f \in Frames \cup {Null} :
        /\ RequestPage(f)
        /\ vmap' = [vmap EXCEPT ![current][p] = CowEntry(vmap[current][p], f)]
  BY DEF CopyOnWrite
<1>2. /\ tlb' = [tlb EXCEPT ![p] = Absent] /\ mode = "user"
      /\ UNCHANGED <<tasks, current, tables, child>>
      /\ Present(vmap[current][p])
  BY DEF CopyOnWrite, Faults, Executing, Flushed, sched, forking
<1>3. /\ current \in Tasks /\ current \in tasks /\ child = None
      /\ vmap \in [Tasks -> [Pages -> Entry]] /\ tlb \in [Pages -> Entry]
      /\ tasks \subseteq Tasks
  BY <1>2, EntriesType DEF TypeOK
<1>4. p \in Image /\ ~ Writable(vmap[current][p])
  <2>1. p \in Image
    BY <1>2, <1>3 DEF BudgetInv, ImageOnly
  <2>2. Present(Translate(p))
    BY <1>2 DEF Translate
  <2>3. ~ Present(Translate(p)) \/ ~ Writable(Translate(p))
    <3>1. Faults(p)
      BY DEF CopyOnWrite
    <3> QED
      BY <3>1 DEF Faults
  <2>4. Present(tlb[p]) /\ Writable(vmap[current][p]) => Writable(tlb[p])
    BY DEF BudgetInv, TlbNotStricter
  <2>5. ~ Writable(vmap[current][p])
    BY <2>2, <2>3, <2>4 DEF Translate
  <2> QED
    BY <2>1, <2>5
<1>5. /\ Writable(vmap'[current][p])
      /\ \A t \in Tasks, q \in Pages :
           t # current \/ q # p => vmap'[t][q] = vmap[t][q]
  <2>1. Writable(CowEntry(vmap[current][p], f))
    <3>1. vmap[current][p] \in Entry
      BY <1>3
    <3> QED BY <3>1, CowEntryType
  <2>2. /\ vmap'[current][p] = CowEntry(vmap[current][p], f)
        /\ \A t \in Tasks, q \in Pages :
             t # current \/ q # p => vmap'[t][q] = vmap[t][q]
    <3>1. vmap' = [vmap EXCEPT ![current][p] = CowEntry(vmap[current][p], f)]
      BY <1>1
    <3>2. vmap \in [Tasks -> [Pages -> Entry]] /\ current \in Tasks
      BY <1>3
    <3> QED BY <3>1, <3>2
  <2> QED
    BY <2>1, <2>2
<1>6. ImageOnly'
  BY <1>3, <1>4, <1>5 DEF BudgetInv, ImageOnly, Present
<1>7. TlbNotStricter'
  <2>1. \A q \in Pages : q # p => tlb'[q] = tlb[q] /\ vmap'[current][q] = vmap[current][q]
    BY <1>2, <1>3, <1>5
  <2>2. ~ Present(tlb'[p])
    BY <1>2, <1>3, AbsentType
  <2> QED
    BY <1>2, <2>1, <2>2 DEF BudgetInv, TlbNotStricter, Present, Writable
<1>8. IsFiniteSet(tasks)
  BY DEF BudgetInv, Charged
<1>9. Cardinality(Cost') <= Cardinality(Cost) - 1 /\ Cardinality(Cost') \in Nat
  <2>1. <<current, p>> \in Cost
    BY <1>3, <1>4 DEF Cost, Alive
  <2>2. Cost' \subseteq Cost \ {<<current, p>>}
    <3> SUFFICES ASSUME NEW tp \in Cost'
                 PROVE  tp \in Cost /\ tp # <<current, p>>
      OBVIOUS
    <3>1. /\ tp \in tasks \X Image /\ ~ Writable(vmap'[tp[1]][tp[2]])
      BY <1>2, <1>3 DEF Cost, Alive
    <3>2. /\ tp = <<tp[1], tp[2]>> /\ tp[1] \in tasks /\ tp[2] \in Image
          /\ tp[1] \in Tasks /\ tp[2] \in Pages
      <4>1. tp = <<tp[1], tp[2]>> /\ tp[1] \in tasks /\ tp[2] \in Image
        BY <3>1
      <4>2. tasks \subseteq Tasks /\ Image \subseteq Pages
        BY <1>3, PageAssumption
      <4> QED
        BY <4>1, <4>2
    <3>3. tp # <<current, p>>
      BY <1>5, <3>1
    <3>4. ~ Writable(vmap[tp[1]][tp[2]])
      BY <1>5, <3>1, <3>2, <3>3 DEF Writable
    <3> QED
      BY <1>3, <3>1, <3>3, <3>4 DEF Cost, Alive
  <2>3. /\ IsFiniteSet(Cost \ {<<current, p>>})
        /\ Cardinality(Cost \ {<<current, p>>}) = Cardinality(Cost) - 1
    BY <1>8, <2>1, CountsType, FS_RemoveElement
  <2> QED
    BY <2>2, <2>3, FS_Subset, FS_CardinalityType
<1>10. /\ Cardinality(UserFrames') <= Cardinality(UserFrames) + 1
       /\ Cardinality(UserFrames') \in Nat
  <2>1. UserFrames' \subseteq UserFrames \cup {f}
    BY <1>1, <1>2 DEF RequestPage, Pool!RequestPages, UserFrames
  <2>2. /\ IsFiniteSet(UserFrames \cup {f})
        /\ Cardinality(UserFrames \cup {f}) <= Cardinality(UserFrames) + 1
        /\ Cardinality(UserFrames \cup {f}) \in Nat
    <3>1. IsFiniteSet(UserFrames) /\ Cardinality(UserFrames) \in Nat
      BY <1>8, CountsType
    <3>2. /\ IsFiniteSet(UserFrames \cup {f})
          /\ Cardinality(UserFrames \cup {f}) =
               IF f \in UserFrames THEN Cardinality(UserFrames)
                                   ELSE Cardinality(UserFrames) + 1
      BY <3>1, FS_AddElement
    <3> QED
      BY <3>1, <3>2
  <2>3. /\ Cardinality(UserFrames') <= Cardinality(UserFrames \cup {f})
        /\ Cardinality(UserFrames') \in Nat
    BY <2>1, <2>2, FS_Subset, FS_CardinalityType
  <2> QED
    BY <1>8, <2>2, <2>3, CountsType
<1>11. Charged'
  <2>1. /\ Cardinality(UserFrames) \in Nat /\ Cardinality(Cost) \in Nat
        /\ Cardinality(Image) * (2 * Cardinality(Alive) - 1) \in Int
    BY <1>8, CountsType, ImageFinite
  <2>2. Cardinality(UserFrames) + Cardinality(Cost)
          <= Cardinality(Image) * (2 * Cardinality(Alive) - 1)
    BY DEF BudgetInv, Charged
  <2>3. Cardinality(UserFrames') + Cardinality(Cost')
          <= Cardinality(Image) * (2 * Cardinality(Alive) - 1)
    BY <1>9, <1>10, <2>1, <2>2
  <2>4. Alive' = Alive /\ IsFiniteSet(tasks')
    BY <1>2, <1>8 DEF Alive
  <2> QED
    BY <2>3, <2>4 DEF Charged
<1> QED
  BY <1>6, <1>7, <1>11 DEF BudgetInv

(* fork charges every page of both sides before it makes one read-only.     *)
LEMMA ForkBeginBudget ==
  ASSUME TypeOK, BudgetInv, NEW c \in Tasks, ForkBegin(c)
  PROVE  BudgetInv'
<1>1. /\ c \notin tasks /\ child = None /\ child' = c /\ c # None
      /\ vmap' = [vmap EXCEPT ![c] = vmap[current]]
      /\ UNCHANGED <<tasks, current, tlb>>
  BY TaskAssumption DEF ForkBegin, Executing, TypeOK
<1>2. /\ vmap \in [Tasks -> [Pages -> Entry]]
      /\ current \in tasks /\ tasks \subseteq Tasks
  BY DEF TypeOK
<1>3. /\ vmap'[c] = vmap[current]
      /\ \A t \in Tasks : t # c => vmap'[t] = vmap[t]
  BY <1>1, <1>2
<1>4. ImageOnly'
  BY <1>2, <1>3 DEF BudgetInv, ImageOnly, Present
<1>5. TlbNotStricter'
  BY <1>1, <1>2, <1>3 DEF BudgetInv, TlbNotStricter, Present, Writable
<1>6. IsFiniteSet(tasks)
  BY DEF BudgetInv, Charged
<1>7. UserFrames' = UserFrames
  <2>1. PICK n \in ForkFrames : RequestKernelPages(n)
    BY DEF ForkBegin
  <2>2. Lowest(n) \subseteq free
    BY DEF Lowest
  <2> QED
    BY <2>1, <2>2 DEF RequestKernelPages, Pool!RequestPages, UserFrames
<1>8. Alive = tasks /\ Alive' = tasks \cup {c}
  BY <1>1 DEF Alive
<1>9. Cardinality(Alive') = Cardinality(Alive) + 1
  BY <1>1, <1>6, <1>8, FS_AddElement
<1>10. /\ Cardinality(Cost') <= Cardinality(Cost) + 2 * Cardinality(Image)
       /\ Cardinality(Cost') \in Nat
  <2> DEFINE both == {current, c} \X Image
  <2>1. Cost' \subseteq Cost \cup both
    <3> SUFFICES ASSUME NEW tp \in Cost', tp[1] \notin {current, c}
                 PROVE  tp \in Cost
      BY <1>8 DEF Cost
    <3>1. /\ tp \in Alive' \X Image /\ ~ Writable(vmap'[tp[1]][tp[2]])
      BY <1>1 DEF Cost
    <3>2. tp \in Alive \X Image /\ tp[1] \in Tasks
      BY <1>2, <1>8, <3>1
    <3>3. ~ Writable(vmap[tp[1]][tp[2]])
      BY <1>3, <3>1, <3>2
    <3> QED
      BY <3>2, <3>3 DEF Cost
  <2>2. IsFiniteSet({current, c}) /\ Cardinality({current, c}) = 2
    <3>1. current # c /\ {current, c} = {current} \cup {c}
      BY <1>1, <1>2
    <3>2. IsFiniteSet({current}) /\ Cardinality({current}) = 1
      BY FS_Singleton
    <3> QED
      BY <3>1, <3>2, FS_AddElement
  <2>3. IsFiniteSet(both) /\ Cardinality(both) = 2 * Cardinality(Image)
    BY <2>2, ImageFinite, FS_Product
  <2> HIDE DEF both
  <2>4. /\ IsFiniteSet(Cost \cup both)
        /\ Cardinality(Cost \cup both) =
             Cardinality(Cost) + Cardinality(both) - Cardinality(Cost \cap both)
    BY <1>6, <2>3, CountsType, FS_Union
  <2>5. Cardinality(Cost \cap both) \in Nat /\ Cardinality(Cost) \in Nat
    BY <1>6, CountsType, FS_Intersection, FS_CardinalityType
  <2>6. Cardinality(Cost') <= Cardinality(Cost \cup both)
    BY <2>1, <2>4, FS_Subset
  <2>7. Cardinality(Cost') \in Nat
    BY <2>1, <2>4, FS_Subset, FS_CardinalityType
  <2> QED
    BY <2>3, <2>4, <2>5, <2>6, <2>7, ImageFinite
<1>11. Charged'
  <2> DEFINE i == Cardinality(Image)
             a == Cardinality(Alive)
  <2>1. /\ Cardinality(UserFrames) \in Nat /\ Cardinality(Cost) \in Nat
        /\ a \in Nat /\ i \in Nat
    BY <1>6, CountsType, ImageFinite
  <2>2. Cardinality(UserFrames) + Cardinality(Cost) <= i * (2 * a - 1)
    BY DEF BudgetInv, Charged
  <2>3. Cardinality(Alive') = a + 1
        /\ Cardinality(Cost') <= Cardinality(Cost) + 2 * i
        /\ Cardinality(Cost') \in Nat
    BY <1>9, <1>10
  <2> HIDE DEF i, a
  <2>4. i * (2 * (a + 1) - 1) = i * (2 * a - 1) + 2 * i
    BY <2>1, OneMoreTask
  <2>5. i * (2 * a - 1) \in Int
    BY <2>1
  <2>6. Cardinality(UserFrames) + Cardinality(Cost') <= i * (2 * (a + 1) - 1)
    BY <2>1, <2>2, <2>3, <2>4, <2>5
  <2> QED
    BY <1>1, <1>6, <1>7, <2>3, <2>6 DEF Charged, i
<1> QED
  BY <1>4, <1>5, <1>11 DEF BudgetInv

(* Until fork ends, clearing PAGING_WRITABLE charges nothing: both sides    *)
(* are charged for every page already.                                      *)
LEMMA ClearWritableBudget ==
  ASSUME TypeOK, BudgetInv, ClearWritable
  PROVE  BudgetInv'
<1> DEFINE e == ReadOnly(vmap[Target][pos])
<1>1. /\ vmap' = [vmap EXCEPT ![Target][pos] = e]
      /\ mode \in {"parent", "child"}
      /\ UNCHANGED <<tasks, current, tlb, free, tables, child>>
  BY DEF ClearWritable, sched, phys
<1>2. /\ vmap \in [Tasks -> [Pages -> Entry]]
      /\ current \in Tasks /\ tasks \subseteq Tasks
      /\ child \in Tasks /\ child # None /\ Target \in {current, child}
      /\ pos \in Pages
  BY <1>1, PageAssumption DEF TypeOK, Target, ClearWritable
<1>3. vmap[Target][pos] \in Entry
  BY <1>2
<1>4. e.flags = vmap[Target][pos].flags \ {"W"}
  BY <1>3, EntryType
<1> HIDE DEF e
<1>5. /\ vmap'[Target][pos] = e
      /\ \A t \in Tasks, p \in Pages :
           t # Target \/ p # pos => vmap'[t][p] = vmap[t][p]
  BY <1>1, <1>2
<1>6. \A t \in Tasks, p \in Pages : vmap'[t][p].flags \subseteq vmap[t][p].flags
  BY <1>4, <1>5
<1>7. ImageOnly'
  BY <1>6 DEF BudgetInv, ImageOnly, Present
<1>8. TlbNotStricter'
  BY <1>1, <1>2, <1>6 DEF BudgetInv, TlbNotStricter, Present, Writable
<1>9. Cost' \subseteq Cost
  <2> SUFFICES ASSUME NEW tp \in Cost', tp[1] \notin {current, child}
               PROVE  tp \in Cost
    BY <1>1, <1>2 DEF Cost, Alive
  <2>1. tp \in Alive \X Image /\ ~ Writable(vmap'[tp[1]][tp[2]])
    BY <1>1 DEF Cost, Alive
  <2>2. tp[1] \in Tasks /\ tp[2] \in Pages
    <3>1. Alive \subseteq Tasks /\ Image \subseteq Pages
      BY <1>2, PageAssumption DEF Alive
    <3> QED
      BY <2>1, <3>1
  <2>3. vmap'[tp[1]][tp[2]] = vmap[tp[1]][tp[2]]
    BY <1>2, <1>5, <2>2
  <2> QED
    BY <2>1, <2>3 DEF Cost
<1>10. Charged'
  <2>1. UserFrames' = UserFrames /\ Alive' = Alive /\ IsFiniteSet(tasks')
    BY <1>1 DEF UserFrames, Alive, BudgetInv, Charged
  <2> QED
    BY <1>9, <2>1, NothingCharged DEF BudgetInv
<1> QED
  BY <1>7, <1>8, <1>10 DEF BudgetInv

(* A step after which the TLB holds less, or the entry of the tables.       *)
LEMMA TlbBudget ==
  ASSUME BudgetInv,
         UNCHANGED <<tasks, current, vmap, free, tables, child>>,
         \A p \in Pages : \/ tlb'[p] = tlb[p]
                          \/ tlb'[p] = vmap[current][p]
                          \/ ~ Present(tlb'[p])
  PROVE  BudgetInv'
<1>1. UserFrames' = UserFrames /\ Alive' = Alive /\ Cost' = Cost
  BY DEF UserFrames, Alive, Cost
<1>2. Charged'
  BY <1>1, NothingCharged DEF BudgetInv, Charged
<1>3. TlbNotStricter'
  BY DEF BudgetInv, TlbNotStricter
<1> QED
  BY <1>2, <1>3 DEF BudgetInv, ImageOnly

LEMMA ForkEndBudget ==
  ASSUME TypeOK, BudgetInv, ForkEnd
  PROVE  BudgetInv'
<1>1. /\ tasks' = tasks \cup {child} /\ child # None /\ child' = None
      /\ UNCHANGED <<current, vmap, tlb, free, tables>>
  BY DEF ForkEnd, mmu, phys, TypeOK
<1>2. UserFrames' = UserFrames /\ Alive' = Alive
  BY <1>1 DEF UserFrames, Alive
<1>3. Cost' \subseteq Cost
  BY <1>1, <1>2 DEF Cost
<1>4. IsFiniteSet(tasks')
  BY <1>1, FS_AddElement DEF BudgetInv, Charged
<1>5. Charged'
  BY <1>2, <1>3, <1>4, NothingCharged DEF BudgetInv
<1> QED
  BY <1>1, <1>5 DEF BudgetInv, ImageOnly, TlbNotStricter

(* The timer switches tasks only in user mode, when no fork is charged to   *)
(* the running task, and a switch empties the TLB.                          *)
LEMMA TickBudget ==
  ASSUME TypeOK, BudgetInv, NEW d \in 1 .. MaxDus, Tick(d)
  PROVE  BudgetInv'
<1>1. /\ UNCHANGED <<tasks, vmap, free, tables, child>> /\ child = None
  BY DEF Tick, SwitchToTask, phys, forking, TypeOK
<1>2. Charged'
  <2>1. UserFrames' = UserFrames /\ Alive' = Alive /\ Cost' \subseteq Cost
    BY <1>1 DEF UserFrames, Alive, Cost
  <2> QED
    BY <1>1, <2>1, NothingCharged DEF BudgetInv, Charged
<1>3. TlbNotStricter'
  <2>1. CASE UNCHANGED <<current, tlb>>
    BY <1>1, <2>1 DEF BudgetInv, TlbNotStricter
  <2>2. CASE tlb' = [p \in Pages |-> Absent]
    BY <2>2, AbsentType DEF TlbNotStricter
  <2> QED
    BY <2>1, <2>2 DEF Tick, SwitchToTask
<1> QED
  BY <1>1, <1>2, <1>3 DEF BudgetInv, ImageOnly

LEMMA BudgetNext ==
  ASSUME TypeOK, BudgetInv, [Next]_vars
  PROVE  BudgetInv'
<1>1. ASSUME NEW p \in Pages, Load(p) \/ Store(p) \/ FatalFault(p)
      PROVE  BudgetInv'
  BY <1>1, BudgetUnchanged DEF Load, Store, FatalFault, sched, mmu, phys, forking
<1>2. ASSUME NEW p \in Pages, CopyOnWrite(p)
      PROVE  BudgetInv'
  BY <1>2, CopyOnWriteBudget
<1>3. CASE Compute \/ Syscall \/ MakeChildReadonly
  BY <1>3, BudgetUnchanged
  DEF Compute, Syscall, MakeChildReadonly, sched, mmu, phys, forking
<1>4. ASSUME NEW c \in Tasks, ForkBegin(c)
      PROVE  BudgetInv'
  BY <1>4, ForkBeginBudget
<1>5. CASE FlushPage
  <2>1. tlb \in [Pages -> Entry] /\ tlb' = [tlb EXCEPT ![pos] = Absent]
    BY <1>5 DEF FlushPage, Flushed, TypeOK
  <2>2. \A p \in Pages : tlb'[p] = tlb[p] \/ ~ Present(tlb'[p])
    BY <2>1, AbsentType
  <2> QED
    BY <1>5, <2>2, TlbBudget DEF FlushPage, sched, phys
<1>6. ASSUME NEW p \in Pages, TlbFill(p) \/ TlbEvict(p)
      PROVE  BudgetInv'
  <2>1. /\ tlb \in [Pages -> Entry]
        /\ \/ tlb' = [tlb EXCEPT ![p] = vmap[current][p]]
           \/ tlb' = [tlb EXCEPT ![p] = Absent]
    BY <1>6 DEF TlbFill, TlbEvict, TypeOK
  <2>2. \A q \in Pages : \/ tlb'[q] = tlb[q]
                         \/ tlb'[q] = vmap[current][q]
                         \/ ~ Present(tlb'[q])
    BY <2>1, AbsentType
  <2>3. UNCHANGED <<tasks, current, vmap, free, tables, child>>
    BY <1>6 DEF TlbFill, TlbEvict, sched, phys, forking
  <2> QED
    BY <2>2, <2>3, TlbBudget
<1>7. CASE ClearWritable
  BY <1>7, ClearWritableBudget
<1>8. CASE ForkEnd
  BY <1>8, ForkEndBudget
<1>9. CASE TimerStep
  BY <1>9, TickBudget DEF TimerStep
<1>10. CASE UNCHANGED vars
  BY <1>10, BudgetUnchanged DEF vars, sched, mmu, phys, forking
<1> QED
  BY <1>1, <1>2, <1>3, <1>4, <1>5, <1>6, <1>7, <1>8, <1>9, <1>10
  DEF Next, UserStep, ForkStep, TlbStep

(* What copies have taken and may still take is paid for by the tasks: two  *)
(* frames per page of the image for each but the first.                     *)
THEOREM BudgetInvHolds == Spec => []BudgetInv
<1>1. Init => BudgetInv
  BY BudgetInit
<1>2. TypeOK /\ BudgetInv /\ [Next]_vars => BudgetInv'
  BY BudgetNext
<1> QED
  BY <1>1, <1>2, TypeOKHolds, PTL DEF Spec

-----------------------------------------------------------------------------
(* While a fork runs, the charges of both sides pay for the task it is      *)
(* making, which is not counted yet.                                        *)
LEMMA ChargesCoverBudget ==
  ASSUME TypeOK, BudgetInv
  PROVE  FrameBudget
<1> DEFINE i == Cardinality(Image)
           u == Cardinality(UserFrames)
           n == Cardinality(tasks)
<1>1. IsFiniteSet(tasks)
  BY DEF BudgetInv, Charged
<1>2. /\ u \in Nat /\ n \in Nat /\ Cardinality(Cost) \in Nat /\ i \in Nat
      /\ Cardinality(Alive) \in Nat
  BY <1>1, CountsType, ImageFinite
<1>3. u + Cardinality(Cost) <= i * (2 * Cardinality(Alive) - 1)
  BY DEF BudgetInv, Charged
<1>4. u <= i * (2 * n - 1)
  <2>1. CASE child = None
    <3>1. Alive = tasks
      BY <2>1 DEF Alive
    <3>2. i * (2 * n - 1) \in Int /\ u + Cardinality(Cost) <= i * (2 * n - 1)
      BY <1>2, <1>3, <3>1
    <3> HIDE DEF i, u, n
    <3> QED
      BY <1>2, <3>2
  <2>2. CASE child # None
    <3> DEFINE both == {current, child} \X Image
    <3>1. child \notin tasks /\ current \in tasks /\ Alive = tasks \cup {child}
      BY <2>2 DEF TypeOK, Alive
    <3>2. Cardinality(Alive) = n + 1
      BY <1>1, <3>1, FS_AddElement
    <3>3. both \subseteq Cost
      BY <2>2, <3>1 DEF Cost
    <3>4. Cardinality(both) = 2 * i
      <4>1. {current, child} = {current} \cup {child} /\ current # child
        BY <3>1
      <4>2. IsFiniteSet({current}) /\ Cardinality({current}) = 1
        BY FS_Singleton
      <4>3. IsFiniteSet({current, child}) /\ Cardinality({current, child}) = 2
        BY <4>1, <4>2, FS_AddElement
      <4> QED
        BY <4>3, ImageFinite, FS_Product
    <3>5. Cardinality(both) <= Cardinality(Cost)
      BY <1>1, <3>3, CountsType, FS_Subset
    <3> HIDE DEF i, u, n, both
    <3>6. i * (2 * (n + 1) - 1) = i * (2 * n - 1) + 2 * i
      BY <1>2, OneMoreTask
    <3>7. u + Cardinality(Cost) <= i * (2 * (n + 1) - 1)
      BY <1>3, <3>2
    <3>8. i * (2 * n - 1) \in Int
      BY <1>2
    <3> QED
      BY <1>2, <3>4, <3>5, <3>6, <3>7, <3>8
  <2> QED
    BY <2>1, <2>2
<1> QED
  BY <1>4 DEF FrameBudget, UserFrames

(* However tasks fork, fault and are preempted, copy-on-write takes at most *)
(* one frame per page of the image and two more for every fork.             *)
THEOREM FrameBudgetHolds == Spec => []FrameBudget
<1>1. TypeOK /\ BudgetInv => FrameBudget
  BY ChargesCoverBudget
<1> QED
  BY <1>1, TypeOKHolds, BudgetInvHolds, PTL

-----------------------------------------------------------------------------
(* CowKernel implements Processes: copy-on-write, the TLB and preemption    *)
(* are invisible to user programs, for every number of tasks, pages and     *)
(* frames, and any program.                                                 *)

(* The refinement mapping.                                                  *)
Mem == [t \in tasks |-> Memory(t)]
Rgs == [t \in tasks |-> Regs(t)]

(* While fork runs, the task it was called by is still at its instruction.  *)
ForkRunning == child # None => cpu.insn.op = "fork"

LEMMA ForkRunningNext ==
  ASSUME TypeOK, ForkRunning, [Next]_vars
  PROVE  ForkRunning'
<1>1. CASE UNCHANGED <<child, cpu>>
  BY <1>1 DEF ForkRunning
<1>2. ASSUME NEW c \in Tasks, ForkBegin(c)
      PROVE  ForkRunning'
  BY <1>2 DEF ForkBegin, Executing, ForkRunning
<1>3. CASE child' = None
  BY <1>3 DEF ForkRunning
<1>4. CASE mode = "user" /\ UNCHANGED child
  BY <1>3, <1>4 DEF TypeOK
<1> QED
  BY <1>1, <1>2, <1>3, <1>4
  DEF Next, UserStep, ForkStep, TimerStep, TlbStep, vars, sched, mmu, forking,
      Load, Store, Compute, Syscall, CopyOnWrite, FatalFault, Faults, Executing,
      FlushPage, ClearWritable, MakeChildReadonly, ForkEnd, Tick, TlbFill, TlbEvict

(* fork is never preempted: the instruction it serves stays the CPU's.      *)
THEOREM ForkRunningHolds == Spec => []ForkRunning
<1>1. Init => ForkRunning
  BY DEF Init, ForkRunning
<1>2. TypeOK /\ ForkRunning /\ [Next]_vars => ForkRunning'
  BY ForkRunningNext
<1> QED
  BY <1>1, <1>2, TypeOKHolds, PTL DEF Spec

-----------------------------------------------------------------------------
(* What a page of a task holds *)

LEMMA MemoryType ==
  ASSUME TypeOK, NEW t \in Tasks, NEW p \in Pages
  PROVE  /\ Present(vmap[t][p]) =>
              /\ Memory(t)[p] = content[vmap[t][p].frame]
              /\ Memory(t)[p] \in Vals
         /\ ~ Present(vmap[t][p]) => Memory(t)[p] = None
         /\ Memory(t)[p] = None <=> ~ Present(vmap[t][p])
<1>1. vmap[t][p].frame \in Frames \cup {Null}
  BY EntriesType, EntryType
<1>2. content[vmap[t][p].frame] \in Vals
  BY <1>1 DEF TypeOK
<1> QED
  BY <1>2, ValsAssumption DEF Memory

(* The entry an instruction of the running task uses is as the tables say.  *)
LEMMA TranslateRight ==
  ASSUME TypeOK, SharingInv, mode = "user", NEW p \in Pages
  PROVE  /\ Present(Translate(p)) =>
              /\ Present(vmap[current][p])
              /\ Translate(p).frame = vmap[current][p].frame
         /\ Writable(Translate(p)) => Writable(vmap[current][p])
<1>1. CASE Present(tlb[p])
  BY <1>1 DEF Translate, SharingInv, TlbBounded, StaleAllowed
<1>2. CASE ~ Present(tlb[p])
  BY <1>2 DEF Translate
<1> QED
  BY <1>1, <1>2

LEMMA SameMemory ==
  ASSUME UNCHANGED tasks, tasks \subseteq Tasks,
         \A t \in tasks, p \in Pages :
           /\ Present(vmap'[t][p]) <=> Present(vmap[t][p])
           /\ Present(vmap[t][p]) =>
                content'[vmap'[t][p].frame] = content[vmap[t][p].frame]
  PROVE  Mem' = Mem
<1>1. ASSUME NEW t \in tasks
      PROVE  Memory(t)' = Memory(t)
  BY <1>1 DEF Memory, Present
<1> QED
  BY <1>1 DEF Mem

LEMMA SameRegs ==
  ASSUME UNCHANGED <<tasks, current, cpu>>,
         \A t \in tasks : ctx'[t] = ctx[t]
  PROVE  Rgs' = Rgs
<1>1. ASSUME NEW t \in tasks
      PROVE  Regs(t)' = Regs(t)
  BY <1>1 DEF Regs
<1> QED
  BY <1>1 DEF Rgs

(* An instruction of the running task changes its registers only.           *)
LEMMA RetireRegs ==
  ASSUME TypeOK, NEW r, Retire(r), UNCHANGED <<tasks, current, ctx>>
  PROVE  /\ \E i \in Program : Rgs' = [Rgs EXCEPT ![current] = [rax |-> r, insn |-> i]]
         /\ Rgs[current] = cpu
<1>1. PICK i \in Program : cpu' = [rax |-> r, insn |-> i]
  BY DEF Retire
<1>2. \A t \in tasks : Regs(t)' = IF t = current THEN cpu' ELSE Regs(t)
  BY DEF Regs
<1>3. current \in tasks
  BY DEF TypeOK
<1>4. Rgs' = [t \in tasks |-> IF t = current THEN cpu' ELSE Regs(t)]
  BY <1>2 DEF Rgs
<1>5. Rgs' = [Rgs EXCEPT ![current] = [rax |-> r, insn |-> i]]
  BY <1>1, <1>3, <1>4 DEF Rgs
<1> QED
  BY <1>3, <1>5 DEF Rgs, Regs

-----------------------------------------------------------------------------
(* A step of the running task that the abstract specification takes too.    *)
LEMMA AbstractStep ==
  ASSUME TypeOK, mode # "halted", ~ exhausted, UNCHANGED exhausted,
         P!Step(current)
  PROVE  P!Next
<1>1. current \in P!tasks
  BY DEF P!tasks, TypeOK
<1> QED
  BY <1>1 DEF P!Next

LEMMA InsnShape ==
  ASSUME TypeOK
  PROVE  /\ cpu.insn.op \in {"load", "store"} =>
              cpu.insn = [op |-> cpu.insn.op, page |-> cpu.insn.page]
         /\ cpu.insn \in Insns /\ cpu.rax \in Vals
  BY ValsAssumption DEF TypeOK, Insns

LEMMA LoadStep ==
  ASSUME TypeOK, SharingInv, ~ exhausted,
         NEW p \in Pages, Load(p)
  PROVE  P!Next
<1>1. /\ mode = "user" /\ cpu.insn = [op |-> "load", page |-> p]
      /\ Present(Translate(p)) /\ Retire(content[Translate(p).frame])
      /\ UNCHANGED <<tasks, current, ctx, vmap, content, mode, exhausted>>
  BY InsnShape DEF Load, Executing, sched, mmu, phys
<1>2. /\ Memory(current)[p] = content[Translate(p).frame]
      /\ Memory(current)[p] # None
  BY <1>1, TranslateRight, MemoryType, EntriesType
<1>3. PICK i \in Program :
        Rgs' = [Rgs EXCEPT ![current] = [rax |-> Memory(current)[p], insn |-> i]]
  BY <1>1, <1>2, RetireRegs
<1>4. Rgs[current] = cpu /\ current \in tasks /\ Mem[current] = Memory(current)
  BY DEF Rgs, Regs, Mem, TypeOK
<1>5. Mem' = Mem
  BY <1>1, SameMemory DEF TypeOK
<1>6. P!Load(current, p)
  BY <1>1, <1>2, <1>3, <1>4, <1>5 DEF P!Load, P!Retire, Mem, Rgs
<1>7. P!Step(current)
  BY <1>6 DEF P!Step
<1> QED
  BY <1>1, <1>7, AbstractStep

(* The frame a store writes is mapped nowhere else.                         *)
LEMMA StoreStep ==
  ASSUME TypeOK, SharingInv, ~ exhausted,
         NEW p \in Pages, Store(p)
  PROVE  P!Next
<1> DEFINE f == Translate(p).frame
<1>1. /\ mode = "user" /\ cpu.insn = [op |-> "store", page |-> p]
      /\ Writable(Translate(p)) /\ Retire(cpu.rax)
      /\ content' = [content EXCEPT ![f] = cpu.rax]
      /\ UNCHANGED <<tasks, current, ctx, vmap, mode, exhausted>>
  BY InsnShape DEF Store, Executing, sched, mmu
<1>2. /\ Writable(vmap[current][p]) /\ Present(vmap[current][p])
      /\ f = vmap[current][p].frame
  <2>1. Present(Translate(p))
    BY <1>1 DEF Writable, Present
  <2> QED
    BY <1>1, <2>1, TranslateRight
<1> HIDE DEF f
<1>3. /\ current \in tasks /\ tasks \subseteq Tasks
      /\ content \in [Frames \cup {Null} -> Vals]
      /\ f \in Frames \cup {Null}
  BY <1>2, EntriesType, EntryType DEF TypeOK
<1>4. \A t \in tasks, q \in Pages :
        Present(vmap[t][q]) /\ vmap[t][q].frame = f => t = current /\ q = p
  BY <1>2, <1>3 DEF SharingInv, WritableFramesPrivate
<1>5. \A t \in tasks, q \in Pages :
        Memory(t)'[q] = IF t = current /\ q = p THEN cpu.rax ELSE Memory(t)[q]
  <2> SUFFICES ASSUME NEW t \in tasks, NEW q \in Pages
               PROVE  Memory(t)'[q] =
                        IF t = current /\ q = p THEN cpu.rax ELSE Memory(t)[q]
    OBVIOUS
  <2>1. CASE t = current /\ q = p
    BY <1>1, <1>2, <1>3, <2>1 DEF Memory, Present
  <2>2. CASE ~ (t = current /\ q = p)
    <3>1. vmap[t][q].frame \in Frames \cup {Null}
      BY <1>3, EntriesType, EntryType
    <3>2. Present(vmap[t][q]) =>
            content'[vmap[t][q].frame] = content[vmap[t][q].frame]
      BY <1>1, <1>3, <1>4, <2>2, <3>1
    <3> QED
      BY <1>1, <2>2, <3>2 DEF Memory, Present
  <2> QED
    BY <2>1, <2>2
<1>6. Mem' = [Mem EXCEPT ![current][p] = cpu.rax]
  <2>1. \A t \in tasks :
          Memory(t)' = IF t = current THEN [Memory(t) EXCEPT ![p] = cpu.rax]
                                      ELSE Memory(t)
    <3> SUFFICES ASSUME NEW t \in tasks
                 PROVE  Memory(t)' =
                          IF t = current THEN [Memory(t) EXCEPT ![p] = cpu.rax]
                                         ELSE Memory(t)
      OBVIOUS
    <3>1. /\ Memory(t) = [q \in Pages |-> Memory(t)[q]]
          /\ Memory(t)' = [q \in Pages |-> Memory(t)'[q]]
      BY DEF Memory
    <3> QED
      BY <1>5, <3>1
  <2> QED
    BY <1>1, <1>3, <2>1 DEF Mem
<1>7. PICK i \in Program :
        Rgs' = [Rgs EXCEPT ![current] = [rax |-> cpu.rax, insn |-> i]]
  BY <1>1, RetireRegs
<1>8. Rgs[current] = cpu /\ Mem[current] = Memory(current)
      /\ Memory(current)[p] # None
  BY <1>2, <1>3, MemoryType DEF Rgs, Regs, Mem
<1>9. P!Store(current, p)
  BY <1>1, <1>6, <1>7, <1>8 DEF P!Store, P!Retire, Mem, Rgs
<1>10. P!Step(current)
  BY <1>9 DEF P!Step
<1> QED
  BY <1>1, <1>10, AbstractStep

LEMMA ComputeStep ==
  ASSUME TypeOK, ~ exhausted, Compute
  PROVE  P!Next
<1>1. /\ mode = "user" /\ cpu.insn.op = "set"
      /\ \E v \in Vals : Retire(v)
      /\ UNCHANGED <<tasks, current, ctx, vmap, content, mode, exhausted>>
  BY DEF Compute, Executing, sched, mmu, phys
<1>2. PICK v \in Vals : Retire(v)
  BY <1>1
<1>3. PICK i \in Program :
        Rgs' = [Rgs EXCEPT ![current] = [rax |-> v, insn |-> i]]
  BY <1>1, <1>2, RetireRegs
<1>4. Rgs[current] = cpu
  BY <1>1, <1>2, RetireRegs
<1>5. Mem' = Mem
  BY <1>1, SameMemory DEF TypeOK
<1>6. P!Compute(current)
  BY <1>1, <1>3, <1>4, <1>5 DEF P!Compute, P!Retire, Mem, Rgs
<1> QED
  BY <1>1, <1>6, AbstractStep DEF P!Step

LEMMA SyscallStep ==
  ASSUME TypeOK, ~ exhausted, Syscall
  PROVE  P!Next
<1> DEFINE r == SyscallResult(cpu.insn.op)
<1>1. /\ mode = "user" /\ cpu.insn.op \in {"print", "invalid"} /\ Retire(r)
      /\ UNCHANGED <<tasks, current, ctx, vmap, content, mode, exhausted>>
  BY DEF Syscall, Executing, sched, mmu, phys
<1>2. r = IF cpu.insn.op = "print" THEN 0 ELSE 1
  BY DEF SyscallResult
<1> HIDE DEF r
<1>3. PICK i \in Program :
        Rgs' = [Rgs EXCEPT ![current] = [rax |-> r, insn |-> i]]
  BY <1>1, RetireRegs
<1>4. Rgs[current] = cpu
  BY <1>1, RetireRegs
<1>5. Mem' = Mem
  BY <1>1, SameMemory DEF TypeOK
<1>6. P!Syscall(current)
  BY <1>1, <1>2, <1>3, <1>4, <1>5 DEF P!Syscall, P!Retire, Mem, Rgs
<1> QED
  BY <1>1, <1>6, AbstractStep DEF P!Step

(* The machine halts on what the abstract specification calls Stop.         *)
LEMMA FatalFaultStep ==
  ASSUME TypeOK, ~ exhausted, NEW p \in Pages, FatalFault(p)
  PROVE  P!Next
<1>1. /\ mode = "user" /\ mode' = "halted" /\ cpu.insn.page = p
      /\ cpu.insn.op \in {"load", "store"} /\ ~ Present(vmap[current][p])
      /\ UNCHANGED <<tasks, current, cpu, ctx, vmap, content, exhausted>>
  BY DEF FatalFault, Faults, Executing, sched, mmu, phys
<1>2. Mem' = Mem /\ Rgs' = Rgs
  BY <1>1, SameMemory, SameRegs DEF TypeOK
<1>3. /\ current \in tasks /\ Rgs[current] = cpu
      /\ Mem[current] = Memory(current) /\ Memory(current)[p] = None
  BY <1>1, MemoryType DEF TypeOK, Rgs, Regs, Mem
<1>4. P!Stop(current, p)
  BY <1>1, <1>2, <1>3 DEF P!Stop, Mem, Rgs
<1> QED
  BY <1>1, <1>4, AbstractStep DEF P!Step

-----------------------------------------------------------------------------
(* Steps user programs do not see *)

(* The copy goes to a frame that nothing maps.                              *)
LEMMA CopyOnWriteStutters ==
  ASSUME TypeOK, SharingInv, ~ exhausted', NEW p \in Pages, CopyOnWrite(p)
  PROVE  UNCHANGED P!vars
<1>1. PICK f \in Frames \cup {Null} :
        /\ RequestPage(f)
        /\ vmap' = [vmap EXCEPT ![current][p] = CowEntry(vmap[current][p], f)]
        /\ content' = [content EXCEPT ![f] = content[vmap[current][p].frame]]
  BY DEF CopyOnWrite
<1>2. /\ Present(vmap[current][p]) /\ mode = "user"
      /\ UNCHANGED <<tasks, current, ctx, cpu, mode>>
  BY DEF CopyOnWrite, Faults, Executing, sched, forking
<1>3. ~ exhausted /\ f \in free /\ UNCHANGED exhausted
  BY <1>1 DEF RequestPage, Lowest
<1>4. /\ current \in Tasks /\ tasks \subseteq Tasks
      /\ vmap \in [Tasks -> [Pages -> Entry]]
      /\ content \in [Frames \cup {Null} -> Vals]
  BY EntriesType DEF TypeOK
<1>5. /\ vmap'[current][p].frame = f /\ Present(vmap'[current][p])
      /\ \A t \in Tasks, q \in Pages :
           t # current \/ q # p => vmap'[t][q] = vmap[t][q]
  <2>1. /\ CowEntry(vmap[current][p], f).frame = f
        /\ Writable(CowEntry(vmap[current][p], f))
    <3>1. vmap[current][p] \in Entry
      BY <1>4
    <3> QED BY <3>1, CowEntryType
  <2>2. /\ vmap'[current][p] = CowEntry(vmap[current][p], f)
        /\ \A t \in Tasks, q \in Pages :
             t # current \/ q # p => vmap'[t][q] = vmap[t][q]
    <3>1. vmap' = [vmap EXCEPT ![current][p] = CowEntry(vmap[current][p], f)]
      BY <1>1
    <3>2. vmap \in [Tasks -> [Pages -> Entry]] /\ current \in Tasks
      BY <1>4
    <3> QED BY <3>1, <3>2
  <2>3. Present(vmap'[current][p])
    BY <2>1, <2>2 DEF Writable, Present
  <2> QED
    BY <2>1, <2>2, <2>3
<1>6. ASSUME NEW t \in tasks, NEW q \in Pages
      PROVE  /\ Present(vmap'[t][q]) <=> Present(vmap[t][q])
             /\ Present(vmap[t][q]) =>
                  content'[vmap'[t][q].frame] = content[vmap[t][q].frame]
  <2>1. CASE t = current /\ q = p
    BY <1>1, <1>2, <1>4, <1>5, <2>1
  <2>2. CASE t # current \/ q # p
    <3>1. vmap'[t][q] = vmap[t][q]
      BY <1>4, <1>5, <2>2
    <3>2. Present(vmap[t][q]) =>
            vmap[t][q].frame \in Frames /\ vmap[t][q].frame # f
      BY <1>3, <1>4 DEF SharingInv, MappedFramesHeld
    <3> QED
      BY <1>1, <1>4, <3>1, <3>2
  <2> QED
    BY <2>1, <2>2
<1>7. Mem' = Mem /\ Rgs' = Rgs
  BY <1>2, <1>4, <1>6, SameMemory, SameRegs
<1> QED
  BY <1>2, <1>3, <1>7 DEF P!vars, Mem, Rgs

(* The task fork makes is not there yet.                                    *)
LEMMA ForkBeginStutters ==
  ASSUME TypeOK, ~ exhausted', NEW c \in Tasks, ForkBegin(c)
  PROVE  UNCHANGED P!vars
<1>1. /\ c \notin tasks /\ mode = "user" /\ mode' = "parent"
      /\ vmap' = [vmap EXCEPT ![c] = vmap[current]]
      /\ \E i \in Program : ctx' = [ctx EXCEPT ![c] = [rax |-> cpu.rax, insn |-> i]]
      /\ UNCHANGED <<tasks, current, cpu, content>>
  BY DEF ForkBegin, Executing
<1>2. /\ tasks \subseteq Tasks /\ exhausted \in BOOLEAN
      /\ vmap \in [Tasks -> [Pages -> Entry]]
      /\ ctx \in [Tasks -> [rax : Vals, insn : Program]]
  BY DEF TypeOK
<1>3. \A t \in tasks : vmap'[t] = vmap[t] /\ ctx'[t] = ctx[t]
  BY <1>1, <1>2
<1>4. Mem' = Mem /\ Rgs' = Rgs
  BY <1>1, <1>2, <1>3, SameMemory, SameRegs DEF Present
<1>5. UNCHANGED exhausted
  <2>1. PICK n \in ForkFrames : RequestKernelPages(n)
    BY DEF ForkBegin
  <2>2. exhausted' = (exhausted \/ Cardinality(free) < n)
    BY <2>1 DEF RequestKernelPages
  <2> QED
    BY <1>2, <2>2
<1> QED
  BY <1>1, <1>4, <1>5 DEF P!vars, Mem, Rgs

LEMMA ClearWritableStutters ==
  ASSUME TypeOK, ClearWritable
  PROVE  UNCHANGED P!vars
<1>1. /\ vmap' = [vmap EXCEPT ![Target][pos] = ReadOnly(vmap[Target][pos])]
      /\ mode \in {"parent", "child"}
      /\ UNCHANGED <<tasks, current, ctx, cpu, content, exhausted, mode>>
  BY DEF ClearWritable, sched, phys
<1>2. /\ vmap \in [Tasks -> [Pages -> Entry]] /\ tasks \subseteq Tasks
      /\ Target \in Tasks /\ pos \in Pages
  BY <1>1, PageAssumption DEF TypeOK, Target, ClearWritable
<1>3. \A t \in Tasks, p \in Pages :
        /\ vmap'[t][p].frame = vmap[t][p].frame
        /\ Present(vmap'[t][p]) <=> Present(vmap[t][p])
  <2>1. /\ ReadOnly(vmap[Target][pos]).frame = vmap[Target][pos].frame
        /\ Present(ReadOnly(vmap[Target][pos])) <=> Present(vmap[Target][pos])
    <3>1. vmap[Target][pos] \in Entry
      BY <1>2
    <3>2. /\ ReadOnly(vmap[Target][pos]).frame = vmap[Target][pos].frame
          /\ ReadOnly(vmap[Target][pos]).flags = vmap[Target][pos].flags \ {"W"}
      BY <3>1, EntryType
    <3> QED
      BY <3>2 DEF Present
  <2> QED
    BY <1>1, <1>2, <2>1
<1>4. Mem' = Mem /\ Rgs' = Rgs
  BY <1>1, <1>2, <1>3, SameMemory, SameRegs
<1> QED
  BY <1>1, <1>4 DEF P!vars, Mem, Rgs

(* A switch saves the registers of one task and loads those of another.     *)
LEMMA TickStutters ==
  ASSUME TypeOK, NEW d \in 1 .. MaxDus, Tick(d)
  PROVE  UNCHANGED P!vars
<1>1. UNCHANGED <<tasks, vmap, content, exhausted, mode>>
  BY DEF Tick, phys
<1>2. Mem' = Mem
  BY <1>1, SameMemory DEF TypeOK
<1>3. ASSUME NEW t \in tasks
      PROVE  Regs(t)' = Regs(t)
  <2>1. CASE UNCHANGED <<ctx, current, cpu>>
    BY <2>1 DEF Regs
  <2>2. CASE /\ ctx' = SavedContext /\ current' = next_task[current]
             /\ cpu' = SavedContext[next_task[current]]
    <3>1. SavedContext[t] = IF t = current THEN cpu ELSE ctx[t]
      BY <1>3 DEF SavedContext, TypeOK
    <3>2. Regs(t)' = SavedContext[t]
      BY <2>2 DEF Regs
    <3> QED
      BY <3>1, <3>2 DEF Regs
  <2> QED
    BY <2>1, <2>2 DEF Tick, SwitchToTask
<1>4. Rgs' = Rgs
  BY <1>1, <1>3 DEF Rgs
<1> QED
  BY <1>1, <1>2, <1>4 DEF P!vars, Mem, Rgs

LEMMA NothingSeen ==
  ASSUME TypeOK,
         UNCHANGED <<tasks, current, ctx, cpu, vmap, content, exhausted>>,
         (mode = "halted") <=> (mode' = "halted")
  PROVE  UNCHANGED P!vars
<1>1. Mem' = Mem /\ Rgs' = Rgs
  BY SameMemory, SameRegs DEF TypeOK
<1> QED
  BY <1>1 DEF P!vars, Mem, Rgs

-----------------------------------------------------------------------------
(* fork takes effect when it ends: both sides map the same frames, so the   *)
(* child's memory is a copy of the parent's.                                *)
LEMMA ForkEndStep ==
  ASSUME TypeOK, SharingInv, ForkRunning, ~ exhausted, ForkEnd
  PROVE  P!Next
<1>1. /\ mode = "child" /\ mode' = "user"
      /\ tasks' = tasks \cup {child}
      /\ ctx' = [ctx EXCEPT ![child].rax = 0]
      /\ Retire(2)
      /\ UNCHANGED <<current, vmap, content, exhausted>>
  BY DEF ForkEnd, mmu, phys
<1>2. /\ current \in tasks /\ child \in Tasks \ tasks /\ tasks \subseteq Tasks
      /\ child # None /\ ctx \in [Tasks -> [rax : Vals, insn : Program]]
  BY <1>1, TaskAssumption DEF TypeOK
<1>3. Memory(child) = Memory(current)
  BY <1>1 DEF Memory, SharingInv, ForkProgress
<1>4. \A u \in Tasks : Memory(u)' = Memory(u)
  BY <1>1 DEF Memory
<1>5. Mem' = [u \in tasks \cup {child} |->
                IF u = child THEN Mem[current] ELSE Mem[u]]
  <2>1. \A u \in tasks \cup {child} :
          Memory(u)' = IF u = child THEN Mem[current] ELSE Mem[u]
    BY <1>2, <1>3, <1>4 DEF Mem
  <2> QED
    BY <1>1, <2>1 DEF Mem
<1>6. PICK i \in Program : cpu' = [rax |-> 2, insn |-> i]
  BY <1>1 DEF Retire
<1>7. PICK j \in Program : ctx'[child] = [rax |-> 0, insn |-> j]
  <2>1. ctx[child] \in [rax : Vals, insn : Program]
    BY <1>2
  <2>2. ctx'[child] = [ctx[child] EXCEPT !.rax = 0]
    BY <1>1, <1>2
  <2>3. ctx'[child] = [rax |-> 0, insn |-> ctx[child].insn]
    BY <2>1, <2>2
  <2> QED
    BY <2>1, <2>3
<1>8. Rgs' = [u \in tasks \cup {child} |->
                CASE u = current -> [rax |-> 2, insn |-> i]
                  [] u = child -> [rax |-> 0, insn |-> j]
                  [] OTHER -> Rgs[u]]
  <2>1. ASSUME NEW u \in tasks \cup {child}
        PROVE  Regs(u)' = CASE u = current -> [rax |-> 2, insn |-> i]
                            [] u = child -> [rax |-> 0, insn |-> j]
                            [] OTHER -> Rgs[u]
    <3>1. CASE u = current
      BY <1>1, <1>2, <1>6, <3>1 DEF Regs
    <3>2. CASE u = child
      BY <1>1, <1>2, <1>7, <3>2 DEF Regs
    <3>3. CASE u # current /\ u # child
      BY <1>1, <1>2, <2>1, <3>3 DEF Regs, Rgs
    <3> QED
      BY <3>1, <3>2, <3>3
  <2> QED
    BY <1>1, <2>1 DEF Rgs
<1>9. Rgs[current] = cpu /\ cpu.insn.op = "fork"
  BY <1>2 DEF Rgs, Regs, ForkRunning
<1>10. P!tasks = tasks
  BY DEF P!tasks
<1>11. P!Fork(current, child)
  BY <1>1, <1>5, <1>8, <1>9, <1>10 DEF P!Fork, Mem, Rgs
<1>12. P!Step(current)
  BY <1>2, <1>10, <1>11 DEF P!Step
<1> QED
  BY <1>1, <1>12, AbstractStep

LEMMA InitProcesses == Init => P!Init
<1> SUFFICES ASSUME Init
             PROVE  P!Init
  OBVIOUS
<1>1. TypeOK /\ tasks = {InitTask} /\ mode = "user" /\ exhausted = FALSE
  BY TypeInit DEF Init
<1>2. Mem \in [{InitTask} -> [Pages -> Vals \cup {None}]]
  <2>1. \A p \in Pages : Memory(InitTask)[p] \in Vals \cup {None}
    BY <1>1, MemoryType, TaskAssumption
  <2>2. Memory(InitTask) \in [Pages -> Vals \cup {None}]
    BY <2>1 DEF Memory
  <2> QED
    BY <1>1, <2>2 DEF Mem
<1>3. Rgs \in [{InitTask} -> [rax : Vals, insn : Program]]
  BY <1>1, TaskAssumption DEF TypeOK, Rgs, Regs
<1> QED
  BY <1>1, <1>2, <1>3 DEF P!Init, Mem, Rgs

LEMMA StepProcesses ==
  ASSUME TypeOK, SharingInv, ForkRunning, [Next]_vars
  PROVE  [P!Next]_P!vars
<1>1. CASE exhausted'
  BY <1>1 DEF P!Next
<1> SUFFICES ASSUME ~ exhausted'
             PROVE  [P!Next]_P!vars
  BY <1>1
<1>2. CASE UNCHANGED vars
  BY <1>2, NothingSeen DEF vars, sched, mmu, phys
<1>3. ~ exhausted \/ UNCHANGED vars
  BY DEF Next, UserStep, ForkStep, TimerStep, TlbStep, vars, phys,
         Load, Store, Compute, Syscall, CopyOnWrite, FatalFault, ForkBegin,
         FlushPage, ClearWritable, MakeChildReadonly, ForkEnd, Tick,
         TlbFill, TlbEvict, RequestPage, RequestKernelPages
<1> SUFFICES ASSUME ~ exhausted, Next
             PROVE  [P!Next]_P!vars
  BY <1>2, <1>3
<1>4. ASSUME NEW p \in Pages, Load(p) \/ Store(p) \/ FatalFault(p)
      PROVE  P!Next
  BY <1>4, LoadStep, StoreStep, FatalFaultStep
<1>5. ASSUME NEW p \in Pages, CopyOnWrite(p)
      PROVE  UNCHANGED P!vars
  BY <1>5, CopyOnWriteStutters
<1>6. CASE Compute \/ Syscall
  BY <1>6, ComputeStep, SyscallStep
<1>7. ASSUME NEW c \in Tasks, ForkBegin(c)
      PROVE  UNCHANGED P!vars
  BY <1>7, ForkBeginStutters
<1>8. CASE FlushPage \/ MakeChildReadonly
  BY <1>8, NothingSeen DEF FlushPage, MakeChildReadonly, sched, mmu, phys
<1>9. CASE ClearWritable
  BY <1>9, ClearWritableStutters
<1>10. CASE ForkEnd
  BY <1>10, ForkEndStep
<1>11. ASSUME NEW d \in 1 .. MaxDus, Tick(d)
       PROVE  UNCHANGED P!vars
  BY <1>11, TickStutters
<1>12. ASSUME NEW p \in Pages, TlbFill(p) \/ TlbEvict(p)
       PROVE  UNCHANGED P!vars
  BY <1>12, NothingSeen DEF TlbFill, TlbEvict, sched, phys
<1> QED
  BY <1>4, <1>5, <1>6, <1>7, <1>8, <1>9, <1>10, <1>11, <1>12
  DEF Next, UserStep, ForkStep, TimerStep, TlbStep

(* As long as frames last, a lazy, shared, preemptible copy cannot be told  *)
(* from an eager one: fork copies registers and memory, and no step of a    *)
(* task, of the timer or of the MMU changes what another task sees.         *)
THEOREM ImplementsProcessesHolds == Spec => ImplementsProcesses
<1>1. Init => P!Init
  BY InitProcesses
<1>2. TypeOK /\ SharingInv /\ ForkRunning /\ [Next]_vars => [P!Next]_P!vars
  BY StepProcesses
<1> QED
  BY <1>1, <1>2, TypeOKHolds, SharingInvHolds, ForkRunningHolds, PTL
  DEF Spec, ImplementsProcesses, P!Spec
==============================================================================
