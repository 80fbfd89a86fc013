------------------------------ MODULE CowKernel ------------------------------
(***************************************************************************)
(* Tasks, copy-on-write fork and preemption: syscall/fork.c, memory/cow.c, *)
(* memory/vmm.c, the user half of memory/paging.c, task/sched.c,           *)
(* task/task.S, interrupts/timer.c and the page-fault and system-call      *)
(* paths of interrupts/interrupts.c.                                       *)
(*                                                                         *)
(* One CPU runs user code with interrupts enabled and kernel code with     *)
(* interrupts disabled, so a handler is one step, but for one thing that   *)
(* is never disabled: the MMU may load a page-table entry of the running   *)
(* address space into the TLB, or drop one, between any two instructions.  *)
(* paging_make_readonly is therefore modelled page by page.                *)
(*                                                                         *)
(* A user program is any sequence of the instructions of Program.  A page  *)
(* holds one value, a task has one register, rax; its instruction pointer  *)
(* is the instruction it is to execute next.  Page tables are flat maps    *)
(* from page to entry; the frames they occupy are counted, not their tree. *)
(***************************************************************************)
EXTENDS Integers, FiniteSets

CONSTANTS Tasks,       \* bound: the tasks there may ever be
          InitTask,    \* the one _start creates
          Frames,      \* page frames, numbers other than Null
          Null,        \* frame 0: what pmm_request_pages answers on failure
          NPages,      \* bound: user pages considered
          Image,       \* the pages task_create maps
          ForkFrames,  \* frames one fork may take for tables and heap
          Vals,        \* contents of a page or a register
          Program,     \* the instructions user programs are made of
          Quantum,     \* a task's slice: 1000000 us in sched.c
          MaxDus,      \* bound: longest time between two timer interrupts
          None         \* no task

Pages == 0 .. NPages - 1

Insns == [op : {"load", "store"}, page : Pages]
           \cup [op : {"set", "fork", "print", "invalid"}, page : {0}]

ASSUME TaskAssumption == InitTask \in Tasks /\ None \notin Tasks
ASSUME FrameAssumption ==
  Frames \subseteq Nat /\ Null \in Nat \ Frames /\ IsFiniteSet(Frames)
ASSUME PageAssumption == NPages \in Nat \ {0} /\ Image \subseteq Pages
ASSUME ValsAssumption ==
  {0, 1, 2} \subseteq Vals /\ None \notin Vals /\ Program \subseteq Insns
ASSUME TimeAssumption == Quantum \in Nat /\ MaxDus \in Nat \ {0}
ASSUME ForkAssumption == ForkFrames \subseteq Nat

(* A page-table entry is a frame and flags, "P" for PAGING_PRESENT and "W"  *)
(* for PAGING_WRITABLE (every user page is PAGING_USER).  An entry that was *)
(* never written, or was unmapped, is 0.                                    *)
Entry == [frame : Frames \cup {Null}, flags : SUBSET {"P", "W"}]
Absent == [frame |-> Null, flags |-> {}]
Mapping(f, flags) == [frame |-> f, flags |-> flags \cup {"P"}]
Present(e) == "P" \in e.flags
Writable(e) == {"P", "W"} \subseteq e.flags

VARIABLES
  tasks,      \* tasks that have been created
  next_task,  \* the scheduler's ring
  current,    \* current_task
  ctx,        \* the registers saved in struct task
  left,       \* deadline - timer_elapsed_us, -1 once it is over
  cpu,        \* the registers of the CPU while it runs current
  vmap,       \* vmap[t][p]: the page tables
  tlb,        \* the TLB: entries of current's address space
  content,    \* what each frame holds
  free,       \* the frames pmm.c has not handed out
  tables,     \* ghost: frames handed out for page tables and the heap
  mode,       \* "user", in fork "parent" or "child", or "halted"
  child,      \* the task fork is making, else None
  pos,        \* next page of paging_make_readonly
  stage,      \* what it does next: "flush" or "clear"
  exhausted   \* ghost: pmm_request_pages has answered NULL

sched == <<tasks, next_task, current, ctx, left>>
mmu == <<vmap, tlb>>
phys == <<content, free, tables, exhausted>>
forking == <<child, pos, stage>>
vars == <<sched, cpu, mmu, phys, mode, forking>>

(* left of a task that was never switched to: struct task is malloc'ed and *)
(* fork does not write its deadline.                                       *)
Unset == -2

-----------------------------------------------------------------------------
(* Physical memory: the promise of pmm.c.  Only single pages are requested *)
(* here and none is released, so the next-fit search hands out the lowest  *)
(* free frame, and NULL only when there is none.                           *)

Pool == INSTANCE FramePool WITH free <- free, used <- Frames \ free

Lowest(n) == {f \in free : Cardinality({g \in free : g < f}) < n}

RequestPage(f) ==
  \/ /\ f \in Lowest(1)
     /\ Pool!RequestPages({f})
     /\ UNCHANGED exhausted
  \/ /\ free = {} /\ f = Null
     /\ Pool!RequestPages({})
     /\ exhausted' = TRUE

(* palloc and heap growth for n pages; palloc's callers do not check for   *)
(* NULL and go on with frame 0.                                            *)
RequestKernelPages(n) ==
  /\ Pool!RequestPages(Lowest(n))
  /\ tables' = tables \cup Lowest(n)
  /\ exhausted' = (exhausted \/ Cardinality(free) < n)

-----------------------------------------------------------------------------
(* _start: one task, its image mapped writable, in a ring of its own *)

Init ==
  /\ tasks = {InitTask}
  /\ next_task = [t \in Tasks |-> IF t = InitTask THEN InitTask ELSE None]
  /\ current = InitTask
  /\ left = [t \in Tasks |-> IF t = InitTask THEN Quantum ELSE Unset]
  /\ cpu \in [rax : {0}, insn : Program]
  /\ ctx = [t \in Tasks |-> cpu]
  /\ \E map \in [Image -> Frames] :
       /\ \A p, q \in Image : p < q => map[p] < map[q]
       /\ vmap = [t \in Tasks |-> [p \in Pages |->
                    IF t = InitTask /\ p \in Image
                      THEN Mapping(map[p], {"W"}) ELSE Absent]]
       /\ free = Frames \ {map[p] : p \in Image}
       /\ \A f \in free, p \in Image : map[p] < f
  /\ tlb = [p \in Pages |-> Absent]
  /\ content = [f \in Frames \cup {Null} |-> 0]
  /\ tables = {}
  /\ mode = "user"
  /\ child = None /\ pos = 0 /\ stage = "flush"
  /\ exhausted = FALSE

-----------------------------------------------------------------------------
(* The MMU *)

TlbFill(p) ==
  /\ mode # "halted"
  /\ Present(vmap[current][p])
  /\ tlb' = [tlb EXCEPT ![p] = vmap[current][p]]
  /\ UNCHANGED <<sched, cpu, vmap, phys, mode, forking>>

TlbEvict(p) ==
  /\ mode # "halted"
  /\ tlb' = [tlb EXCEPT ![p] = Absent]
  /\ UNCHANGED <<sched, cpu, vmap, phys, mode, forking>>

(* The entry an access to p uses: the cached one, else the page tables'. *)
Translate(p) == IF Present(tlb[p]) THEN tlb[p] ELSE vmap[current][p]

(* paging_flush_tlb *)
FlushedOutsideChild(p) ==
  IF mode = "child" THEN tlb ELSE [tlb EXCEPT ![p] = Absent]

Flushed(p) == [tlb EXCEPT ![p] = Absent]

-----------------------------------------------------------------------------
(* User instructions *)

Executing(op) == mode = "user" /\ cpu.insn.op = op

Retire(r) == cpu' \in [rax : {r}, insn : Program]

Load(p) ==
  /\ Executing("load") /\ cpu.insn.page = p
  /\ Present(Translate(p))
  /\ Retire(content[Translate(p).frame])
  /\ UNCHANGED <<sched, mmu, phys, mode, forking>>

Store(p) ==
  /\ Executing("store") /\ cpu.insn.page = p
  /\ Writable(Translate(p))
  /\ content' = [content EXCEPT ![Translate(p).frame] = cpu.rax]
  /\ Retire(cpu.rax)
  /\ UNCHANGED <<sched, mmu, free, tables, exhausted, mode, forking>>

Compute ==
  /\ Executing("set")
  /\ \E v \in Vals : Retire(v)
  /\ UNCHANGED <<sched, mmu, phys, mode, forking>>

(* isr128 for the calls that change no kernel state: print, whose text is   *)
(* not modelled, nor what happens if it cannot be read; and the numbers of  *)
(* the table without a procedure.  A number past the table is left out.     *)
SyscallResult(op) == IF op = "print" THEN 0 ELSE 1

Syscall ==
  /\ Executing("print") \/ Executing("invalid")
  /\ Retire(SyscallResult(cpu.insn.op))
  /\ UNCHANGED <<sched, mmu, phys, mode, forking>>

-----------------------------------------------------------------------------
(* exception_handle and cow_copy_on_write *)

Faults(p) ==
  /\ cpu.insn.page = p
  /\ \/ Executing("load") /\ ~ Present(Translate(p))
     \/ Executing("store") /\ ~ Writable(Translate(p))

(* vmm_request_at for one page whose entry is e: a present entry stays. *)
VmmRequestAt(e, f, flags) == IF Present(e) THEN e ELSE Mapping(f, flags)

(* What the faulting entry becomes: unmapped, then mapped to f with the    *)
(* old flags and PAGING_WRITABLE.                                          *)
CowEntryKeepFlags(e, f) == VmmRequestAt(Absent, f, e.flags)

CowEntry(e, f) == VmmRequestAt(Absent, f, e.flags \cup {"W"})

(* A page here is one of user space, so ptr_is_user (interrupts.c:63) holds; *)
(* a fault at an address of the kernel ends as FatalFault does.  The tables  *)
(* that lead to the window for the copy are the matter of PageTables.        *)
CopyOnWrite(p) ==
  /\ Faults(p) /\ Present(vmap[current][p])
  /\ \E f \in Frames \cup {Null} :
       /\ RequestPage(f)
       /\ vmap' = [vmap EXCEPT ![current][p] = CowEntry(vmap[current][p], f)]
       /\ content' = [content EXCEPT ![f] = content[vmap[current][p].frame]]
  /\ tlb' = Flushed(p)
  /\ UNCHANGED <<sched, cpu, tables, mode, forking>>

(* Not present: cow_copy_on_write returns false and the CPU halts for good. *)
FatalFault(p) ==
  /\ Faults(p) /\ ~ Present(vmap[current][p])
  /\ mode' = "halted"
  /\ UNCHANGED <<sched, cpu, mmu, phys, forking>>

-----------------------------------------------------------------------------
(* syscall_fork *)

(* malloc, paging_copy, and the registers of the parent *)
ForkBegin(c) ==
  /\ Executing("fork") /\ c \in Tasks \ tasks
  /\ \E n \in ForkFrames : RequestKernelPages(n)
  /\ vmap' = [vmap EXCEPT ![c] = vmap[current]]
  /\ \E i \in Program : ctx' = [ctx EXCEPT ![c] = [rax |-> cpu.rax, insn |-> i]]
  /\ mode' = "parent" /\ child' = c /\ pos' = 0 /\ stage' = "flush"
  /\ UNCHANGED <<tasks, next_task, current, left, cpu, tlb, content>>

(* paging_make_readonly, first on the parent's tables, then on the child's: *)
(* for each page, flush, then clear PAGING_WRITABLE.                        *)
TargetChild == child

Target == IF mode = "parent" THEN current ELSE child

ReadOnly(e) == [e EXCEPT !.flags = @ \ {"W"}]

FlushPage ==
  /\ mode \in {"parent", "child"} /\ pos < NPages /\ stage = "flush"
  /\ tlb' = Flushed(pos)
  /\ stage' = "clear"
  /\ UNCHANGED <<sched, cpu, vmap, phys, mode, child, pos>>

ClearWritable ==
  /\ mode \in {"parent", "child"} /\ stage = "clear"
  /\ vmap' = [vmap EXCEPT ![Target][pos] = ReadOnly(@)]
  /\ pos' = pos + 1
  /\ stage' = "flush"
  /\ UNCHANGED <<sched, cpu, tlb, phys, mode, child>>

MakeChildReadonly ==
  /\ mode = "parent" /\ pos = NPages
  /\ mode' = "child" /\ pos' = 0
  /\ UNCHANGED <<sched, cpu, mmu, phys, child, stage>>

(* The child enters the ring behind the running task. *)
RingInsertSwapped(c) == [next_task EXCEPT ![current] = c, ![c] = c]

RingInsert(c) == [next_task EXCEPT ![c] = next_task[current], ![current] = c]

ForkEnd ==
  /\ mode = "child" /\ pos = NPages
  /\ tasks' = tasks \cup {child}
  /\ next_task' = RingInsert(child)
  /\ ctx' = [ctx EXCEPT ![child].rax = 0]
  /\ Retire(2)
  /\ mode' = "user" /\ child' = None /\ pos' = 0
  /\ UNCHANGED <<current, left, mmu, phys, stage>>

-----------------------------------------------------------------------------
(* The timer interrupt: isr34, timer_tick, sched_tick, switch_to_task *)

(* Deadlines stay, time passes. *)
Elapse(d) ==
  [t \in Tasks |-> CASE left[t] = Unset -> Unset
                     [] left[t] - d < 0 -> -1
                     [] OTHER -> left[t] - d]

SavedContextNoRax ==
  [ctx EXCEPT ![current] = [rax |-> ctx[current].rax, insn |-> cpu.insn]]

SavedContext == [ctx EXCEPT ![current] = cpu]

NewDeadlineNever(d) == Elapse(d)

NewDeadline(d) == [Elapse(d) EXCEPT ![next_task[current]] = Quantum]

(* switch_to_task: the registers of t, and its cr3, which empties the TLB. *)
SwitchToTask(t) ==
  /\ cpu' = SavedContext[t]
  /\ tlb' = [p \in Pages |-> Absent]

Tick(d) ==
  /\ mode = "user"
  /\ IF left[current] - d < 0
       THEN /\ ctx' = SavedContext
            /\ current' = next_task[current]
            /\ left' = NewDeadline(d)
            /\ SwitchToTask(next_task[current])
       ELSE left' = Elapse(d) /\ UNCHANGED <<ctx, current, cpu, tlb>>
  /\ UNCHANGED <<tasks, next_task, vmap, phys, mode, forking>>

-----------------------------------------------------------------------------
UserStep ==
  \/ \E p \in Pages : Load(p) \/ Store(p) \/ CopyOnWrite(p) \/ FatalFault(p)
  \/ Compute
  \/ Syscall
  \/ \E c \in Tasks : ForkBegin(c)

ForkStep == FlushPage \/ ClearWritable \/ MakeChildReadonly \/ ForkEnd

TimerStep == \E d \in 1 .. MaxDus : Tick(d)

TlbStep == \E p \in Pages : TlbFill(p) \/ TlbEvict(p)

Next == UserStep \/ ForkStep \/ TimerStep \/ TlbStep

Spec == Init /\ [][Next]_vars

(* The timer interrupts for ever, a handler runs to its end, and a task    *)
(* that gets the CPU again and again executes its instruction in the end:  *)
(* a slice of a second is far longer than an instruction.                  *)
Fairness ==
  /\ WF_vars(TimerStep)
  /\ WF_vars(ForkStep)
  /\ \A t \in Tasks : SF_vars(current = t /\ UserStep)

FairSpec == Spec /\ Fairness

-----------------------------------------------------------------------------
(* Properties *)

(* Types; the running task and every successor in the ring exist.           *)
TypeOK ==
  /\ tasks \subseteq Tasks /\ current \in tasks
  /\ next_task \in [Tasks -> Tasks \cup {None}]
  /\ \A t \in tasks : next_task[t] \in tasks
  /\ cpu \in [rax : Vals, insn : Program]
  /\ ctx \in [Tasks -> [rax : Vals, insn : Program]]
  /\ left \in [Tasks -> Unset .. Quantum]
  /\ vmap \in [Tasks -> [Pages -> Entry]]
  /\ tlb \in [Pages -> Entry]
  /\ content \in [Frames \cup {Null} -> Vals]
  /\ free \subseteq Frames /\ tables \subseteq Frames \ free
  /\ exhausted \in BOOLEAN
  /\ mode \in {"user", "parent", "child", "halted"}
  /\ pos \in 0 .. NPages /\ stage \in {"flush", "clear"}
  /\ child \in Tasks \cup {None}
  /\ mode \in {"parent", "child"} <=> child # None
  /\ child \notin tasks
  /\ stage = "clear" => pos < NPages /\ child # None

(* What copy-on-write is for: a frame a task may write is mapped by no      *)
(* other task and at no other page, so fork has made every page it shares   *)
(* read-only in both tasks, for any order of forks, faults and preemptions. *)
(* Once frames have run out frame 0 stands for every missing one.           *)
WritableFramesPrivate ==
  ~ exhausted =>
    \A t, u \in tasks : \A p, q \in Pages :
      /\ Writable(vmap[t][p]) /\ Present(vmap[u][q])
      /\ vmap[t][p].frame = vmap[u][q].frame
      => t = u /\ p = q

(* When user code runs, a cached translation grants nothing the page tables *)
(* of the running task do not grant.  paging_make_readonly flushes an entry *)
(* before it clears PAGING_WRITABLE (paging.c:217-218), so the MMU may load *)
(* it again, still writable; the second call, on the child's tables, is     *)
(* what removes it.                                                         *)
TlbCoherent ==
  mode = "user" =>
    \A p \in Pages :
      Present(tlb[p]) =>
        /\ Present(vmap[current][p])
        /\ tlb[p].frame = vmap[current][p].frame
        /\ Writable(tlb[p]) => Writable(vmap[current][p])

(* The inductive invariant behind these two.  Mapped frames are in use; a   *)
(* fork in progress has cleared PAGING_WRITABLE up to pos in the tables it  *)
(* is at, and a cached entry may still be writable only on a page the call  *)
(* on the child's tables has not flushed yet.                               *)
MappedFramesHeld ==
  ~ exhausted =>
    \A t \in Tasks : \A p \in Pages :
      Present(vmap[t][p]) =>
        /\ vmap[t][p].frame \in Frames \ free
        /\ vmap[t][p].frame \notin tables

ForkProgress ==
  /\ mode \in {"parent", "child"} =>
       \A p \in Pages :
         /\ vmap[child][p].frame = vmap[current][p].frame
         /\ Present(vmap[child][p]) <=> Present(vmap[current][p])
  /\ mode = "parent" =>
       \A p \in Pages : p < pos => "W" \notin vmap[current][p].flags
  /\ mode = "child" =>
       \A p \in Pages : /\ "W" \notin vmap[current][p].flags
                        /\ p < pos => "W" \notin vmap[child][p].flags

StaleAllowed(p) ==
  \/ mode = "parent"
  \/ mode = "child" /\ (p > pos \/ (p = pos /\ stage = "flush"))

TlbBounded ==
  \A p \in Pages :
    Present(tlb[p]) =>
      /\ Present(vmap[current][p])
      /\ tlb[p].frame = vmap[current][p].frame
      /\ Writable(tlb[p]) => Writable(vmap[current][p]) \/ StaleAllowed(p)

SharingInv ==
  MappedFramesHeld /\ ForkProgress /\ TlbBounded /\ WritableFramesPrivate

(* A fault is resolved by one copy: the frames given to user pages stay     *)
(* within one per page of the image and two more per page for every fork,   *)
(* one for each side.  (No frame is ever given back: the last task to write *)
(* a shared page copies it too, and the frame it leaves is lost.)           *)
FrameBudget ==
  Cardinality(Frames \ (free \cup tables))
    <= Cardinality(Image) * (2 * Cardinality(tasks) - 1)

(* The ring links all the tasks: no smaller set of tasks is closed under    *)
(* next_task, so the scheduler loses no task however forks nest.            *)
RingIsAllTasks ==
  \A S \in SUBSET tasks :
    S # {} /\ (\A t \in S : next_task[t] \in S) => S = tasks

(* sched_tick compares the time with the deadline of the running task only  *)
(* after a switch wrote it: the uninitialised deadline of a forked task     *)
(* (fork.c:16-30) is never read.                                            *)
DeadlineSet == left[current] # Unset

(* cow.h:10 cow_copy_on_write "return[s] false on failure": it never goes   *)
(* on with a page for which pmm_request_pages answered NULL.                *)
NullNeverMapped ==
  \A t \in tasks : \A p \in Pages :
    Present(vmap[t][p]) => vmap[t][p].frame # Null

(* The memory and the registers of a task as a user program sees them.      *)
Memory(t) ==
  [p \in Pages |->
     IF Present(vmap[t][p]) THEN content[vmap[t][p].frame] ELSE None]

Regs(t) == IF t = current THEN cpu ELSE ctx[t]

(* Copy-on-write, lazy and shared, is indistinguishable from an eager copy; *)
(* preemption, page faults and the TLB are invisible to user programs.      *)
P == INSTANCE Processes
       WITH NoPage <- None,
            memory <- [t \in tasks |-> Memory(t)],
            regs <- [t \in tasks |-> Regs(t)],
            stopped <- mode = "halted",
            broken <- exhausted

ImplementsProcesses == P!Spec

(* Every task runs again and again, whatever the others do.                 *)
EveryTaskRuns ==
  \A t \in Tasks : t \in tasks ~> current = t \/ mode = "halted"

(* A store takes effect: the task is not stuck in a loop of page faults.    *)
StoreCompletes ==
  \A t \in Tasks : \A p \in Pages : \A v \in Vals :
    (/\ t \in tasks
     /\ Regs(t) = [rax |-> v, insn |-> [op |-> "store", page |-> p]])
    ~> (mode = "halted" \/ Memory(t)[p] = v)
=============================================================================
