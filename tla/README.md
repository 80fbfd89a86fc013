# shedOS: specifications

TLA+ modules for the kernel under `kernel/src`, checked with TLC, with theorems
checked by TLAPS. Paths below are relative to `kernel/src`.

Contents: 1 the system, 2 the modules, 3 the runs, 4 findings, 5 proofs, 6 what is
not modelled.

## 1. The system

shedOS is a single-CPU x86-64 kernel started by stivale2. `_start` brings up
memory, the terminal, the descriptor tables and the interrupt controllers,
loads one ELF image as the first task and enters the scheduler. From then on the
kernel runs only in handlers: page faults, the HPET timer interrupt, `int 0x80`.
All gates are interrupt gates, so a handler is never interrupted.

| part | state | operations | what makes it correct |
|---|---|---|---|
| physical memory manager `memory/pmm.c`, `bitmap.c` | bitmap, `last_free`, `free_memory` | initialize, request, release | no frame granted twice; only usable frames; NULL only when full; the byte count is exact |
| paging `memory/paging.c` | four-level tables, TLB | map, unmap, get, copy, make_readonly | a copy translates as its source; no stale translation |
| vmm `memory/vmm.c` | - | request_at, release_at | never maps a frame it did not get |
| copy-on-write, fork `memory/cow.c`, `syscall/fork.c` | entries' writable bits | fork, fault | memory is private; a fault is resolved by one copy |
| scheduler `task/sched.c`, `task.S`, `interrupts/timer.c` | task ring, deadlines, saved registers | tick, switch | registers survive preemption; no task is lost or starved |
| interrupt entry `interrupts/interrupts.c`, `.S` | the frame on the stack | exception, isr34, isr128 | a handled fault is invisible; results land in rax |
| task creation `task/task.c` | task structure, image | create, new_tid | image complete, .bss zero |
| heap `libk/alloc.c` | chunk list | malloc, mfree, palloc, pfree | chunks disjoint and inside mapped memory |
| NVMe `pci/nvme.c` | queue rings | queue creation, send_cmd_sync, read | each command gets its completion |
| drive, partition, vfs | block buffers, GPT slots | drive_read, partition_load_drive | reads stay in their buffer, buffers are returned |
| registries `device/`, `userspace/` | 255 slots each | register | one slot per object |
| terminal, printf | cursor, static buffer | putchar, scroll | the cursor stays on the screen |
| strings `libk/strutil.c`, addresses `memory/addrutil.c` | - | conversions | agree with their reference definitions |
| PCI, ACPI tables, APIC, HPET, GDT, IDT, cpuinfo | device registers | initialisation | table walks stay in the tables |

Interactions: fork calls the heap, paging and (through both) the physical memory
manager; a page fault calls cow, which calls vmm, which calls pmm and paging; the
timer interrupt calls the scheduler, which leaves through `switch_to_task`. User
programs interact with all of this by memory accesses and system calls only.

Hard behaviours: preemption between any two user instructions; the MMU, which
reads the page tables and fills the TLB at any moment, also while a handler changes
them; forks of forks with pages shared by several tasks; frames running out;
integer edges in the allocators (byte addresses against page indices, divisions
that round down, sums of lengths against addresses). There is no second CPU, no
kernel thread and nothing persistent. The `hazards` of `PROJECT.json` list
them at their lines.

## 2. Modules

| module | models |
|---|---|
| `FramePool` | abstract: frames are free or in use, requests and releases move sets of them |
| `PhysMem` | `pmm.c` and `bitmap.c`; implements `FramePool` |
| `Processes` | abstract: tasks with private memory and registers; fork copies both |
| `CowKernel` | fork, cow, vmm, flat page tables, TLB, scheduler, timer, system calls; built on `FramePool`, implements `Processes` |
| `AddressSpaces` | abstract: a flat map per task, one of the kernel, frames of their own |
| `PageTables` | the trees of tables of `paging.c` under `task_create`, fork, cow, heap growth and cr3 switches; implements `AddressSpaces` |
| `KernelHeap` | `malloc` and `mfree` of `libk/alloc.c` |
| `NvmeChannel` | abstract: commands executed one by one, each before its caller goes on |
| `NvmeQueue` | the two rings of `send_cmd_sync` against a controller; implements `NvmeChannel` |
| `Storage` | PCI enumeration, NVMe set-up and reads, drives, devices, partition tables; built on `NvmeChannel` |
| `Words` | words of a given width and the processor's `&`, `\|`, `~` on them |
| `StrUtil`, `StrMemory` | what each procedure of `strutil.c` and `memutil.c` computes, and their calls on one memory |
| `AddrUtil` | `addrutil.c` in words of a few bits |
| `Console` | `printf.c`, `timer_format`, the terminal and both frame buffers; uses `StrUtil` |
| `Platform` | `_start`, descriptor tables, I/O APIC, HPET, IDT, interrupt stubs |
| `PhysMemProofs`, `CowKernelProofs`, `PageTablesProofs`, `KernelHeapProofs`, `PlatformProofs` | theorems about the module each is named after |
| `StorageProofs` | theorems about `Storage` and `NvmeQueue` |
| `TextProofs` | theorems about `AddrUtil`, `StrUtil`, `StrMemory` and `Console` |
| `NatLemmas` | lemmas on least elements, recursive functions and division |
| `MC...` | values for TLC; `MCText` puts `Console`, `StrMemory` and `AddrUtil` side by side |

How they fit together: `CowKernel` takes from `PhysMem` only what `FramePool` promises, and
from paging only the flat maps that `PageTables` is proved to implement. `Storage` executes a command in one
step because `NvmeQueue` implements `NvmeChannel`. `Console` formats with the operators that
`StrMemory` checks. `Platform` has one step for what `CowKernel` does between
an entry and the return to user mode.

### PhysMem

A page frame is named by its index, the bitmap is the set `locked` of indices
whose bit is 1, over the bits that the bitmap's bytes have (8 per byte, as in the
code); `PageSize` stands for 0x1000 and keeps its role in all three places where
the code confuses units: the pages of the bitmap, the cursor after a release, and
the byte count. `Init` is `pmm_initialize` on any memory map of `MemMaps`, whose
entries are page-granular (stivale2 guarantees 4096-byte alignment of usable
entries) and do not overlap. `RequestPages` is `Grant`, the next-fit search as "the first index of
`Fits`", or `Deny`, the answer NULL; `ReleasePages` releases pages a client holds, all or
part of a grant. `held`, `twice` and `denied` are ghosts: what clients hold, what was
granted while held, and the size of a request just denied.

`SoundBoot` says for which memory maps `pmm_initialize` writes a bitmap in usable memory and nothing else: no gap
below usable memory (`UsableIndexed`) and an entry large enough for the bitmap. It is not assumed of any map. After another boot,
and once a client was granted a page that holds bytes of the bitmap, the bits are anything (`Lost`) and the model stops: that is
the finding of `phys_mem_bitmap`, and the other properties are about every map and every history up to there. Of a map it is assumed that
it has a usable entry of greatest length, as `largest_entry` is read without a test.

### CowKernel

Handlers run with interrupts off, so a handler is one step - with one exception.
The MMU is not stopped by `cli`: it may load an entry of the running address
space into the TLB, or drop one, between any two instructions. `paging_make_readonly` is
therefore modelled page by page as `FlushPage` then `ClearWritable`, in the order of
`paging.c:217-218`, first over the parent's tables, then over the child's, and `TlbFill` and
`TlbEvict` may happen anywhere. The other handlers write an entry before they
flush it, or change the tables of no running task, so splitting them would add only
steps that change nothing a later state can see.

| definition | code |
|---|---|
| `Load`, `Store`, `Compute`, `Retire` | a user program: any sequence of the instructions in `Program` (external) |
| `TlbFill`, `TlbEvict`, `Translate`, `Faults` | the CPU (external) |
| `CopyOnWrite`, `FatalFault` | `exception_handle`, `cow_copy_on_write`, `vmm_request_at` |
| `Syscall` | `isr128` for print (0) and an unknown number (1) |
| `ForkBegin` ... `ForkEnd` | `syscall_fork` |
| `Tick` | `isr34`, `timer_tick`, `sched_tick`, `switch_to_task` |

Abstractions: a page holds one value and a task has one register besides its
instruction pointer, the next instruction; page tables are flat maps from page to entry; a fork takes some
number of frames (`ForkFrames`) for tables and heap. Frames handed out for page
tables are taken to be zero before they are filled; what happens if they are not is a matter of
`PageTables`. `left[t]` is `deadline - now`, so time is unbounded and the state is not;
it is `Unset` until a switch writes the deadline of a forked task. The kernel's own mapping for
the copy (`kernel_copy_vaddr`) lives within one handler and does not appear, nor do the tables taken for it. A page is one of user space, so
`ptr_is_user` holds; the text behind print's pointer, and a call number past the table, are left out.

`pmm_request_pages(1)` without releases hands out the lowest free frame, which
`RequestPage` does; frame 0 is the answer NULL, and the code goes on with it.

`Processes` is what a user program sees. `CowKernel` implements it under the
mapping: the memory of a task is the contents of the frames its entries name,
its registers are the CPU's if it is running and the saved ones otherwise. Preemption, page faults, the
TLB and the steps of fork are stutters; fork is the abstract step at `ForkEnd`.
Once a request was answered NULL (`exhausted`) nothing is promised.

### PageTables

Tables are frames of `mem`. Three levels stand for four: the code treats the top
table specially (half of it is the kernel's) and the leaves, and the two levels between alike.
The walks are written out level by level: `PagingMap` goes through `Child` twice and sets a leaf, `PagingCopy` runs `CopyTop` over
the user half, that `CopyMid`, that `CopyLeaf`. The loops are recursive functions on the number of passes. An operator takes the
whole machine and gives the one it leaves, so that a handler is the composition of the
calls it makes. `paging_make_readonly` changes no entry that leads to a table, so `PagingMakeReadonly` names the pages it visits at once. Which frame a request gets is fixed (the lowest free one), as nothing
releases frames here.

| definition | code |
|---|---|
| `PagingInitialize`, `Init` | `paging_initialize`: the shared tables of the upper half, the huge pages, high memory, then `_malloc_init` |
| `TaskCreate` | `task_create`: `malloc` growing the heap, the copy of the kernel's table, the segments (`LoadImage`), the stack |
| `Fork` | `malloc` growing the heap, `paging_copy`, both passes of `paging_make_readonly` |
| `CopyOnWrite` | `cow_copy_on_write`, with the window through which the page is copied |
| `SwitchTo` | `paging_write_cr3` |

Frames may hold junk at boot (`DirtySets`). `paging_copy` clears no table, so junk may become
entries of a copied table: `stale` records that. `exhausted` records a NULL answer. The
model stops after either, and `AddressSpaces` promises nothing from there (`broken`).
Assumed: at least three entries a table, of which user space leaves two (`SizeAssumption`), segments below the kernel, and
room for one task (`ImageAssumption`). The heap and the window share one table of leaves (`SizeAssumption`);
the heap of the code spans many, all made at boot like this one.

### KernelHeap

The state is memory as `alloc.c` sees it: `hdr` maps the address (relative to
`alloc.start`) of each chunk header to `in_use`, `size` and `size_prev`, and `mapped` is where
mapped memory ends. `blocks` is a ghost, what clients hold. `MallocFit`, `MallocGrow` and `MallocNull`
are the three ways through `malloc`; `MfreeAlone`, `MfreeWithPrev` and `MfreeAstray` those through `mfree`, each with
the merge of the next chunk (`MergeNext`). Chunks lie in ascending order, so the walk of `malloc` stops at the lowest
header of `Stops`.

Three events turn memory into something that is no list: a chunk taken to the last byte, a
chunk too small for its request, an `mfree` that writes through a wrong previous header. `list` records
them and the model stops there; what the program does afterwards depends on the contents of client
memory. The invariants hold for every state before (`intact`), and the findings say how the events come about.
If `PREV_HDR` is the address of no header, `mfree` may read either value of `in_use`.
`vmm_request_at` is taken to succeed (finding 2 is about when it does not). The code calls `mfree`
nowhere yet; clients are any that free what they hold, once.

| definition | code |
|---|---|
| `Fits`, `Ends`, `Found` | the walk, `alloc.c:77-80` |
| `Growth`, `Grown` | appending pages and a new tail, `alloc.c:84-100` |
| `Split`, `Take` | splitting the chunk and returning the block, `alloc.c:105-114` |
| `Merge` | merging with the previous chunk, `alloc.c:134-135` |
| `MergeNext`, `WithSizePrev` | merging with the next chunk, `alloc.c:139-145` |

### NvmeQueue

The driver's half is `Submit` (the entry, the doorbell) and `Take` (the phase
tag is seen, cleared, the head doorbell rung); the loop between them is the wait for `Take` to be
possible. The controller's half is `Execute` and `Post`, external, from what the driver
expects of it: phase tags start at 1 and are inverted on each pass. The rings are memory of
`palloc`, which clears nothing, so their tags are arbitrary at first; `clean` says they
were zero, and the promises of `NvmeChannel` hold for clean rings. `FirstPass` says how long: the first
completion of the second pass has no tag, so `send_cmd_sync` returns for as many commands as a ring has entries and
no more, which is what `Storage` counts (`stage = "hung"`).

### Storage

Nothing interrupts this code, so a procedure is a step, and so is each round of the loops over buses and
namespaces. What a block of a disk holds is its name, so a read shows which block each byte
came from. Every command counts against the first pass of its ring; the next one hangs
(`stage = "hung"`), as do all commands on the second namespace of a controller, whose queues the controller
refuses. Transfers go as the code asks: `read_blocks` splits a read into transfers of 16
blocks (4 here), of which only the first page has an address (prp1); the rest goes
to physical page 0 (prp2). `Transfer` is one turn of that loop and `ReadBlocks` the function of the turns done so far.
`Reliable` says which blocks of a read are right all the same. A transfer is two pages (`max_blocks`, 16 blocks, for
blocks of 512 bytes), whatever the size of a block here.

The header of the partition table (`gpt`) gives the block it begins at, the number of its entries and their size, as the disk has them,
and `PartitionLoadDrive` takes all three from there: entry e is read at e times the size (`EntryAt`), from 32 blocks (8 here) at the block the
header names. An entry is in use if its `first_lba`, one value at its first byte, is not 0. An entry behind the 32 blocks, or in
a page of rubbish, is whatever lies there; for the first kind the model may also go astray, as the memory need not be mapped, and it
does if more entries are copied than the product of number and size, modulo 2^32, has room for (`Overruns`). That the address
of the table may wrap at 2^64 is left out: either way those blocks are not relied on.

`palloc` cannot fail here: `MemoryAssumption` gives the model pages for the largest number that boot and one read can hold
together (`MostPages`), each search having room between any of them. Memory of a real machine is larger by orders of
magnitude; what happens when it is not is a matter of `PhysMem` and finding 2.

### StrUtil, StrMemory, AddrUtil

`StrUtil` is pure: memory is a function from addresses to bytes, and each procedure an
operator on it. `StrMemory` lets every procedure run on every memory of five bytes, in any order,
with `strtok`'s static pointer between calls. `AddrUtil` has the conversions and alignments for
words of 9 bits, halves of 2^7 and pages of 2^5. Both use `Words`, where `&`, `|` and `~` are operations on the set of
positions at which a word has a 1. `utos` takes as many digits as `i` has and pads them to `min_len` with the
digit for 0, which the loop of the code does by dividing on after `i` is 0.

### Console

A cell is a character of the screen, a letter and its colour. `Printf` goes through
`Format`, the header with its time stamp, each conversion into the static buffer `buf`, and
`TerminalPutchar` into `fb_mmio` and its copy `fb_buffer`. Ghosts say what should come out: `meant`,
computed from the arguments alone, and `paper`, an endless roll of the terminal's width. Nothing
that prints is interrupted by anything else that prints, so a message is one step. Assumed (`ConsoleAssumption`,
`MessageAssumption`): a screen of at least 32 by 32 pixels, since on one of a single column or none the cursor leaves
the screen; sides that fit in an `int`; and messages whose conversions get
arguments of their type. Conversions `printf` does not know are not among the formats, and a negative `%d` is taken to mean
the unsigned value the code prints.

### Platform

`fw` is the machine: boot tags, root tables with checksums right or wrong, the records of the MADT,
interrupt lines. `stage` goes through the order of `_start` and may end in `panic` (an
assertion), `fault` (a tag that is missing is read at NULL), `astray` (more records than slots) or `halt`.
`ParseMadtEntry` is one record of the walk, `hdr` the record it is at, and `RouteOverride` one turn of the loop over the
overrides it stored, `routed` of which are done. After that user code, exceptions,
system calls, the counter of the HPET and device lines interleave, and `Deliver` is what the
I/O APIC and the stubs make of a line. `count` is all the HPET has counted; what it shows is `count` modulo `fw.wrap`, since
the code does not ask whether the counter has 32 bits or 64. The microseconds between two interrupts pass through an `int`
(`AsInt`, for `Ints` values) on their way to a `uint64_t` (`Longs` values); `late` is a ghost, whether one did not fit. The pin of an
override is its GSI modulo 128, which is what a byte for the register's number leaves of it. What `struct ioredtbl` does not set is memory of the stack,
so the destination of a redirection is any processor id.

## 3. Runs

| run | instance | shows |
|---|---|---|
| `phys_mem` | 5 maps of 7 to 16 pages, requests up to 3 pages, releases up to 2 | all of `PhysMem`, refinement of `FramePool` |
| `phys_mem_null` | 3 of them, 1 page each | finding 1 |
| `phys_mem_bitmap` | the 5 maps, 1 page each, no releases | finding 4 |
| `cow_three` | 3 tasks, 1 page, 7 frames, slices of 1, ticks of 1 or 2, fairness | privacy, frame budget, deadlines, ring, refinement, every task runs, stores complete |
| `cow_shared` | 2 tasks, 2 pages and a hole, 4 frames | inductive invariant, TLB coherence, refinement, frames running out, the fatal fault |
| `cow_oom` | 2 tasks, 2 frames | finding 2 |
| `heap` | pages of 5 bytes, headers of 1, a region of 2 pages, blocks of 1, 4, 7 and 0 | list, blocks, disjointness |
| `page_tables` | 3 levels of 3 entries, 21 frames, 3 images, 3 tasks | trees private, kernel shared, segments mapped, flushes, refinement |
| `nvme_hang` | a ring of 3, 4 commands | finding 3 |
| `storage` | up to 2 controllers of up to 2 namespaces, disks of 14 blocks, 7 headers of a partition table, rings of 5; beside it a ring of 6, 7 commands, every content of the tags | reads, buffers, slots, partitions; rings, one pass and no more, refinement, commands complete on the first pass |
| `text` | 5 bytes, 9-bit addresses, a terminal of 4 x 3, 5 messages, 3 prints | printing, screen, strings, addresses |
| `platform` | 32 machines, a counter up to 11, ints of 8 values, one counter of 7 | boot, overrides, stubs, time, ticks |

Bounds. `PageSize` 2 with 8 bits a byte is the smallest that has all the
roundings: maps of 8 and 9 pages fill one bitmap page exactly, one of 16 leaves half a page of its bitmap unfilled, and one has usable
memory above a gap. A hole of two or three reserved pages and runs of
three make searches fail in the middle, and releases of parts of a run leave gaps. In `CowKernel` three tasks are the
fewest in which a child of a child shares a frame with its grandparent; two pages are the
fewest for which the flush of one leaves the other stale; few frames let requests fail in
the middle of a run. Slices of 1 with ticks of 1 or 2 let a tick switch, not switch, or overshoot.
In the heap a region of two pages can be grown twice, the second time past its end, and free chunks of 1 to 14 bytes lie
between blocks in every arrangement; all ways through `malloc` and `mfree`, also those that end the list, are taken.

In `PageTables` three entries a table are one for user space, one for the mapping of memory and
one for the heap; the images lie in a page, across two leaf tables, and twice in a page. Twenty-one frames
suffice for two forks and some copies and run out in others. A ring of 6 is passed once with a
command to spare; the proofs are about rings of any size and any number of passes. In `Storage` two blocks a page and
two pages a transfer keep the ratio of the code, a table of two transfers has reliable and unreliable halves, reads
start within a block and end at the end of the disk, two slots let the registries fill up, and five commands a ring
let it come to its end. In `text` three messages and the two of `terminal_initialize` scroll a terminal of twelve cells several times; the times reach
the stamp's last digit and the one that overruns it. `platform` has tables of both widths, a signature twice, each
record type, two overrides of one pin, GSIs past a byte that fall on a pin and on none, reserved flags, one slot for I/O APICs and two
for overrides; three counts to a tick and
interrupts as late as one likes cover an interrupt missed, late and on time, a counter that wraps at 7 one that goes back, and an
interrupt after 8 counts one that no longer fits an int. In `storage` the headers put the table behind the header and further on,
let entries begin in the middle of a block and lie behind the buffer, have entries of size 0 and more entries than room.
`MCStorage` puts `NvmeQueue` beside `Storage`, each with initial states of its own, so that one run checks both.

Deadlock is checked where the system never stops: `cow_three`. The other models stop on
purpose: when a page of the bitmap was granted, at a fatal fault, when a list is destroyed, at an answer NULL, at a hang of the driver,
where memory nobody vouches for is read or written, at a bound.

Type invariants of `PhysMem`, `CowKernel`, `KernelHeap` and `NvmeQueue` are theorems of their own (section 5); those of the
others are part of the first invariant of their run (`TreesRight`, `MemoryRight`, `ScreenRight`, `StringsRight`, `BootedRight`),
which are theorems too.

Fairness. `CowKernel` (`FairSpec`): the timer interrupts
again and again (the HPET is periodic); handlers run to their end (weak
fairness of `ForkStep`; there is no loop that waits in them); a task that is running
infinitely often executes infinitely often (strong fairness per task: a slice is a
second, far longer than an instruction, but the model's ticks could
always come first). Nothing is assumed of the TLB or of which instruction a program chooses.
`NvmeQueue` (`FairQueueSpec` in `nvme_hang`, the same fairness for the queue's half of the `storage` run in its `MCSpec`): the controller executes and posts, and the polling loop sees a tag that stays set.
`Platform` (`Spec`): the boot and a system call run on (weak fairness; they wait for nothing), and a raised line of the timer
is delivered if it can be again and again (strong fairness: a program that keeps making system calls
enables and disables interrupts, and the line stays raised).

Every property of a passing run has a mutant in `PROJECT.json`: a definition with a plausible mistake
(an operator just above it) under which the property fails.

## 4. Findings

1. `pmm.c:97`: `pmm_release_pages` compares and assigns a byte address where
   `last_free` is a page index. The released page stays behind the cursor, and requests
   fail while it is free. One release is enough for `NullOnlyWhenFull` to fail.
2. `vmm.c:20`: a NULL answer is mapped as frame 0, and `cow_copy_on_write` returns true.
3. `nvme.c:538`: the driver waits for phase tag 1 on every pass, the controller writes 0 on the second: the 257th
   command of a queue waits for ever.
4. `pmm.c:64`: the number of pages locked for the bitmap is rounded down, so the last page with bytes of the bitmap, or all of it
   below 128 MiB of memory, stays free and is granted like any other (`BitmapKept` fails).

In finding 2 the fork takes the last free frame and the parent's next store gets frame 0 for the copy.

What the models take note of and stop at, or state in their definitions, without a run of its own:

| place | what |
|---|---|
| `pmm.c:33` | `total_memory` is a sum of lengths; unlocking usable memory above a gap clears bits behind the bitmap (`SoundBoot`) |
| `pmm.c:51` | an entry too small for the bitmap is overrun by it (`SoundBoot`) |
| `pmm.c:84` | a usable page 0 would be granted as address 0 |
| `paging.c:191` | a copied table keeps what its frame held where the source has no entry (`stale`) |
| `alloc.c:84` | a request that leaves less than a header in its last page gets a chunk that is too small; `size_old - size` wraps (`list = "short"`) |
| `alloc.c:86` | the start, not the end, of appended memory is compared with the end of the region: `mapped` passes `HeapSize` |
| `alloc.c:110` | a chunk taken to the last byte leaves a header of size 0 that later walks take for the tail (`list = "exact"`) |
| `alloc.c:131` | `PREV_HDR` goes back by the size of the chunk being freed, not the previous one (`list = "astray"`) |
| `task.c:42` | the sizes given to `memset` and `memcpy` are swapped: .bss gets the bytes behind the segment |
| `task.c:61` | `tid_next` wraps after 256 tasks; nothing reads the id yet |
| `interrupts.c:110` | a system-call number past the table reads what lies behind it |
| `nvme.c:291`, `304` | the last transfer asks for a full 16 blocks, and the second page of a transfer goes to physical page 0 |
| `nvme.c:319` | a phase tag left in a ring's memory is taken for a completion (`clean`) |
| `nvme.c:416` | the queues of a second namespace are refused and its first read hangs |
| `nvme.c:542` | a command that failed is only printed |
| `partition.c:42` | entries behind the 32 blocks read are taken from whatever lies there (`stage = "astray"`) |
| `partition.c:34` | number times size of the entries may overflow or count entries of less than 128 bytes: `entries[]` is overrun (`Overruns`) |
| `partition.c:67` | 32 blocks allocated, the pages of one released |
| `pci.c:31` | the last bus of the table is not enumerated |
| `kernel_function.c:12` | one registration fills every slot and panics; it has no caller |
| `start.c:144` | a tag that is missing is read at NULL (`stage = "fault"`) |
| `apic.c:163` | records beyond the slots are written behind them (`stage = "astray"`) |
| `apic.c:95` | a record of length 0 makes the walk endless; `WalkEnds` is about tables without one |
| `apic.c:128` | a GSI of 128 or more is written to another pin, or to a register that is none (`IoredtblWrite`) |
| `hpet.c:121` | a counter of 32 bits wraps after minutes, and the time goes back with it (`HpetReadCounter`) |
| `timer.c:25` | a tick 2^31 microseconds late is subtracted (`AsInt`, `late`) |
| `apic.c:214` | the destination of a redirection is memory of the stack |
| `idt.c:18` | every override is unmasked and only vector 34 has a gate (`stage = "halt"`) |
| `cpu.S:13` | `io_outb` has port and value the other way round than `cpu.h:6`; `pic_initialize` does not reach the PIC |
| `printf.c:41` | a string longer than the buffer, or a time past 9999 s, is written behind it (`overrun`) |
| `terminal.c:26` | the first `terminal_clear` does nothing: the terminal is not ready; the first scroll shows what memory held |
| `strutil.c:57` | `stou` takes 'a' for 0 and rejects 'A'; it has no caller |

What the models confirm where one could doubt it: the flush before the clear in
`paging_make_readonly` is harmless, but only because the second call, on the
child's tables, flushes the same addresses again while the parent's tables, by
then read-only, are the ones the MMU reads (`TlbCoherent`). The unbounded inner
loop of `pmm_request_pages` never leaves the bitmap, because a slack bit stays set behind the
last page (`ScanStopsInBitmap`). The deadline `fork` leaves uninitialised is never read (`DeadlineSet`).
What the kernel maps after a task was made is seen by every task, because `paging_initialize` makes
the tables of the upper half in advance (`TreesRight`). Stubs 15, 21 and 29 are of the wrong kind and do no harm,
because those exceptions never return (`ReturnsBalanced`). The time is what the HPET showed at the last tick, however late that came within 2^31 microseconds (`TimeKept`).

## 5. Proofs

`PhysMemProofs`, for every page size, every set of memory maps and every
bound: `TypeOK`, `NoDoubleGrant`, `GrantedPagesUsable`, `ScanStopsInBitmap`,
`FreeMemoryCount` and the refinement of `FramePool`. The inductive invariant
says that the bits set are exactly those set at boot and those of held pages,
disjointly, and that the cursor does not pass the last page. The key lemma is
`SlackBit`: the bit at index `TotalPages` is in the bitmap, is set at boot and belongs to
no usable page, so no release clears it; hence a run the search accepts ends
before it (`RunBelowSlack`). `FreeMemoryCount` needs the cardinality lemma
`CountDown` besides. They hold of maps whose boot is not sound because the model stops there, and of all others until
a page of the bitmap is granted; `SoundBoot` is a case of the proof and no assumption.

`CowKernelProofs`, for any tasks, pages, frames and program: `TypeOK`, `SharingInv`,
`WritableFramesPrivate`, `TlbCoherent`, `RingIsAllTasks`, `DeadlineSet`.
`WritableFramesPrivate` is not inductive alone, since in the middle of a fork the child's tables
hold writable entries to the parent's frames. `SharingInv` adds that mapped frames are
held (so a fresh one is mapped nowhere), how far the two passes of fork have come
(`ForkProgress`), and which cached entries may still be writable (`TlbBounded`: any
page during the first pass, only pages not yet flushed during the second). It has one lemma per action.
`RingIsAllTasks` is stated as "no proper non-empty subset of the tasks is closed under
`next_task`", which makes its proof a matter of sets: if S is closed after an insertion,
S without the child was closed before.

The same module proves the refinement: `ImplementsProcesses`, that is `Spec => P!Spec` under the mapping that reads
a task's memory through its page tables and its registers from the CPU or the saved context. Three facts carry it, all from
`SharingInv`: a store goes to a frame mapped nowhere else (`StoreStep`), a copy goes to a frame mapped nowhere at all
(`CopyOnWriteStutters`), and at the end of fork both sides map the same frames (`ForkEndStep`), so fork takes effect in the
abstract specification at its last step; `ForkRunning` says that the parent is then still at its fork instruction.
All other steps of the kernel, of the timer and of the MMU are stutters. `None`, which stands for what an unmapped page holds, is assumed not to be a value.

And, for any number of forks, `FrameBudget`. The bound alone is not inductive, since it says nothing
of copies still to come. `BudgetInv` adds to the frames used the charges, one for each entry a copy may still be made
for (`Cost`): the entries that are not writable, and all of both sides while a fork runs. A fork brings one task and at most two charges per page of
the image; a copy turns a charge into a frame, because a write fault is always at an entry that is read-only in the
tables (`TlbNotStricter`) and leaves it writable; nothing else adds either.

`PageTablesProofs`, for tables of any size, any frames, images, number of tasks and contents of memory at boot: `TreesRight`,
`SegmentsMapped`, `FlushedWhatChanged` and the refinement of `AddressSpaces`. `TreesRight` speaks of what is reachable from the tops,
which no write to a table preserves for a local reason. So the invariant (`Rooted`) is about frames: each frame handed out
has a role, the table at one place of one tree or a page (`Roles`), and every entry in a frame with a role leads to a
frame with the role of the entry's place (`Fits`, `Shape`). The assignment of roles is not state; the invariant says there is one.
From it follow that two places never share a table (`RoleNamesPlace`), and that an entry written in a table of tree x
changes only pages of x below that entry (`PagesKept`); that is what each operation's lemma says, with the
roles it leaves (`Step`). `StepTransitive` composes them. The loops of `paging_copy`, `vmm_request_at`, `task_create` and `paging_initialize`
are inductions on the passes made, each with a statement of what holds after n of them (`LeavesCopied`, `MiddlesCopied`, `KernelTree`).
`Forked`, `Copied` and `Made` state what a handler leaves of each page, and the four theorems follow from them and from two facts about the MMU's view:
in user space links grant all rights, so the leaf decides (`UserTranslation`), and the upper half of a task's top is
`kernel_table`'s (`KernelTranslation`, `KernelGets`). `Loaded` completes the invariant for `SegmentsMapped`.

`KernelHeapProofs`, for every header, page and region size and every set of block sizes: `TypeOK`,
`HeadersTile`, `BlocksAreChunks`, `BlocksDisjoint`. The first three together are inductive; `BlocksDisjoint`
follows, because a block is a chunk (`BlocksAreChunks`) and `NEXT_HDR` passes over no
header (`HeadersTile`). Each way the list is changed has a lemma about the values it writes (`SplitValues`,
`GrownValues`, `MergeValues`) and one that says the result is a list (`SplitList`, `GrownList`, `MergeList`), stated for
any list and any end; `GrowthBound` says the appended pages hold the request and one header, which is all
`alloc.c:84` provides, and the theorems need `intact` because it is not enough.
Nothing is assumed of `size_prev`, which is stale after most operations: the list does not depend
on it except through `mfree` going astray.

`StorageProofs`, for any buses, namespace lists, disks, partition tables, sizes of blocks, pages, rings and registries, and
any number of reads: `MemoryRight`, `ReadsRight`, `SlotsUnique`, `PartitionsRight`. None is inductive alone. `MemoryRight` counts
pages where a procedure gives back those it took, which needs that the pages were free and distinct (`PallocFacts`) and that
what a read holds on the way does not depend on what it reads (`ReadBlocksFacts`); `PagesInv` counts them in the middle of
`namespaces_identify` too, where the list and four more pages are held. `ReadsRight` follows from a lemma about the loop
of `read_blocks`: after n transfers the first n halves of the buffer hold their blocks, and no later transfer writes
them, although each asks for a full transfer and puts its second page at physical page 0 (`Brought`). `DevicesInv` says
each drive has exactly one slot and the kernel's is no drive's, which `device_register` keeps because it takes the first
free slot or panics. `TablesInv` says the entries read while the disk was identified are the ones on the disk (`FoundRight`), for a header that
says anything.
Assumed: sizes are positive, a transfer is two pages (`max_blocks`, 16 of 8), and memory suffices (`MemoryAssumption`).

In the same module `NvmeQueue`, for rings of any size of at least two entries and any number of commands: `QueueTypeOK`,
`RingsAgree` and the refinement of `NvmeChannel`. `RingsAgree` is inductive as it stands: at any moment the one command is
nowhere, in the submission queue, in the controller or in the completion queue (`Idle`, `InSubmissionQueue`,
`InController`, `InCompletionQueue`), the positions of both sides follow from which, and no tag but that of the completion
that has just arrived is set. `FirstPass` ties the controller's phase to the number of completions posted. So a command that `Take`
could return after the first pass does not exist: there the completion stays in the queue without a tag, and as the driver submits nothing while it
waits, nothing happens any more. Each action moves the command one place on and has one lemma.

`PlatformProofs`, for any root tables, MADT, lines, counter rate and bound: `BootedRight`, `OverridesRedirected`, `ReturnsBalanced`,
`TimeKept`. The overrides need two invariants on the way. `IsosStored`: what the walk stored are exactly the override records it passed,
in their order, unless it is caught at a record of length 0, which it stores until the slots are full. `LastRouted`: the entry of a
pin is masked if no override routed so far is for it, else as the last of them says. Together, at the end of both loops (`LoopsDone`),
they say which override each pin follows. `TimeKept` needs `Clock`: while no timer interrupt is pending the last one was taken no
earlier than the HPET last raised the line, so the count of elapsed microseconds is behind by less than a period until the counter
wraps; `TickKeeps` says what the conversions to `int` and back and the wrap of `uint64_t` leave of a difference.
Assumed (`PlatformAssumption`): an `int` has an even number of values, a `uint64_t` a multiple of them, and the counter no more than a
`uint64_t`; of GSIs and flags only that they are numbers. The boot order (`InOrder`) fixes what is ready at each stage from the list `StartOrder` alone.

`TextProofs` is about the procedures that make text, for inputs of any size.
`AddressesRight`, for words, halves and pages of any widths `4 <= PageBits < HalfBits < WordBits` and every address. Masks are sums of
powers of 2 at sets of positions, so the lemmas say which positions a power, a difference of two powers and a
number below a power have (`OfBits` and `Bits` are inverse), and that masking the low bits away is division and multiplication;
the rest is arithmetic of words.

`StringsRight` and `TokensSpellTheText`, for memory of any size and contents, any delimiter and any order of calls. `StrInv` is the inductive invariant of
`strtok`: between two calls the tokens returned, the delimiter between each two, and what is still behind `strtok_s` spell the
string it was begun with, no token holds the delimiter, and behind `strtok_s` there is a NUL. The copying procedures are inductions on
the bytes written; an overlap downwards is harmless because a byte is read before it is written over (`MemCpyExact`). The order
of strings follows from where two of them first differ, and that `stou` reads back what `utos` wrote from one induction on the
number, whose digits but the last are those of `i / base`.

`SaysWhatIsMeant` and `ScreenRight`, for frame buffers of any size and pitch, any messages and moments. `ConInv` says that the terminal is in order (`TermOK`): for some number of lines scrolled
(`RollAt`), the cursor is as far down the screen as the roll is long beyond those lines, and each cell of both buffers shows what the roll,
the first screen or cleared memory has at its place (`Image`). That number is not state; the invariant says there is one. `TerminalPutchar` and `TerminalScroll` keep it, in every one of their cases, hence so do `Puts`, `Body` and a list of messages, by induction on their
lengths. What is printed does not depend on the terminal, so `SaysWhatIsMeant` comes down to each conversion giving the bytes of `Meaning` from a buffer
with any old contents, or setting `overrun`; the digits of `utos` are compared with those of `Meaning`, which are defined by division by powers.
`GlyphsApart` is arithmetic on pixels: the cells that touch a border or each other are none.

`NatLemmas` holds what these modules need and the library states with operator parameters: induction over a set of numbers
(`NatSetInduction`), that a function defined by recursion on its argument exists (`RecursionExists`, about any step given as a
function), and division. So the loops of `read_blocks` and of `paging.c`, recursive functions, could be reasoned about.

Model-checked only: liveness (`EveryTaskRuns`, `StoreCompletes`, `FirstPassCompletes`, `WalkEnds`, `TickServed`), because
temporal logic with fairness is beyond the prover. Every invariant and every refinement a passing run checks
is also a theorem. The four runs that show a violation state what the code does not do.

## 6. Not modelled

- `gdt.c`, `cpuid`: constant descriptors and output, written once and only read or printed.
- The bytes of an ELF image and the checks of its header; a task's image is its segments' addresses and sizes.
- `pci_get_cap` and MSI-X set-up of the NVMe driver: register writes that nothing later depends on.
- The PIC's ports and the programming of device registers without later behaviour.
- `kernel_function_register`, `vmm_release_at`, `bitmap_flip`: no caller in this commit. `pci_init` has none either; `Storage` starts there
  all the same, as it is the only way to the drivers.
- `vfs_file_open`: parses a path and prints.
- The shapes of letters, the text of messages, what a log line says.
