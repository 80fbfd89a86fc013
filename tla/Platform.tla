------------------------------- MODULE Platform -------------------------------
(***************************************************************************)
(* From _start to the timer interrupt: the order of start.c, the system    *)
(* descriptor tables (sdt/sdt.c), the I/O APIC set up from the MADT        *)
(* (interrupts/apic.c), the HPET and the IDT, and then exceptions, system  *)
(* calls and timer interrupts of the running machine (interrupts.c,        *)
(* interrupts.S, timer.c, hpet.c).  fw is what the boot loader and the     *)
(* firmware left; no byte of it is taken for granted but its layout.       *)
(***************************************************************************)
EXTENDS Integers, FiniteSets, SequencesExt, FiniteSetsExt

CONSTANTS Firmwares,   \* the machines: records, see MCPlatform
          MaxIoapics,  \* slots of ioapics, 8
          MaxIsos,     \* slots of isos, 24
          Period,      \* timer interrupts come every so many counts
          PerUs,       \* counts of the HPET in a microsecond
          Ints, Longs, \* the values of an int and of a uint64_t: 2^32 and 2^64
          MaxCount     \* bound: counts of the HPET

MadtRecord == [type : STRING, len : Nat, gsi : Nat, flags : Nat]

\* A table is at least as long as its header; the HPET's counter has at most
\* 64 bits, wrap values in all.
ASSUME PlatformAssumption ==
  /\ {MaxIoapics, MaxIsos, Period, PerUs, Ints, Longs} \subseteq Nat \ {0}
  /\ MaxCount \in Nat /\ Ints % 2 = 0 /\ Longs % Ints = 0
  /\ \A f \in Firmwares : /\ f.madt \in Seq(MadtRecord) /\ f.wrap \in 1 .. Longs
                           /\ {f.xsdt.length, f.rsdt.length} \subseteq Nat \ 0 .. 35

VARIABLES
  fw,          \* [tags, revision, rsdp_ok, xsdt, rsdt, madt, cpus, periodic,
               \*  wrap, devices]
  stage,       \* what _start does next; "run", "panic", "fault", "astray", "halt"
  ready,       \* the components that are initialised
  found,       \* the tables in use: signature :> [sig, ok, at], or << >>
  hdr,         \* the record of the MADT's walk at its offset: 1, 2, ...
  ioapics, isos, cores,  \* what the walk has stored
  routed,      \* of isos, those with their redirection entry written
  redir,       \* the I/O APIC's redirection entries
  mode,        \* "user" or "kernel"
  count,       \* counts of the HPET since its main counter was reset
  pending,     \* pins raised and not delivered
  prev_time, timer_elapsed_us,
  late,        \* history: the time between two interrupts did not fit an int
  in_service,  \* an interrupt was delivered and no EOI sent
  iret_words   \* words on the stack at the last iretq

bootvars  == <<stage, ready>>
tablevars == <<found, hdr, ioapics, isos, cores, routed, redir>>
clockvars == <<prev_time, timer_elapsed_us, late>>
runvars   == <<mode, count, pending, clockvars, in_service, iret_words>>
vars == <<fw, bootvars, tablevars, runvars>>

Pins   == 0 .. 23
Masked == [masked |-> TRUE, dest |-> 0]

Init ==
  /\ fw \in Firmwares
  /\ stage = "pmm" /\ ready = {}
  /\ found = << >> /\ hdr = 1 /\ ioapics = << >> /\ isos = << >> /\ cores = 0
  /\ routed = 0 /\ redir = [p \in Pins |-> Masked]
  /\ mode = "kernel" /\ count = 0 /\ pending = {}
  /\ prev_time = 0 /\ timer_elapsed_us = 0 /\ late = FALSE
  /\ in_service = FALSE /\ iret_words = 5

-----------------------------------------------------------------------------
(* start.c. *)

StartOrder ==
  <<"pmm", "paging", "libk", "framebuffer", "terminal", "cpuinfo", "gdt",
    "sdt", "idt", "apic", "timer", "task">>

After(s) ==
  LET k == CHOOSE k \in DOMAIN StartOrder : StartOrder[k] = s
  IN IF k = Len(StartOrder) THEN "run" ELSE StartOrder[k + 1]

\* stivale2_get_tag: the first of the list; nobody looks whether it is NULL.
GetTag(tags, id) ==
  LET hits == {k \in DOMAIN tags : tags[k] = id}
  IN IF hits = {} THEN 0 ELSE Min(hits)

TagOf == [pmm |-> "memmap", paging |-> "memmap", framebuffer |-> "framebuffer",
          terminal |-> "framebuffer", sdt |-> "rsdp"]

Done(s) == stage' = After(s) /\ ready' = ready \cup {s}
Stop(how) == stage' = how /\ UNCHANGED ready

\* The components whose own modules model what they do.
Start ==
  /\ stage \in {"pmm", "paging", "libk", "framebuffer", "terminal", "cpuinfo", "gdt", "idt"}
  /\ IF stage \in DOMAIN TagOf /\ GetTag(fw.tags, TagOf[stage]) = 0
     THEN Stop("fault") ELSE Done(stage)
  /\ UNCHANGED <<fw, tablevars, runvars>>

-----------------------------------------------------------------------------
(* sdt.c: the root table has a header of 36 bytes and pointers of 8 or 4.  *)

UseXsdt == fw.revision > 0
Root    == IF UseXsdt THEN fw.xsdt ELSE fw.rsdt

NumSdts(length) == (length - 36) \div IF UseXsdt THEN 8 ELSE 4

Hits(sig) == {k \in 1 .. NumSdts(Root.length) : Root.tables[k].sig = sig}
FindSdtLast(sig) == IF Hits(sig) = {} THEN 0 ELSE Max(Hits(sig))
FindSdt(sig)     == IF Hits(sig) = {} THEN 0 ELSE Min(Hits(sig))

SdtInitialize ==
  LET Valid(sig) == FindSdt(sig) # 0 /\ Root.tables[FindSdt(sig)].ok
      wanted == <<"APIC", "HPET", "MCFG">>
  IN /\ stage = "sdt"
     /\ IF GetTag(fw.tags, TagOf.sdt) = 0 THEN Stop("fault") /\ UNCHANGED found
        ELSE IF fw.rsdp_ok /\ Root.ok /\ \A k \in DOMAIN wanted : Valid(wanted[k])
        THEN /\ Done("sdt")
             /\ found' = [sig \in Range(wanted) |-> FindSdt(sig)]
        ELSE Stop("panic") /\ UNCHANGED found
     /\ UNCHANGED <<fw, hdr, ioapics, isos, cores, routed, redir, runvars>>

-----------------------------------------------------------------------------
(* apic.c: the records of the MADT, each as long as it says.               *)

AdvanceKnown(e) == IF e.type \in {"lapic", "ioapic", "iso"} /\ e.len > 0 THEN 1 ELSE 0
Advance(e) == IF e.len > 0 THEN 1 ELSE 0

Walked == hdr > Len(fw.madt)

ParseMadtEntry ==
  LET e == fw.madt[hdr]
  IN /\ stage = "apic" /\ ~Walked
     /\ hdr' = hdr + Advance(e)
     /\ cores' = IF e.type = "lapic" /\ cores < Len(fw.madt) THEN cores + 1 ELSE cores
     /\ ioapics' = IF e.type = "ioapic" THEN Append(ioapics, e) ELSE ioapics
     /\ isos' = IF e.type = "iso" THEN Append(isos, e) ELSE isos
     /\ IF Len(ioapics') > MaxIoapics \/ Len(isos') > MaxIsos
        THEN Stop("astray") ELSE UNCHANGED bootvars
     /\ UNCHANGED <<fw, found, routed, redir, runvars>>

\* The entry of an override: the high word, with the destination, is memory
\* of the stack that nothing has written.
EntryFlagsSwapped(iso, dest) ==
  [masked |-> FALSE, vector |-> (iso.gsi + 32) % 256,
   low |-> iso.flags \div 8 % 2 = 1, level |-> iso.flags \div 2 % 2 = 1, dest |-> dest]
Entry(iso, dest) ==
  [masked |-> FALSE, vector |-> (iso.gsi + 32) % 256,
   low |-> iso.flags \div 2 % 2 = 1, level |-> iso.flags \div 8 % 2 = 1, dest |-> dest]

\* ioapic_ioredtbl_write to the first I/O APIC, whatever GSI it begins at: the
\* register's number, 16 and twice the GSI, is kept in a byte.
IoredtblWrite(table, iso, dest) ==
  [p \in Pins |-> IF p = iso.gsi % 128 THEN Entry(iso, dest) ELSE table[p]]

\* One turn of the loop over isos.
RouteOverride ==
  /\ stage = "apic" /\ Walked /\ ioapics # << >> /\ routed < Len(isos)
  /\ routed' = routed + 1
  /\ \E dest \in fw.cpus : redir' = IoredtblWrite(redir, isos[routed + 1], dest)
  /\ UNCHANGED <<fw, bootvars, found, hdr, ioapics, isos, cores, runvars>>

\* Past the assertion and, if it holds, past the loop.
ApicInitialize ==
  /\ stage = "apic" /\ Walked
  /\ \/ ioapics = << >> /\ Stop("panic")
     \/ ioapics # << >> /\ routed = Len(isos) /\ Done("apic")
  /\ UNCHANGED <<fw, tablevars, runvars>>

\* timer_initialize, hpet_initialize: the assertion about the legacy
\* replacement route holds of any capabilities.
TimerInitialize ==
  /\ stage = "timer"
  /\ IF fw.periodic THEN Done("timer") ELSE Stop("panic")
  /\ count' = 0
  /\ UNCHANGED <<fw, tablevars, mode, pending, clockvars,
                 in_service, iret_words>>

\* task_create and sched_run: the first task, in user mode.
SchedRun ==
  /\ stage = "task" /\ Done("task") /\ mode' = "user"
  /\ UNCHANGED <<fw, tablevars, count, pending, clockvars, in_service, iret_words>>

-----------------------------------------------------------------------------
(* The processor: what it pushes, the gates of idt.c, the stubs of         *)
(* interrupts.S.  Exception 14 is a page fault, 1 a debug exception.       *)

Gates == 0 .. 30 \cup {34, 128}

PushesCode == {8, 10, 11, 12, 13, 14, 17, 21, 29, 30}     \* the processor does
StubsWithoutPF == {8, 10, 11, 12, 13, 15, 17, 30}
Stubs      == {8, 10, 11, 12, 13, 14, 15, 17, 30}         \* isr_err_code

\* What lies on the stack in exception_handle, below the registers: the
\* number, the error code or 0 for it, and the five words for iretq.
WordsAtHandler(v) ==
  5 + (IF v \in PushesCode THEN 1 ELSE 0) + (IF v \in Stubs THEN 0 ELSE 1) + 1

Enter == mode = "user" /\ stage = "run"

\* exception_handle: a debug exception returns, and a page fault that copied
\* a page; the stub drops two words.
ExceptionHandle(v, copied) ==
  /\ Enter
  /\ IF v = 1 \/ (v = 14 /\ copied)
     THEN iret_words' = WordsAtHandler(v) - 2 /\ UNCHANGED <<bootvars, mode>>
     ELSE Stop("halt") /\ mode' = "kernel" /\ UNCHANGED iret_words
  /\ UNCHANGED <<fw, tablevars, count, pending, clockvars, in_service>>

Syscall ==    \* isr128 until switch_to_task or iretq
  /\ Enter /\ mode' = "kernel"
  /\ UNCHANGED <<fw, bootvars, tablevars, count, pending, clockvars, in_service, iret_words>>

SyscallReturn ==
  /\ stage = "run" /\ mode = "kernel" /\ mode' = "user"
  /\ UNCHANGED <<fw, bootvars, tablevars, count, pending, clockvars, in_service, iret_words>>

-----------------------------------------------------------------------------
(* The HPET and the I/O APIC.  With the legacy replacement route timer 0   *)
(* raises pin 2.  The boot processor is cpu 0.                             *)

HpetCounts ==
  /\ stage \in {"task", "run"} /\ count < MaxCount /\ count' = count + 1
  /\ pending' = IF (count + 1) % Period = 0 THEN pending \cup {2} ELSE pending
  /\ UNCHANGED <<fw, bootvars, tablevars, mode, clockvars,
                 in_service, iret_words>>

\* Any other device whose line has an override.
DeviceRaises(p) ==
  /\ stage = "run" /\ p # 2 /\ ~redir[p].masked /\ p \in fw.devices
  /\ pending' = pending \cup {p}
  /\ UNCHANGED <<fw, bootvars, tablevars, mode, count, clockvars, in_service, iret_words>>

HpetReadCounter == (count % fw.wrap) \div PerUs

\* The conversion to int: of the values modulo 2^32 the one nearest to zero.
AsInt(x) == LET r == x % Ints IN IF 2 * r < Ints THEN r ELSE r - Ints

SendEoiNever == in_service' = TRUE
SendEoi      == in_service' = FALSE

PrevTimeFirst(time) == prev_time' = prev_time
PrevTime(time)      == prev_time' = time

\* isr34 and timer_tick, which is given an int; sched_tick is CowKernel's.
Isr34 ==
  LET current_time == HpetReadCounter
      dus == current_time - prev_time
  IN /\ SendEoi
     /\ PrevTime(current_time)
     /\ timer_elapsed_us' = (timer_elapsed_us + AsInt(dus)) % Longs
     /\ late' = (late \/ AsInt(dus) # dus)
     /\ iret_words' = 5
     /\ UNCHANGED <<bootvars, mode>>

\* A vector without a gate is a fault of the processor: not present.
Deliver(p) ==
  /\ Enter /\ p \in pending /\ ~in_service
  /\ ~redir[p].masked /\ redir[p].dest = 0
  /\ pending' = pending \ {p}
  /\ \/ redir[p].vector = 34 /\ Isr34
     \/ /\ redir[p].vector \notin Gates /\ Stop("halt")
        /\ in_service' = TRUE /\ mode' = "kernel"
        /\ UNCHANGED <<clockvars, iret_words>>
  /\ UNCHANGED <<fw, tablevars, count>>

Next ==
  \/ Start \/ SdtInitialize \/ ParseMadtEntry \/ RouteOverride \/ ApicInitialize
  \/ TimerInitialize \/ SchedRun
  \/ \E v \in 0 .. 30, copied \in BOOLEAN : ExceptionHandle(v, copied)
  \/ Syscall \/ SyscallReturn \/ HpetCounts
  \/ \E p \in Pins : DeviceRaises(p)
  \/ \E p \in Pins : Deliver(p)

\* The boot and the kernel's procedures run on; lines stay raised until they
\* are delivered, whatever the task is doing.
Spec ==
  /\ Init /\ [][Next]_vars
  /\ WF_vars(Start \/ SdtInitialize \/ ParseMadtEntry \/ RouteOverride \/ ApicInitialize
                \/ TimerInitialize \/ SchedRun)
  /\ WF_vars(SyscallReturn)
  /\ SF_vars(Deliver(2))

-----------------------------------------------------------------------------
TypeOK ==
  /\ fw \in Firmwares /\ ready \subseteq Range(StartOrder)
  /\ stage \in Range(StartOrder) \cup {"run", "panic", "fault", "astray", "halt"}
  /\ hdr \in 1 .. Len(fw.madt) + 1 /\ routed \in 0 .. Len(isos)
  /\ Len(ioapics) <= MaxIoapics + 1 /\ Len(isos) <= MaxIsos + 1 /\ cores \in Nat
  /\ DOMAIN redir = Pins /\ mode \in {"user", "kernel"}
  /\ count \in 0 .. MaxCount /\ pending \subseteq Pins
  /\ prev_time \in 0 .. MaxCount /\ timer_elapsed_us \in 0 .. Longs - 1
  /\ late \in BOOLEAN
  /\ in_service \in BOOLEAN /\ iret_words \in Nat

\* What the procedures of a component call (start.c and what it includes).
Uses ==
  [pmm |-> {}, paging |-> {"pmm"}, libk |-> {"pmm", "paging"},
   framebuffer |-> {"libk"}, terminal |-> {"framebuffer"}, cpuinfo |-> {},
   gdt |-> {}, sdt |-> {"paging"}, idt |-> {}, apic |-> {"sdt", "paging"},
   timer |-> {"sdt", "paging"},
   task |-> {"libk", "paging", "gdt", "idt", "apic", "timer"}]

\* _start (start.c:83): nothing is initialised before what it calls.
BootOrder == \A c \in ready : Uses[c] \subseteq ready

\* sdt_initialize (sdt.c:26): past it every table in use is the first of its
\* signature, and its checksum, the root's and the root pointer's are right.
TablesTrusted ==
  "sdt" \in ready =>
    /\ fw.rsdp_ok /\ Root.ok
    /\ \A sig \in {"APIC", "HPET", "MCFG"} :
         /\ Root.tables[found[sig]].sig = sig /\ Root.tables[found[sig]].ok
         /\ \A k \in 1 .. found[sig] - 1 : Root.tables[k].sig # sig

\* What _start has brought up by any moment, it brought up in order and from
\* tables it has checked (start.c:83, sdt.c:26).
BootedRight == TypeOK /\ BootOrder /\ TablesTrusted

\* apic_initialize (apic.c:73): every override of the table, and nothing
\* else, is let through with its vector, and with its polarity and trigger
\* unless they are reserved values; the last one of a pin counts.  Not so of
\* a pin that a GSI of 128 or more falls on when it is cut to a byte.
OverridesRedirected ==
  "apic" \in ready =>
    \A p \in Pins :
      LET iso == {k \in DOMAIN fw.madt : fw.madt[k].type = "iso"}
          mine == {k \in iso : fw.madt[k].gsi = p}
      IN (\A k \in iso : fw.madt[k].gsi % 128 = p => k \in mine) =>
           IF mine = {} THEN redir[p].masked
           ELSE LET f == fw.madt[Max(mine)].flags
                IN /\ ~redir[p].masked /\ redir[p].vector = p + 32
                   /\ f % 4 # 2 =>         \* active low
                        (redir[p].low <=> f % 4 = 3)
                   /\ f \div 4 % 4 # 2 =>  \* level triggered
                        (redir[p].level <=> f \div 4 % 4 = 3)

\* parse_madt_entry (apic.c:145): the walk comes to an end, in a table whose
\* records have a length, of whatever types they are.
WalkEnds ==
  (stage = "apic" /\ \A k \in DOMAIN fw.madt : fw.madt[k].len > 0)
    ~> stage # "apic"

\* interrupts.S:101: whatever the processor pushed, an exception that
\* returns leaves exactly the five words of iretq.
ReturnsBalanced == iret_words = 5

\* isr34 (interrupts.c:95) and timer_tick (timer.c:25): the time is the one
\* the HPET showed at the last interrupt, however late that was taken, but for
\* multiples of 2^32 microseconds, and exactly that one while the time between
\* two interrupts fits the int it passes through.  Until the HPET's counter
\* wraps it is no more than a period behind, unless an interrupt is waiting;
\* where the counter wraps, the time goes back with it.
TimeKept ==
  /\ (timer_elapsed_us - prev_time) % Ints = 0
  /\ ~late => timer_elapsed_us = prev_time
  /\ stage = "run" /\ 2 \notin pending /\ ~late /\ count < fw.wrap =>
       count \div PerUs - timer_elapsed_us <= Period \div PerUs + 1

\* apic_send_eoi, hpet_initialize, idt_initialize: when the first I/O APIC
\* sends pin 2 to the boot processor every tick is taken, until an exception
\* or another device's line halts the machine.
TickServed ==
  (stage = "run" /\ 2 \in pending /\ ~redir[2].masked /\ redir[2].dest = 0)
    ~> (2 \notin pending \/ stage # "run")
=============================================================================
