---------------------------- MODULE PlatformProofs ----------------------------
(***************************************************************************)
(* Platform, for every machine: whatever the root tables and the MADT      *)
(* hold, however fast the HPET counts, however wide its counter is and     *)
(* however late its interrupt is taken.                                    *)
(***************************************************************************)
EXTENDS Platform, NatLemmas

(* _start is at a component when the ones before it are initialised, and    *)
(* past the last when all are.                                              *)
InOrder ==
  /\ \A k \in DOMAIN StartOrder :
       stage = StartOrder[k] => ready = {StartOrder[j] : j \in 1 .. k - 1}
  /\ stage = "run" => ready = Range(StartOrder)

(* What the walk and the loop over isos leave.                              *)
TableType ==
  /\ hdr \in 1 .. Len(fw.madt) + 1 /\ routed \in 0 .. Len(isos)
  /\ Len(ioapics) <= MaxIoapics + 1 /\ Len(isos) <= MaxIsos + 1 /\ cores \in Nat
  /\ DOMAIN redir = Pins
  /\ isos \in Seq(MadtRecord) /\ ioapics \in Seq(MadtRecord)
  /\ stage # "astray" => Len(ioapics) <= MaxIoapics /\ Len(isos) <= MaxIsos

(* apic_initialize returns only past the walk and the loop.                 *)
LoopsDone == "apic" \in ready => Walked /\ routed = Len(isos)

(* The overrides the walk has stored are those it has passed, in order, but *)
(* for a record without length, which it stores again and again.            *)
StuckAt(k) == k \in DOMAIN fw.madt /\ fw.madt[k].len = 0

IsIso(k) == fw.madt[k].type = "iso"

IsosAre(at) ==
  /\ at \in [1 .. Len(isos) -> 1 .. hdr - 1]
  /\ \A i, j \in 1 .. Len(isos) : i < j => at[i] < at[j]
  /\ \A i \in 1 .. Len(isos) : IsIso(at[i]) /\ isos[i] = fw.madt[at[i]]
  /\ \A k \in 1 .. hdr - 1 : IsIso(k) => \E i \in 1 .. Len(isos) : at[i] = k

IsosStored ==
  StuckAt(hdr) \/ \E at \in [1 .. Len(isos) -> 1 .. hdr - 1] : IsosAre(at)

(* A pin's entry is that of the last override written for it, if any.       *)
Routes(e, iso) ==
  /\ ~e.masked /\ e.vector = (iso.gsi + 32) % 256
  /\ e.low <=> iso.flags \div 2 % 2 = 1
  /\ e.level <=> iso.flags \div 8 % 2 = 1

PinOf(iso) == iso.gsi % 128

LastRouted ==
  \A p \in Pins :
    \/ /\ redir[p] = Masked
       /\ \A i \in 1 .. routed : PinOf(isos[i]) # p
    \/ \E i \in 1 .. routed :
         /\ PinOf(isos[i]) = p /\ Routes(redir[p], isos[i])
         /\ \A j \in i + 1 .. routed : PinOf(isos[j]) # p

(* Unless an interrupt of the timer is waiting, the last one was taken no   *)
(* earlier than the HPET last raised its line.                              *)
LastRaised == Period * (count \div Period)

Clock ==
  /\ count \in 0 .. MaxCount /\ prev_time \in 0 .. MaxCount
  /\ timer_elapsed_us \in 0 .. Longs - 1 /\ late \in BOOLEAN
  /\ (timer_elapsed_us - prev_time) % Ints = 0
  /\ ~late => timer_elapsed_us = prev_time
  /\ stage \in Range(StartOrder) \ {"task"} => count = 0 /\ prev_time = 0
  /\ stage \in {"task", "run"} /\ 2 \notin pending /\ count < fw.wrap =>
       LastRaised \div PerUs <= prev_time

(* What of the types is about the running machine.                          *)
RunType ==
  /\ mode \in {"user", "kernel"} /\ pending \subseteq Pins
  /\ in_service \in BOOLEAN /\ iret_words = 5

IInv ==
  /\ TypeOK /\ TableType /\ RunType /\ Clock /\ InOrder /\ BootOrder
  /\ TablesTrusted /\ LoopsDone /\ IsosStored /\ LastRouted

-----------------------------------------------------------------------------
(* The order of _start.                                                     *)

(* What StartOrder lists, it lists once.                                    *)
LEMMA StartOrderFacts ==
  /\ DOMAIN StartOrder = 1 .. 12 /\ Len(StartOrder) = 12
  /\ Range(StartOrder) = {StartOrder[k] : k \in 1 .. 12}
  /\ \A j, k \in 1 .. 12 : StartOrder[j] = StartOrder[k] => j = k
  /\ \A k \in 1 .. 12 :
       StartOrder[k] \notin {"run", "panic", "fault", "astray", "halt"}
<1>1. DOMAIN StartOrder = 1 .. 12 /\ Len(StartOrder) = 12
  BY DEF StartOrder
<1>2. \A k \in 1 .. 12 :
        StartOrder[k] \notin {"run", "panic", "fault", "astray", "halt"}
  BY DEF StartOrder
<1>3. \A j, k \in 1 .. 12 : StartOrder[j] = StartOrder[k] => j = k
  BY DEF StartOrder
<1> QED
  BY <1>1, <1>2, <1>3 DEF Range

(* After a component comes the next, and after the last the machine runs.   *)
LEMMA AfterIs ==
  ASSUME NEW k \in 1 .. 12
  PROVE  After(StartOrder[k]) = IF k = 12 THEN "run" ELSE StartOrder[k + 1]
<1> HIDE DEF StartOrder
<1>1. (CHOOSE j \in DOMAIN StartOrder : StartOrder[j] = StartOrder[k]) = k
  BY StartOrderFacts
<1> QED
  BY <1>1, StartOrderFacts DEF After

(* What a step does to the stage: nothing, stop, or go on to the next one.  *)
LEMMA StageStep ==
  ASSUME TypeOK, [Next]_vars
  PROVE  \/ UNCHANGED bootvars
         \/ /\ stage' \in {"panic", "fault", "astray", "halt"}
            /\ UNCHANGED ready
         \/ stage \in Range(StartOrder) /\ Done(stage)
<1> DEFINE Goal == \/ UNCHANGED bootvars
                   \/ /\ stage' \in {"panic", "fault", "astray", "halt"}
                      /\ UNCHANGED ready
                   \/ stage \in Range(StartOrder) /\ Done(stage)
<1>0. {"pmm", "paging", "libk", "framebuffer", "terminal", "cpuinfo", "gdt",
       "sdt", "idt", "apic", "timer", "task"} \subseteq Range(StartOrder)
  BY DEF StartOrder, Range
<1> HIDE DEF Goal
<1>1. ASSUME Start PROVE Goal
  BY <1>0, <1>1 DEF Start, Stop, Goal
<1>2. ASSUME SdtInitialize PROVE Goal
  BY <1>0, <1>2 DEF SdtInitialize, Stop, Goal
<1>3. ASSUME ParseMadtEntry PROVE Goal
  BY <1>3 DEF ParseMadtEntry, Stop, Goal
<1>4. ASSUME RouteOverride PROVE Goal
  BY <1>4 DEF RouteOverride, Goal
<1>5. ASSUME ApicInitialize PROVE Goal
  BY <1>0, <1>5 DEF ApicInitialize, Stop, Goal
<1>6. ASSUME TimerInitialize PROVE Goal
  BY <1>0, <1>6 DEF TimerInitialize, Stop, Goal
<1>7. ASSUME SchedRun PROVE Goal
  BY <1>0, <1>7 DEF SchedRun, Goal
<1>8. ASSUME NEW v \in 0 .. 30, NEW copied \in BOOLEAN, ExceptionHandle(v, copied)
      PROVE  Goal
  BY <1>8 DEF ExceptionHandle, Stop, bootvars, Goal
<1>9. ASSUME NEW p \in Pins, Deliver(p) PROVE Goal
  BY <1>9 DEF Deliver, Isr34, Stop, bootvars, Goal
<1>10. CASE UNCHANGED vars
  BY <1>10 DEF vars, Goal
<1>11. ASSUME Syscall \/ SyscallReturn \/ HpetCounts \/ (\E p \in Pins : DeviceRaises(p))
       PROVE  Goal
  BY <1>11 DEF Syscall, SyscallReturn, HpetCounts, DeviceRaises, Goal
<1> QED
  BY <1>1, <1>2, <1>3, <1>4, <1>5, <1>6, <1>7, <1>8, <1>9, <1>10, <1>11
  DEF Next, Goal

(* A component is initialised after those it uses.                          *)
LEMMA InOrderNext ==
  ASSUME TypeOK, InOrder, BootOrder, [Next]_vars
  PROVE  InOrder' /\ BootOrder'
<1>1. CASE UNCHANGED bootvars
  BY <1>1 DEF InOrder, BootOrder, bootvars
<1>2. CASE stage' \in {"panic", "fault", "astray", "halt"} /\ UNCHANGED ready
  BY <1>2, StartOrderFacts DEF InOrder, BootOrder
<1>3. ASSUME stage \in Range(StartOrder), Done(stage)
      PROVE  InOrder' /\ BootOrder'
  <2>1. PICK k \in 1 .. 12 : stage = StartOrder[k]
    BY <1>3, StartOrderFacts
  <2>2. ready = {StartOrder[j] : j \in 1 .. k - 1}
    BY <2>1, StartOrderFacts DEF InOrder
  <2>3. ready' = {StartOrder[j] : j \in 1 .. k}
    <3>1. ready' = ready \cup {StartOrder[k]}
      BY <1>3, <2>1 DEF Done
    <3>2. 1 .. k = 1 .. k - 1 \cup {k}
      OBVIOUS
    <3> HIDE DEF StartOrder
    <3> QED BY <2>2, <3>1, <3>2
  <2>4. Uses[StartOrder[k]] \subseteq ready
    BY <2>2 DEF Uses, StartOrder
  <2>5. BootOrder'
    BY <1>3, <2>1, <2>4 DEF BootOrder, Done
  <2>6. stage' = IF k = 12 THEN "run" ELSE StartOrder[k + 1]
    BY <1>3, <2>1, AfterIs DEF Done
  <2>7. InOrder'
    <3>1. CASE k = 12
      BY <2>3, <2>6, <3>1, StartOrderFacts DEF InOrder
    <3>2. CASE k # 12
      <4>1. k + 1 \in 1 .. 12 /\ stage' = StartOrder[k + 1] /\ k + 1 - 1 = k
        BY <2>6, <3>2
      <4> QED
        BY <2>3, <4>1, StartOrderFacts DEF InOrder
    <3> QED BY <3>1, <3>2
  <2> QED BY <2>5, <2>7
<1> QED
  BY <1>1, <1>2, <1>3, StageStep

-----------------------------------------------------------------------------
(* Types.                                                                   *)

(* What the assumption says of each constant.                               *)
LEMMA Constants ==
  /\ MaxIoapics \in Nat \ {0} /\ MaxIsos \in Nat \ {0}
  /\ Period \in Nat \ {0} /\ PerUs \in Nat \ {0} /\ MaxCount \in Nat
  /\ Ints \in Nat \ {0} /\ Longs \in Nat \ {0} /\ Longs % Ints = 0
  /\ \A f \in Firmwares : f.madt \in Seq(MadtRecord) /\ f.wrap \in 1 .. Longs
  BY PlatformAssumption

(* The number of microseconds is no larger than that of counts.             *)
LEMMA MicrosecondsBound ==
  ASSUME NEW n \in Nat
  PROVE  n \div PerUs \in 0 .. n
<1>1. /\ n \div PerUs \in Nat /\ n % PerUs \in Nat
      /\ n = PerUs * (n \div PerUs) + (n % PerUs)
  BY Constants, DivDef
<1> DEFINE q == n \div PerUs
<1> HIDE DEF q
<1>2. q <= PerUs * q
  <2>1. PICK m \in Nat : PerUs = 1 + m
    <3>1. PerUs - 1 \in Nat /\ PerUs = 1 + (PerUs - 1)
      BY Constants
    <3> QED BY <3>1
  <2>2. q \in Nat
    BY <1>1 DEF q
  <2>3. (1 + m) * q = q + m * q /\ m * q \in Nat
    BY <2>2
  <2> QED BY <2>1, <2>2, <2>3
<1>3. q \in Nat /\ PerUs * q \in Nat /\ n = PerUs * q + (n % PerUs)
  BY <1>1, Constants DEF q
<1> QED
  BY <1>1, <1>2, <1>3 DEF q

(* A step leaves the stage and the components what they may be.             *)
LEMMA StageType ==
  ASSUME TypeOK, [Next]_vars
  PROVE  /\ ready' \subseteq Range(StartOrder)
         /\ stage' \in Range(StartOrder) \cup {"run", "panic", "fault", "astray", "halt"}
<1>1. CASE UNCHANGED bootvars
  BY <1>1 DEF TypeOK, bootvars
<1>2. CASE stage' \in {"panic", "fault", "astray", "halt"} /\ UNCHANGED ready
  BY <1>2 DEF TypeOK
<1>3. ASSUME stage \in Range(StartOrder), Done(stage)
      PROVE  /\ ready' \subseteq Range(StartOrder)
             /\ stage' \in Range(StartOrder) \cup {"run"}
  <2>1. PICK k \in 1 .. 12 : stage = StartOrder[k]
    BY <1>3, StartOrderFacts
  <2>2. stage' = IF k = 12 THEN "run" ELSE StartOrder[k + 1]
    BY <1>3, <2>1, AfterIs DEF Done
  <2> HIDE DEF StartOrder
  <2>3. k # 12 => k + 1 \in 1 .. 12
    OBVIOUS
  <2> QED
    BY <1>3, <2>2, <2>3, StartOrderFacts DEF Done, TypeOK
<1> QED
  BY <1>1, <1>2, <1>3, StageStep

(* The firmware is what it is.                                              *)
LEMMA FwUnchanged ==
  ASSUME [Next]_vars
  PROVE  fw' = fw
  BY DEF Next, vars, Start, SdtInitialize, ParseMadtEntry, RouteOverride,
         ApicInitialize, TimerInitialize, SchedRun, ExceptionHandle, Syscall,
         SyscallReturn, HpetCounts, DeviceRaises, Deliver

(* Only the walk and the loop over isos change what the tables say.         *)
LEMMA TablesUnchanged ==
  ASSUME [Next]_vars, ~ ParseMadtEntry, ~ RouteOverride
  PROVE  UNCHANGED <<hdr, ioapics, isos, cores, routed, redir>>
  BY DEF Next, vars, tablevars, Start, SdtInitialize,
         ApicInitialize, TimerInitialize, SchedRun, ExceptionHandle, Syscall,
         SyscallReturn, HpetCounts, DeviceRaises, Deliver

(* The walk stays in the table, and the loop over isos in isos.             *)
LEMMA TableTypeNext ==
  ASSUME TypeOK, TableType, [Next]_vars
  PROVE  TableType'
<1>0. fw' = fw /\ fw.madt \in Seq(MadtRecord)
  BY FwUnchanged, Constants DEF TypeOK
<1>1. ASSUME ParseMadtEntry PROVE TableType'
  <2> DEFINE e == fw.madt[hdr]
  <2>1. hdr \in 1 .. Len(fw.madt)
    BY <1>0, <1>1 DEF ParseMadtEntry, Walked, TableType
  <2>2. e \in MadtRecord /\ hdr' \in {hdr, hdr + 1}
    BY <1>0, <1>1, <2>1 DEF ParseMadtEntry, Advance
  <2>3. hdr' \in 1 .. Len(fw.madt) + 1
    BY <1>0, <2>1, <2>2
  <2>4. stage # "astray"
    BY <1>1 DEF ParseMadtEntry
  <2>5. ioapics' \in {ioapics, Append(ioapics, e)} /\ isos' \in {isos, Append(isos, e)}
    BY <1>1 DEF ParseMadtEntry
  <2>6. /\ ioapics' \in Seq(MadtRecord) /\ isos' \in Seq(MadtRecord)
        /\ Len(ioapics') <= Len(ioapics) + 1 /\ Len(isos') \in {Len(isos), Len(isos) + 1}
    <3> HIDE DEF e
    <3>1. isos \in Seq(MadtRecord) /\ ioapics \in Seq(MadtRecord)
      BY DEF TableType
    <3>2. \A s \in Seq(MadtRecord) :
            Append(s, e) \in Seq(MadtRecord) /\ Len(Append(s, e)) = Len(s) + 1
      BY <2>2
    <3>3. \A s \in Seq(MadtRecord) : Len(s) \in Nat
      OBVIOUS
    <3>4. \A s \in Seq(MadtRecord), t \in Seq(MadtRecord) :
            t \in {s, Append(s, e)} =>
              Len(t) \in {Len(s), Len(s) + 1} /\ Len(t) <= Len(s) + 1
      BY <3>2, <3>3
    <3>5. ioapics' \in Seq(MadtRecord) /\ isos' \in Seq(MadtRecord)
      BY <2>5, <3>1, <3>2
    <3> QED BY <2>5, <3>1, <3>4, <3>5
  <2>7. cores' \in Nat
    BY <1>1 DEF ParseMadtEntry, TableType
  <2>8. UNCHANGED <<routed, redir>>
    BY <1>1 DEF ParseMadtEntry
  <2>9. routed' \in 0 .. Len(isos')
    BY <2>6, <2>8 DEF TableType
  <2>10. Len(ioapics') <= MaxIoapics + 1 /\ Len(isos') <= MaxIsos + 1
    BY <2>4, <2>6, Constants DEF TableType
  <2>11. stage' # "astray" => Len(ioapics') <= MaxIoapics /\ Len(isos') <= MaxIsos
    <3>1. CASE Len(ioapics') > MaxIoapics \/ Len(isos') > MaxIsos
      BY <1>1, <3>1 DEF ParseMadtEntry, Stop
    <3>2. CASE ~(Len(ioapics') > MaxIoapics \/ Len(isos') > MaxIsos)
      BY <2>6, <3>2, Constants
    <3> QED BY <3>1, <3>2
  <2> QED
    BY <1>0, <2>3, <2>6, <2>7, <2>8, <2>9, <2>10, <2>11 DEF TableType
<1>2. ASSUME RouteOverride PROVE TableType'
  <2>1. UNCHANGED <<stage, hdr, ioapics, isos, cores>> /\ routed' = routed + 1 /\ routed < Len(isos)
    BY <1>2 DEF RouteOverride, bootvars
  <2>2. DOMAIN redir' = Pins
    BY <1>2 DEF RouteOverride, IoredtblWrite
  <2> QED BY <1>0, <2>1, <2>2 DEF TableType
<1>3. ASSUME ~ ParseMadtEntry, ~ RouteOverride PROVE TableType'
  <2>1. UNCHANGED <<hdr, ioapics, isos, cores, routed, redir>>
    BY <1>3, TablesUnchanged
  <2>2. stage' # "astray" => stage # "astray"
    BY <1>3, StartOrderFacts
    DEF Next, vars, bootvars, Start, SdtInitialize, ApicInitialize, TimerInitialize, SchedRun,
        ExceptionHandle, Syscall, SyscallReturn, HpetCounts, DeviceRaises, Deliver,
        Isr34, Enter, Stop
  <2> QED BY <1>0, <2>1, <2>2 DEF TableType
<1> QED
  BY <1>1, <1>2, <1>3

(* The running machine: a return leaves five words on the stack.            *)
LEMMA RunTypeNext ==
  ASSUME RunType, [Next]_vars
  PROVE  RunType'
<1>1. ASSUME NEW v \in 0 .. 30, NEW copied \in BOOLEAN, ExceptionHandle(v, copied)
      PROVE  RunType'
  <2>1. CASE v \in {1, 14}
    BY <1>1, <2>1 DEF ExceptionHandle, WordsAtHandler, PushesCode, Stubs, RunType
  <2>2. CASE v \notin {1, 14}
    BY <1>1, <2>2 DEF ExceptionHandle, RunType
  <2> QED BY <2>1, <2>2
<1>2. ASSUME NEW p \in Pins, Deliver(p) PROVE RunType'
  BY <1>2 DEF Deliver, Isr34, SendEoi, RunType
<1>3. ASSUME HpetCounts PROVE RunType'
  BY <1>3 DEF HpetCounts, RunType, Pins
<1>4. ASSUME NEW p \in Pins, DeviceRaises(p) PROVE RunType'
  BY <1>4 DEF DeviceRaises, RunType
<1>5. CASE UNCHANGED runvars
  BY <1>5 DEF RunType, runvars
<1>6. ASSUME TimerInitialize \/ SchedRun \/ Syscall \/ SyscallReturn
      PROVE  RunType'
  BY <1>6 DEF TimerInitialize, SchedRun, Syscall, SyscallReturn, RunType
<1> QED
  BY <1>1, <1>2, <1>3, <1>4, <1>5, <1>6
  DEF Next, vars, Start, SdtInitialize, ParseMadtEntry, RouteOverride, ApicInitialize

-----------------------------------------------------------------------------
(* The clock.                                                               *)

(* When the line was last raised: less than a period ago.                   *)
LEMMA LastRaisedFacts ==
  ASSUME NEW n \in Nat
  PROVE  /\ Period * (n \div Period) \in 0 .. n
         /\ n < Period * (n \div Period) + Period
         /\ (Period * (n \div Period)) \div PerUs <= n \div PerUs
<1> DEFINE m == Period * (n \div Period)
<1>1. n = m + (n % Period) /\ m \in Nat /\ n % Period \in 0 .. Period - 1
  <2>1. /\ n \div Period \in Nat /\ n % Period \in 0 .. Period - 1
        /\ n = Period * (n \div Period) + (n % Period)
    BY DivDef, Constants
  <2>2. \A q \in Nat : Period * q \in Nat
    BY Constants
  <2> QED BY <2>1, <2>2
<1> HIDE DEF m
<1>2. m \div PerUs <= n \div PerUs
  BY <1>1, Constants, DivMonotone
<1> QED
  BY <1>1, <1>2, Constants DEF m

(* What the counter reads: no more than the counts, and less than its       *)
(* values; until it wraps, the microseconds.                                *)
LEMMA ReadingIs ==
  ASSUME fw \in Firmwares, count \in Nat
  PROVE  /\ HpetReadCounter \in 0 .. count /\ HpetReadCounter \in 0 .. Longs - 1
         /\ count < fw.wrap => HpetReadCounter = count \div PerUs
<1> DEFINE c == count % fw.wrap
<1>1. fw.wrap \in Nat \ {0} /\ fw.wrap <= Longs /\ Longs \in Nat
  BY Constants
<1>2. c \in 0 .. fw.wrap - 1 /\ c <= count
  <2>1. /\ count \div fw.wrap \in Nat /\ c \in 0 .. fw.wrap - 1
        /\ count = fw.wrap * (count \div fw.wrap) + c
    BY <1>1, DivDef
  <2>2. fw.wrap * (count \div fw.wrap) \in Nat
    BY <1>1, <2>1
  <2> HIDE DEF c
  <2> QED BY <1>1, <2>1, <2>2
<1>3. count < fw.wrap => c = count
  <2>1. ASSUME count < fw.wrap PROVE count % fw.wrap = count
    <3>1. count = fw.wrap * 0 + count /\ count \in 0 .. fw.wrap - 1
      BY <1>1, <2>1
    <3> QED BY <1>1, <3>1, DivUnique
  <2> QED BY <2>1
<1> HIDE DEF c
<1>4. c \div PerUs \in 0 .. c /\ c \in Nat
  BY <1>1, <1>2, MicrosecondsBound
<1>5. HpetReadCounter = c \div PerUs
  BY DEF HpetReadCounter, c
<1> DEFINE us == c \div PerUs
<1> HIDE DEF us
<1>6. us \in 0 .. c /\ HpetReadCounter = us
  BY <1>4, <1>5 DEF us
<1>7. us \in 0 .. count /\ us \in 0 .. Longs - 1
  BY <1>1, <1>2, <1>4, <1>6
<1> QED
  BY <1>3, <1>5, <1>6, <1>7

(* The conversion to int keeps a number but for a multiple of 2^32.         *)
LEMMA AsIntIs ==
  ASSUME NEW x \in Int
  PROVE  AsInt(x) \in Int /\ \E k \in Int : AsInt(x) = x + Ints * k
<1> DEFINE q == x \div Ints  r == x % Ints
<1>1. q \in Int /\ r \in 0 .. Ints - 1 /\ x = Ints * q + r
  BY Constants, IntDivDef
<1>2. AsInt(x) = IF 2 * r < Ints THEN r ELSE r - Ints
  BY DEF AsInt
<1> HIDE DEF q, r
<1>3. /\ Ints * q \in Int /\ - q \in Int /\ - q - 1 \in Int
      /\ Ints * (- q) = - (Ints * q) /\ Ints * (- q - 1) = - (Ints * q) - Ints
  BY <1>1, Constants
<1>4. r = x + Ints * (- q) /\ r - Ints = x + Ints * (- q - 1)
  BY <1>1, <1>3, Constants
<1>5. r \in Int /\ r - Ints \in Int
  BY <1>1, Constants
<1> QED
  BY <1>2, <1>3, <1>4, <1>5

(* A tick adds to the time what the HPET has counted since the last, but    *)
(* for a multiple of 2^32, and exactly that if it fits an int.              *)
LEMMA TickKeeps ==
  ASSUME NEW old \in Nat, NEW now \in 0 .. Longs - 1, NEW t \in Int,
         (t - old) % Ints = 0
  PROVE  LET d == now - old
             u == (t + AsInt(d)) % Longs
         IN /\ u \in 0 .. Longs - 1 /\ (u - now) % Ints = 0
            /\ t = old /\ AsInt(d) = d => u = now
<1> DEFINE d == now - old
           a == AsInt(d)
           u == (t + a) % Longs
           q == (t + a) \div Longs
<1>0. Ints \in Nat \ {0} /\ Longs \in Nat \ {0} /\ now \in Nat /\ d \in Int
  BY Constants
<1>1. a \in Int /\ \E k \in Int : a = d + Ints * k
  <2> HIDE DEF d
  <2> QED BY <1>0, AsIntIs
<1>2. PICK i \in Int : a = d + Ints * i
  BY <1>1
<1>3. PICK j \in Int : t - old = Ints * j
  <2>1. t - old \in Int
    OBVIOUS
  <2> QED BY <1>0, <2>1, ModZero
<1>4. PICK m \in Int : Longs = Ints * m
  <2>1. Longs \in Int /\ Longs % Ints = 0
    BY Constants
  <2> QED BY <1>0, <2>1, ModZero
<1> HIDE DEF a
<1>5. q \in Int /\ u \in 0 .. Longs - 1 /\ t + a = Longs * q + u
  <2>1. t + a \in Int
    BY <1>1
  <2> QED BY <1>0, <2>1, IntDivDef
<1> HIDE DEF u, q
<1>6. (u - now) % Ints = 0
  <2> DEFINE k == j + i - m * q
  <2>1. m * q \in Int /\ k \in Int
    BY <1>5
  <2>2. Longs * q = Ints * (m * q)
    BY <1>0, <1>4, <1>5
  <2>3. Ints * k = Ints * j + Ints * i - Ints * (m * q)
    <3> DEFINE p == m * q
    <3>1. p \in Int
      BY <2>1
    <3> HIDE DEF p
    <3>2. Ints * (j + i - p) = Ints * j + Ints * i - Ints * p
      BY <1>0, <3>1
    <3> QED BY <3>2 DEF p
  <2>4. /\ Ints * j \in Int /\ Ints * i \in Int /\ Ints * (m * q) \in Int
        /\ Longs * q \in Int /\ Ints * k \in Int
    BY <1>0, <1>5, <2>1
  <2> HIDE DEF k
  <2>5. u - now = Ints * k /\ u - now \in Int
    BY <1>0, <1>2, <1>3, <1>5, <2>2, <2>3, <2>4
  <2> QED BY <1>0, <2>1, <2>5, ModZero
<1>7. ASSUME t = old, a = d PROVE u = now
  <2>1. t + a = now
    BY <1>0, <1>7
  <2>2. now = Longs * 0 + now
    BY <1>0
  <2>3. now % Longs = now
    BY <1>0, <2>2, DivUnique
  <2> QED BY <2>1, <2>3 DEF u
<1> QED
  BY <1>5, <1>6, <1>7 DEF u, a

(* The timer has every count up to the last interrupt taken.                *)
LEMMA ClockNext ==
  ASSUME TypeOK, InOrder, Clock, [Next]_vars
  PROVE  Clock'
<1> USE FwUnchanged
<1>0. /\ count \in Nat /\ prev_time \in Nat /\ fw \in Firmwares
      /\ timer_elapsed_us \in Int
  BY Constants DEF Clock, TypeOK
<1>1. CASE UNCHANGED <<stage, count, pending, clockvars>>
  BY <1>1 DEF Clock, LastRaised, clockvars
<1>2. CASE /\ stage' \in {"panic", "fault", "astray", "halt"}
           /\ UNCHANGED <<count, clockvars>>
  BY <1>2, StartOrderFacts DEF Clock, clockvars
<1>3. ASSUME stage \in Range(StartOrder), Done(stage),
             UNCHANGED <<count, pending, clockvars>>
      PROVE  Clock'
  <2>1. CASE stage = "task"
    <3>1. stage' = "run"
      <4>1. stage = StartOrder[12]
        BY <2>1 DEF StartOrder
      <4> QED BY <1>3, <4>1, AfterIs DEF Done
    <3> QED BY <1>3, <2>1, <3>1, StartOrderFacts DEF Clock, LastRaised, clockvars
  <2>2. CASE stage # "task"
    <3>1. count = 0 /\ prev_time = 0
      BY <1>3, <2>2 DEF Clock
    <3>2. LastRaised' \in 0 .. 0 /\ LastRaised' \div PerUs \in 0 .. 0
      BY <1>3, <3>1, LastRaisedFacts, MicrosecondsBound DEF LastRaised
    <3> QED BY <1>3, <3>1, <3>2 DEF Clock, clockvars
  <2> QED BY <2>1, <2>2
<1>4. ASSUME TimerInitialize PROVE Clock'
  <2>1. stage = "timer" /\ "timer" \in Range(StartOrder) \ {"task"}
    <3>1. "timer" = StartOrder[11]
      BY DEF StartOrder
    <3> QED BY <1>4, <3>1, StartOrderFacts DEF TimerInitialize
  <2>2. count = 0 /\ prev_time = 0 /\ count' = 0
    BY <1>4, <2>1 DEF Clock, TimerInitialize
  <2>3. UNCHANGED <<count, pending, clockvars>>
    BY <1>4, <2>2 DEF TimerInitialize
  <2>4. Done(stage) \/ stage' = "panic"
    BY <1>4, <2>1 DEF TimerInitialize, Stop
  <2> QED BY <1>2, <1>3, <2>1, <2>3, <2>4
<1>5. ASSUME HpetCounts PROVE Clock'
  <2>1. /\ stage \in {"task", "run"} /\ count' = count + 1 /\ count < MaxCount
        /\ UNCHANGED <<stage, clockvars>>
        /\ pending' = IF (count + 1) % Period = 0 THEN pending \cup {2} ELSE pending
    BY <1>5 DEF HpetCounts, bootvars
  <2>2. count' \in 0 .. MaxCount
    BY <1>0, <2>1, Constants
  <2>3. ASSUME 2 \notin pending', count' < fw.wrap
        PROVE  LastRaised' \div PerUs <= prev_time'
    <3>1. (count + 1) % Period # 0 /\ 2 \notin pending
      BY <2>1, <2>3
    <3>2. (count + 1) \div Period = count \div Period
      BY <1>0, <3>1, Constants, DivStep
    <3>3. count < fw.wrap
      BY <1>0, <2>1, <2>3, Constants
    <3> QED BY <2>1, <3>1, <3>2, <3>3 DEF LastRaised, Clock, clockvars
  <2>4. stage' \notin Range(StartOrder) \ {"task"}
    BY <2>1, StartOrderFacts
  <2> QED BY <2>1, <2>2, <2>3, <2>4 DEF Clock, clockvars
<1>6. ASSUME NEW p \in Pins, DeviceRaises(p) PROVE Clock'
  BY <1>6 DEF DeviceRaises, bootvars, clockvars, Clock, LastRaised
<1>7. ASSUME NEW p \in Pins, Deliver(p) PROVE Clock'
  <2>1. CASE Isr34
    <3> DEFINE now == HpetReadCounter
               d == now - prev_time
    <3>1. /\ stage = "run" /\ UNCHANGED <<stage, count>> /\ prev_time' = now
          /\ timer_elapsed_us' = (timer_elapsed_us + AsInt(d)) % Longs
          /\ late' = (late \/ AsInt(d) # d)
      BY <1>7, <2>1 DEF Deliver, Enter, Isr34, PrevTime, bootvars
    <3>2. /\ now \in 0 .. count /\ now \in 0 .. Longs - 1
          /\ count < fw.wrap => now = count \div PerUs
      BY <1>0, ReadingIs
    <3>3. (timer_elapsed_us - prev_time) % Ints = 0
      BY DEF Clock
    <3>4. /\ timer_elapsed_us' \in 0 .. Longs - 1 /\ (timer_elapsed_us' - now) % Ints = 0
          /\ timer_elapsed_us = prev_time /\ AsInt(d) = d => timer_elapsed_us' = now
      <4> HIDE DEF now
      <4> QED BY <1>0, <3>1, <3>2, <3>3, TickKeeps
    <3> HIDE DEF now, d
    <3>5. late' \in BOOLEAN /\ (~late' => timer_elapsed_us' = now)
      BY <3>1, <3>4 DEF Clock
    <3>6. ASSUME count' < fw.wrap PROVE LastRaised' \div PerUs <= prev_time'
      <4>1. LastRaised' = Period * (count \div Period)
        BY <3>1 DEF LastRaised
      <4>2. (Period * (count \div Period)) \div PerUs <= count \div PerUs
        BY <1>0, LastRaisedFacts
      <4> QED BY <3>1, <3>2, <3>6, <4>1, <4>2
    <3>7. stage' \notin Range(StartOrder) \ {"task"}
      BY <3>1, StartOrderFacts
    <3>8. count' \in 0 .. MaxCount /\ prev_time' \in 0 .. MaxCount
      BY <1>0, <3>1, <3>2, Constants DEF Clock
    <3> QED BY <3>1, <3>4, <3>5, <3>6, <3>7, <3>8 DEF Clock
  <2>2. CASE ~ Isr34
    BY <1>2, <1>7, <2>2 DEF Deliver, Stop, clockvars
  <2> QED BY <2>1, <2>2
<1>8. ASSUME UNCHANGED <<count, pending, clockvars>> PROVE Clock'
  BY <1>1, <1>2, <1>3, <1>8, StageStep DEF bootvars
<1>9. ASSUME NEW v \in 0 .. 30, NEW copied \in BOOLEAN, ExceptionHandle(v, copied)
      PROVE  Clock'
  BY <1>8, <1>9 DEF ExceptionHandle
<1> QED
  BY <1>4, <1>5, <1>6, <1>7, <1>8, <1>9
  DEF Next, vars, runvars, Start, SdtInitialize, ParseMadtEntry, RouteOverride,
      ApicInitialize, SchedRun, Syscall, SyscallReturn

(* Until the counter wraps, the time is less than a period and a            *)
(* microsecond behind when no interrupt is waiting.                         *)
LEMMA ClockTimeKept ==
  ASSUME Clock
  PROVE  TimeKept
<1> SUFFICES ASSUME stage = "run", 2 \notin pending, ~late, count < fw.wrap
             PROVE  count \div PerUs - timer_elapsed_us <= (Period \div PerUs) + 1
  BY DEF Clock, TimeKept
<1> DEFINE m == LastRaised
           r == count - LastRaised
<1>1. m \in Nat /\ r \in 0 .. Period /\ count = m + r
  BY LastRaisedFacts, Constants DEF Clock, LastRaised
<1>2. m \div PerUs <= timer_elapsed_us /\ timer_elapsed_us = prev_time
  BY DEF Clock
<1> HIDE DEF m, r
<1>a. count \in Nat /\ prev_time \in Nat /\ m \in Nat /\ r \in Nat
  BY <1>1, Constants DEF Clock
<1>3. m \div PerUs \in Nat /\ r \div PerUs \in Nat /\ Period \div PerUs \in Nat
      /\ count \div PerUs \in Nat /\ prev_time \in Nat
  BY <1>a, Constants, DivDef
<1>4. r \div PerUs <= Period \div PerUs
  BY <1>1, Constants, DivMonotone
<1>5. count \div PerUs <= (m \div PerUs) + (r \div PerUs) + 1
  BY <1>1, Constants, DivSum
<1> QED
  BY <1>2, <1>3, <1>4, <1>5

-----------------------------------------------------------------------------
(* The tables.                                                              *)

(* find_sdt returns the first table of a signature, if it returns one.      *)
LEMMA FindSdtIsFirst ==
  ASSUME TypeOK, NEW sig, FindSdt(sig) # 0
  PROVE  /\ Root.tables[FindSdt(sig)].sig = sig
         /\ \A k \in 1 .. FindSdt(sig) - 1 : Root.tables[k].sig # sig
<1>1. Root.length \in Nat /\ Root.length >= 36
  <2>1. fw.xsdt.length \in Nat \ 0 .. 35 /\ fw.rsdt.length \in Nat \ 0 .. 35
    BY PlatformAssumption DEF TypeOK
  <2>2. Root.length \in Nat \ 0 .. 35
    BY <2>1 DEF Root
  <2> QED BY <2>2
<1> DEFINE w == IF UseXsdt THEN 8 ELSE 4
<1>2. NumSdts(Root.length) = (Root.length - 36) \div w /\ w \in Nat \ {0}
  BY DEF NumSdts
<1>3. NumSdts(Root.length) \in Nat
  <2>1. Root.length - 36 \in Nat
    BY <1>1
  <2> HIDE DEF w
  <2> QED BY <1>2, <2>1, DivDef
<1>4. Hits(sig) \in SUBSET Nat /\ Hits(sig) # {}
  BY <1>3 DEF Hits, FindSdt
<1>5. FindSdt(sig) = Min(Hits(sig))
  BY <1>4 DEF FindSdt
<1>6. FindSdt(sig) \in Hits(sig) /\ \A k \in Hits(sig) : FindSdt(sig) <= k
  BY <1>4, <1>5, MinIsLeast
<1>7. ASSUME NEW k \in 1 .. FindSdt(sig) - 1 PROVE Root.tables[k].sig # sig
  <2>1. FindSdt(sig) \in 1 .. NumSdts(Root.length)
    BY <1>6 DEF Hits
  <2>2. k \in 1 .. NumSdts(Root.length) /\ ~ (FindSdt(sig) <= k)
    BY <1>3, <2>1
  <2>3. k \notin Hits(sig)
    BY <1>6, <2>2
  <2> QED BY <2>2, <2>3 DEF Hits
<1> QED
  BY <1>6, <1>7 DEF Hits

(* Only tables that have been checked are taken into use.                   *)
LEMMA TablesTrustedNext ==
  ASSUME TypeOK, TablesTrusted, [Next]_vars
  PROVE  TablesTrusted'
<1>0. fw' = fw /\ Root' = Root
  BY FwUnchanged DEF Root, UseXsdt
<1>1. ASSUME SdtInitialize PROVE TablesTrusted'
  <2>1. CASE Done("sdt")
    <3> DEFINE wanted == <<"APIC", "HPET", "MCFG">>
    <3>1. /\ fw.rsdp_ok /\ Root.ok
          /\ \A k \in DOMAIN wanted :
               FindSdt(wanted[k]) # 0 /\ Root.tables[FindSdt(wanted[k])].ok
          /\ found' = [sig \in Range(wanted) |-> FindSdt(sig)]
      BY <1>1, <2>1 DEF SdtInitialize, Stop, Done, After, StartOrder
    <3>2. DOMAIN wanted = 1 .. 3 /\ Range(wanted) = {"APIC", "HPET", "MCFG"}
      BY DEF Range
    <3>3. ASSUME NEW sig \in {"APIC", "HPET", "MCFG"}
          PROVE  /\ FindSdt(sig) # 0 /\ Root.tables[FindSdt(sig)].ok
                 /\ found'[sig] = FindSdt(sig)
      <4>1. \E k \in DOMAIN wanted : wanted[k] = sig
        BY <3>2
      <4> QED BY <3>1, <3>2, <4>1
    <3>4. ASSUME NEW sig \in {"APIC", "HPET", "MCFG"}
          PROVE  /\ Root'.tables[found'[sig]].sig = sig /\ Root'.tables[found'[sig]].ok
                 /\ \A k \in 1 .. found'[sig] - 1 : Root'.tables[k].sig # sig
      BY <1>0, <3>3, FindSdtIsFirst
    <3> QED BY <1>0, <3>1, <3>4 DEF TablesTrusted
  <2>2. CASE UNCHANGED <<ready, found>>
    BY <1>0, <2>2 DEF TablesTrusted
  <2> QED BY <1>1, <2>1, <2>2 DEF SdtInitialize, Stop
<1>2. ASSUME UNCHANGED found, "sdt" \in ready' => "sdt" \in ready
      PROVE  TablesTrusted'
  BY <1>0, <1>2 DEF TablesTrusted
<1>3. ASSUME ~ SdtInitialize PROVE UNCHANGED found /\ ("sdt" \in ready' => "sdt" \in ready)
  BY <1>3
  DEF Next, vars, bootvars, tablevars, Start, ParseMadtEntry, RouteOverride,
      ApicInitialize, TimerInitialize, SchedRun, ExceptionHandle, Syscall,
      SyscallReturn, HpetCounts, DeviceRaises, Deliver, Isr34, Stop, Done
<1> QED
  BY <1>1, <1>2, <1>3

-----------------------------------------------------------------------------
(* The overrides.                                                           *)

(* apic_initialize returns after both loops.                                *)
LEMMA LoopsDoneNext ==
  ASSUME TypeOK, InOrder, LoopsDone, [Next]_vars
  PROVE  LoopsDone'
<1>1. ASSUME stage = "apic" PROVE "apic" \notin ready
  <2>1. "apic" = StartOrder[10]
    BY DEF StartOrder
  <2>2. ready = {StartOrder[j] : j \in 1 .. 9}
    BY <1>1, <2>1, StartOrderFacts DEF InOrder
  <2> QED BY <2>2 DEF StartOrder
<1>2. CASE ParseMadtEntry
  BY <1>1, <1>2 DEF ParseMadtEntry, LoopsDone, bootvars, Stop
<1>3. CASE RouteOverride
  BY <1>1, <1>3 DEF RouteOverride, LoopsDone, bootvars
<1>4. CASE ApicInitialize
  <2>1. UNCHANGED <<fw, tablevars>>
    BY <1>4 DEF ApicInitialize
  <2>2. CASE Done("apic")
    <3>1. Walked /\ routed = Len(isos)
      BY <1>4, <2>2 DEF ApicInitialize, Stop, Done, After, StartOrder
    <3> QED BY <2>1, <3>1 DEF LoopsDone, Walked, tablevars
  <2>3. CASE ready' = ready
    BY <2>1, <2>3 DEF LoopsDone, Walked, tablevars
  <2> QED BY <1>4, <2>2, <2>3 DEF ApicInitialize, Stop
<1>5. ASSUME ~ ParseMadtEntry, ~ RouteOverride, ~ ApicInitialize PROVE LoopsDone'
  <2>1. UNCHANGED <<fw, hdr, isos, routed>>
    BY <1>5, TablesUnchanged, FwUnchanged
  <2>2. "apic" \in ready' => "apic" \in ready
    BY <1>5
    DEF Next, vars, bootvars, Start, SdtInitialize, TimerInitialize, SchedRun,
        ExceptionHandle, Syscall, SyscallReturn, HpetCounts, DeviceRaises,
        Deliver, Isr34, Stop, Done
  <2> QED BY <2>1, <2>2 DEF LoopsDone, Walked
<1> QED
  BY <1>2, <1>3, <1>4, <1>5

(* Appending to a sequence.                                                 *)
LEMMA AppendFacts ==
  ASSUME NEW S, NEW q \in Seq(S), NEW e \in S
  PROVE  /\ Append(q, e) \in Seq(S) /\ Len(Append(q, e)) = Len(q) + 1
         /\ Append(q, e)[Len(q) + 1] = e
         /\ \A i \in 1 .. Len(q) : Append(q, e)[i] = q[i]
  OBVIOUS

(* The walk keeps the overrides it passes, in order.                        *)
LEMMA IsosStoredNext ==
  ASSUME TypeOK, TableType, IsosStored, [Next]_vars
  PROVE  IsosStored'
<1>0. fw' = fw /\ fw.madt \in Seq(MadtRecord) /\ isos \in Seq(MadtRecord) /\ hdr \in Nat
  BY FwUnchanged, Constants DEF TypeOK, TableType
<1>1. CASE UNCHANGED <<hdr, isos>>
  BY <1>0, <1>1 DEF IsosStored, IsosAre, StuckAt, IsIso
<1>2. ASSUME ParseMadtEntry PROVE IsosStored'
  <2> DEFINE e == fw.madt[hdr]
  <2>1. hdr \in 1 .. Len(fw.madt) /\ e \in MadtRecord
    BY <1>0, <1>2 DEF ParseMadtEntry, Walked, TableType
  <2>2. hdr' = hdr + Advance(e) /\ isos' = IF IsIso(hdr) THEN Append(isos, e) ELSE isos
    BY <1>2 DEF ParseMadtEntry, IsIso
  <2>3. CASE StuckAt(hdr)
    <3>1. hdr' = hdr
      BY <1>0, <2>2, <2>3 DEF StuckAt, Advance
    <3> QED BY <1>0, <2>3, <3>1 DEF IsosStored, StuckAt
  <2>4. ASSUME ~ StuckAt(hdr) PROVE IsosStored'
    <3>1. PICK at \in [1 .. Len(isos) -> 1 .. hdr - 1] : IsosAre(at)
      BY <2>4 DEF IsosStored
    <3>2. e.len \in Nat /\ e.len # 0
      BY <1>0, <2>1, <2>4 DEF StuckAt, MadtRecord
    <3>3. hdr' = hdr + 1
      BY <1>0, <2>2, <3>2 DEF Advance
    <3> HIDE DEF e
    <3>4. CASE ~ IsIso(hdr)
      <4>1. isos' = isos
        BY <2>2, <3>4
      <4>2. at \in [1 .. Len(isos') -> 1 .. hdr' - 1]
        BY <1>0, <3>3, <4>1
      <4>3. \A k \in 1 .. hdr' - 1 : IsIso(k) => k \in 1 .. hdr - 1
        BY <1>0, <3>3, <3>4
      <4>4. IsosAre(at)'
        BY <1>0, <3>1, <4>1, <4>2, <4>3 DEF IsosAre, IsIso
      <4> QED BY <4>2, <4>4 DEF IsosStored
    <3>5. CASE IsIso(hdr)
      <4> DEFINE n == Len(isos) + 1
      <4>0. PICK to : to = [i \in 1 .. n |-> IF i = n THEN hdr ELSE at[i]]
        OBVIOUS
      <4>1. /\ n \in Nat /\ Len(isos') = n /\ isos'[n] = e
            /\ \A i \in 1 .. Len(isos) : isos'[i] = isos[i]
        BY <1>0, <2>1, <2>2, <3>5, AppendFacts
      <4>2. \A i \in 1 .. n : i = n \/ i \in 1 .. Len(isos)
        BY <1>0
      <4>3. \A i \in 1 .. Len(isos) : to[i] = at[i] /\ at[i] \in 1 .. hdr - 1
        BY <1>0, <4>0
      <4>4. to[n] = hdr
        BY <4>0, <4>1
      <4>6. to \in [1 .. Len(isos') -> 1 .. hdr' - 1]
        <5>1. \A i \in 1 .. n : to[i] \in 1 .. hdr' - 1
          BY <1>0, <2>1, <3>3, <4>2, <4>3, <4>4
        <5> QED BY <4>0, <4>1, <5>1
      <4>7. ASSUME NEW i \in 1 .. n, NEW j \in 1 .. n, i < j PROVE to[i] < to[j]
        <5>1. i \in 1 .. Len(isos)
          BY <1>0, <4>7
        <5>2. CASE j = n
          BY <1>0, <4>3, <4>4, <5>1, <5>2
        <5>3. CASE j # n
          BY <3>1, <4>2, <4>3, <4>7, <5>1, <5>3 DEF IsosAre
        <5> QED BY <5>2, <5>3
      <4>8. ASSUME NEW i \in 1 .. n PROVE IsIso(to[i]) /\ isos'[i] = fw.madt[to[i]]
        BY <3>1, <3>5, <4>1, <4>2, <4>3, <4>4 DEF IsosAre, e
      <4>9. ASSUME NEW k \in 1 .. hdr' - 1, IsIso(k) PROVE \E i \in 1 .. n : to[i] = k
        <5>1. CASE k = hdr
          BY <4>1, <4>4, <5>1
        <5>2. CASE k # hdr
          <6>1. k \in 1 .. hdr - 1
            BY <1>0, <3>3, <5>2
          <6>2. PICK i \in 1 .. Len(isos) : at[i] = k
            BY <3>1, <4>9, <6>1 DEF IsosAre
          <6>3. i \in 1 .. n
            BY <1>0
          <6> QED BY <4>3, <6>2, <6>3
        <5> QED BY <5>1, <5>2
      <4> HIDE DEF n
      <4>10. IsosAre(to)'
        BY <1>0, <4>1, <4>6, <4>7, <4>8, <4>9 DEF IsosAre, IsIso
      <4> QED BY <4>6, <4>10 DEF IsosStored
    <3> QED BY <3>4, <3>5
  <2> QED BY <2>3, <2>4
<1>3. CASE RouteOverride
  BY <1>1, <1>3 DEF RouteOverride
<1> QED
  BY <1>1, <1>2, <1>3, TablesUnchanged

(* The entry written for an override has its vector, polarity and trigger.  *)
LEMMA EntryRoutes ==
  ASSUME NEW iso, NEW dest
  PROVE  Routes(Entry(iso, dest), iso)
<1> DEFINE low == iso.flags \div 2 % 2 = 1
           level == iso.flags \div 8 % 2 = 1
           vector == (iso.gsi + 32) % 256
<1>1. Entry(iso, dest) =
        [masked |-> FALSE, vector |-> vector, low |-> low, level |-> level, dest |-> dest]
  BY DEF Entry
<1>2. low \in BOOLEAN /\ level \in BOOLEAN
  OBVIOUS
<1> HIDE DEF low, level, vector
<1> DEFINE e == Entry(iso, dest)
<1>3. e.masked = FALSE
  BY <1>1
<1>4. e.vector = vector
  BY <1>1
<1>5. e.low = low
  BY <1>1
<1>6. e.level = level
  BY <1>1
<1> HIDE DEF e
<1>7. ~ e.masked /\ e.vector = vector /\ (e.low <=> low) /\ (e.level <=> level)
  BY <1>2, <1>3, <1>4, <1>5, <1>6, Zenon
<1> QED
  BY <1>7, Zenon DEF Routes, low, level, vector, e

(* Each turn of the loop over isos lets through one pin, and no other.      *)
LEMMA LastRoutedNext ==
  ASSUME TypeOK, TableType, LastRouted, [Next]_vars
  PROVE  LastRouted'
<1>0. /\ fw.madt \in Seq(MadtRecord) /\ isos \in Seq(MadtRecord) /\ hdr \in Nat
      /\ routed \in Nat /\ routed <= Len(isos) /\ Len(isos) \in Nat
  BY Constants DEF TypeOK, TableType
<1>1. CASE UNCHANGED <<isos, routed, redir>>
  BY <1>1 DEF LastRouted
<1>2. ASSUME ParseMadtEntry PROVE LastRouted'
  <2>1. hdr \in 1 .. Len(fw.madt) /\ fw.madt[hdr] \in MadtRecord
    BY <1>0, <1>2 DEF ParseMadtEntry, Walked, TableType
  <2>2. UNCHANGED <<routed, redir>> /\ isos' \in {isos, Append(isos, fw.madt[hdr])}
    BY <1>2 DEF ParseMadtEntry
  <2>3. \A i \in 1 .. routed : isos'[i] = isos[i]
    <3>1. \A i \in 1 .. routed : i \in 1 .. Len(isos)
      BY <1>0
    <3> QED BY <1>0, <2>1, <2>2, <3>1, AppendFacts
  <2>4. \A i \in 1 .. routed, j \in Nat : j \in i + 1 .. routed => j \in 1 .. routed
    BY <1>0
  <2> QED BY <1>0, <2>2, <2>3, <2>4 DEF LastRouted
<1>3. ASSUME RouteOverride PROVE LastRouted'
  <2> DEFINE n == routed + 1
  <2>1. n \in 1 .. Len(isos) /\ routed' = n /\ isos' = isos
    BY <1>0, <1>3 DEF RouteOverride
  <2>4. PICK dest \in fw.cpus : redir' = IoredtblWrite(redir, isos[n], dest)
    BY <1>3 DEF RouteOverride
  <2> HIDE DEF n
  <2>5. ASSUME NEW p \in Pins
        PROVE \/ /\ redir'[p] = Masked
                 /\ \A i \in 1 .. n : PinOf(isos[i]) # p
              \/ \E i \in 1 .. n :
                   /\ PinOf(isos[i]) = p /\ Routes(redir'[p], isos[i])
                   /\ \A j \in i + 1 .. n : PinOf(isos[j]) # p
    <3>1. CASE p = PinOf(isos[n])
      <4>1. redir'[p] = Entry(isos[n], dest)
        BY <2>4, <3>1 DEF IoredtblWrite, PinOf
      <4>2. Routes(redir'[p], isos[n])
        BY <4>1, EntryRoutes
      <4>3. n \in 1 .. n /\ \A j \in n + 1 .. n : FALSE
        BY <2>1
      <4> QED BY <3>1, <4>2, <4>3
    <3>2. CASE p # PinOf(isos[n])
      <4>1. redir'[p] = redir[p]
        BY <2>4, <3>2 DEF IoredtblWrite, PinOf
      <4>2. \A i \in 1 .. n : i = n \/ i \in 1 .. routed
        BY <1>0 DEF n
      <4>3. CASE redir[p] = Masked /\ \A i \in 1 .. routed : PinOf(isos[i]) # p
        BY <3>2, <4>1, <4>2, <4>3
      <4>4. ASSUME NEW i \in 1 .. routed, PinOf(isos[i]) = p, Routes(redir[p], isos[i]),
                   \A j \in i + 1 .. routed : PinOf(isos[j]) # p
            PROVE  /\ i \in 1 .. n
                   /\ \A j \in i + 1 .. n : PinOf(isos[j]) # p
        <5>1. i \in 1 .. n /\ \A j \in i + 1 .. n : j = n \/ j \in i + 1 .. routed
          BY <1>0 DEF n
        <5> QED BY <3>2, <4>4, <5>1
      <4> QED BY <4>1, <4>3, <4>4 DEF LastRouted
    <3> QED BY <3>1, <3>2
  <2> QED BY <2>1, <2>5 DEF LastRouted
<1> QED
  BY <1>1, <1>2, <1>3, TablesUnchanged

(* The bits of a polarity and a trigger that the code tests are those that  *)
(* tell active low and level triggered from the rest.                       *)
LEMMA FlagBits ==
  ASSUME NEW f \in Nat
  PROVE  /\ f % 4 # 2 => (f \div 2 % 2 = 1 <=> f % 4 = 3)
         /\ f \div 4 % 4 # 2 => (f \div 8 % 2 = 1 <=> f \div 4 % 4 = 3)
  OBVIOUS

(* Past the loops, the last override written for a pin is the last of the   *)
(* table.                                                                   *)
LEMMA RoutedIsRight ==
  ASSUME TypeOK, TableType, LoopsDone, IsosStored, LastRouted
  PROVE  OverridesRedirected
<1>0. fw.madt \in Seq(MadtRecord) /\ isos \in Seq(MadtRecord)
  BY Constants DEF TypeOK, TableType
<1> SUFFICES ASSUME "apic" \in ready, NEW p \in Pins
    PROVE LET iso == {k \in DOMAIN fw.madt : fw.madt[k].type = "iso"}
              mine == {k \in iso : fw.madt[k].gsi = p}
          IN (\A k \in iso : fw.madt[k].gsi % 128 = p => k \in mine) =>
               IF mine = {} THEN redir[p].masked
               ELSE LET f == fw.madt[Max(mine)].flags
                    IN /\ ~redir[p].masked /\ redir[p].vector = p + 32
                       /\ f % 4 # 2 => (redir[p].low <=> f % 4 = 3)
                       /\ f \div 4 % 4 # 2 => (redir[p].level <=> f \div 4 % 4 = 3)
  BY DEF OverridesRedirected
<1> DEFINE iso == {k \in DOMAIN fw.madt : fw.madt[k].type = "iso"}
           mine == {k \in iso : fw.madt[k].gsi = p}
           m == Max(mine)
<1>8. SUFFICES ASSUME \A k \in iso : fw.madt[k].gsi % 128 = p => k \in mine
    PROVE IF mine = {} THEN redir[p].masked
          ELSE LET f == fw.madt[m].flags
               IN /\ ~redir[p].masked /\ redir[p].vector = p + 32
                  /\ f % 4 # 2 => (redir[p].low <=> f % 4 = 3)
                  /\ f \div 4 % 4 # 2 => (redir[p].level <=> f \div 4 % 4 = 3)
  OBVIOUS
<1>1. hdr = Len(fw.madt) + 1 /\ routed = Len(isos) /\ Len(fw.madt) \in Nat
  BY <1>0 DEF LoopsDone, Walked, TableType
<1>2. PICK at \in [1 .. Len(isos) -> 1 .. Len(fw.madt)] : IsosAre(at)
  BY <1>0, <1>1 DEF IsosStored, StuckAt
<1>3. \A k \in mine : \E i \in 1 .. Len(isos) : at[i] = k /\ PinOf(isos[i]) = p
  <2>1. ASSUME NEW k \in mine
        PROVE  \E i \in 1 .. Len(isos) : at[i] = k /\ isos[i].gsi = p
    BY <1>0, <1>1, <1>2 DEF IsosAre, IsIso
  <2>2. p % 128 = p
    BY DEF Pins
  <2> QED BY <2>1, <2>2 DEF PinOf
<1>4. \A i \in 1 .. Len(isos) : PinOf(isos[i]) = p => at[i] \in mine /\ isos[i].gsi = p
  <2>1. ASSUME NEW i \in 1 .. Len(isos), PinOf(isos[i]) = p
        PROVE  at[i] \in mine
    <3>1. at[i] \in iso /\ fw.madt[at[i]].gsi % 128 = p
      BY <1>0, <1>2, <2>1 DEF IsosAre, IsIso, PinOf
    <3> QED BY <1>8, <3>1
  <2>2. ASSUME NEW i \in 1 .. Len(isos), at[i] \in mine
        PROVE  isos[i].gsi = p
    BY <1>0, <1>2, <2>2 DEF IsosAre
  <2> QED BY <2>1, <2>2
<1>5. mine \in SUBSET Nat /\ \A k \in mine : k <= Len(fw.madt)
  BY <1>0
<1>6. CASE redir[p] = Masked /\ \A i \in 1 .. routed : PinOf(isos[i]) # p
  <2>1. mine = {}
    BY <1>1, <1>3, <1>6
  <2> QED BY <1>6, <2>1 DEF Masked
<1>7. ASSUME NEW i \in 1 .. routed, PinOf(isos[i]) = p, Routes(redir[p], isos[i]),
             \A j \in i + 1 .. routed : PinOf(isos[j]) # p
      PROVE  /\ mine # {} /\ ~redir[p].masked /\ redir[p].vector = p + 32
             /\ LET f == fw.madt[m].flags
                IN /\ f % 4 # 2 => (redir[p].low <=> f % 4 = 3)
                   /\ f \div 4 % 4 # 2 => (redir[p].level <=> f \div 4 % 4 = 3)
  <2>1. at[i] \in mine
    BY <1>1, <1>4, <1>7
  <2>2. m \in mine /\ \A k \in mine : k <= m
    <3> HIDE DEF mine
    <3> QED BY <1>1, <1>5, <2>1, MaxIsGreatest
  <2>3. PICK j \in 1 .. Len(isos) : at[j] = m /\ PinOf(isos[j]) = p
    BY <1>3, <2>2
  <2>4. j <= i
    BY <1>1, <1>7, <2>3
  <2>5. at[i] \in Nat /\ at[j] \in Nat /\ at[i] <= at[j]
    BY <1>5, <2>1, <2>2, <2>3
  <2>6. i = j
    BY <1>1, <1>2, <2>4, <2>5 DEF IsosAre
  <2>7. fw.madt[m] = isos[i] /\ isos[i] \in MadtRecord
    <3>1. i \in 1 .. Len(isos) /\ at[i] = m
      BY <1>1, <2>3, <2>6
    <3>2. isos[i] = fw.madt[at[i]]
      BY <1>2, <3>1 DEF IsosAre
    <3> HIDE DEF m
    <3> QED BY <1>0, <3>1, <3>2
  <2>8. isos[i].flags \in Nat /\ isos[i].gsi = p
    <3>1. isos[i].flags \in Nat
      BY <2>7 DEF MadtRecord
    <3> QED BY <1>1, <1>4, <1>7, <3>1
  <2> DEFINE f == fw.madt[m].flags
  <2>13. /\ f \in Nat /\ f = isos[i].flags
         /\ f % 4 # 2 => (f \div 2 % 2 = 1 <=> f % 4 = 3)
         /\ f \div 4 % 4 # 2 => (f \div 8 % 2 = 1 <=> f \div 4 % 4 = 3)
    <3>1. f \in Nat /\ f = isos[i].flags
      BY <2>7, <2>8
    <3> HIDE DEF f
    <3> QED BY <3>1, FlagBits
  <2>14. /\ redir[p].low <=> f \div 2 % 2 = 1
         /\ redir[p].level <=> f \div 8 % 2 = 1
    BY <1>7, <2>13, Zenon DEF Routes
  <2>9. (p + 32) % 256 = p + 32
    BY DEF Pins
  <2> HIDE DEF m, mine, f
  <2>10. ~redir[p].masked /\ redir[p].vector = p + 32
    BY <1>7, <2>8, <2>9 DEF Routes
  <2>11. f % 4 # 2 => (redir[p].low <=> f % 4 = 3)
    BY <2>13, <2>14, Zenon
  <2>12. f \div 4 % 4 # 2 => (redir[p].level <=> f \div 4 % 4 = 3)
    BY <2>13, <2>14, Zenon
  <2> QED BY <2>1, <2>10, <2>11, <2>12, Zenon DEF f
<1> QED
  BY <1>6, <1>7 DEF LastRouted

-----------------------------------------------------------------------------
(* The inductive invariant.                                                 *)

(* Base case.                                                               *)
LEMMA InitIInv ==
  Init => IInv
<1> SUFFICES ASSUME Init PROVE IInv
  OBVIOUS
<1>0. fw \in Firmwares /\ fw.madt \in Seq(MadtRecord) /\ Len(fw.madt) \in Nat
  BY Constants DEF Init
<1>1. TableType
  BY <1>0, Constants DEF Init, TableType
<1>2. stage = StartOrder[1] /\ ready = {}
  BY DEF Init, StartOrder
<1>3. InOrder
  <2>1. ASSUME NEW k \in DOMAIN StartOrder, stage = StartOrder[k] PROVE k = 1
    <3>1. k \in 1 .. 12 /\ 1 \in 1 .. 12 /\ StartOrder[k] = StartOrder[1]
      BY <1>2, <2>1, StartOrderFacts
    <3> QED BY <3>1, StartOrderFacts
  <2>2. stage # "run"
    BY DEF Init
  <2>3. {StartOrder[j] : j \in 1 .. 1 - 1} = {}
    OBVIOUS
  <2> QED BY <1>2, <2>1, <2>2, <2>3 DEF InOrder
<1>4. Clock
  <2>1. 0 % Ints = 0
    <3>1. 0 = Ints * 0 /\ Ints \in Nat \ {0}
      BY Constants
    <3> QED BY <3>1, ModZero
  <2>2. stage \notin {"task", "run"}
    BY DEF Init
  <2>3. 0 \in 0 .. Longs - 1 /\ 0 \in 0 .. MaxCount
    BY Constants
  <2>4. (timer_elapsed_us - prev_time) % Ints = 0
    BY <2>1 DEF Init
  <2> QED BY <2>2, <2>3, <2>4 DEF Init, Clock
<1>5. RunType
  BY DEF Init, RunType, Pins
<1>6. TypeOK
  <2>1. stage \in Range(StartOrder)
    BY <1>2, StartOrderFacts
  <2> QED
    BY <1>0, <1>1, <1>2, <1>4, <1>5, <2>1 DEF TypeOK, TableType, RunType, Clock
<1>7. BootOrder /\ TablesTrusted /\ LoopsDone
  BY <1>2 DEF BootOrder, TablesTrusted, LoopsDone
<1>8. IsosStored
  <2>1. hdr = 1 /\ isos = << >>
    BY DEF Init
  <2>2. << >> \in [1 .. Len(isos) -> 1 .. hdr - 1] /\ IsosAre(<< >>)
    BY <2>1 DEF IsosAre
  <2> QED BY <2>2 DEF IsosStored
<1>9. LastRouted
  BY DEF Init, LastRouted
<1> QED
  BY <1>1, <1>3, <1>4, <1>5, <1>6, <1>7, <1>8, <1>9 DEF IInv

(* Inductive step.                                                          *)
LEMMA NextIInv ==
  IInv /\ [Next]_vars => IInv'
<1> SUFFICES ASSUME IInv, [Next]_vars PROVE IInv'
  OBVIOUS
<1>1. TableType' /\ RunType' /\ Clock' /\ InOrder' /\ BootOrder' /\ TablesTrusted'
      /\ LoopsDone' /\ IsosStored' /\ LastRouted'
  BY TableTypeNext, RunTypeNext, ClockNext, InOrderNext, TablesTrustedNext,
     LoopsDoneNext, IsosStoredNext, LastRoutedNext DEF IInv
<1>2. TypeOK'
  <2>1. fw' \in Firmwares
    BY FwUnchanged DEF IInv, TypeOK
  <2>2. /\ prev_time' \in 0 .. MaxCount /\ timer_elapsed_us' \in 0 .. Longs - 1
        /\ late' \in BOOLEAN
    BY <1>1 DEF Clock
  <2>3. count' \in 0 .. MaxCount
    BY <1>1 DEF Clock
  <2>4. /\ ready' \subseteq Range(StartOrder)
        /\ stage' \in Range(StartOrder) \cup {"run", "panic", "fault", "astray", "halt"}
    BY StageType DEF IInv
  <2> QED
    BY <1>1, <2>1, <2>2, <2>3, <2>4 DEF TypeOK, TableType, RunType
<1> QED
  BY <1>1, <1>2 DEF IInv

(* The invariant holds of every reachable state of every machine.            *)
THEOREM SpecIInv ==
  Spec => []IInv
<1>1. Init => IInv
  BY InitIInv
<1>2. IInv /\ [Next]_vars => IInv'
  BY NextIInv
<1> QED
  BY <1>1, <1>2, PTL DEF Spec

(* _start (start.c:83) and sdt_initialize (sdt.c:26): nothing runs before   *)
(* what it calls, and past the tables' setup each table in use is the first *)
(* of its signature and undamaged, for every machine.                       *)
THEOREM BootedRightHolds ==
  Spec => []BootedRight
<1>1. IInv => BootedRight
  BY DEF IInv, BootedRight
<1> QED
  BY <1>1, SpecIInv, PTL

(* apic_initialize (apic.c:73): for a MADT of any length and any overrides, *)
(* each pin that no GSI past a byte falls on is let through as the last     *)
(* override of it says, or stays masked.                                    *)
THEOREM OverridesRedirectedHolds ==
  Spec => []OverridesRedirected
<1>1. IInv => OverridesRedirected
  BY RoutedIsRight DEF IInv
<1> QED
  BY <1>1, SpecIInv, PTL

(* interrupts.S:101: an exception that returns leaves five words for iretq, *)
(* whether or not the processor pushed an error code.                       *)
THEOREM ReturnsBalancedHolds ==
  Spec => []ReturnsBalanced
<1>1. IInv => ReturnsBalanced
  BY DEF IInv, RunType, ReturnsBalanced
<1> QED
  BY <1>1, SpecIInv, PTL

(* isr34 (interrupts.c:95) and the int of timer_tick (timer.c:25): for every *)
(* period and rate of the HPET and every width of its counter, the time is  *)
(* what the HPET showed at the last interrupt but for multiples of 2^32     *)
(* microseconds, and exactly that while every difference fits an int; until *)
(* the counter wraps it is then at most a period and a microsecond behind   *)
(* when no interrupt waits.                                                 *)
THEOREM TimeKeptHolds ==
  Spec => []TimeKept
<1>1. IInv => TimeKept
  BY ClockTimeKept DEF IInv
<1> QED
  BY <1>1, SpecIInv, PTL

===============================================================================
