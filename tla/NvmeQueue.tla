------------------------------ MODULE NvmeQueue ------------------------------
(***************************************************************************)
(* A pair of NVMe queues: send_cmd_sync of pci/nvme.c on one side, the     *)
(* controller on the other.  Commands are numbered in the order they are   *)
(* sent.  The controller is external: it fetches what lies between its     *)
(* head and the tail doorbell, and writes completions whose phase tag is 1 *)
(* on its first pass over the ring, 0 on the second, and so on.            *)
(***************************************************************************)
EXTENDS Integers

CONSTANTS RingSize,    \* entries of a ring, 256
          MaxCommands  \* bound: commands sent

ASSUME RingAssumption == RingSize \in Nat \ {0, 1} /\ MaxCommands \in Nat

RingSlots == 0 .. RingSize - 1

VARIABLES
  sq, cq_phase, cq_cmd,        \* the rings: a command; a phase tag, a command
  sq_tail, cq_head,            \* struct queue
  sq_tail_dbl, cq_head_dbl,    \* the doorbells
  waiting,                     \* send_cmd_sync polls the completion queue
  sq_head, cq_tail, phase,     \* the controller's position
  working,                     \* the command it executes, 0 if none
  sent, executed, taken,       \* ghosts: commands that got so far
  clean                        \* ghost: the ring's memory was zero

driver == <<sq_tail, cq_head, sq_tail_dbl, cq_head_dbl, waiting>>
ring == <<cq_phase, cq_cmd>>
device == <<sq_head, cq_tail, phase, working>>
queuevars == <<sq, ring, driver, device, sent, executed, taken, clean>>

Wrap(i) == IF i + 1 = RingSize THEN 0 ELSE i + 1

(* create_admin_queue, create_io_queue: palloc does not clear the rings. *)
QueueInit ==
  /\ sq = [i \in RingSlots |-> 0]
  /\ clean \in BOOLEAN
  /\ cq_phase \in [RingSlots -> {0, 1}]
  /\ clean => cq_phase = [i \in RingSlots |-> 0]
  /\ cq_cmd = [i \in RingSlots |-> 0]
  /\ sq_tail = 0 /\ cq_head = 0 /\ sq_tail_dbl = 0 /\ cq_head_dbl = 0
  /\ waiting = FALSE
  /\ sq_head = 0 /\ cq_tail = 0 /\ phase = 1 /\ working = 0
  /\ sent = 0 /\ executed = 0 /\ taken = 0

(* send_cmd_sync up to the doorbell *)
Submit ==
  /\ ~ waiting /\ sent < MaxCommands
  /\ sq' = [sq EXCEPT ![sq_tail] = sent + 1]
  /\ sq_tail_dbl' = Wrap(sq_tail) /\ sq_tail' = Wrap(sq_tail)
  /\ waiting' = TRUE /\ sent' = sent + 1
  /\ UNCHANGED <<ring, cq_head, cq_head_dbl, device, executed, taken, clean>>

(* The controller fetches a command and executes it, *)
Execute ==
  /\ working = 0 /\ sq_head # sq_tail_dbl
  /\ working' = sq[sq_head] /\ executed' = sq[sq_head]
  /\ sq_head' = Wrap(sq_head)
  /\ UNCHANGED <<sq, ring, driver, cq_tail, phase, sent, taken, clean>>

(* and posts its completion, unless the ring is full. *)
Post ==
  /\ working # 0 /\ Wrap(cq_tail) # cq_head_dbl
  /\ cq_phase' = [cq_phase EXCEPT ![cq_tail] = phase]
  /\ cq_cmd' = [cq_cmd EXCEPT ![cq_tail] = working]
  /\ cq_tail' = Wrap(cq_tail)
  /\ phase' = IF cq_tail + 1 = RingSize THEN 1 - phase ELSE phase
  /\ working' = 0
  /\ UNCHANGED <<sq, driver, sq_head, sent, executed, taken, clean>>

(* The phase tag is set: clear it, take the entry, ring the head doorbell. *)
ClearedNot == cq_phase

Cleared == [cq_phase EXCEPT ![cq_head] = 0]

HeadBellNever == cq_head_dbl

HeadBell == Wrap(cq_head)

Take ==
  /\ waiting /\ cq_phase[cq_head] = 1
  /\ cq_phase' = Cleared
  /\ taken' = cq_cmd[cq_head]
  /\ cq_head_dbl' = HeadBell /\ cq_head' = Wrap(cq_head)
  /\ waiting' = FALSE
  /\ UNCHANGED <<sq, cq_cmd, sq_tail, sq_tail_dbl, device, sent, executed, clean>>

QueueNext == Submit \/ Execute \/ Post \/ Take

QueueSpec == QueueInit /\ [][QueueNext]_queuevars

(* The controller works, and the polling loop sees what is in memory. *)
FairQueueSpec == QueueSpec /\ WF_queuevars(Execute) /\ WF_queuevars(Post) /\ WF_queuevars(Take)

-----------------------------------------------------------------------------
(* Properties *)

(* Types and positions within the rings.                                    *)
QueueTypeOK ==
  /\ sq \in [RingSlots -> Nat] /\ cq_phase \in [RingSlots -> {0, 1}]
  /\ cq_cmd \in [RingSlots -> Nat]
  /\ {sq_tail, cq_head, sq_tail_dbl, cq_head_dbl, sq_head, cq_tail} \subseteq RingSlots
  /\ waiting \in BOOLEAN /\ phase \in {0, 1} /\ working \in Nat
  /\ sent \in Nat /\ executed \in Nat /\ taken \in Nat /\ clean \in BOOLEAN

(* Where a command can be while it is on its way.                           *)
Idle ==
  /\ ~ waiting /\ working = 0 /\ executed = sent /\ taken = sent
  /\ sq_head = sq_tail /\ cq_tail = cq_head

InSubmissionQueue ==
  /\ waiting /\ working = 0 /\ sent > 0 /\ executed = sent - 1 /\ taken = sent - 1
  /\ sq[sq_head] = sent /\ sq_tail = Wrap(sq_head) /\ cq_tail = cq_head

InController ==
  /\ waiting /\ working = sent /\ sent > 0 /\ executed = sent /\ taken = sent - 1
  /\ sq_head = sq_tail /\ cq_tail = cq_head

InCompletionQueue ==
  /\ waiting /\ working = 0 /\ sent > 0 /\ executed = sent /\ taken = sent - 1
  /\ sq_head = sq_tail /\ cq_tail = Wrap(cq_head) /\ cq_cmd[cq_head] = sent

OneCommand ==
  /\ sq_tail_dbl = sq_tail /\ cq_head_dbl = cq_head
  /\ Idle \/ InSubmissionQueue \/ InController \/ InCompletionQueue
  /\ \A i \in RingSlots : cq_phase[i] = 1 => i = cq_head /\ InCompletionQueue

(* The first completion of the second pass has no phase tag, and is the     *)
(* last one that is posted.                                                 *)
FirstPass ==
  LET posted == IF InCompletionQueue THEN taken + 1 ELSE taken
  IN /\ posted = IF phase = 1 THEN cq_tail ELSE RingSize + cq_tail
     /\ InCompletionQueue /\ taken = RingSize => cq_phase[cq_head] = 0
     /\ taken <= RingSize

(* The driver and the controller agree on both rings at every moment: one   *)
(* command is somewhere between them, or none, and only the completion that *)
(* has just arrived has a phase tag set.  But send_cmd_sync (nvme.c:538)    *)
(* returns for as many commands as a ring has entries, and no more.         *)
RingsAgree == clean => OneCommand /\ FirstPass

(* send_cmd_sync returns only after its own command was executed, and no    *)
(* command is executed twice or out of order - if the memory of the ring    *)
(* was zero: a phase tag left in it is taken for a completion (nvme.c:319). *)
Channel == INSTANCE NvmeChannel
             WITH submitted <- sent, returned <- taken, broken <- ~ clean

ImplementsChannel == Channel!Spec

(* The first RingSize commands complete.                                    *)
FirstPassCompletes ==
  \A n \in 1 .. RingSize :
    (clean /\ sent = n /\ waiting) ~> (sent = n /\ ~ waiting)

(* nvme.c:537 "wait for completion": that of every command arrives.         *)
EveryCommandCompletes == (clean /\ waiting) ~> ~ waiting
=============================================================================
