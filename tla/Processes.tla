------------------------------ MODULE Processes ------------------------------
(***************************************************************************)
(* What user programs may rely on: every task has registers and a memory   *)
(* of its own; fork gives the child a copy of both, with 0 in the child's  *)
(* rax and 2 in the parent's (fork.c:32-34); a step of a task changes      *)
(* nothing of any other task.  There are no frames, page tables, TLB,      *)
(* timer or current task here: CowKernel is shown to implement this module *)
(* as long as page frames do not run out.                                  *)
(***************************************************************************)
EXTENDS Integers

CONSTANTS Tasks,     \* all tasks there may ever be
          InitTask,  \* the task _start creates
          Pages,     \* user pages
          NoPage,    \* content of a page that is not mapped
          Vals,      \* what a page or a register holds
          Program    \* the instructions user programs are made of

VARIABLES memory,   \* memory[t][p], for the tasks that exist
          regs,     \* regs[t] = [rax, insn]: registers, next instruction
          stopped,  \* an access outside the image stopped the machine
          broken    \* frames ran out: nothing is promised any more

vars == <<memory, regs, stopped, broken>>

tasks == DOMAIN memory

Init ==
  /\ memory \in [{InitTask} -> [Pages -> Vals \cup {NoPage}]]
  /\ regs \in [{InitTask} -> [rax : Vals, insn : Program]]
  /\ stopped = FALSE
  /\ broken = FALSE

(* t completes its instruction with r in rax; what comes next is up to t. *)
Retire(t, r) ==
  \E i \in Program : regs' = [regs EXCEPT ![t] = [rax |-> r, insn |-> i]]

Load(t, p) ==
  /\ regs[t].insn = [op |-> "load", page |-> p]
  /\ memory[t][p] # NoPage
  /\ Retire(t, memory[t][p])
  /\ UNCHANGED <<memory, stopped>>

Store(t, p) ==
  /\ regs[t].insn = [op |-> "store", page |-> p]
  /\ memory[t][p] # NoPage
  /\ memory' = [memory EXCEPT ![t][p] = regs[t].rax]
  /\ Retire(t, regs[t].rax)
  /\ UNCHANGED stopped

Compute(t) ==
  /\ regs[t].insn.op = "set"
  /\ \E v \in Vals : Retire(t, v)
  /\ UNCHANGED <<memory, stopped>>

(* Only fork changes anything but rax: print answers 0, an unknown id 1. *)
Syscall(t) ==
  /\ \/ regs[t].insn.op = "print" /\ Retire(t, 0)
     \/ regs[t].insn.op = "invalid" /\ Retire(t, 1)
  /\ UNCHANGED <<memory, stopped>>

Fork(t, c) ==
  /\ regs[t].insn.op = "fork"
  /\ memory' = [u \in tasks \cup {c} |-> IF u = c THEN memory[t] ELSE memory[u]]
  /\ \E i, j \in Program :
       regs' = [u \in tasks \cup {c} |->
                  CASE u = t -> [rax |-> 2, insn |-> i]
                    [] u = c -> [rax |-> 0, insn |-> j]
                    [] OTHER -> regs[u]]
  /\ UNCHANGED stopped

(* A task touches a page that is not mapped: the machine halts. *)
Stop(t, p) ==
  /\ regs[t].insn.page = p /\ regs[t].insn.op \in {"load", "store"}
  /\ memory[t][p] = NoPage
  /\ stopped' = TRUE
  /\ UNCHANGED <<memory, regs>>

Step(t) ==
  \/ \E p \in Pages : Load(t, p) \/ Store(t, p) \/ Stop(t, p)
  \/ Compute(t)
  \/ Syscall(t)
  \/ \E c \in Tasks \ tasks : Fork(t, c)

Next ==
  \/ broken' = TRUE
  \/ /\ ~ stopped /\ ~ broken
     /\ \E t \in tasks : Step(t)
     /\ UNCHANGED broken

Spec == Init /\ [][Next]_vars
=============================================================================
