----------------------------- MODULE MCCowKernel -----------------------------
(* Values for model-checking CowKernel. *)
EXTENDS CowKernel

Insn(o, p) == [op |-> o, page |-> p]

ValsDef == 0 .. 2

(* Programs that fork, and read and write what is shared. *)
ForkLoadStore ==
  {Insn("fork", 0)} \cup {Insn(o, p) : o \in {"load", "store"}, p \in Pages}

(* The same without loads, which only fill the TLB; it may fill anyway. *)
ForkStore == {Insn("fork", 0), Insn("store", 0)}

(* Page 0 is shared and never written, page 1 is, and is read again; page 2   *)
(* lies outside the image: loading from that one stops the machine.           *)
SharedAndHole ==
  {Insn(o, 0) : o \in {"fork", "print", "set"}}
    \cup {Insn("store", 1), Insn("load", 1), Insn("load", 2)}
=============================================================================
