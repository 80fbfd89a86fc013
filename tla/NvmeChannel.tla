----------------------------- MODULE NvmeChannel -----------------------------
(***************************************************************************)
(* What send_cmd_sync promises its callers: commands are executed one by   *)
(* one, in the order they were sent, and it returns when the controller    *)
(* has executed the command, not before.                                   *)
(***************************************************************************)
EXTENDS Integers

VARIABLES submitted, executed, returned, broken

vars == <<submitted, executed, returned, broken>>

Init == submitted = 0 /\ executed = 0 /\ returned = 0 /\ broken \in BOOLEAN

Submit == /\ returned = submitted
          /\ submitted' = submitted + 1 /\ UNCHANGED <<executed, returned>>

Execute == /\ executed < submitted
           /\ executed' = executed + 1 /\ UNCHANGED <<submitted, returned>>

Return == /\ returned < submitted /\ executed = submitted
          /\ returned' = submitted /\ UNCHANGED <<submitted, executed>>

Next ==
  /\ ~ broken => Submit \/ Execute \/ Return
  /\ UNCHANGED broken

Spec == Init /\ [][Next]_vars
=============================================================================
