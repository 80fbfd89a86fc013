------------------------------ MODULE FramePool ------------------------------
(***************************************************************************)
(* What the physical memory manager promises to its clients (pmm.h:8-10):  *)
(* it hands out page frames, no frame is handed out twice before it is     *)
(* given back, and only frames that were handed out come back.  PhysMem    *)
(* (pmm.c) is shown to implement this module; CowKernel is built on it.    *)
(***************************************************************************)
VARIABLES free,   \* frames nobody holds
          used    \* frames some client holds

vars == <<free, used>>

Init == used = {} /\ free \cap used = {}

(* pmm_request_pages: the frames S go to a client; S = {} is the NULL answer. *)
RequestPages(S) ==
  /\ S \subseteq free
  /\ free' = free \ S
  /\ used' = used \cup S

(* pmm_release_pages: a client gives back frames it holds. *)
ReleasePages(S) ==
  /\ S \subseteq used
  /\ free' = free \cup S
  /\ used' = used \ S

Next ==
  \/ \E S \in SUBSET free : RequestPages(S)
  \/ \E S \in SUBSET used : ReleasePages(S)

Spec == Init /\ [][Next]_vars
=============================================================================
