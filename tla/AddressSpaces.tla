---------------------------- MODULE AddressSpaces ----------------------------
(***************************************************************************)
(* What paging.c, vmm.c and their callers promise: every task has a flat   *)
(* map from user pages to entries, the kernel has one map that all share,  *)
(* and a page is given a frame nothing else maps.                          *)
(***************************************************************************)
EXTENDS Integers

CONSTANTS UserPages, HeapPages, Unmapped

VARIABLES user,    \* user[t]: the map of task t, for the tasks that exist
          kern,    \* the kernel's heap pages
          active,  \* the task whose map the MMU uses
          broken   \* physical memory has run out, or held rubbish

vars == <<user, kern, active, broken>>

FramesOf(map, pages) == {map[p].frame : p \in {q \in pages : map[q] # Unmapped}}

InUse ==
  FramesOf(kern, HeapPages)
    \cup UNION {FramesOf(user[t], UserPages) : t \in DOMAIN user}

(* Pages mapped by a step that changes old into new get frames of their own. *)
Backed(old, new, pages) ==
  LET added == {p \in pages : old[p] = Unmapped /\ new[p] # Unmapped}
  IN  /\ \A p \in pages \ added : new[p] = old[p]
      /\ \A p \in added : new[p].frame \notin InUse
      /\ \A p, q \in added : new[p].frame = new[q].frame => p = q

Init ==
  /\ user = << >>
  /\ broken \in BOOLEAN
  /\ ~ broken =>
       \A p, q \in HeapPages :
         kern[p] # Unmapped /\ kern[q] # Unmapped /\ kern[p].frame = kern[q].frame
           => p = q

Create(t) ==
  /\ t \notin DOMAIN user /\ DOMAIN user' = DOMAIN user \cup {t}
  /\ \A u \in DOMAIN user : user'[u] = user[u]
  /\ Backed([p \in UserPages |-> Unmapped], user'[t], UserPages)
  /\ \A p \in UserPages : user'[t][p] # Unmapped => "W" \in user'[t][p].flags
  /\ Backed(kern, kern', HeapPages)
  /\ FramesOf(user'[t], UserPages) \cap FramesOf(kern', HeapPages) = {}
  /\ active' = t

ReadOnly(map) ==
  [p \in UserPages |->
     IF map[p] = Unmapped THEN Unmapped
     ELSE [map[p] EXCEPT !.flags = @ \ {"W"}]]

Fork(c) ==
  /\ active \in DOMAIN user /\ c \notin DOMAIN user
  /\ user' = [t \in DOMAIN user \cup {c} |->
                IF t \in {c, active} THEN ReadOnly(user[active]) ELSE user[t]]
  /\ Backed(kern, kern', HeapPages)
  /\ UNCHANGED active

(* A read-only page becomes a writable one with a frame of its own. *)
Copy(p) ==
  /\ active \in DOMAIN user /\ user[active][p] # Unmapped
  /\ user'[active][p] \in [frame : {user'[active][p].frame} \ InUse,
                           flags : {user[active][p].flags \cup {"W"}}]
  /\ user' = [user EXCEPT ![active][p] = user'[active][p]]
  /\ UNCHANGED <<kern, active>>

Activate(t) == t \in DOMAIN user /\ active' = t /\ UNCHANGED <<user, kern>>

Next ==
  \/ ~ broken /\ broken' = FALSE
     /\ \/ \E t \in DOMAIN user' : Create(t) \/ Fork(t)
        \/ \E p \in UserPages : Copy(p)
        \/ \E t \in DOMAIN user : Activate(t)
  \/ broken'

Spec == Init /\ [][Next]_vars
=============================================================================
