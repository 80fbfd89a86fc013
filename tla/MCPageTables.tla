----------------------------- MODULE MCPageTables -----------------------------
(* Values for model-checking PageTables: pages of 4 bytes, 3 entries a table. *)
EXTENDS PageTables

(* All frames zero, or one of the first that are not. *)
DirtySetsDef == {{}} \cup {{f} : f \in {2, 5, 8, 9, 14, 15}}

Segment(v, m) == [vaddr |-> v, memsz |-> m]

(* A segment inside a page; one that starts late in a page and ends early   *)
(* in another, whose entry lies in another table; two on the same page.     *)
ImagesDef ==
  {<<Segment(0, 4)>>,
   <<Segment(10, 4)>>,
   <<Segment(0, 6), Segment(6, 7)>>}
=============================================================================
