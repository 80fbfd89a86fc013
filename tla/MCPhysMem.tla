------------------------------ MODULE MCPhysMem ------------------------------
(* Memory maps for model-checking PhysMem. *)
EXTENDS PhysMem, Sequences

Entry(b, l, u) == [base |-> b, length |-> l, usable |-> u]

(* Entries of the given lengths, one after the other from page 0. *)
Contiguous2(a, b, u, v) == <<Entry(0, a, u), Entry(a, b, v)>>

Contiguous3(a, b, c, u, v, w) ==
  Contiguous2(a, b, u, v) \o <<Entry(a + b, c, w)>>

(* Maps of 8 or 9 pages, whose bitmap fills its pages exactly (BitmapBytes *)
(* = PageSize = 2): usable memory around a hole of reserved pages, at the  *)
(* start, and at the end of memory.                                         *)
ReleaseMaps ==
  {Contiguous3(3, 2, 4, TRUE, FALSE, TRUE),
   Contiguous3(1, 3, 4, FALSE, TRUE, TRUE),
   Contiguous3(4, 3, 1, TRUE, TRUE, FALSE)}

(* The bitmap of the first takes three bytes, so that its second page is    *)
(* not filled; of the second, usable memory lies above a gap.               *)
BootMaps ==
  ReleaseMaps \cup
  {Contiguous3(2, 11, 3, TRUE, FALSE, TRUE), <<Entry(0, 3, TRUE), Entry(12, 4, TRUE)>>}
=============================================================================
