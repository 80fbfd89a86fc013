----------------------------- MODULE MCKernelHeap -----------------------------
(* Values for model-checking KernelHeap.  With headers of 1 byte in pages  *)
(* of 5, growing for a block of 4 leaves too few bytes and 7 needs two     *)
(* pages; 1 fits a free chunk of 2 exactly.                                *)
EXTENDS KernelHeap

MixedSizes == {0, 1, 4, 7}
=============================================================================
