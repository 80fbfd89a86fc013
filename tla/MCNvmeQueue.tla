----------------------------- MODULE MCNvmeQueue ------------------------------
(* Values for model-checking NvmeQueue are in the configurations. *)
EXTENDS NvmeQueue
=============================================================================
