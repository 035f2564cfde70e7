---------------------------- MODULE MCPublication ----------------------------
(* Values for Publication: the MHR file was converted before; two tensors,  *)
(* one that fills its alignment and one that does not.                      *)
EXTENDS Publication, TLC

MCPresent  == {"ckpt", "mhr_state", "mhr_gguf"}
MCEditable == {"ckpt", "backbone_safe", "branch_gguf"}
MCElements == <<8, 1>>

\* The processes are interchangeable.
Symmetry == Permutations(Procs)

=============================================================================
