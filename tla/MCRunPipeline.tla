---------------------------- MODULE MCRunPipeline ----------------------------
(***************************************************************************)
(* Small instances of RunPipeline.                                         *)
(***************************************************************************)
EXTENDS RunPipeline, TLC

Symmetry == Permutations(Runs) \cup Permutations(Workers) \cup Permutations(Consumers)
=============================================================================
