-------------------------- MODULE MCGenerationRun --------------------------
(* Small instances of GenerationRun for TLC. *)
EXTENDS GenerationRun, TLC
=============================================================================
