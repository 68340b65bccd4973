-------------------------- MODULE MCExecutionTask --------------------------
(* Instances of ExecutionTask for TLC. *)
EXTENDS ExecutionTask, TLC

Interchangeable == Permutations(Handlers)
=============================================================================
