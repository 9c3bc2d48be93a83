---------------------------- MODULE MCExecutions ----------------------------
(* Executions for model checking: executions are interchangeable. *)
EXTENDS Executions, TLC

ExecutionSymmetry == Permutations(Executions)
=============================================================================
