------------------------ MODULE MCExecutionPipeline ------------------------
(* ExecutionPipeline on small sets of executions, workers and reviewers. *)
EXTENDS ExecutionPipeline, TLC

ProcessSymmetry == Permutations(Workers) \cup Permutations(Reviewers)
=============================================================================
