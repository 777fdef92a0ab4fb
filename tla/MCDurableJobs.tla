---------------------------- MODULE MCDurableJobs ----------------------------
(* Small instances of the durable-job engine.                              *)
EXTENDS DurableJobsRefinement, TLC

ProcessSymmetry == Permutations(Workers) \cup Permutations(Reconcilers)
=============================================================================
