---------------------------- MODULE MCBatchRuns ----------------------------
(* BatchRuns on small sets of runs, which are interchangeable.             *)
EXTENDS BatchRuns, TLC

Symmetry == Permutations(Runs)
============================================================================
