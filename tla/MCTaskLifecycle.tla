-------------------------- MODULE MCTaskLifecycle --------------------------
(* TLC instance of TaskLifecycle. *)
EXTENDS TaskLifecycle, TLC

TaskSymmetry == Permutations(Task) \cup Permutations(Run)
=============================================================================
