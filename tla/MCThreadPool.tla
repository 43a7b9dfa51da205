---------------------------- MODULE MCThreadPool ----------------------------
(* Model-checking instance of ThreadPool: symmetric workers and heap nodes. *)
EXTENDS ThreadPool, TLC

Symmetry == Permutations(Workers) \cup Permutations(Jobs)
=============================================================================
