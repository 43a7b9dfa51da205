---------------------------- MODULE MCGNetServer ----------------------------
(* Model-checking instance of GNetServer: workers and clients are alike.    *)
EXTENDS GNetServer, TLC

Symmetry == Permutations(Workers) \cup Permutations(Conns)
=============================================================================
