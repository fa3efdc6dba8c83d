---------------------------- MODULE MCSendBuffer ----------------------------
(* Model-checking instance of SendBuffer: the constants are set in the     *)
(* .cfg files; writers and closers are interchangeable goroutines.         *)
EXTENDS SendBuffer, TLC

Symmetry == Permutations(Writers) \cup Permutations(Closers)
=============================================================================
