----------------------------------- MODULE MCOps -----------------------------------
(* Model-checking instance of Ops: ops, reporters and errors are           *)
(* interchangeable model values.                                           *)
EXTENDS Ops, TLC

Symmetry == Permutations(Ops) \cup Permutations(Reporters) \cup Permutations(Errs)
=============================================================================
