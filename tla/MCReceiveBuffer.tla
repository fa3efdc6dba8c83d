--------------------------- MODULE MCReceiveBuffer ---------------------------
(* Model-checking instance of ReceiveBuffer; closers are interchangeable.  *)
EXTENDS ReceiveBuffer, TLC

Symmetry == Permutations(Closers)
=============================================================================
