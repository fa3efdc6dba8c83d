------------------------------ MODULE MCDialer ------------------------------
(* Model-checking instance of Dialer; callers are interchangeable.         *)
EXTENDS Dialer, TLC

Symmetry == Permutations(Callers)
=============================================================================
