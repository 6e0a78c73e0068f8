------------------------------ MODULE MCSpend ------------------------------
(* Small instances of Spend.  Pool threads are interchangeable. *)
EXTENDS Spend, TLC

Symmetry == Permutations(Samplers)
=============================================================================
