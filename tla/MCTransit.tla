------------------------------ MODULE MCTransit ------------------------------
(* A small instance of Transit. *)
EXTENDS Transit, TLC

Symmetry == Permutations(Clients)
=============================================================================
