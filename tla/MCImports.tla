------------------------------ MODULE MCImports ------------------------------
(* A small instance of Imports. *)
EXTENDS Imports, TLC

Symmetry == Permutations(Folders) \cup Permutations(Creators)
=============================================================================
