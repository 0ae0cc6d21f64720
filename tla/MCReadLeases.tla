---------------------------- MODULE MCReadLeases ----------------------------
(* Small instances of ReadLeases: two reveals, by one workload or by two. *)
EXTENDS ReadLeases, TLC

SameClock == [c \in Clients |-> 0]

\* Every process is ahead of the database by as much.
AheadOfDatabase == [c \in Clients |-> 1]

OnePolicy == {[ttl |-> 1, reads |-> 2]}
TwoPolicies == {[ttl |-> 1, reads |-> 2], [ttl |-> 1, reads |-> 1]}

Symmetry == Permutations(Clients) \cup Permutations(Requesters)
=============================================================================
