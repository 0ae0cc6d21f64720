-------------------------- MODULE MCSecretVersions --------------------------
(***************************************************************************)
(* SecretVersions on a small instance for TLC: two clients, one served by  *)
(* a process whose clock runs ahead of the database's and the other by one *)
(* whose clock is behind it.                                               *)
(***************************************************************************)
EXTENDS SecretVersions, TLC

CONSTANTS c1, c2

MCSkew == (c1 :> 1) @@ (c2 :> -1)

\* A negative window asks for immediate destruction (it is clamped to zero); the other
\* is longer than any clock is off.
MCWindows == {-1, 2}

\* Identities and plaintexts are interchangeable; the clients' clocks differ.
Symmetry == Permutations(Secrets) \cup Permutations(Values)

=============================================================================
