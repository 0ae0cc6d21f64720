----------------------------- MODULE MCRootKeys -----------------------------
(* A small instance of RootKeys. *)
EXTENDS RootKeys, TLC

\* Two secret versions, a transit key version and a webhook's signing secret.
MixedRows == {1, 2, 3, 4}
MixedTable == [x \in MixedRows |->
                 IF x <= 2 THEN "secret" ELSE IF x = 3 THEN "transit" ELSE "webhook"]

=============================================================================
