----------------------------- MODULE MCFolderTree -----------------------------
(* FolderTree for TLC. *)
EXTENDS FolderTree, TLC

Symmetry ==
  Permutations(Writers) \cup Permutations(Names) \cup Permutations(Secrets)

\* A row is told by its path and whether it is live, not by its folder_id: a path names
\* one live row, and with one secret nothing tells two deleted rows apart.
Id(f) == IF f \in Rows THEN <<folders[f].path, folders[f].live>> ELSE <<>>

View ==
  <<{<<Id(f), Id(folders[f].parent), folders[f].name>> : f \in Live}, Cardinality(Rows),
    [s \in Secrets |-> [secrets[s] EXCEPT !.folder = Id(@)]],
    [w \in Writers |-> [work[w] EXCEPT !.chain = [i \in DOMAIN @ |-> Id(@[i])]]],
    lapsed>>

=============================================================================
