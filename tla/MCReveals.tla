------------------------------ MODULE MCReveals ------------------------------
(* A small instance of Reveals, with one reader. *)
EXTENDS Reveals

\* A plain value, or a reference to one folder.
OneReference == {<<>>} \cup {<<f>> : f \in Folders}

\* There is one secret the reader may not read.  The folders are interchangeable until a
\* run tells them apart, so it does not matter which.
OneForbidden == {Folders \ {CHOOSE f \in Folders : TRUE}}
=============================================================================
