------------------------- MODULE MCDynamicCredentials -------------------------
(***************************************************************************)
(* DynamicCredentials for TLC: two requests and a reaper pass, or one of   *)
(* each, and one role on one database or two.                              *)
(***************************************************************************)
EXTENDS DynamicCredentials

CONSTANTS w1, w2, w3, billing, db1, db2

ThreeWorkers == {w1, w2, w3}
TwoWorkers == {w1, w3}
LastReaper == {w3}
OneRole == {billing}
OneTarget == {db1}
TwoTargets == {db1, db2}
OneHome == [r \in OneRole |-> db1]

\* Dropping a role twice is no error for the first and one for the second.
BothTemplates == {"if_exists", "strict"}
Unforgiving == {"strict"}

=============================================================================
