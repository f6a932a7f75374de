------------------------------ MODULE MCBrowser ------------------------------
(***************************************************************************)
(* Instances of Browser for TLC.                                           *)
(***************************************************************************)
EXTENDS Browser

CONSTANTS s1, s2, s3

\* An answer for each way the handlers can take it.
Answer(n, l, j) == [players |-> n, listable |-> l, joinable |-> j]
MCInfo == {Answer(0, TRUE, TRUE), Answer(1, TRUE, FALSE), Answer(1, FALSE, TRUE)}
ListInfo == {Answer(0, TRUE, FALSE), Answer(1, TRUE, FALSE), Answer(1, FALSE, FALSE)}
=============================================================================
