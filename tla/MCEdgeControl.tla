--------------------------- MODULE MCEdgeControl ---------------------------
(***************************************************************************)
(* Two listen addresses, the second with two route tables, so that a       *)
(* restart can be superseded by another restart; one or two configuration  *)
(* files, and a dotenv file that overrides the address or names the other  *)
(* file.                                                                   *)
(***************************************************************************)
EXTENDS EdgeControl
CONSTANTS p1, p2, l1, l2, r1, r2

Plain == [listen |-> None, path |-> p1]
Override == [listen |-> l2, path |-> p1]
OtherFile == [listen |-> None, path |-> p2]
First == [listen |-> l1, routes |-> r1]
Files == [p \in Paths |-> IF p = p1 THEN First ELSE [listen |-> l2, routes |-> r2]]
Written == {First, [listen |-> l2, routes |-> r1], [listen |-> l2, routes |-> r2]}
TwoFiles == {Plain, Override, OtherFile}
OneFile == {Plain, Override}
=============================================================================
