--------------------------- MODULE MCUpstreamPool ---------------------------
(***************************************************************************)
(* Two origins of different weight and equal priority; a request may try   *)
(* three times, so that it comes back to an origin it has tried.  With two *)
(* requests, random_weighted stands for the algorithms without a state of  *)
(* their own: it may take whatever they take.                              *)
(***************************************************************************)
EXTENDS UpstreamPool, TLC

MCWeight == [n \in Nodes |-> n]
MCPriority == [n \in Nodes |-> 1]
Symmetry == Permutations(Requests)
=============================================================================
