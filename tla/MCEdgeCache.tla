---------------------------- MODULE MCEdgeCache ----------------------------
(***************************************************************************)
(* One resource with two Vary variants: an unsafe request must invalidate  *)
(* both.  The first version takes one byte and the second two: a cache of  *)
(* three bytes holds both variants until both have changed.                *)
(***************************************************************************)
EXTENDS EdgeCache
CONSTANTS gzip, plain, page

MCUriOf == [k \in Keys |-> page]
MCEntrySize == [v \in 0..MaxVersion |-> v + 1]
Symmetry == Permutations(Requests) \cup Permutations(Objects)
=============================================================================
