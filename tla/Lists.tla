------------------------------- MODULE Lists --------------------------------
(***************************************************************************)
(* The loops over a list with which the stores of SecurityEdge restore and *)
(* page through what they keep (internal/securitylog/store.go and          *)
(* internal/admin/history.go).  They are recursive functions of an index,  *)
(* about which the proofs can reason.                                      *)
(***************************************************************************)
EXTENDS Integers, Sequences

\* The elements of s that are in S, in the order of s.
Only(s, S) ==
    LET kept[i \in 0..Len(s)] ==
            IF i = 0 THEN <<>>
            ELSE IF s[i] \in S THEN Append(kept[i - 1], s[i])
            ELSE kept[i - 1]
    IN  kept[Len(s)]
=============================================================================
