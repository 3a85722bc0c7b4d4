------------------------------ MODULE MCGateway -----------------------------
(***************************************************************************)
(* Two goroutines and two clients.  One assignment of policies has bans,   *)
(* of different lengths on two routes; another rate limits, with room for  *)
(* one bucket less than there are keys; a third has clients that ask for   *)
(* protocol upgrades.                                                      *)
(***************************************************************************)
EXTENDS Gateway, TLC

CONSTANTS c1, c2, r1, r2

Plain == [on |-> TRUE, allow |-> {}, deny |-> {}, limited |-> FALSE, banFor |-> 0,
          upgrades |-> FALSE]
Banning(d) == [Plain EXCEPT !.banFor = d]

MCPolicySets ==
    { r1 :> Banning(2) @@ r2 :> [Banning(3) EXCEPT !.on = FALSE, !.allow = {c2}],
      r1 :> [Plain EXCEPT !.limited = TRUE] @@ r2 :> [Plain EXCEPT !.deny = {c1}],
      r1 :> [Plain EXCEPT !.upgrades = TRUE] @@ r2 :> [Plain EXCEPT !.upgrades = TRUE] }

Symmetry == Permutations(Requests)
=============================================================================
