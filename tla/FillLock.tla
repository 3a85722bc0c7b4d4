------------------------------ MODULE FillLock ------------------------------
(***************************************************************************)
(* What the keyed lock of EdgeProxy's cache promises (the comment at       *)
(* internal/cache/keylock.go:10): fills of the same key are serialised.    *)
(* A requester asks for a key, is granted it when nobody owns it, and      *)
(* gives it back.  There is no lock object, map or reference count here:   *)
(* those are KeyLocker's business.                                         *)
(***************************************************************************)
CONSTANTS Requests, Keys, NoRequest, NoKey

VARIABLES wants,    \* wants[r]: the key r asked for and was not granted yet
          owner     \* owner[k]: the request that owns key k

lockVars == <<wants, owner>>

LockTypeOK == /\ wants \in [Requests -> Keys \cup {NoKey}]
              /\ owner \in [Keys -> Requests \cup {NoRequest}]

LockInit == /\ wants = [r \in Requests |-> NoKey]
            /\ owner = [k \in Keys |-> NoRequest]

OwnsNothing(r) == \A k \in Keys : owner[k] # r

Ask(r, k) == /\ wants[r] = NoKey
             /\ OwnsNothing(r)
             /\ wants' = [wants EXCEPT ![r] = k]
             /\ UNCHANGED owner

Grant(r, k) == /\ wants[r] = k
               /\ owner[k] = NoRequest
               /\ owner' = [owner EXCEPT ![k] = r]
               /\ wants' = [wants EXCEPT ![r] = NoKey]

Return(r, k) == /\ owner[k] = r
                /\ owner' = [owner EXCEPT ![k] = NoRequest]
                /\ UNCHANGED wants

LockNext == \E r \in Requests, k \in Keys : Ask(r, k) \/ Grant(r, k) \/ Return(r, k)

LockSpec == LockInit /\ [][LockNext]_lockVars
=============================================================================
