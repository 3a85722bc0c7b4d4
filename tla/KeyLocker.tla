------------------------------ MODULE KeyLocker ------------------------------
(***************************************************************************)
(* EdgeProxy's KeyLocker, apps/edgeproxy/internal/cache/keylock.go: a      *)
(* mutex per cache key, created on demand and deleted with its last user.  *)
(*                                                                         *)
(* Every section under k.mu is one action: the map and the refs fields are *)
(* only touched under k.mu.  A keyLock is a member of Objects; Fresh is    *)
(* the set of those no map entry and no request refers to, so that the     *)
(* allocator may hand out a collected object again.                        *)
(***************************************************************************)
EXTENDS Naturals, FiniteSets

CONSTANTS Requests,             \* goroutines that call Lock
          Keys,                 \* cache keys
          Objects,              \* keyLock values the allocator can return
          NoRequest, NoKey, Nil

ASSUME RequestsFinite == IsFiniteSet(Requests)
ASSUME Nulls == /\ NoRequest \notin Requests
                /\ NoKey \notin Keys
                /\ Nil \notin Objects

VARIABLES locks,    \* k.locks: the keyLock of a key, or Nil
          refs,     \* refs[o]: the refs field of keyLock o
          holder,   \* holder[o]: the request inside o.mu, or NoRequest
          pc,       \* where each request is in Lock and the unlock it returns
          key,      \* the key argument of the call in progress
          lk        \* the keyLock pointer of the call in progress

vars == <<locks, refs, holder, pc, key, lk>>

TypeOK == /\ locks \in [Keys -> Objects \cup {Nil}]
          /\ refs \in [Objects -> Nat]
          /\ holder \in [Objects -> Requests \cup {NoRequest}]
          /\ pc \in [Requests -> {"idle", "waiting", "holding", "unlocked"}]
          /\ key \in [Requests -> Keys \cup {NoKey}]
          /\ lk \in [Requests -> Objects \cup {Nil}]

Init == /\ locks = [k \in Keys |-> Nil]
        /\ refs = [o \in Objects |-> 0]
        /\ holder = [o \in Objects |-> NoRequest]
        /\ pc = [r \in Requests |-> "idle"]
        /\ key = [r \in Requests |-> NoKey]
        /\ lk = [r \in Requests |-> Nil]

Fresh == {o \in Objects : /\ \A k \in Keys : locks[k] # o
                          /\ \A r \in Requests : lk[r] # o}

\* Mutant: a caller counts itself only when it created the keyLock.
RegisterUncounted(r, k, o) ==
    /\ pc[r] = "idle"
    /\ IF locks[k] = Nil THEN o \in Fresh ELSE o = locks[k]
    /\ locks' = [locks EXCEPT ![k] = o]
    /\ refs' = [refs EXCEPT ![o] = 1]
    /\ key' = [key EXCEPT ![r] = k]
    /\ lk' = [lk EXCEPT ![r] = o]
    /\ pc' = [pc EXCEPT ![r] = "waiting"]
    /\ UNCHANGED holder

\* Lock under k.mu: the key's keyLock, created when the map has none, and
\* one reference more on it.
Register(r, k, o) ==
    /\ pc[r] = "idle"
    /\ IF locks[k] = Nil THEN o \in Fresh ELSE o = locks[k]
    /\ locks' = [locks EXCEPT ![k] = o]
    /\ refs' = [refs EXCEPT ![o] = IF locks[k] = Nil THEN 1 ELSE @ + 1]
    /\ key' = [key EXCEPT ![r] = k]
    /\ lk' = [lk EXCEPT ![r] = o]
    /\ pc' = [pc EXCEPT ![r] = "waiting"]
    /\ UNCHANGED holder

\* lk.mu.Lock() returns.
Acquire(r) == /\ pc[r] = "waiting"
              /\ holder[lk[r]] = NoRequest
              /\ holder' = [holder EXCEPT ![lk[r]] = r]
              /\ pc' = [pc EXCEPT ![r] = "holding"]
              /\ UNCHANGED <<locks, refs, key, lk>>

\* Mutant: the unlock function forgets lk.mu.Unlock().
UnlockForgotten(r) == /\ pc[r] = "holding"
                      /\ pc' = [pc EXCEPT ![r] = "unlocked"]
                      /\ UNCHANGED <<locks, refs, holder, key, lk>>

\* The returned function releases the mutex first ...
Unlock(r) == /\ pc[r] = "holding"
             /\ holder' = [holder EXCEPT ![lk[r]] = NoRequest]
             /\ pc' = [pc EXCEPT ![r] = "unlocked"]
             /\ UNCHANGED <<locks, refs, key, lk>>

\* Mutant: the entry is deleted whatever the number of other users.
UnregisterAlways(r) ==
    /\ pc[r] = "unlocked"
    /\ refs' = [refs EXCEPT ![lk[r]] = @ - 1]
    /\ locks' = [locks EXCEPT ![key[r]] = Nil]
    /\ key' = [key EXCEPT ![r] = NoKey]
    /\ lk' = [lk EXCEPT ![r] = Nil]
    /\ pc' = [pc EXCEPT ![r] = "idle"]
    /\ UNCHANGED holder

\* Mutant: the entry is never deleted.
UnregisterNever(r) ==
    /\ pc[r] = "unlocked"
    /\ refs' = [refs EXCEPT ![lk[r]] = @ - 1]
    /\ key' = [key EXCEPT ![r] = NoKey]
    /\ lk' = [lk EXCEPT ![r] = Nil]
    /\ pc' = [pc EXCEPT ![r] = "idle"]
    /\ UNCHANGED <<locks, holder>>

\* ... and drops its reference, under k.mu again; the last one deletes the
\* map entry of its key.
Unregister(r) ==
    /\ pc[r] = "unlocked"
    /\ refs' = [refs EXCEPT ![lk[r]] = @ - 1]
    /\ locks' = IF refs[lk[r]] = 1 THEN [locks EXCEPT ![key[r]] = Nil] ELSE locks
    /\ key' = [key EXCEPT ![r] = NoKey]
    /\ lk' = [lk EXCEPT ![r] = Nil]
    /\ pc' = [pc EXCEPT ![r] = "idle"]
    /\ UNCHANGED holder

Next == \E r \in Requests :
            \/ \E k \in Keys, o \in Objects : Register(r, k, o)
            \/ Acquire(r)
            \/ Unlock(r)
            \/ Unregister(r)

Spec == Init /\ [][Next]_vars

-----------------------------------------------------------------------------
Users(o) == {r \in Requests : lk[r] = o}

\* Two requests never hold the fill lock of one key at the same time
\* (keylock.go:10, "serializes cache fills for the same key").
MutualExclusion ==
    \A r, s \in Requests :
        pc[r] = "holding" /\ pc[s] = "holding" /\ key[r] = key[s] => r = s

\* A key is in the map exactly while some request uses it, and its reference
\* count is the number of those requests: no entry leaks and none is deleted
\* under a user (keylock.go:34-37).
RefsExact ==
    \A k \in Keys : locks[k] # Nil => /\ refs[locks[k]] = Cardinality(Users(locks[k]))
                                      /\ Users(locks[k]) # {}

\* A request in Lock has the keyLock that later callers will find: nobody
\* waits on an object that left the map (the delete at keylock.go:36 races
\* with the lookup at keylock.go:22).
SameObject == \A r \in Requests : pc[r] # "idle" => locks[key[r]] = lk[r]

\* The keyed lock, seen without its objects.
Wants == [r \in Requests |-> IF pc[r] = "waiting" THEN key[r] ELSE NoKey]
Owner == [k \in Keys |-> IF locks[k] = Nil THEN NoRequest ELSE holder[locks[k]]]

Abs == INSTANCE FillLock WITH wants <- Wants, owner <- Owner

\* KeyLocker implements FillLock: the map and the reference counts are not
\* observable through Lock and unlock.
AbsSpec == Abs!LockSpec
=============================================================================
