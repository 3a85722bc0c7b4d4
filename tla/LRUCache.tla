------------------------------ MODULE LRUCache ------------------------------
(***************************************************************************)
(* EdgeProxy's response cache, apps/edgeproxy/internal/cache/cache.go: an  *)
(* LRU list bounded in entries and in bytes.  Every method holds c.mu from *)
(* start to end, so each is one step.  c.items is the set of keys of the   *)
(* list: the code adds to and removes from both together.                  *)
(*                                                                         *)
(* Time is abstract: what Get compares `now` with is life, "fresh" until   *)
(* ExpiresAt, "stale" until StaleUntil, "expired" after it.  The eviction  *)
(* counter, which only Stats reads, is left out.                           *)
(***************************************************************************)
EXTENDS Integers, Sequences, SequencesExt

CONSTANTS MaxEntries, MaxBytes

ASSUME CacheLimits == MaxEntries \in Nat \ {0} /\ MaxBytes \in Nat \ {0}

VARIABLES ll,           \* most recently used first: [key, entry, life, size]
          bytes         \* c.bytes, maintained by hand at every insert and removal

cacheVars == <<ll, bytes>>

Cached(k) == \E i \in DOMAIN ll : ll[i].key = k
ItemOf(k) == ll[CHOOSE i \in DOMAIN ll : ll[i].key = k]
Held == {ll[i].key : i \in DOMAIN ll}
\* The items whose keys are in K, in the order of the list.
Keep(K) ==
    LET kept[i \in 0..Len(ll)] ==
            IF i = 0 THEN <<>>
            ELSE IF ll[i].key \in K THEN Append(kept[i - 1], ll[i])
            ELSE kept[i - 1]
    IN  kept[Len(ll)]
SizeOf(items) ==
    LET upto[i \in 0..Len(items)] == IF i = 0 THEN 0 ELSE upto[i - 1] + items[i].size
    IN  upto[Len(items)]

CacheInit == ll = <<>> /\ bytes = 0

\* removeElement(elem, false) for every element whose key is in gone.
DropItems(gone) ==
    /\ ll' = Keep(Held \ gone)
    /\ bytes' = bytes - SizeOf(Keep(gone))

\* Get: an item past StaleUntil is removed, any other becomes the most recent.
Get(k) ==
    IF ~Cached(k) THEN UNCHANGED cacheVars
    ELSE IF ItemOf(k).life = "expired" THEN DropItems({k})
    ELSE /\ ll' = <<ItemOf(k)>> \o Keep(Held \ {k})
         /\ UNCHANGED bytes

\* What Get returns besides: fresh, stale, or nothing.
Found(k) == IF Cached(k) /\ ItemOf(k).life # "expired" THEN ItemOf(k).life ELSE "none"

\* The element goes to the front in place of an older one of its key, and the
\* oldest are dropped until at most MaxEntries elements of at most limit
\* bytes are left.
PushFront(k, e, size, limit) ==
    LET pushed   == <<[key |-> k, entry |-> e, life |-> "fresh", size |-> size]>>
                       \o Keep(Held \ {k})
        total    == bytes - SizeOf(Keep({k})) + size
        left(n)  == total - SizeOf(SubSeq(pushed, n + 1, Len(pushed)))
        kept     == Max({n \in 0..Len(pushed) : n <= MaxEntries /\ left(n) <= limit})
    IN /\ ll' = SubSeq(pushed, 1, kept)
       /\ bytes' = left(kept)

\* Mutant: the eviction loop looks at the number of entries only.
SetUnbounded(k, e, size) ==
    IF size <= 0 \/ size > MaxBytes THEN UNCHANGED cacheVars
    ELSE PushFront(k, e, size, bytes + size)

\* Set: an entry that can never fit is refused before anything changes.
Set(k, e, size) ==
    IF size <= 0 \/ size > MaxBytes THEN UNCHANGED cacheVars
    ELSE PushFront(k, e, size, MaxBytes)

\* Time passes for one item: past ExpiresAt, and past StaleUntil, which are
\* the same instant when the response does not allow stale reuse.
Age == \E i \in DOMAIN ll, next \in {"stale", "expired"} :
          /\ ll[i].life # "expired"
          /\ ll[i].life # next
          /\ ll' = [ll EXCEPT ![i].life = next]
          /\ UNCHANGED bytes

\* The byte counter is the size of what the list holds, a key is there once,
\* and neither bound is exceeded: the memory bound the comment at
\* cache.go:86-88 promises, and what makes the eviction loop at
\* cache.go:103-105 end (removeOldest does nothing on an empty list).
CacheBounds ==
    /\ bytes = SizeOf(ll)
    /\ bytes <= MaxBytes
    /\ Len(ll) <= MaxEntries
    /\ \A i, j \in DOMAIN ll : ll[i].key = ll[j].key => i = j
=============================================================================
