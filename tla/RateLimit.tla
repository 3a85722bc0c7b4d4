----------------------------- MODULE RateLimit ------------------------------
(***************************************************************************)
(* SecurityEdge's token buckets and temporary bans,                        *)
(* apps/securityedge/internal/ratelimit/limiter.go.  Limiter and           *)
(* BanManager have a mutex each that every method holds from start to end, *)
(* so a method is one step; the time it works with is a parameter that its *)
(* caller read before the lock was taken, so it may be out of date.        *)
(*                                                                         *)
(* Time is counted in ticks and tokens in 1/Unit.  Retry-After values, the *)
(* number of violations a ban shows, and the lists the Admin API prints    *)
(* are left out.                                                           *)
(***************************************************************************)
EXTENDS Integers, Sequences, FiniteSets, FiniteSetsExt, Functions

CONSTANTS Routes, Clients,
          Unit,                    \* one token
          Rate, Burst,             \* of a client; Rate in 1/Unit per tick
          GlobalRate, GlobalBurst, \* of a route
          MaxBuckets, IdleTTL,
          Window, Threshold, MaxTracked, \* auto_ban
          SweepEvery               \* interval of cleanupInactiveLocked

\* config.go:939-948.
ASSUME LimiterSettings ==
    /\ {Unit, Rate, Burst, GlobalRate, GlobalBurst, IdleTTL} \subseteq Nat \ {0}
    /\ MaxBuckets \in Nat /\ MaxBuckets >= 2
    /\ {Window, Threshold, MaxTracked, SweepEvery} \subseteq Nat \ {0}

Never == -1   \* the zero time.Time

VARIABLES buckets,   \* l.buckets: key -> [tokens, last]; seen equals last
          bans,      \* m.clients: client -> [times, until, seen]
          lastSweep  \* m.lastCleanup

limiterVars == <<buckets, bans, lastSweep>>

GlobalKey(rt) == <<rt>>
ClientKey(rt, c) == <<rt, c>>
Keys == {GlobalKey(rt) : rt \in Routes} \cup {ClientKey(rt, c) : rt \in Routes, c \in Clients}
RateOf(key) == IF Len(key) = 1 THEN GlobalRate ELSE Rate
BurstOf(key) == Unit * IF Len(key) = 1 THEN GlobalBurst ELSE Burst

\* The map f after the assignment f[x] = v, which may add x.
With(f, x, v) == [y \in DOMAIN f \cup {x} |-> IF y = x THEN v ELSE f[y]]

LimiterInit == buckets = <<>> /\ bans = <<>> /\ lastSweep = Never

-----------------------------------------------------------------------------
(* Limiter.                                                                *)

Refilled(b, key, t) == Min({b.tokens + RateOf(key) * Max({t - b.last, 0}), BurstOf(key)})

\* Mutant: one bucket more than max_buckets.
NoRoomLate(bs, key) == key \notin DOMAIN bs /\ Cardinality(DOMAIN bs) > MaxBuckets

NoRoom(bs, key) == key \notin DOMAIN bs /\ Cardinality(DOMAIN bs) >= MaxBuckets

\* Mutant: a refusal adds the refill but keeps the time of the one before.
TakeRefillTwice(bs, key, t) ==
    IF NoRoom(bs, key) THEN [verdict |-> "bucket_capacity", buckets |-> bs]
    ELSE LET b == IF key \in DOMAIN bs THEN bs[key] ELSE [tokens |-> BurstOf(key), last |-> t]
             have == Refilled(b, key, t)
         IN  IF have >= Unit
             THEN [verdict |-> "ok",
                   buckets |-> With(bs, key, [tokens |-> have - Unit, last |-> t])]
             ELSE [verdict |-> "rate_exceeded",
                   buckets |-> With(bs, key, [tokens |-> have, last |-> b.last])]

\* allowLocked, for key in the buckets bs.
Take(bs, key, t) ==
    IF NoRoom(bs, key) THEN [verdict |-> "bucket_capacity", buckets |-> bs]
    ELSE LET b == IF key \in DOMAIN bs THEN bs[key] ELSE [tokens |-> BurstOf(key), last |-> t]
             have == Refilled(b, key, t)
             ok == have >= Unit
         IN  [verdict |-> IF ok THEN "ok" ELSE "rate_exceeded",
              buckets |-> With(bs, key, [tokens |-> IF ok THEN have - Unit ELSE have, last |-> t])]

\* Mutant: the route's token is not given back.
RefundNone(bs, rt) == bs

\* The route gets its token back when the client's bucket refuses.
Refund(bs, rt) ==
    [bs EXCEPT ![GlobalKey(rt)].tokens = IF @ < BurstOf(GlobalKey(rt)) THEN @ + Unit ELSE @]

\* Allow: the route's bucket first, then the client's.
Allow(rt, c, t) ==
    LET g == Take(buckets, GlobalKey(rt), t)
        k == Take(g.buckets, ClientKey(rt, c), t)
    IN  IF g.verdict # "ok" THEN [scope |-> "global", verdict |-> g.verdict, buckets |-> g.buckets]
        ELSE IF k.verdict = "ok" THEN [scope |-> "none", verdict |-> "ok", buckets |-> k.buckets]
        ELSE [scope |-> "client", verdict |-> k.verdict, buckets |-> Refund(k.buckets, rt)]

\* cleanup, at a tick of its timer.
DropIdle(t) == buckets' = Restrict(buckets, {k \in DOMAIN buckets : t - buckets[k].last <= IdleTTL})

-----------------------------------------------------------------------------
(* BanManager.                                                             *)

Banned(c, t) == c \in DOMAIN bans /\ t < bans[c].until
Without(bs, cs) == Restrict(bs, DOMAIN bs \ cs)

\* A ban that is over and after which nothing was recorded.
Served(v, t) == t >= v.until /\ v.times = <<>> /\ v.until # Never

\* IsBanned's effect: a ban seen to be over is forgotten.
ObserveBan(c, t) ==
    bans' = IF c \notin DOMAIN bans THEN bans
            ELSE IF Banned(c, t) THEN [bans EXCEPT ![c].seen = t]
            ELSE IF Served(bans[c], t) THEN Without(bans, {c}) ELSE bans

\* The violations that are not older than the window.
Recent(times, t) ==
    LET Kept[i \in 0..Len(times)] ==
            IF i = 0 THEN <<>>
            ELSE IF times[i] >= t - Window THEN Append(Kept[i - 1], times[i])
            ELSE Kept[i - 1]
    IN  Kept[Len(times)]

\* cleanupInactiveLocked, when it is due.
Due(t) == lastSweep = Never \/ t - lastSweep \notin 0 .. SweepEvery - 1
Swept(t) ==
    LET pruned == [c \in DOMAIN bans |->
                     IF Banned(c, t) THEN bans[c] ELSE [bans[c] EXCEPT !.times = Recent(@, t)]]
        idle == {c \in DOMAIN bans : /\ ~Banned(c, t) /\ pruned[c].times = <<>>
                                     /\ t - bans[c].seen > Window}
    IN  IF Due(t) THEN Without(pruned, idle) ELSE bans

\* Mutant: the oldest entry is evicted, banned or not.
EvictableOldest(bs, t) == {c \in DOMAIN bs : \A d \in DOMAIN bs : bs[c].seen <= bs[d].seen}

\* evictOldestInactiveLocked: the entries it may choose.  Among entries of
\* the same age the order of the map decides.
Evictable(bs, t) ==
    LET inactive == {c \in DOMAIN bs : t >= bs[c].until}
    IN  {c \in inactive : \A d \in inactive : bs[c].seen <= bs[d].seen}

\* The entry of c after a violation at t that may earn a ban of length d.
Charged(bs, c, d, t) ==
    LET v == IF c \in DOMAIN bs THEN bs[c] ELSE [times |-> <<>>, until |-> Never, seen |-> t]
        times == Append(Recent(v.times, t), t)
    IN  IF Len(times) >= Threshold THEN [times |-> <<>>, until |-> t + d, seen |-> t]
        ELSE [v EXCEPT !.times = times, !.seen = t]

RecordViolation(c, d, t) ==
    LET bs == Swept(t)
        full == c \notin DOMAIN bs /\ Cardinality(DOMAIN bs) >= MaxTracked
        Add(old) == With(old, c, Charged(old, c, d, t))
    IN  /\ lastSweep' = IF Due(t) THEN t ELSE lastSweep
        /\ \/ ~full /\ bans' = Add(bs)
           \/ full /\ Evictable(bs, t) = {} /\ bans' = bs
           \/ full /\ \E gone \in Evictable(bs, t) : bans' = Add(Without(bs, {gone}))

\* List and ActiveCount forget the bans that are over.
ListBans(t) == bans' = Without(bans, {c \in DOMAIN bans : Served(bans[c], t)})

Unban(cs) == bans' = Without(bans, cs)
=============================================================================
