------------------------------ MODULE EdgeCache ------------------------------
(***************************************************************************)
(* The cached request path of one EdgeProxy route: handleRoute and the     *)
(* cache side of fetchAndServe (apps/edgeproxy/internal/proxy/handler.go), *)
(* run by several requests at once over the route's KeyLocker and cache,   *)
(* with the unsafe-method invalidation of other requests and the purges of *)
(* the admin API (proxy/admin.go) in between.                              *)
(*                                                                         *)
(* The content of a resource is its version at the origin.  The attempts   *)
(* of fetchAndServe (which origin, retries, health) are UpstreamPool's: of *)
(* them only the outcome is kept.                                          *)
(***************************************************************************)
EXTENDS KeyLocker, LRUCache

CONSTANTS Uris,         \* effective request URIs
          UriOf,        \* UriOf[k]: the URI of a cache key; keys that share
                        \* one are its Vary variants
          EntrySize,    \* EntrySize[v]: the size of version v as an entry,
                        \* its key included
          MaxVersion    \* bound: how often the resource may change

ASSUME UriOfKeys == UriOf \in [Keys -> Uris]
ASSUME Bounds == MaxVersion \in Nat /\ EntrySize \in [0..MaxVersion -> Nat]

VARIABLES at,       \* at[r]: the place of request r in handleRoute
          kind,     \* kind[r]: what requestCacheMode makes of the request
          want,     \* want[r]: its cache key
          stale,    \* stale[r]: the entry kept for stale-if-error
          body,     \* body[r]: the origin's response: version and status
          origin,   \* origin[u]: the version of resource u at the origin
          served,   \* served[r]: what r sends its client
          barred,   \* ghost: barred[r] the version r found stale before it asked
                    \* for the lock, once it was purged and until it is
                    \* stored again
          stored,   \* ghost: stored[k] the highest version stored for key k
          acked     \* ghost: acked[u] the newest version of u whose unsafe
                    \* request was answered

reqVars == <<at, kind, want, stale, body, served>>
ghosts  == <<barred, stored, acked>>
allVars == <<vars, cacheVars, reqVars, origin, ghosts>>

Versions == 0..MaxVersion
Kinds    == {"get", "refresh", "private", "unsafe"}
Statuses == {"ok", "refused", "retryable"}
Stages   == {"idle", "lookup", "lock", "waiting", "recheck", "fetch", "response",
             "return", "returned"}
\* An entry: its content, and a ghost, whether it was stored after the answer
\* to an unsafe request that came after its content.
Entry    == [ver : Versions, late : BOOLEAN]
Item     == [key : Keys, entry : Entry, life : {"fresh", "stale", "expired"}, size : Nat]
NoEntry  == [ver |-> 0, none |-> TRUE]
Nothing  == [from |-> "none", ver |-> 0]
NoVersion == -1
NoBody   == [ver |-> 0, status |-> "none"]

\* requestCacheMode: only GET and HEAD without Range, no-store or credentials
\* take part in the cache ("get"); no-cache or max-age=0 skips the lookup
\* ("refresh").  Other GETs and probes are "private", methods that change the
\* resource "unsafe".
Lookups(r) == kind[r] = "get"
Stores(r)  == kind[r] \in {"get", "refresh"}

EdgeTypeOK ==
    /\ TypeOK
    /\ at \in [Requests -> Stages]
    /\ kind \in [Requests -> Kinds \cup {"none"}]
    /\ want \in [Requests -> Keys \cup {NoKey}]
    /\ stale \in [Requests -> Entry \cup {NoEntry}]
    /\ body \in [Requests -> [ver : Versions, status : Statuses \cup {"none"}]]
    /\ served \in [Requests -> [from : {"none", "HIT", "STALE", "ORIGIN", "502", "gone"},
                                ver : Versions]]
    /\ origin \in [Uris -> Versions]
    /\ barred \in [Requests -> Versions \cup {NoVersion}]
    /\ stored \in [Keys -> Versions]
    /\ acked \in [Uris -> Versions]
    /\ ll \in Seq(Item)
    /\ \A i \in DOMAIN ll : ll[i].size = EntrySize[ll[i].entry.ver]

EdgeInit ==
    /\ Init
    /\ CacheInit
    /\ at = [r \in Requests |-> "idle"]
    /\ kind = [r \in Requests |-> "none"]
    /\ want = [r \in Requests |-> NoKey]
    /\ stale = [r \in Requests |-> NoEntry]
    /\ body = [r \in Requests |-> NoBody]
    /\ served = [r \in Requests |-> Nothing]
    /\ origin = [u \in Uris |-> 0]
    /\ barred = [r \in Requests |-> NoVersion]
    /\ stored = [k \in Keys |-> 0]
    /\ acked = [u \in Uris |-> 0]

Go(r, stage) == at' = [at EXCEPT ![r] = stage]
\* The client is answered and the handler is about to return.
Leave(r, from, ver) ==
    /\ served' = [served EXCEPT ![r].from = from, ![r].ver = ver]
    /\ stale' = [stale EXCEPT ![r] = NoEntry]
    /\ body' = [body EXCEPT ![r] = NoBody]
    /\ Go(r, "return")
UriWanted(r) == UriOf[want[r]]

-----------------------------------------------------------------------------
\* A request arrives and requestCacheMode classifies it.
Arrive(r, kd, k) ==
    /\ at[r] = "idle"
    /\ kind' = [kind EXCEPT ![r] = kd]
    /\ want' = [want EXCEPT ![r] = k]
    /\ Go(r, CASE kd = "get" -> "lookup"
               [] kd = "refresh" -> "lock"
               [] OTHER -> "fetch")
    /\ UNCHANGED <<vars, cacheVars, stale, body, served, origin, ghosts>>

\* One rt.cache.Get and what handleRoute does with its result: a fresh entry
\* is the answer, a stale one is kept, anything else leads to next.  allowed
\* is requestAllowsCachedEntry: a max-age of the request can rule the entry out.
Consult(r, allowed, next) ==
    /\ Get(want[r])
    /\ IF Found(want[r]) = "fresh" /\ allowed
       THEN Leave(r, "HIT", ItemOf(want[r]).entry.ver)
       ELSE /\ Go(r, next)
            /\ stale' = IF Found(want[r]) = "stale" /\ allowed
                        THEN [stale EXCEPT ![r] = ItemOf(want[r]).entry] ELSE stale
            /\ UNCHANGED <<body, served>>
    /\ UNCHANGED <<kind, want, origin, ghosts>>

FirstLookup(r, allowed) ==
    /\ at[r] = "lookup"
    /\ Consult(r, allowed, "lock")
    /\ UNCHANGED vars

TakeLock(r, o) ==
    /\ at[r] = "lock"
    /\ Register(r, want[r], o)
    /\ Go(r, "waiting")
    /\ UNCHANGED <<cacheVars, kind, want, stale, body, served, origin, ghosts>>

\* Mutant: the candidate of the lookup before the lock is kept.
LockTakenKeepingStale(r) ==
    /\ at[r] = "waiting"
    /\ Acquire(r)
    /\ Go(r, "recheck")
    /\ UNCHANGED <<cacheVars, kind, want, stale, body, served, origin, ghosts>>

LockTaken(r) ==
    /\ at[r] = "waiting"
    /\ Acquire(r)
    /\ stale' = [stale EXCEPT ![r] = NoEntry]
    /\ Go(r, "recheck")
    /\ UNCHANGED <<cacheVars, kind, want, body, served, origin, ghosts>>

SecondLookup(r, allowed) ==
    /\ at[r] = "recheck"
    /\ IF Lookups(r) THEN Consult(r, allowed, "fetch")
       ELSE /\ Go(r, "fetch")
            /\ UNCHANGED <<cacheVars, kind, want, stale, body, served, origin, ghosts>>
    /\ UNCHANGED vars

-----------------------------------------------------------------------------
\* External: the origin carries an unsafe request out, or not.
Mutates(r, done) ==
    IF done THEN /\ kind[r] = "unsafe"
                 /\ origin[UriWanted(r)] < MaxVersion
                 /\ origin' = [origin EXCEPT ![UriWanted(r)] = @ + 1]
    ELSE UNCHANGED origin

\* The attempts end with a response that is kept.
FetchAnswered(r, status) ==
    /\ at[r] = "fetch"
    /\ status = "refused" => kind[r] = "unsafe"
    /\ Mutates(r, kind[r] = "unsafe" /\ status = "ok")
    /\ body' = [body EXCEPT ![r] = [ver |-> origin'[UriWanted(r)], status |-> status]]
    /\ Go(r, "response")
    /\ UNCHANGED <<vars, cacheVars, kind, want, stale, served, ghosts>>

ServeStale(r) == Leave(r, "STALE", stale[r].ver)

\* They end with an error, after or before the origin did its work: stale
\* content if there is some, else 502.
FetchFailed(r, done) ==
    /\ at[r] = "fetch"
    /\ Mutates(r, done)
    /\ IF stale[r] # NoEntry THEN ServeStale(r) ELSE Leave(r, "502", 0)
    /\ UNCHANGED <<vars, cacheVars, kind, want, ghosts>>

\* The client went away: nothing is served, stored or invalidated.
ClientGone(r) ==
    /\ at[r] \in {"fetch", "response"}
    /\ Leave(r, "gone", 0)
    /\ UNCHANGED <<vars, cacheVars, kind, want, origin, ghosts>>

\* Ghost part of a purge of the URIs in U.
Bar(U) ==
    barred' = [r \in Requests |->
                 IF at[r] \in {"lock", "waiting"} /\ stale[r] # NoEntry /\ UriWanted(r) \in U
                 THEN stale[r].ver ELSE barred[r]]

\* cache.Purge, PurgeRequest and Clear: every variant of the URIs in U goes.
PurgeUris(U) ==
    /\ DropItems({k \in Keys : UriOf[k] \in U})
    /\ Bar(U)

\* A response that says 502, 503 or 504 is hidden by stale content.
HideFailure(r) ==
    /\ at[r] = "response"
    /\ stale[r] # NoEntry /\ body[r].status = "retryable"
    /\ ServeStale(r)
    /\ UNCHANGED <<vars, cacheVars, kind, want, origin, ghosts>>

Passes(r) == at[r] = "response" /\ ~(stale[r] # NoEntry /\ body[r].status = "retryable")

\* Mutant: the purge removes the key computed for the unsafe request only.
AnswerUnsafeOneKey(r) ==
    /\ Passes(r) /\ kind[r] = "unsafe"
    /\ IF body[r].status = "ok"
       THEN /\ DropItems({want[r]})
            /\ acked' = [acked EXCEPT ![UriWanted(r)] = Max({@, body[r].ver})]
       ELSE UNCHANGED <<cacheVars, acked>>
    /\ Leave(r, "ORIGIN", body[r].ver)
    /\ UNCHANGED <<vars, kind, want, origin, stored, barred>>

\* The response of an unsafe request: invalidateUnsafeRequest purges every
\* variant of its URI before the response is sent on, which acknowledges it.
AnswerUnsafe(r) ==
    /\ Passes(r) /\ kind[r] = "unsafe"
    /\ IF body[r].status = "ok"
       THEN /\ PurgeUris({UriWanted(r)})
            /\ acked' = [acked EXCEPT ![UriWanted(r)] = Max({@, body[r].ver})]
       ELSE UNCHANGED <<cacheVars, barred, acked>>
    /\ Leave(r, "ORIGIN", body[r].ver)
    /\ UNCHANGED <<vars, kind, want, origin, stored>>

\* rt.cache.Set at the end of fetchAndServe, with the ghosts that follow it.
StoreEntry(r) ==
    LET k == want[r] v == body[r].ver IN
    /\ Set(k, [ver |-> v, late |-> v < acked[UriOf[k]]], EntrySize[v])
    /\ stored' = IF EntrySize[v] <= MaxBytes THEN [stored EXCEPT ![k] = v] ELSE stored
    /\ barred' = [s \in Requests |->
                    IF want[s] = k /\ barred[s] = v THEN NoVersion ELSE barred[s]]

\* Any other response is copied to the client; at the end it is stored, if
\* the request takes part in the cache and if the method (GET, not HEAD),
\* responseCachePolicy, the copy and the object bound allow it (keep).
Answer(r, keep) ==
    /\ Passes(r) /\ kind[r] # "unsafe"
    /\ keep => Stores(r)
    /\ IF keep THEN StoreEntry(r) ELSE UNCHANGED <<cacheVars, stored, barred>>
    /\ Leave(r, "ORIGIN", body[r].ver)
    /\ UNCHANGED <<vars, kind, want, origin, acked>>

\* The handler returns: the deferred unlock runs if the lock was taken, its
\* second half under k.mu in a step of its own.
Return(r) ==
    /\ at[r] = "return"
    /\ IF pc[r] = "holding" THEN Unlock(r) /\ Go(r, "returned")
                            ELSE Go(r, "idle") /\ UNCHANGED vars
    /\ kind' = [kind EXCEPT ![r] = "none"]
    /\ want' = [want EXCEPT ![r] = NoKey]
    /\ served' = [served EXCEPT ![r] = Nothing]
    /\ barred' = [barred EXCEPT ![r] = NoVersion]
    /\ UNCHANGED <<cacheVars, stale, body, origin, stored, acked>>

Finish(r) ==
    /\ at[r] = "returned"
    /\ Unregister(r)
    /\ Go(r, "idle")
    /\ UNCHANGED <<cacheVars, kind, want, stale, body, served, origin, ghosts>>

\* Handler.PurgeCache, called by the admin API: not under any fill lock.
PurgeCache(U) ==
    /\ PurgeUris(U)
    /\ UNCHANGED <<vars, reqVars, origin, stored, acked>>

TimePasses == Age /\ UNCHANGED <<vars, reqVars, origin, ghosts>>

Progress(r) ==
    \/ \E allowed \in BOOLEAN : FirstLookup(r, allowed) \/ SecondLookup(r, allowed)
    \/ \E o \in Objects : TakeLock(r, o)
    \/ LockTaken(r)
    \/ \E status \in Statuses : FetchAnswered(r, status)
    \/ \E done \in BOOLEAN : FetchFailed(r, done)
    \/ ClientGone(r)
    \/ HideFailure(r)
    \/ AnswerUnsafe(r)
    \/ \E keep \in BOOLEAN : Answer(r, keep)
    \/ Return(r)
    \/ Finish(r)

EdgeNext ==
    \/ \E r \in Requests : \/ \E kd \in Kinds, k \in Keys : Arrive(r, kd, k)
                           \/ Progress(r)
    \/ \E U \in SUBSET Uris : U # {} /\ PurgeCache(U)
    \/ TimePasses

\* A request in the handler keeps running: its origin round trip has a
\* deadline, and sync.Mutex hands over to a starving waiter.
EdgeFairness == \A r \in Requests : /\ WF_allVars(Progress(r))
                                    /\ SF_allVars(LockTaken(r))

EdgeSpec == EdgeInit /\ [][EdgeNext]_allVars
FairEdgeSpec == EdgeSpec /\ EdgeFairness

-----------------------------------------------------------------------------
\* Only one request at a time fetches in order to fill a key, so a popular
\* key that expires costs the origin one request (keylock.go:10).
SingleFill ==
    \A r, s \in Requests :
        /\ at[r] \in {"fetch", "response"} /\ Stores(r)
        /\ at[s] \in {"fetch", "response"} /\ Stores(s)
        /\ want[r] = want[s]
        => r = s

\* A request that waited for the fill lock never serves an entry that a purge
\* removed while it waited (handler.go:406-409).
NoPurgedStale ==
    \A r \in Requests : served[r].from = "STALE" => served[r].ver # barred[r]

\* A later fill never puts older content in the cache than an earlier fill of
\* the same key did: fetching and storing happen under one hold of the lock.
StoredVersionsGrow == [][\A k \in Keys : stored'[k] >= stored[k]]_allVars

\* Every request is answered and gives its lock back.
EveryRequestEnds == \A r \in Requests : (at[r] # "idle") ~> (at[r] = "idle")

\* The only entries older than an acknowledged unsafe request are those of a
\* fill that raced with it: what was cached when the request was answered is
\* gone, in every Vary variant (cache.go:142-144).
OnlyRacingFillsSurvive ==
    \A i \in DOMAIN ll :
        ll[i].entry.ver < acked[UriOf[ll[i].key]] => ll[i].entry.late

\* Once an unsafe request was answered with success, the cache holds no fresh
\* copy of what the resource was before it (handler.go:676-679): a following
\* GET would be answered with it until the TTL ends.
NoStaleAfterWrite ==
    \A i \in DOMAIN ll :
        ll[i].life = "fresh" => ll[i].entry.ver >= acked[UriOf[ll[i].key]]
=============================================================================
