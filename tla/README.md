# SecureEdge-Platform: formal verification

TLA+ models of EdgeProxy (`apps/edgeproxy`, a caching reverse proxy) and
SecurityEdge (`apps/securityedge`, the security gateway in front of it), the TLC
runs that check them, and proofs for TLAPS. `PROJECT.json` lists the components,
the runs, the mutants that show each property can fail, the source lines behind
every definition, the hazards, and the theorems.

    tlc -workers 2 -config EdgeCache.cfg MCEdgeCache     # a run
    tlapm EdgeCacheProofs.tla                            # a proof

## The system

Paths are relative to `apps/`; E is `edgeproxy/internal`, S is `securityedge/internal`.

| Component | State | Operations | Hard part | What makes it correct |
|---|---|---|---|---|
| E/cache `Cache` | LRU list, byte count | Get, Set, Delete, purges | accounting by hand | limits and count always hold |
| E/cache `KeyLocker` | key to lock object, reference counts | Lock, unlock | deletion against lookup | one filler per key, no leak |
| E/proxy request path | locals of each request, cache, fill lock | handleRoute, fetchAndServe, invalidation, purge | fills racing purges and writes | nothing purged is served, no older version over a newer one, every answer is for the one who asked |
| E/proxy `upstreamPool` | health, active counts, weights | pick, release, health checks | retries and late results | counts exact, retries spread, health converges |
| E/proxy tunnels, S/gateway tunnels | connections, wait group | register, unregister, Close | registration against Close | Close knows and ends all |
| E/control `Manager`, E/server run loop, E/envfile | current, persisted and last healthy configuration, revision, restart channel, process environment | Update, Reload, watcher, Attach, RecoverFailedRestart | three goroutines, files edited by others, generations that fail to start | no edit lost, what is served is what is on disk, fallback is one that was bound |
| E/config, S/config | files and backups | LoadFile, Save | crash between renames | a configuration is always found |
| E/router, E cache policy, S/routes | none | pure functions on a request | precedence | most specific match, no unsafe storage |
| E/accesslog, S/traffic | ring buffer | Append, Query, Clear | wrap around | the newest entries, in order |
| S/gateway `Handler` | locals of each request | ServeHTTP | order of checks, one way out of many | slots returned, banned clients stopped |
| S/ratelimit `Limiter`, `BanManager` | buckets, violations and bans | Allow, cleanup, IsBanned, RecordViolation, Admin removal | clock read outside the lock, tables at their limit | rate kept, bans kept, tables bounded |
| S/admission | counts | Acquire, release | leaks | counts exact |
| `securityedge.go`, `cmd/securityedge` | policies, route table, generation | Update, Reload, supervise, fallback | readiness of EdgeProxy, failed generations | the served policy is the persisted one |
| S/securitylog, S/admin history | files, sequence numbers | Append, rotate, restore, Clear | crash in between | entries survive, sequence grows |
| S/connectivity | last snapshot | run, Snapshot | concurrent probes | a snapshot is of one round |
| S/waf, clientip | none | Inspect, Resolve | string decoding | (not for a model checker) |

Requests flow client, S/gateway, E/proxy, origin. SecurityEdge reads EdgeProxy's
configuration file for its route table and calls EdgeProxy's Admin API. Each
process watches its own configuration and dotenv files.

## Modules

- `FillLock`: what a fill lock promises. A request asks for a key, is granted it
  when nobody has it, and returns it.
- `KeyLocker`: `keylock.go`. `Register` and `Unregister` are the two sections under
  `k.mu`; `Acquire` and `Unlock` are the object's mutex. `locks`, `refs` and
  `holder` are the fields; `pc`, `key` and `lk` the caller's locals. `AbsSpec` is
  `FillLock` under the mapping `Wants`, `Owner`.
- `LRUCache`: `cache.go`, one operator per method. `now` is abstract: an entry is
  fresh, stale or expired and ages at any time.
- `EdgeCache`: composes the two with the request path. One action per stretch
  between two shared accesses: lookup, lock, second lookup, origin exchange, the
  handling of the response with its Set or purge, return. Content is a version
  number that unsafe requests raise at the origin. Admin purges, ageing and the
  origin run in between.
- `EdgeControl`: `manager.go`, the run loop of `run.go`, and `envfile.go`. `tx` is the
  holder of `transactionMu` with its locals, `watch` the watcher (which owns
  `managedMu` from "set" on), `loop` the run loop. A configuration is its restart
  part (`listen`) and its hot part (`routes`). Other actors edit the files, also with
  invalid content; preflight, hot reload and start may fail. A change of the environment
  that keeps the configuration path is `EnvReread`, one that moves it `EnvSwitch`, one that
  cannot be loaded `EnvRefused`. A transaction reads the file once per step, and an edit may
  fall between any two: the watcher's digest (`FileTick`), what is persisted (`FileRead`,
  `ReadFile`: `LoadFile`), what is run (`Load`), and the digest of a new path (`EnvTarget`).
- `UpstreamPool`: `upstream.go` under the attempt loop of `fetchAndServe`. Health
  flags are read before the scheduler's mutex, as in `pick`. An attempt fails because its
  origin is down, or by the request itself at an origin that works (`Spoils`): an upload that
  is too slow for the route's deadline or cannot be read, or a retry that has only what is
  left of that deadline. The code blames the origin for all of them (`handler.go:471`, `543`)
  as long as the client is there, and so does the model.
- `RateLimit`: `limiter.go`, both classes, one operator per method; tokens are
  integers in 1/`Unit`, time is in ticks.
- `Gateway`: `ServeHTTP` of the gateway over `RateLimit`, admission and the tunnel
  registry. What a check finds in the request is a choice; the time passed to the
  limiter and the bans was read a step earlier.
- `EdgeHandler`: the life of EdgeProxy's `Handler`: generations published by `Reload`
  with their health-check goroutines, the registry of upgraded connections, and `Close`
  by two callers at once.
- `SecurityControl`: `securityedge.go`, `watch.go`, `restart_preflight.go`, the generations
  and the supervisor of `cmd/securityedge`, and the Admin operations on EdgeProxy's
  routes. `tx` holds `configMu`, `sup` is the supervisor with its three digests, `loop`
  is `runManaged`, `bff` an Admin operation under way, and `ep` what SecurityEdge sees of
  EdgeProxy: its table, the file it saw last, its readiness. A configuration is its
  restart part and the routes that have a policy; a route table is the set of its routes.
- `SecurityLog`: `securitylog/store.go`. A file is the sequence of its lines, the last
  one perhaps torn; a rotation is one step per rename; restore and export read them back.
- `ConfigFiles`: `Save` and `LoadFile` of both programs' `config`, one step per file
  operation, with and without a rename that replaces (`windows`), and a second process
  that loads the same file. `backups` is in the order of the names, which are times, and
  `place` says where a copy made now goes. Editors and the clock take no lock: they act at
  any time, during a Save too.
- `TelemetryHistory`: `admin/history.go` and the sampler of `admin/server.go`. `wall` is
  the clock that can be set back, `elapsed` (a ghost) the time that really passed.
- `Routing`: validation and matching of one route table by both programs, against the
  definition "the owner of the most specific selector that covers the request".
- `CachePolicy`: `cache_policy.go` with the lookup and store of `handler.go`, over headers
  and times where `EdgeCache` has verdicts: keys, Vary, credentials, freshness with the
  age a response brings along, and conditional requests. Ghost fields say what a request
  accepts and what a response allows; `ClientTakes` and `OriginAllows` say by RFC 9111 what
  they are, apart from how the code computes it.
- `Lists`: the loops over a list that `SecurityLog` and `TelemetryHistory` share.
- `MCEdgeCache`, `MCEdgeControl`, `MCUpstreamPool`, `MCGateway`, `MCSecurityControl`:
  constants for TLC.
- `MCPlatform`: constants for the seven modules from `EdgeHandler` to `CachePolicy` at once. `focus` is chosen in
  the initial state, and a behaviour takes the steps of that part only. These parts
  share no variables (`SecurityControl` has its own, smaller picture of a file and of a
  route table), so interleaving them would multiply states and show nothing more.
- `EdgeCacheProofs` (with `KeyLocker`), `EdgeControlProofs`, `UpstreamPoolProofs`,
  `GatewayProofs` (with `RateLimit`), `StoreProofs` (`SecurityLog` and `TelemetryHistory`),
  `RequestProofs` (`Routing` and `CachePolicy`) and `PlatformProofs` (`ConfigFiles`, `EdgeHandler`,
  `SecurityControl`, and `MCPlatform`): the theorems. `SetSums`: the induction, the recursion over an
  index and the sums over finite sets that they share.

Definitions that start with "Mutant:" in their comment are faulty forms of the
definition after them. No specification uses them; `PROJECT.json` pairs each with
the property that catches it.

## Runs

| Run | Checks | Bounds |
|---|---|---|
| `edge_cache` | the cache path: lock exact and a refinement of `FillLock`, one fill per key, cache limits, nothing purged served stale, versions of a key only grow, and only fills that race a write survive it | 2 requests, 1 resource with 2 Vary variants, 2 versions of different size, cache of 3 bytes: both variants do not fit once both have changed |
| `edge_cache_live` | every request ends | the same with 1 key |
| `edge_cache_write_race` | **violated**: `NoStaleAfterWrite` | the same |
| `edge_control` | edits are applied or refused except in named races, what is served is what is persisted, the fallback was bound, revisions grow, a scheduled restart happens, recovery ends, no deadlock | 3 configurations, 2 files, 3 environments, 3 revisions, 2 edits, 2 faults |
| `edge_control_drain` | **violated**: `DrainFoldsChanges` | 1 file, 2 environments |
| `edge_control_env` | **violated**: `RefusedEnvironmentIsUnused` | the same |
| `edge_control_rollback` | **violated**: `RollbackPointWasBound` | the same |
| `edge_upstream` | active counts, spread of retries, weights, probes, blame | 2 requests with 3 attempts each, 2 origins of different weight, 2 changes of an origin's state |
| `edge_upstream_live` | an origin that stays up is found healthy again and again, and in the end for good unless requests never stop spoiling their attempts to it; for all five algorithms | 1 request |
| `security_gateway` | slots, tokens, bans, tunnels | 2 goroutines, 2 clients, 2 routes, 3 assignments of policies, 3 ticks, room for 2 buckets and 1 tracked client |
| `platform_parts` | see the next table | one instance per part |
| `security_control_routes` | **violated**: `RouteEditsAreAdopted` | as below, with 1 edit, 1 call, no fault |

| Part of `platform_parts` | Checks | Bounds |
|---|---|---|
| `SecurityControl` | `ServesItsFile`: once the supervisor has looked, what the file holds is served or was refused, also while Admin calls are under way. `RoutesFollow`: once the supervisor has looked at the route table and has not put it off, SecurityEdge routes by it, and served policies always name served routes. `RecoversBound`: a failed generation is replaced by one that has been bound. `SupervisorCompletes`: a table that was put off and a restart that was scheduled are not forgotten | 3 configurations, 2 files, 3 environments, 2 route tables, 2 edits, 1 Admin call, 1 fault |
| `SecurityLog` | `LogKeepsHistory`: over rotation, crashes and torn lines, what was written stays on disk until rotation or Clear removes it, the ring is in order with growing sequence numbers, and an export never repeats | ring of 2, files of 2 lines, 2 backups, 5 entries, 2 faults: the oldest file is dropped |
| `ConfigFiles` | `ConfigSurvives`: a restart finds the last configuration, or while a Save was under way the old or the new one, and the replaced one is among the backups, but for the three races listed below | 3 contents, 3 saves, 2 backups, 2 faults |
| `EdgeHandler` | `HandlerShutsDown`: after Close no tunnel is open and no check of a generation it knew runs, and Close waits only for what it has ended | 2 upgrades, 2 callers of Close, 2 reloads |
| `TelemetryHistory` | `HistoryIsHonest`: samples in order, every rate counts one instance over the time that passed | 2 samples kept, interval 2, 3 ticks, 2 faults |
| `Routing` | `ProgramsAgreeOnRoute`: both programs accept the same tables and choose the same, most specific route | all tables of up to 3 out of 8 routes, 5 hosts, 6 paths |
| `CachePolicy` | `CacheAnswersFit`: an answer from the cache was made for the same variant and credentials, is no older than client and origin allow, and says "not modified" only of content the client has | 19 requests, 15 responses of 5 contents (one older, one newer and one of the same second as the client's), 3 policies, 3 ticks, 1 response stored |

`PlatformTypeOK` adds that no ring, file, backup list or history outgrows its limit.

Why the bounds suffice: every race above is between two requests, or between one
request and one other actor; two of each kind give all of them. Tables are given
less room than there are keys so that refusal and eviction happen. Three revisions
leave room for a restart that is superseded by another one. `MaxStale` = 1 says that
a goroutine is not held up between reading the clock and taking the lock for as
long as a ban lasts. `edge_upstream` uses `weighted_round_robin` and
`random_weighted`: the second may take what any algorithm without state of its own
takes.

Deadlock is checked in all passing runs but `platform_parts`, whose parts end when their
entries, saves or reloads are used up; that Close and the supervisor do not get stuck is
stated as properties instead. In `EdgeControl` a process that has exited only stutters.

### What the violated runs show

- `edge_cache_write_race`: an unsafe request purges all variants "so a following GET
  cannot observe stale data" (`handler.go:676`). A GET that got its response from the
  origin before the write may store it after the purge, and it then stays for its
  TTL. `OnlyRacingFillsSurvive` shows that only such fills do.
- `edge_control_drain`: a change made while listeners drain is compared with the
  draining generation's configuration. A change back to it counts as hot, is applied
  to the handler that is going away, and the new generation starts with the
  configuration before it (`run.go:109` says such changes are folded in).
- `edge_control_env`: `ReloadValidated` puts the new values in the process environment
  before it validates them under `transactionMu`; an API transaction that holds the
  mutex meanwhile loads a configuration under values that are then refused.
- `edge_control_rollback`: `Attach` records `m.persisted` as the last healthy
  configuration. An update accepted between the start of the listeners and `Attach`
  makes it one that no generation has been started with.
- `security_control_routes`: when SecurityEdge's own file has changed, the supervisor calls
  `Reload` and then takes a new digest of the route table (`main.go:387`), as if the table
  had been loaded. `Reload` loads nothing when the file holds what is running, which is so
  after every update through the Admin API. An edit of the table between two ticks is
  then taken as seen and never adopted.

`edge_control` excuses six interleavings by the ghost `races`, each set by the racing step
itself, so that everything outside of them is still checked:
- `drain`, `env` and `rollback` are those of the violated runs; `rollback` is also a recovery
  under an environment other than the snapshot's;
- `hot`: a hot reload that reaches the generation that is going away;
- `torn`: an edit between the two reads of one transaction (`manager.go:210` and `222`, or `222` after
  the Save of an update), which then persists the first content and runs the second. The next
  transaction that is applied ends it. The watcher starts one if it sees another digest; if the
  file is edited back before it looks, nothing does;
- `edit`: an edit that the watcher's digest cannot show, because an update overwrites it or takes
  its digest for its own, or because it is back to the content the watcher saw last after a
  transaction has read another.

`ConfigSurvives` excuses three by the ghost `fileRaces`, each over with the next Save that makes a copy:
- `restore`: a process finds the file missing, reads the staged one and renames it (`persist.go:48`)
  over a file that has appeared meanwhile, which takes a Save or an edit back;
- `edit`: an edit after the copy (`persist.go:136`) and before the rename (`persist.go:166-172`;
  SecurityEdge's `persist.go:53` and `90`) is replaced by the Save and is in no backup, although the
  comment at `persist.go:106` says that the previous document is retained;
- `clock`: the clock is set back behind the names of all backups, and `trimConfigBackups`
  (`persist.go:193`), which goes by name, removes the copy just made.

TLC finds `ConfigSurvives` violated when any one of the three is not excused, and
`ServesWhatIsPersisted` when `torn` is not.

The `SecurityControl` part of `platform_parts` has the ghost `lost`, whose five cases are listed in the
module. `SecurityLog`, `EdgeHandler` and `TelemetryHistory` each name one
exception in the comment of their property, with a ghost of its own.

### Fairness

- `EdgeCache`: each request's steps (origin exchanges have deadlines). Getting the
  mutex is strongly fair: Go's mutex hands over to a waiter that starves.
- `EdgeControl`: weak for the transaction, the watcher and the run loop, which are
  goroutines that never block on a client; strong for the step that restores the file
  during recovery, which waits for a mutex.
- `UpstreamPool`: weak for each request and each check, all of which have timeouts.
- `Gateway` has none: that Close cannot be left waiting is stated as an invariant,
  `CloseKnowsAllTunnels`.

- `SecurityControl`: weak for an update that holds the mutex, for Admin operations on
  EdgeProxy (their calls have timeouts), for EdgeProxy's own reloads and restarts, for the
  ticker's looks at the files, and for the run loop. Strong for the look at a table that
  was put off: the ticker returns to it at every tick, but EdgeProxy's readiness comes
  and goes.
- `HandlerShutsDown` needs none: it says by ENABLED that what Close waits for can move.

Origins, clients, editors and administrators are never assumed to act.

## Proofs

They hold for every value of the constants: any finite set of requests, any keys,
resources, origins, clients, files, environments, limits and lengths of time. Each theorem
of the form `Spec => []Inv` rests on an inductive invariant that TLC checked first; one
lemma per action shows that the action preserves it, and the last step is
`BY ..., PTL DEF Spec`.

- `EdgeCacheProofs`, `KeyLocker`: `RefsExact` alone is not inductive. `LockInv` adds that an idle
  caller has no object (`IdleClean`), that the object of a busy caller is the one in
  the map under its key (`BusyLinked`), that an object is in the map once
  (`OneKeyEach`), and that its holder is the caller that is holding (`HolderAgrees`).
  The counting uses `FS_AddElement` and `FS_RemoveElement`. `TypeCorrect`,
  `RefsCorrect`, `Exclusion` and `Refinement` (of `FillLock`) follow.
- `EdgeCacheProofs`, the lock: `FillInv` ties the place of a request in `handleRoute` to
  its place in the lock (`LockFollows`). `RouteUsesLock` shows that the request path
  only takes `KeyLocker` steps, so `RouteRefsExact` and `RouteRefinesFillLock` carry
  over to the composed system, and `OneFillPerKey` follows.
- `EdgeCacheProofs`, the list: what `SizeOf` and `Keep` compute is followed along the index
  of the list, and each method of the cache is shown to keep the bounds and to add nothing
  but what it was given (`DropKeeps`, `GetKeeps`, `SetKeeps`, `AgeKeeps`). The eviction loop
  ends within both limits for every cache size because an empty list always does
  (`MaxUpto`). `CacheStaysBounded` follows.
- `EdgeCacheProofs`, the contents: `PathInv` says of every item that it is
  late if it is older than an acknowledged write, and that no request that still waits saw
  its version purged (`ItemFine`); of every request that its stale candidate under the lock
  is not barred, and of every fill that its response is no older than what its key had
  (`RequestOK`). The last part needs `SingleFill`: between fetching and storing only the
  holder of the lock could store for the key. `WritesInvalidate`,
  `PurgedIsNotServed`, `FillsGoForward` and `RouteTypes` follow.
- `EdgeControlProofs`: `ControlInv` has seven parts: types, the locals of a transaction
  (`TxOK`) and of the watcher (`WatchOK`), `RevisionInv`, `BoundInv`, `FileInv` (which digest the watcher
  will hold when the transaction ends, and what the manager has then) and `ServeInv`.
  The last follows what the run loop *will* serve once it has taken every pending restart
  (`Will`) and the environment that committed values were read under (`EnvInForce`): a
  refused environment is in the process for a while but not in force. It holds of what is
  persisted and runs only where a transaction has read one content twice (`torn`), and `TxOK` says in
  which places a transaction may be of the file it moves to (`Switching`). `EditsAreKept`,
  `PersistedIsServed`, `FallbackIsBound`, `RevisionsOnlyGrow` and `ControlTypes` follow.
  The proof attempt showed that the earlier form of `ServesWhatIsPersisted`, which left out
  every behaviour with a rollback, was both weaker than needed and true only within its
  bounds; the race named `rollback` is what remains of it.
- `UpstreamPoolProofs`: `PoolInv` gives the types, `CountsAreExact`, `RetriesAreSpread` and
  `ChangesAreEarned`. `WeightsStayBalanced` has an invariant over sets of origins
  (`WeightInv`): no `k` origins together are further above zero than `k` times the number of
  the others, in units of the largest weight. A bound on single origins is not inductive, and the
  total weight, the bound known for a fixed set of candidates, is wrong when origins drop
  out and come back.
- `GatewayProofs`, `RateLimit`: what one call does to a bucket (`Ledger`: tokens left and tokens paid
  make up the burst and what the rate added, plus what the clock was turned back) and to
  the bans.
- `GatewayProofs`, the requests: `GatewayInv` has one part per lock. Admission counts who holds a slot;
  the tunnel registry knows every open tunnel; `LimiterInv` says of a key without a bucket
  that what was paid for it is settled (`Settled`), which is why dropping an idle bucket and
  making a full one again does not raise the rate. `TablesStayBounded`, `SlotsAreExact`,
  `RatesAreKept`, `RefusalsAreFree`, `BannedAreStopped`, `CloseMissesNone` and
  `BansArePreserved` follow.
- `PlatformProofs`, `ConfigFiles`: `FilesInv` says that at no time both names of the file are
  empty, and that races aside what a restart would find is among the backups before the new file has
  its name and whenever nothing has the file's name: a copy goes to its place among the names
  (`CopyIsInserted`), and trimming keeps it as long as some name is lower or there is room
  (`TrimKeepsHighest`). `SavedIsFound` and `FilesTypes` follow.
- `PlatformProofs`, `EdgeHandler`: `TunnelInv` ties a request's place to its connection and
  to the registry, and says that once Close has begun every open tunnel is on the list of a
  caller that will close it; `GenerationInv` says that a generation that still checks is
  published, or in the hands of the Reload or of the caller of Close that waits for it
  (`Responsible`). `CloseLeavesNothing` (`HandlerQuiet`) follows, and `CloseIsNeverStuck`: the second half of
  `HandlerShutsDown` with the guards of the steps in place of ENABLED.
- `PlatformProofs`, `SecurityControl`: `SecInv` is the types, the locals of an update and of the
  supervisor (`CallInv`), and `FollowInv`, what holds as long as no race was met. Its parts:
  the running configuration is `healthyFileCfg` under the environment it was made under
  (`HealthyInv`; `Effective`: during validation of a new environment that is the one before
  it), what an update has loaded is still in the files (`UpdateInv`), what the supervisor has
  seen is served or refused (`FileInv`, `TableInv`), and the recorded fallback goes back to an
  address that was bound (`FallbackInv`). `ServesItsFile` alone is not inductive because
  `Reload` compares with `healthyFileCfg` and not with what is running. `SecTypesKept`,
  `FileIsServed`, `TableIsRouted` and `RecoveryIsBound` follow.
- `PlatformProofs`, `MCPlatform`: a behaviour of the platform is one of each of its seven parts
  (`PlatformRunsItsParts`), so what is proved of a part holds in `platform_parts` for all constants.
  `PlatformTypes` follows from the types of the parts.
- `StoreProofs`, `SecurityLog`: what the loops of restore, page and rotation compute is followed
  along their index. `LogInv` says that the ring is a stretch of the history before the next
  sequence number (`RingInv`), that an export is behind it (`ExportInv`: what is older in sequence
  is older in time), which files a rotation under way has emptied (`LogPhases`), that a file outgrows
  its limit only by lines that were cut off (`LogSizes`), and that the files, read from the oldest to
  the active one, hold in order all that was written (`LogDisk`). The last is not inductive alone: a
  rotation renames files while the newest entry is only in the ring, and a restart rebuilds
  ring and sequence numbers from the files. `LogTypeCorrect` and `LogHistoryKept` follow.
- `StoreProofs`, `TelemetryHistory`: a clock can only be set back, so the clock of a sample was never
  less ahead of the time that really passed than the clock is now (`Truthful`, with the skew
  `wall - elapsed`). If neither a gap is pending nor the sampler was blind, the newest sample has just
  this skew (`HistorySteps`), and so the seconds of the next rate are real ones. The same is said of the file
  (`HistoryOnFile`), because a restart takes its samples from there. `HistoryTypeCorrect` and
  `HistoryStaysHonest` follow.
- `RequestProofs`, `Routing`: a pattern's score orders patterns as `MoreSpecific` does: no suffix
  of up to 253 characters lifts a wildcard to the score of an exact host, and of two patterns of
  one kind that cover a host the longer one scores higher (`ScoreOrders`). The loops of `Match` end with a route
  that no matching route beats (`BestIndex`, `MatchIs`). In an accepted table two covering selectors of
  the same length of path and the same score are one and the same (`SamePrefix`, `BestIsSpecific`), so the best
  is unique and the order of the table does not matter (`TurnedTable`). `ProgramsAccept` shows that both
  ways to compare selectors and owners accept the same tables. `RoutesAgree` follows.
- `RequestProofs`, `CachePolicy`: `PolicyInv` says that every entry was made from one request that
  took part and one cacheable response (`StoredEntry`), and that what is being served, or kept as a
  stale candidate, was found for this request in time (`WasFound`). The rest is about a single entry:
  its key parts requests by all that the origin looked at (`KeyParts`), its age with the time it was
  under way stays below what client and origin allow (`FoundIsYoung`), and "not modified" is
  right (`NotModifiedRight`). `CacheEntitles` and `PolicyTypes` follow. The attempt found three
  faults of the model, since corrected: `Vary: *` was refused only if no operator lists a header of that name,
  the initial age of a response with a Date in the future was ambiguous, and `ClientHasIt` held only for
  the dates of the bounded instance (a client may hold newer content than the cache).
- `SetSums`: the library's induction theorems take a predicate, which these provers do not
  instantiate. Induction is done on sets instead: the set of the numbers (or of the subsets)
  for which a claim holds contains the first one and is closed under the next. This gives
  `UptoInduction`, `SetInduction`, the solution of a recursion over an index (`Recursion`, `LoopArrives`) and
  what `MapThenSumSet` computes.

Assumptions, each named in the module that declares the constants: finite sets of requests
(`RequestsFinite`, `FiniteRequests`, `FiniteTraffic`), null values that are none of the real ones
(`Nulls`, `ControlValues`, `SecValues`, `FileValues`), positive limits and settings, as the configuration's validation
demands (`CacheLimits`, `LimiterSettings`, `GatewaySettings`, `NodeSettings`). `StaleReadingsAreShort` is the only one
about timing: a goroutine is not held up between reading the clock and taking the lock for as
long as a ban lasts, nor for so long that an idle bucket would be dropped before it is full
again. The code does not enforce it; its defaults, ten minutes each, leave that room.
`RoutingValues` says that a host pattern has at most 127 labels: the validators refuse more than
253 characters (`config.go:781`, `routes.go:259`). `AskValues` and `ResponseValues` say that clients and origins
mean what their headers say: the ghosts `oldest`, `good` and `strict` are what RFC 9111 derives from the
headers, a list of tags that can be read names only the content the client holds, and a date sent is
that content's. They do not assume that Date or Age are right: `Honest` is part of the property.

Only model-checked: liveness (`EveryRequestEnds`, `RestartsComplete`, the health and supervisor
properties) and the ENABLED of `HandlerShutsDown`: both are out of this prover's reach. What is proved
of the latter is `HandlerQuiet`, its first half, and the second with guards for ENABLED
(`CloseIsNeverStuck`). All other invariants and action properties of the passing runs are
proved.

## Not modelled

- The WAF's rules and decoding, and the client address resolver: functions on strings.
- The connectivity monitor and the Edge Admin client: diagnosis that nothing acts on.
- The rings of the access log and of the traffic list, and all metrics: one mutex, no
  other state depends on them.
- HTTP encoding, authentication and the Admin APIs around the modelled operations.
- Validation of configuration values other than routes and their policies.
- Dashboard, scripts and deployment files.
- In the modelled parts: latency averages, response headers, answers to Range requests; query filters of the log; clock jumps forward (a suspended machine looks the
  same to the history); IP literals as hosts; the bytes of a tunnel.

## Observations

Met while modelling. The passing runs name them as exceptions or leave them out; no run
is made for them.

SecurityEdge's control plane:
- `ReloadEnvironment` returns when nothing changes without recording the file in
  `healthyFileCfg` (`securityedge.go:790`), which is described as the latest configuration that
  was started with or applied (`securityedge.go:57`). An override pins the address while the
  file is edited to the same address (refused: the field is managed), the override is
  removed, and the file is edited back: `Reload` takes it for the revision already applied,
  the supervisor records it so, and SecurityEdge stays on the other address. The return is
  taken only for a configuration without empty lists (`cloneConfig` makes an empty list nil,
  `Validate` does not, and `reflect.DeepEqual` tells them apart); the model leaves open which
  it is, and names the case `healthy` in `Lost`. TLC shows it within three edits from an
  environment that overrides the address; the attempt to prove `ServesItsFile` found it, where the
  bounds of `platform_parts` had not.
- A section update (`admin/control.go:59-141`) writes back the running configuration, so
  a change that waits for a restart is reverted by it; under an environment override
  every section update is rejected.
- Writing again what a refused file already holds never starts the restart.
- After a switch of the configuration path, the fallback's file may hold an edit that
  nobody validated (`main.go:283`).
- `restart_scheduled` stays set when an update that needs a restart is taken back.
- A route reload reports "applied" also when the security file was refused.
- Edits between `New` and the first digest are not seen.
- `Server.Close` does not wait for handlers, so that a handler can still run while
  `Runtime.Close` closes its stores (the comment at `main.go:498` says it cannot); a closed
  store only drops what it is given.

Stores and files:
- An entry that follows a line torn by a failed write of the same process is lost at
  restore; a failed write is not counted when the file could not be reopened; sequence
  numbers start again after Clear and a restart.
- Every Save first makes a backup and trims the old ones, also when it then fails:
  repeated failures push out the document that was replaced.
- On Windows another process that loads a file during its Save can put the old content
  back (`restore`); an edit during a Save is lost without a backup (`edit`); after the clock was set
  back the newest backup is the one removed (`clock`).
- A pending gap, or samples not yet persisted, are lost by a restart, and a rate may then
  span a clock that was set back.

EdgeProxy:
- The age of a stale candidate is checked when it is looked up (`handler.go:413-424`); when the
  origin exchange that follows fails slowly (`handler.go:626-633`, `668-674`), the entry sent may by
  then be older than the stale period or the client allows. `CachePolicy` takes the age at the lookup.
- The watcher may call `Reload` on a handler that the run loop has closed (between
  `run.go:102` and `Attach`); its health checks then run until the process ends.
- `ServeHTTP` on a closed handler uses a nil route (`handler.go:227`); `net/http` recovers.
- `canonicalHost` normalises an IPv6 literal only when it has no port
  (`router.go:50-63`).

## Plan

Done, in order of importance: `KeyLocker` and `EdgeCache`, `EdgeControl`, `UpstreamPool`,
`RateLimit` and `Gateway`, `SecurityControl`, `EdgeHandler`, `SecurityLog` and
`ConfigFiles`, `TelemetryHistory`, `Routing`, `CachePolicy`.

Proved, in the same order: all of their safety properties that the runs check, but for ENABLED.

Left: the parts listed under "Not modelled", of which the ring of the access log is the nearest to
what `SecurityLog` already has.
