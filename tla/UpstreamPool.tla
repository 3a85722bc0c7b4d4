---------------------------- MODULE UpstreamPool ----------------------------
(***************************************************************************)
(* The origins of one EdgeProxy route: the scheduler and the health checks *)
(* of upstreamPool (apps/edgeproxy/internal/proxy/upstream.go), driven by  *)
(* the attempt loop of fetchAndServe (proxy/handler.go).                   *)
(*                                                                         *)
(* Health flags, active counts and scheduler weights are shared by all     *)
(* requests and the health checker; each atomic operation or p.mu section  *)
(* is a step.  Latencies (EWMA, the dynamic weights of adaptive_latency)   *)
(* and the pseudo-random state are not kept: those two algorithms may take *)
(* any candidate.  Telemetry counters are left out.                        *)
(***************************************************************************)
EXTENDS Integers, FiniteSets, FiniteSetsExt

CONSTANTS Requests,
          N,            \* origins 1..N, in the order of the configuration
          Weight, Priority,
          Algorithms,   \* algorithms to consider
          RetryCount,   \* proxy.retry_count
          Slots,        \* maxConcurrentHealthChecksGlobal
          MaxFlips      \* bound: how often origins go down or come back

Nodes == 1..N

ASSUME PoolSize == N \in Nat \ {0} /\ Slots \in Nat \ {0}
ASSUME NodeSettings == Weight \in [Nodes -> Nat \ {0}] /\ Priority \in [Nodes -> Int]
ASSUME PoolBounds == RetryCount \in Nat /\ MaxFlips \in Nat
ASSUME FiniteRequests == IsFiniteSet(Requests)

VARIABLES algorithm,
          healthy,  \* healthy[n]
          active,   \* active[n]
          cw,       \* currentWeight[n]
          turn,     \* p.next modulo N!, all that an index into candidates shows
          at,       \* at[r]: where request r is in the attempt loop
          kind,     \* kind[r]: "retry" (idempotent), "once", or "probe"
          attempt,  \* attempt[r]: attempts begun before this one
          excluded, \* excluded[r]
          cand,     \* cand[r]: the candidates that pick collected
          node,     \* node[r]: the origin of the attempt, 0 for none
          outcome,  \* outcome[r]: how the round trip ended
          todo,     \* origins this round of checks has not started on
          checking, \* checking[n]: "no", "asking", or the result to be set
          up,       \* external: up[n] origin n works
          flips,
          faulted   \* ghost: origins that did not work at some time, or to which an
                    \* attempt of production traffic failed by its own request

pool    == <<healthy, active, cw, turn>>
locals  == <<kind, attempt, excluded, cand, node, outcome>>
checker == <<todo, checking>>
world   == <<up, flips, faulted>>
vars    == <<algorithm, pool, at, locals, checker, world>>

Kinds    == {"retry", "once", "probe"}
Outcomes == {"none", "ok", "retryable", "error", "timeout"}
Places   == {"idle", "pick", "select", "trip", "recover", "blame", "drop", "serve"}

PoolTypeOK ==
    /\ healthy \in [Nodes -> BOOLEAN]
    /\ active \in [Nodes -> Nat]
    /\ cw \in [Nodes -> Int]
    /\ turn \in Nat
    /\ at \in [Requests -> Places]
    /\ kind \in [Requests -> Kinds]
    /\ attempt \in [Requests -> 0..RetryCount]
    /\ excluded \in [Requests -> SUBSET Nodes] /\ cand \in [Requests -> SUBSET Nodes]
    /\ node \in [Requests -> Nodes \cup {0}]
    /\ outcome \in [Requests -> Outcomes]
    /\ todo \subseteq Nodes
    /\ checking \in [Nodes -> {"no", "asking", "good", "bad"}]
    /\ up \in [Nodes -> BOOLEAN] /\ flips \in 0..MaxFlips /\ faulted \subseteq Nodes

\* newUpstreamPool with health checks enabled: no origin is healthy until a
\* check or a request has seen it answer.
Init ==
    /\ algorithm \in Algorithms
    /\ healthy = [n \in Nodes |-> FALSE]
    /\ active = [n \in Nodes |-> 0]
    /\ cw = [n \in Nodes |-> 0]
    /\ turn = 0
    /\ at = [r \in Requests |-> "idle"]
    /\ kind = [r \in Requests |-> "once"]
    /\ attempt = [r \in Requests |-> 0]
    /\ excluded = [r \in Requests |-> {}] /\ cand = [r \in Requests |-> {}]
    /\ node = [r \in Requests |-> 0]
    /\ outcome = [r \in Requests |-> "none"]
    /\ todo = Nodes /\ checking = [n \in Nodes |-> "no"]
    /\ up = [n \in Nodes |-> TRUE] /\ flips = 0 /\ faulted = {}

Go(r, place) == at' = [at EXCEPT ![r] = place]
Counted(r) == kind[r] # "probe"
Attempts(r) == IF kind[r] = "once" THEN 1 ELSE 1 + RetryCount

\* The request leaves the attempt loop without a response, or is done.
End(r) == /\ Go(r, "idle")
          /\ kind' = [kind EXCEPT ![r] = "once"]
          /\ attempt' = [attempt EXCEPT ![r] = 0]
          /\ excluded' = [excluded EXCEPT ![r] = {}]
          /\ cand' = [cand EXCEPT ![r] = {}]
          /\ node' = [node EXCEPT ![r] = 0]
          /\ outcome' = [outcome EXCEPT ![r] = "none"]

\* releaseActive, which probes do not call because pickProbe counts nothing.
Release(r) == active' = IF Counted(r) THEN [active EXCEPT ![node[r]] = @ - 1] ELSE active

-----------------------------------------------------------------------------
(* Scheduling.                                                             *)

Healthy(S) == {n \in S : healthy[n]}

\* Mutant: pick forgets that an origin not tried yet may be tried unhealthy.
CandidatesHealthyFirst(ex) ==
    LET fresh == Healthy(Nodes \ ex) IN
    IF fresh # {} THEN fresh
    ELSE IF Healthy(Nodes) # {} THEN Healthy(Nodes) ELSE Nodes

\* The candidates of pick: healthy and not tried by this request, else not
\* tried, else healthy, else all.
Candidates(ex) ==
    LET untried == Nodes \ ex IN
    IF Healthy(untried) # {} THEN Healthy(untried)
    ELSE IF untried # {} THEN untried
    ELSE IF Healthy(Nodes) # {} THEN Healthy(Nodes) ELSE Nodes

\* pickProbe has no third choice.
ProbeCandidates(ex) ==
    IF Healthy(Nodes \ ex) # {} THEN Healthy(Nodes \ ex) ELSE Nodes \ ex

\* The element of S with k smaller ones.
Nth(S, k) == CHOOSE n \in S : Cardinality({m \in S : m < n}) = k

\* The first of the best.
Best(S, Better(_, _)) ==
    CHOOSE n \in S : \A m \in S \ {n} : Better(n, m) \/ (n < m /\ ~Better(m, n))

Raised(S) == [n \in Nodes |-> IF n \in S THEN cw[n] + Weight[n] ELSE cw[n]]
Total(S) == MapThenSumSet(LAMBDA n : Weight[n], S)
Heaviest(S) == Best(S, LAMBDA n, m : Raised(S)[n] > Raised(S)[m])

\* Mutant: the winner pays the weights of all origins, candidates or not.
PickSmoothAllPay(S, n) == /\ n = Heaviest(S)
                          /\ cw' = [Raised(S) EXCEPT ![n] = @ - Total(Nodes)]
                          /\ UNCHANGED turn

\* pickSmoothWeighted, under p.mu.
PickSmoothWeighted(S, n) == /\ n = Heaviest(S)
                            /\ cw' = [Raised(S) EXCEPT ![n] = @ - Total(S)]
                            /\ UNCHANGED turn

PickRoundRobin(S, n) == /\ n = Nth(S, turn % Cardinality(S))
                        /\ turn' = (turn + 1) % ProductSet(Nodes)
                        /\ UNCHANGED cw

\* Fewest active requests per weight, then lowest priority value, then first.
PickLeastConnections(S, n) ==
    /\ n = Best(S, LAMBDA a, b :
                     LET left == (active[a] + 1) * Weight[b]
                         right == (active[b] + 1) * Weight[a]
                     IN  left < right \/ (left = right /\ Priority[a] < Priority[b]))
    /\ UNCHANGED <<cw, turn>>

PickPriority(S, n) ==
    LET group == {m \in S : \A o \in S : Priority[m] <= Priority[o]} IN
    IF Cardinality(group) = 1 THEN n \in group /\ UNCHANGED <<cw, turn>>
                              ELSE PickSmoothWeighted(group, n)

\* random_weighted takes any candidate; adaptive_latency does too, and its
\* weights, which depend on latencies, are not tracked.
PickAny(S, n) == n \in S /\ UNCHANGED <<cw, turn>>

PickNode(S, n) ==
    CASE algorithm = "weighted_round_robin" -> PickSmoothWeighted(S, n)
      [] algorithm = "least_connections"    -> PickLeastConnections(S, n)
      [] algorithm = "priority_failover"    -> PickPriority(S, n)
      [] algorithm = "round_robin"          -> PickRoundRobin(S, n)
      [] OTHER                              -> PickAny(S, n)

-----------------------------------------------------------------------------
(* The attempt loop.                                                       *)

Arrive(r, kd) ==
    /\ at[r] = "idle"
    /\ kind' = [kind EXCEPT ![r] = kd]
    /\ Go(r, "pick")
    /\ UNCHANGED <<algorithm, pool, attempt, excluded, cand, node, outcome, checker, world>>

\* eligible: the health flags are read before p.mu is taken.
Collect(r) ==
    /\ at[r] = "pick" /\ Counted(r)
    /\ cand' = [cand EXCEPT ![r] = Candidates(excluded[r])]
    /\ Go(r, "select")
    /\ UNCHANGED <<algorithm, pool, kind, attempt, excluded, node, outcome, checker, world>>

Select(r, n) ==
    /\ at[r] = "select"
    /\ n \in cand[r]
    /\ PickNode(cand[r], n)
    /\ active' = [active EXCEPT ![n] = @ + 1]
    /\ node' = [node EXCEPT ![r] = n]
    /\ cand' = [cand EXCEPT ![r] = {}]
    /\ Go(r, "trip")
    /\ UNCHANGED <<algorithm, healthy, kind, attempt, excluded, outcome, checker, world>>

\* Without an origin left a probe ends with 502.
PickProbe(r) ==
    /\ at[r] = "pick" /\ ~Counted(r)
    /\ LET S == ProbeCandidates(excluded[r]) IN
       IF S = {} THEN End(r)
       ELSE /\ node' = [node EXCEPT ![r] = Nth(S, 0)]
            /\ Go(r, "trip")
            /\ UNCHANGED <<kind, attempt, excluded, cand, outcome>>
    /\ UNCHANGED <<algorithm, pool, checker, world>>

\* Mutant: a client that goes away counts as a failure of the origin.
AbandonBlaming(r) ==
    /\ at[r] = "trip"
    /\ Release(r)
    /\ healthy' = IF Counted(r) THEN [healthy EXCEPT ![node[r]] = FALSE] ELSE healthy
    /\ End(r)
    /\ UNCHANGED <<algorithm, cw, turn, checker, world>>

\* cloneRequest fails, or the client goes away during the round trip: the
\* origin is not to blame.
Abandon(r) ==
    /\ at[r] = "trip"
    /\ Release(r)
    /\ End(r)
    /\ UNCHANGED <<algorithm, healthy, cw, turn, checker, world>>

\* How the request itself can make an attempt fail whose client is still
\* there, at an origin that works.  Only a request tried once has a body: its
\* upload runs into the deadline of the route, or cannot be read.  Later
\* attempts have what earlier ones left of the deadline.
Spoils(r) == IF kind[r] = "once" THEN {"error", "timeout"}
             ELSE IF attempt[r] > 0 THEN {"timeout"} ELSE {}

\* RoundTrip: an origin that works answers unless the request spoils it, one
\* that does not answers 502 to 504, breaks the connection or lets the route's
\* deadline pass.
RoundTrip(r, out) ==
    /\ at[r] = "trip"
    /\ out \in IF up[node[r]] THEN {"ok"} \cup Spoils(r) ELSE {"retryable", "error", "timeout"}
    /\ outcome' = [outcome EXCEPT ![r] = out]
    /\ Go(r, IF out = "ok" THEN "recover" ELSE "blame")
    /\ faulted' = IF out # "ok" /\ Counted(r) THEN faulted \cup {node[r]} ELSE faulted
    /\ UNCHANGED <<algorithm, pool, kind, attempt, excluded, cand, node, checker, up, flips>>

\* setNodeHealth(node, true); the response is kept.
Recover(r) ==
    /\ at[r] = "recover"
    /\ healthy' = IF Counted(r) THEN [healthy EXCEPT ![node[r]] = TRUE] ELSE healthy
    /\ Go(r, "serve")
    /\ UNCHANGED <<algorithm, active, cw, turn, locals, checker, world>>

\* Mutant: one attempt more than the configuration allows.
CanRetryOnceMore(r) == attempt[r] < Attempts(r)

CanRetry(r) == attempt[r] + 1 < Attempts(r)

\* The attempt has failed and its origin will not be tried again by r; a
\* complete 502 to 504 response is kept when nothing is left to try.
Exclude(r) ==
    LET ex == excluded[r] \cup {node[r]}
        last == ~CanRetry(r) \/ (~Counted(r) /\ ProbeCandidates(ex) = {})
    IN  /\ excluded' = [excluded EXCEPT ![r] = ex]
        /\ Go(r, IF outcome[r] = "retryable" /\ last THEN "serve" ELSE "drop")
        /\ UNCHANGED <<algorithm, active, cw, turn, kind, attempt, cand, node, outcome, checker,
                       world>>

\* setNodeHealth(node, false).
Blame(r) ==
    /\ at[r] = "blame"
    /\ healthy' = IF Counted(r) THEN [healthy EXCEPT ![node[r]] = FALSE] ELSE healthy
    /\ Exclude(r)

\* Another turn of the loop.
Again(r) ==
    /\ attempt' = [attempt EXCEPT ![r] = @ + 1]
    /\ Go(r, "pick")
    /\ node' = [node EXCEPT ![r] = 0]
    /\ outcome' = [outcome EXCEPT ![r] = "none"]
    /\ UNCHANGED <<kind, excluded, cand>>

\* Mutant: an attempt that will be repeated does not release its origin.
DropLast(r) ==
    /\ at[r] = "drop"
    /\ \/ CanRetry(r) /\ outcome[r] # "timeout" /\ Again(r) /\ UNCHANGED active
       \/ Release(r) /\ End(r)
    /\ UNCHANGED <<algorithm, healthy, cw, turn, checker, world>>

\* The response is dropped and the origin released.  After the deadline of
\* the route, or when the context is done before the end of the backoff,
\* there is no other attempt.
Drop(r) ==
    /\ at[r] = "drop"
    /\ Release(r)
    /\ \/ CanRetry(r) /\ outcome[r] # "timeout" /\ Again(r)
       \/ End(r)
    /\ UNCHANGED <<algorithm, healthy, cw, turn, checker, world>>

\* The response has been copied, or the tunnel is closed: the deferred
\* releaseActive runs.
Served(r) ==
    /\ at[r] = "serve"
    /\ Release(r)
    /\ End(r)
    /\ UNCHANGED <<algorithm, healthy, cw, turn, checker, world>>

-----------------------------------------------------------------------------
(* Health checks: rounds of concurrent checks, bounded by the slots that   *)
(* all routes share.                                                       *)

Busy == {n \in Nodes : checking[n] # "no"}

StartCheck(n) ==
    /\ n \in todo
    /\ Cardinality(Busy) < Slots
    /\ todo' = todo \ {n}
    /\ checking' = [checking EXCEPT ![n] = "asking"]
    /\ UNCHANGED <<algorithm, pool, at, locals, world>>

CheckAnswered(n) ==
    /\ checking[n] = "asking"
    /\ checking' = [checking EXCEPT ![n] = IF up[n] THEN "good" ELSE "bad"]
    /\ UNCHANGED <<algorithm, pool, at, locals, todo, world>>

\* Mutant: checks report failures only.
SetHealthBad(n) ==
    /\ checking[n] \in {"good", "bad"}
    /\ healthy' = [healthy EXCEPT ![n] = @ /\ checking[n] = "good"]
    /\ checking' = [checking EXCEPT ![n] = "no"]
    /\ UNCHANGED <<algorithm, active, cw, turn, at, locals, todo, world>>

SetHealth(n) ==
    /\ checking[n] \in {"good", "bad"}
    /\ healthy' = [healthy EXCEPT ![n] = checking[n] = "good"]
    /\ checking' = [checking EXCEPT ![n] = "no"]
    /\ UNCHANGED <<algorithm, active, cw, turn, at, locals, todo, world>>

\* The ticker: a round begins when the one before has been waited for.
NextRound ==
    /\ todo = {} /\ Busy = {}
    /\ todo' = Nodes
    /\ UNCHANGED <<algorithm, pool, at, locals, checking, world>>

\* External: an origin goes down or comes back.
Flip(n) ==
    /\ flips < MaxFlips
    /\ flips' = flips + 1
    /\ up' = [up EXCEPT ![n] = ~@]
    /\ faulted' = faulted \cup {n}
    /\ UNCHANGED <<algorithm, pool, at, locals, checker>>

Progress(r) ==
    \/ Collect(r) \/ PickProbe(r) \/ Abandon(r)
    \/ \E n \in Nodes : Select(r, n)
    \/ \E out \in Outcomes : RoundTrip(r, out)
    \/ Recover(r) \/ Blame(r) \/ Drop(r) \/ Served(r)

CheckStep == NextRound \/ \E n \in Nodes : StartCheck(n) \/ CheckAnswered(n) \/ SetHealth(n)

Next == \/ \E r \in Requests : Progress(r) \/ \E kd \in Kinds : Arrive(r, kd)
        \/ CheckStep
        \/ \E n \in Nodes : Flip(n)

Spec == Init /\ [][Next]_vars

\* Handlers keep running (round trips have deadlines) and so do the checks,
\* which have a timeout each.
Fairness == /\ \A r \in Requests : WF_vars(Progress(r))
            /\ WF_vars(NextRound)
            /\ \A n \in Nodes : WF_vars(StartCheck(n) \/ CheckAnswered(n) \/ SetHealth(n))

FairSpec == Spec /\ Fairness

-----------------------------------------------------------------------------
\* The places at which a request has an origin that pick counted.
Using(n) == {r \in Requests : /\ Counted(r) /\ node[r] = n
                              /\ at[r] \in Places \ {"idle", "pick", "select"}}

\* The active count of an origin is the number of requests that use it, on
\* every path out of the attempt loop: least_connections and adaptive_latency
\* never shun an origin for requests that are long gone (handler.go:463-611).
ActiveExact == \A n \in Nodes : active[n] = Cardinality(Using(n))

\* A request does not try an origin again while another one has not been
\* tried, healthy or not (upstream.go:126-129).
RetriesSpread ==
    \A r \in Requests : at[r] = "trip" /\ node[r] \in excluded[r] => excluded[r] = Nodes

\* The largest configured weight.
MostWeight == Max({Weight[n] : n \in Nodes})

\* Smooth weighting hands out what it takes, so that the weights of all
\* origins add up to zero, and none gets further from it than the largest
\* weight for each other origin, whatever origins drop out of and come back
\* into the candidates (upstream.go:200).  The tighter bound known for a fixed
\* set of candidates, the total weight, does not hold here: with weights 1, 1,
\* 1 and 9 there are sequences of candidate sets that take one to 14.
WeightsBalanced ==
    /\ MapThenSumSet(LAMBDA n : cw[n], Nodes) = 0
    /\ \A n \in Nodes : cw[n] \in -((N - 1) * MostWeight)..((N - 1) * MostWeight)

\* Connectivity probes do not change what production traffic sees of the pool
\* (upstream.go:117-120), and an origin is marked unhealthy only if it has been
\* down or production traffic has failed there: neither a client that goes
\* away (handler.go:525-527) nor a probe that fails is the origin's failure.
\* It need not have been down: requests fail by a slow or broken upload, or by
\* what retries left of their deadline, and handler.go:543 blames the origin.
PoolChangesAreEarned ==
    [][/\ \A r \in Requests : kind[r] = "probe" /\ kind'[r] = "probe" /\ at'[r] # at[r] => UNCHANGED pool
       /\ \A n \in Nodes : healthy[n] /\ ~healthy'[n] => n \in faulted]_vars

\* An attempt to an origin that works fails by its own request.
Spoiled(n) == \E r \in Requests : /\ Counted(r) /\ node[r] = n /\ up[n]
                                 /\ at[r] = "trip" /\ at'[r] = "blame"

\* An origin that comes back for good is found healthy again and again, and is
\* used for good from some time on unless requests never stop to spoil their
\* attempts to it, although late results of failed attempts and checks may
\* still mark it unhealthy.
HealthConverges ==
    \A n \in Nodes :
        <>[](up[n]) => /\ []<>(healthy[n])
                       /\ <>[](healthy[n]) \/ []<><<Spoiled(n)>>_vars
=============================================================================
