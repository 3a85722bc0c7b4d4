------------------------------- MODULE Gateway ------------------------------
(***************************************************************************)
(* SecurityEdge's request pipeline: ServeHTTP and the tunnel registry of   *)
(* apps/securityedge/internal/gateway/handler.go, with the admission       *)
(* limiter (internal/admission/limiter.go) and RateLimit.                  *)
(*                                                                         *)
(* Each request is a goroutine that works through the checks in their      *)
(* order.  What a check finds in the request (its shape, method, body and  *)
(* WAF score) is a choice; what it finds in shared state is not.  The      *)
(* clock is read a step before the limiter or the bans are locked.         *)
(* Policies do not change here.  Responses, metrics, logs and the traffic  *)
(* list are left out.                                                      *)
(***************************************************************************)
EXTENDS RateLimit

CONSTANTS Requests,       \* goroutines, each serves one request after another
          PolicySets,     \* the assignments of policies to routes to consider
          MaxConcurrent, MaxPerClient,
          MaxTime,        \* bound: ticks of the clock
          MaxStale        \* bound: ticks from reading the clock to using it

ASSUME GatewaySettings ==
    /\ MaxPerClient \in Nat \ {0} /\ MaxConcurrent \in Nat /\ MaxConcurrent >= MaxPerClient
    /\ MaxTime \in Nat /\ MaxStale \in Nat

\* The parts of config.Policy that decide the control flow; banFor = 0 stands
\* for auto_ban disabled.  Of the workload: whether clients ask for upgrades.
Policy == [on : BOOLEAN, allow : SUBSET Clients, deny : SUBSET Clients,
           limited : BOOLEAN, banFor : Nat, upgrades : BOOLEAN]

ASSUME PoliciesAreBound ==
    \A ps \in PolicySets : ps \in [Routes -> Policy]

\* A goroutine waits for a lock far shorter than a ban lasts, and a bucket is
\* dropped only when it has been full for longer than that.  The
\* configuration asks for neither; its defaults (10 minutes) satisfy both.
ASSUME StaleReadingsAreShort ==
    /\ \A ps \in PolicySets : \A rt \in Routes : ps[rt].banFor > 0 => ps[rt].banFor > MaxStale
    /\ Rate * ((IdleTTL + 1) - MaxStale) >= Burst * Unit
    /\ GlobalRate * ((IdleTTL + 1) - MaxStale) >= GlobalBurst * Unit

ASSUME FiniteTraffic == IsFiniteSet(Requests) /\ Clients # {} /\ Routes # {}

VARIABLES policy,
          now,
          at,         \* at[r]: where request r is
          client, route,
          held,       \* held[r]: r has a slot of the admission limiter
          clock,      \* clock[r]: the time r read last
          global,     \* admission: l.global
          perClient,  \* admission: l.perClient
          tunnels, tunnelWG,
          closer,     \* Handler.Close: "no", "closing", "done"
          doomed,     \* the connections Close has still to close
          spent, rewound, \* ghosts: tokens paid for good, and time turned back
          hadBan      \* ghost: r's client has been banned since r arrived

slots   == <<global, perClient>>
conns   == <<tunnels, tunnelWG, closer, doomed>>
ghosts  == <<spent, rewound>>
request == <<client, route, held>>
vars    == <<policy, now, at, request, clock, slots, limiterVars, conns, ghosts, hadBan>>

Places == {"idle", "shape", "ban", "limit", "examine", "forward", "tunnel", "violate", "leave"}

\* The types; and however many clients there are, the tables stay bounded
\* (ratelimit/limiter.go:74 and 191).
GatewayTypeOK ==
    /\ now \in 0..MaxTime
    /\ at \in [Requests -> Places] /\ held \in [Requests -> BOOLEAN]
    /\ client \in [Requests -> Clients] /\ route \in [Requests -> Routes]
    /\ clock \in [Requests -> 0..MaxTime]
    /\ global \in 0..MaxConcurrent
    /\ DOMAIN perClient \subseteq Clients
    /\ \A c \in DOMAIN perClient : perClient[c] \in 1..MaxPerClient
    /\ DOMAIN buckets \subseteq Keys /\ Cardinality(DOMAIN buckets) <= MaxBuckets
    /\ \A k \in DOMAIN buckets : buckets[k].tokens \in 0..BurstOf(k) /\ buckets[k].last \in 0..MaxTime
    /\ DOMAIN bans \subseteq Clients /\ Cardinality(DOMAIN bans) <= MaxTracked
    /\ \A c \in DOMAIN bans : Len(bans[c].times) < Threshold
    /\ tunnels \subseteq Requests /\ tunnelWG \in 0..Cardinality(Requests)
    /\ closer \in {"no", "closing", "done"} /\ doomed \subseteq Requests

\* Of a goroutine that serves no request.
NoClient == CHOOSE c \in Clients : TRUE
NoRoute == CHOOSE rt \in Routes : TRUE

Init ==
    /\ policy \in PolicySets
    /\ now = 0
    /\ at = [r \in Requests |-> "idle"] /\ held = [r \in Requests |-> FALSE]
    /\ client = [r \in Requests |-> NoClient] /\ route = [r \in Requests |-> NoRoute]
    /\ clock = [r \in Requests |-> 0]
    /\ global = 0 /\ perClient = <<>>
    /\ LimiterInit
    /\ tunnels = {} /\ tunnelWG = 0 /\ closer = "no" /\ doomed = {}
    /\ spent = [k \in Keys |-> 0] /\ rewound = [k \in Keys |-> 0]
    /\ hadBan = [r \in Requests |-> FALSE]

PolicyOf(r) == policy[route[r]]
Allowlisted(r) == client[r] \in PolicyOf(r).allow

\* Places whose step works with a time that was read on the way there.
Timed == {"ban", "limit", "violate"}
Go(r, place) == /\ at' = [at EXCEPT ![r] = place]
                /\ clock' = [clock EXCEPT ![r] = IF place \in Timed THEN now ELSE 0]
Bans(rt) == policy[rt].banFor > 0

-----------------------------------------------------------------------------
(* Admission.                                                              *)

Active(c) == IF c \in DOMAIN perClient THEN perClient[c] ELSE 0

\* Acquire, at the arrival of a request.  Who is refused for his own
\* concurrency is charged with a violation.  The listener is shut before
\* Close is called, but handlers may still be running then.
Arrive(r, c, rt) ==
    /\ at[r] = "idle" /\ closer = "no"
    /\ client' = [client EXCEPT ![r] = c] /\ route' = [route EXCEPT ![r] = rt]
    /\ \/ /\ global >= MaxConcurrent
          /\ Go(r, "leave")
          /\ UNCHANGED <<held, slots>>
       \/ /\ global < MaxConcurrent /\ Active(c) >= MaxPerClient
          /\ Go(r, "violate")
          /\ UNCHANGED <<held, slots>>
       \/ /\ global < MaxConcurrent /\ Active(c) < MaxPerClient
          /\ global' = global + 1
          /\ perClient' = With(perClient, c, Active(c) + 1)
          /\ held' = [held EXCEPT ![r] = TRUE]
          /\ Go(r, "shape")
    /\ UNCHANGED <<limiterVars, conns, ghosts>>

Reset(r) == /\ held' = [held EXCEPT ![r] = FALSE]
            /\ client' = [client EXCEPT ![r] = NoClient]
            /\ route' = [route EXCEPT ![r] = NoRoute]

\* Mutant: the client's count is kept when the slot is returned.
LeaveGlobalOnly(r) ==
    /\ at[r] = "leave"
    /\ global' = IF held[r] THEN global - 1 ELSE global
    /\ Reset(r)
    /\ Go(r, "idle")
    /\ UNCHANGED <<perClient, limiterVars, conns, ghosts>>

\* ServeHTTP returns: the deferred release.
Leave(r) ==
    /\ at[r] = "leave"
    /\ IF held[r]
       THEN /\ global' = global - 1
            /\ perClient' = IF Active(client[r]) = 1 THEN Without(perClient, {client[r]})
                            ELSE [perClient EXCEPT ![client[r]] = @ - 1]
       ELSE UNCHANGED slots
    /\ Reset(r)
    /\ Go(r, "idle")
    /\ UNCHANGED <<limiterVars, conns, ghosts>>

-----------------------------------------------------------------------------
(* The checks.                                                             *)

\* Wherever a request may end at once or be charged with a violation first.
Refuse(r) == Go(r, "violate") \/ Go(r, "leave")

\* validateRequestShape; its failures are violations.  Then the clock is read
\* for the bans.
ValidateShape(r) ==
    /\ at[r] = "shape"
    /\ Go(r, "violate") \/ Go(r, "ban")
    /\ UNCHANGED <<request, slots, limiterVars, conns, ghosts>>

\* What follows the bans: nothing is checked where the policy is off, then
\* the denylist, then the method.
AfterBans(r) ==
    \/ ~PolicyOf(r).on /\ Go(r, "examine")
    \/ /\ PolicyOf(r).on /\ client[r] \in PolicyOf(r).deny
       /\ Go(r, "violate")
    \/ /\ PolicyOf(r).on /\ client[r] \notin PolicyOf(r).deny
       /\ \/ Go(r, "leave")
          \/ Go(r, "limit")

\* Mutant: bans are looked at for routes whose policy is on only.
CheckBanWhenOn(r) ==
    /\ at[r] = "ban"
    /\ \/ Allowlisted(r) /\ Go(r, "examine") /\ UNCHANGED bans
       \/ /\ ~Allowlisted(r) /\ ObserveBan(client[r], clock[r])
          /\ IF Banned(client[r], clock[r]) /\ PolicyOf(r).on
             THEN Go(r, "leave")
             ELSE AfterBans(r)
    /\ UNCHANGED <<request, slots, buckets, lastSweep, conns, ghosts>>

\* IsBanned, except for allowlisted clients, whom nothing stops.
CheckBan(r) ==
    /\ at[r] = "ban"
    /\ \/ Allowlisted(r) /\ Go(r, "examine") /\ UNCHANGED bans
       \/ /\ ~Allowlisted(r) /\ ObserveBan(client[r], clock[r])
          /\ IF Banned(client[r], clock[r])
             THEN Go(r, "leave")
             ELSE AfterBans(r)
    /\ UNCHANGED <<request, slots, buckets, lastSweep, conns, ghosts>>

\* Ghosts of the two buckets that Allow looked at, given its decision.
Account(r, d) ==
    LET mine == {GlobalKey(route[r]), ClientKey(route[r], client[r])}
        back(k) == IF k \in DOMAIN buckets /\ d.buckets[k].last < buckets[k].last
                   THEN buckets[k].last - d.buckets[k].last ELSE 0
    IN  /\ spent' = [k \in Keys |-> IF k \in mine /\ d.verdict = "ok" THEN spent[k] + 1 ELSE spent[k]]
        /\ rewound' = [k \in Keys |-> rewound[k] + back(k)]

\* limiter.Allow.  Only a client that is too fast itself is charged.
RateLimited(r) ==
    /\ at[r] = "limit"
    /\ IF ~PolicyOf(r).limited THEN Go(r, "examine") /\ UNCHANGED <<buckets, ghosts>>
       ELSE LET d == Allow(route[r], client[r], clock[r]) IN
            /\ buckets' = d.buckets
            /\ Account(r, d)
            /\ IF d.verdict = "ok" THEN Go(r, "examine")
               ELSE IF d.scope = "client" /\ d.verdict = "rate_exceeded"
               THEN Go(r, "violate")
               ELSE Go(r, "leave")
    /\ UNCHANGED <<request, slots, bans, lastSweep, conns>>

\* prepareBody and Inspect, which touch nothing that is shared.
Examine(r) ==
    /\ at[r] = "examine"
    /\ Refuse(r) \/ Go(r, "forward")
    /\ UNCHANGED <<request, slots, limiterVars, conns, ghosts>>

\* recordViolation.
Violate(r) ==
    /\ at[r] = "violate"
    /\ IF Bans(route[r]) THEN RecordViolation(client[r], PolicyOf(r).banFor, clock[r])
       ELSE UNCHANGED <<bans, lastSweep>>
    /\ Go(r, "leave")
    /\ UNCHANGED <<request, slots, buckets, conns, ghosts>>

-----------------------------------------------------------------------------
(* Forwarding and tunnels.                                                 *)

\* next.ServeHTTP returns; the body may turn out to be too large.
Forwarded(r) ==
    /\ at[r] = "forward"
    /\ Refuse(r)
    /\ UNCHANGED <<request, slots, limiterVars, conns, ghosts>>

\* Mutant: connections are tracked even when the handler is closed.
TrackAlways(r) == /\ tunnels' = tunnels \cup {r}
                  /\ tunnelWG' = tunnelWG + 1

\* trackHijackedConn.
Track(r) == /\ closer = "no"
            /\ tunnels' = tunnels \cup {r}
            /\ tunnelWG' = tunnelWG + 1

\* Hijack.  Once the handler is closed it fails, and next.ServeHTTP returns.
Hijack(r) ==
    /\ at[r] = "forward" /\ PolicyOf(r).upgrades
    /\ Track(r)
    /\ Go(r, "tunnel")
    /\ UNCHANGED <<request, slots, limiterVars, closer, doomed, ghosts>>

\* unregisterHijackedConn.
Unregister(r) ==
    /\ tunnels' = tunnels \ {r}
    /\ tunnelWG' = IF r \in tunnels THEN tunnelWG - 1 ELSE tunnelWG

\* A peer closes, or the connection was closed by Close; the handler closes
\* what is left and next.ServeHTTP returns.
TunnelEnds(r) ==
    /\ at[r] = "tunnel"
    /\ Unregister(r)
    /\ Refuse(r)
    /\ UNCHANGED <<request, slots, limiterVars, closer, doomed, ghosts>>

\* Close: no tunnel can be added from here on.
BeginClose ==
    /\ closer = "no"
    /\ closer' = "closing" /\ doomed' = tunnels
    /\ UNCHANGED <<at, request, clock, slots, limiterVars, tunnels, tunnelWG, ghosts>>

CloseConn(r) ==
    /\ closer = "closing" /\ r \in doomed
    /\ doomed' = doomed \ {r}
    /\ Unregister(r)
    /\ UNCHANGED <<at, request, clock, slots, limiterVars, closer, ghosts>>

\* tunnelWG.Wait returns.
EndClose ==
    /\ closer = "closing" /\ doomed = {} /\ tunnelWG = 0
    /\ closer' = "done"
    /\ UNCHANGED <<at, request, clock, slots, limiterVars, tunnels, tunnelWG, doomed, ghosts>>

-----------------------------------------------------------------------------
(* The Admin API and the timers.                                           *)

Others == <<at, request, clock, slots, conns, ghosts>>

Remove(c) == /\ c \in DOMAIN bans /\ Unban({c})
             /\ UNCHANGED <<Others, buckets, lastSweep>>
Clear == /\ bans # <<>> /\ Unban(DOMAIN bans)
         /\ UNCHANGED <<Others, buckets, lastSweep>>
List == ListBans(now) /\ UNCHANGED <<Others, buckets, lastSweep>>

Cleanup == DropIdle(now) /\ UNCHANGED <<Others, bans, lastSweep>>

Tick ==
    /\ now < MaxTime
    /\ \A r \in Requests : at[r] \in Timed => now - clock[r] < MaxStale
    /\ now' = now + 1
    /\ UNCHANGED <<Others, limiterVars>>

Progress(r) ==
    \/ ValidateShape(r) \/ CheckBan(r) \/ RateLimited(r) \/ Examine(r) \/ Violate(r)
    \/ Forwarded(r) \/ Leave(r)

Lifted(c) == Remove(c) \/ Clear

Step ==
    \/ /\ \/ \E r \in Requests :
                \/ \E c \in Clients, rt \in Routes : Arrive(r, c, rt)
                \/ Progress(r) \/ Hijack(r) \/ TunnelEnds(r) \/ CloseConn(r)
          \/ BeginClose \/ EndClose \/ List \/ Cleanup \/ \E c \in Clients : Lifted(c)
       /\ UNCHANGED now
    \/ Tick

\* hadBan follows the step that was taken.
Next ==
    /\ Step
    /\ UNCHANGED policy
    /\ hadBan' = [r \in Requests |->
                    LET c == client'[r] IN
                    /\ at'[r] # "idle"
                    /\ at[r] = "idle" \/ hadBan[r]
                    /\ c \in DOMAIN bans' /\ now' < bans'[c].until]

Spec == Init /\ [][Next]_vars

-----------------------------------------------------------------------------
Holding(c) == {r \in Requests : held[r] /\ client[r] = c}

\* The admission counts are the requests that hold a slot, on every path
\* through ServeHTTP, tunnels included, and a client without one is not
\* tracked (admission/limiter.go:30-43).
AdmissionExact ==
    /\ global = Cardinality({r \in Requests : held[r]})
    /\ \A c \in Clients : /\ Active(c) = Cardinality(Holding(c))
                          /\ c \in DOMAIN perClient => Holding(c) # {}

\* A bucket never lets more requests through than its burst and its rate
\* allow over the whole time, but for the time by which late readings of the
\* clock have turned it back (ratelimit/limiter.go:80-88), and in spite of
\* the removal of idle buckets.
AdmittedWithinRate ==
    \A k \in Keys : Unit * spent[k] <= BurstOf(k) + RateOf(k) * (now + rewound[k])

\* Requests that the client's bucket refuses do not use up the tokens of the
\* route: what the route lacks was paid for requests let through
\* (ratelimit/limiter.go:61-65).
RefusedRequestsCostNothing ==
    \A k \in DOMAIN buckets : BurstOf(k) - buckets[k].tokens <= Unit * spent[k]

\* A ban that has not run out goes away only by order of the Admin API: not
\* to make room for another client, nor in a cleanup (ratelimit/limiter.go:191-197).
BansAreKept ==
    [][\A c \in Clients :
          Banned(c, now) /\ now' < bans[c].until => Banned(c, now)' \/ Lifted(c)]_vars

\* A request of a client that was banned all the time since it arrived is
\* not forwarded, whatever the route's policy, unless it allowlists the
\* client (gateway/handler.go:273-281).
BannedAreNotForwarded ==
    \A r \in Requests : at[r] \in {"limit", "examine", "forward", "tunnel"} /\ hadBan[r] => Allowlisted(r)

\* From the time Close has begun, every tunnel is one that it is going to
\* close: it does not wait for a tunnel it does not know, and when it has
\* returned none is open or will be opened (gateway/handler.go:122-140).  The
\* wait group counts the tunnels, although both ends may close one.
CloseKnowsAllTunnels ==
    /\ closer # "no" => tunnels \subseteq doomed
    /\ tunnelWG = Cardinality(tunnels)
=============================================================================
