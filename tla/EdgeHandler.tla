----------------------------- MODULE EdgeHandler -----------------------------
(***************************************************************************)
(* The life of EdgeProxy's Handler (internal/proxy/handler.go): the        *)
(* generations that Reload publishes, with their health-check goroutines,  *)
(* the upgraded connections it tracks, and Close.  The control manager     *)
(* reloads one generation at a time, also while the run loop closes the    *)
(* handler; every request is a goroutine of its own.                       *)
(***************************************************************************)
EXTENDS Integers, FiniteSets

CONSTANTS Upgrades,      \* requests that ask for a protocol upgrade
          Closers,       \* callers of Close
          Checks,        \* routes with health checks
          MaxReloads     \* bound on reloads

ASSUME HandlerValues == IsFiniteSet(Upgrades) /\ IsFiniteSet(Checks) /\ MaxReloads \in Nat

\* Generation 0 is NewHandler's; NoGen is the state Close leaves.
Gens == 0..MaxReloads
NoGen == -1

VARIABLES
    published,      \* the generation in h.routes and h.life, or NoGen
    built,          \* generations built so far
    canceled,       \* generations whose context is cancelled
    probing,        \* generation -> its health checks that still run
    reload,         \* Reload: where it is, its generation, the one it replaced
    request,        \* where each request is
    conn,           \* its hijacked client and backend connections
    tunnels,        \* h.tunnels; its size is the count of tunnelWG
    tunnelsClosed,
    closer,         \* Close: where each caller is, tunnels to close, old generation
    late            \* ghost: generations that Reload published after Close had
                    \* emptied the handler

handlerVars == <<published, built, canceled, probing, reload, request, conn,
                 tunnels, tunnelsClosed, closer, late>>

NoReload == [at |-> "idle", gen |-> NoGen, old |-> NoGen]
NotClosing == [at |-> "idle", todo |-> {}, old |-> NoGen]

HandlerTypeOK ==
    /\ published \in Gens \cup {NoGen} /\ built \in 1..MaxReloads + 1
    /\ canceled \subseteq Gens /\ late \subseteq Gens
    /\ probing \in [Gens -> SUBSET Checks]
    /\ reload.at \in {"idle", "publish", "retire", "wait"}
    /\ request \in [Upgrades -> {"new", "serving", "hijacked", "open", "ending", "done"}]
    /\ conn \in [Upgrades -> {"none", "open", "closed"}]
    /\ tunnels \subseteq Upgrades /\ tunnelsClosed \in BOOLEAN
    /\ \A k \in Closers : closer[k].at \in {"idle", "closing", "swap", "stop", "wait", "done"}

HandlerInit ==
    /\ published = 0 /\ built = 1 /\ canceled = {} /\ late = {}
    /\ probing = [g \in Gens |-> IF g = 0 THEN Checks ELSE {}]
    /\ reload = NoReload
    /\ request = [u \in Upgrades |-> "new"] /\ conn = [u \in Upgrades |-> "none"]
    /\ tunnels = {} /\ tunnelsClosed = FALSE
    /\ closer = [k \in Closers |-> NotClosing]

-----------------------------------------------------------------------------
(* Reload.                                                                 *)

\* life.wg of g has come to zero.
Stopped(g) == g # NoGen => probing[g] = {}

\* buildState starts the health checks of the new generation; when a route of
\* it cannot be built, the ones already started are cancelled and awaited.
BuildState(ok) ==
    /\ reload.at = "idle" /\ built <= MaxReloads
    /\ built' = built + 1
    /\ \E some \in SUBSET Checks : (ok => some = Checks) /\ probing' = [probing EXCEPT ![built] = some]
    /\ canceled' = IF ok THEN canceled ELSE canceled \cup {built}
    /\ reload' = IF ok THEN [at |-> "publish", gen |-> built, old |-> NoGen]
                 ELSE [at |-> "wait", gen |-> NoGen, old |-> built]
    /\ UNCHANGED <<published, request, conn, tunnels, tunnelsClosed, closer, late>>

PublishState ==
    /\ reload.at = "publish"
    /\ reload' = [reload EXCEPT !.at = "retire", !.old = published]
    /\ published' = reload.gen
    /\ late' = IF published \in late \cup {NoGen} THEN late \cup {reload.gen} ELSE late
    /\ UNCHANGED <<built, canceled, probing, request, conn, tunnels, tunnelsClosed, closer>>

\* closeHandlerState cancels the context of a generation, if there is one.
Cancel(old) == IF old = NoGen THEN canceled ELSE canceled \cup {old}

RetireState ==
    /\ reload.at = "retire"
    /\ reload' = [reload EXCEPT !.at = "wait"]
    /\ canceled' = Cancel(reload.old)
    /\ UNCHANGED <<published, built, probing, request, conn, tunnels, tunnelsClosed, closer, late>>

ReloadReturns ==
    /\ reload.at = "wait" /\ Stopped(reload.old)
    /\ reload' = NoReload
    /\ UNCHANGED <<published, built, canceled, probing, request, conn, tunnels, tunnelsClosed, closer, late>>

\* A health check notices that its context is cancelled.
CheckEnds(g, c) ==
    /\ g \in canceled /\ c \in probing[g]
    /\ probing' = [probing EXCEPT ![g] = @ \ {c}]
    /\ UNCHANGED <<published, built, canceled, reload, request, conn, tunnels, tunnelsClosed, closer, late>>

-----------------------------------------------------------------------------
(* Upgraded connections: ServeHTTP and proxyProtocolUpgrade.               *)

\* The request takes the route map of this moment.  Of a handler that Close
\* has emptied it gets no route, and the goroutine ends with a panic that
\* net/http recovers.
ServeUpgrade(u) ==
    /\ request[u] = "new"
    /\ request' = [request EXCEPT ![u] = IF published = NoGen THEN "done" ELSE "serving"]
    /\ UNCHANGED <<published, built, canceled, probing, reload, conn, tunnels, tunnelsClosed, closer, late>>

\* The origin refuses, or the connection cannot be taken over.
NoUpgrade(u) ==
    /\ request[u] = "serving"
    /\ request' = [request EXCEPT ![u] = "done"]
    /\ UNCHANGED <<published, built, canceled, probing, reload, conn, tunnels, tunnelsClosed, closer, late>>

\* Its deadline is cleared, or both connections are closed.
Hijack(u, cleared) ==
    /\ request[u] = "serving"
    /\ request' = [request EXCEPT ![u] = IF cleared THEN "hijacked" ELSE "done"]
    /\ conn' = [conn EXCEPT ![u] = IF cleared THEN "open" ELSE "closed"]
    /\ UNCHANGED <<published, built, canceled, probing, reload, tunnels, tunnelsClosed, closer, late>>

\* Mutant: a tunnel is registered whether or not the handler is closed.
AnyTunnel == FALSE
\* registerProtocolTunnel refuses a closed handler's tunnels.
RefusesTunnels == tunnelsClosed

RegisterProtocolTunnel(u) ==
    /\ request[u] = "hijacked"
    /\ IF RefusesTunnels
       THEN /\ request' = [request EXCEPT ![u] = "done"] /\ conn' = [conn EXCEPT ![u] = "closed"]
            /\ UNCHANGED tunnels
       ELSE request' = [request EXCEPT ![u] = "open"] /\ tunnels' = tunnels \cup {u} /\ UNCHANGED conn
    /\ UNCHANGED <<published, built, canceled, probing, reload, tunnelsClosed, closer, late>>

\* The handshake fails, a peer hangs up, or the connection was closed: both
\* copies end and the tunnel closes both connections.
TunnelEnds(u) ==
    /\ request[u] = "open"
    /\ request' = [request EXCEPT ![u] = "ending"]
    /\ conn' = [conn EXCEPT ![u] = "closed"]
    /\ UNCHANGED <<published, built, canceled, probing, reload, tunnels, tunnelsClosed, closer, late>>

UnregisterProtocolTunnel(u) ==
    /\ request[u] = "ending"
    /\ request' = [request EXCEPT ![u] = "done"]
    /\ tunnels' = tunnels \ {u}
    /\ UNCHANGED <<published, built, canceled, probing, reload, conn, tunnelsClosed, closer, late>>

-----------------------------------------------------------------------------
(* Close.  Only its first caller closes the tunnels, every caller waits.   *)

CloseBegins(k) ==
    /\ closer[k].at = "idle"
    /\ tunnelsClosed' = TRUE
    /\ closer' = [closer EXCEPT ![k] = [at |-> "closing", old |-> NoGen,
                                        todo |-> IF tunnelsClosed THEN {} ELSE tunnels]]
    /\ UNCHANGED <<published, built, canceled, probing, reload, request, conn, tunnels, late>>

CloseTunnel(k, u) ==
    /\ closer[k].at = "closing" /\ u \in closer[k].todo
    /\ conn' = [conn EXCEPT ![u] = "closed"]
    /\ closer' = [closer EXCEPT ![k].todo = @ \ {u}]
    /\ UNCHANGED <<published, built, canceled, probing, reload, request, tunnels, tunnelsClosed, late>>

\* tunnelWG.Wait returns.
TunnelsGone(k) ==
    /\ closer[k].at = "closing" /\ closer[k].todo = {} /\ tunnels = {}
    /\ closer' = [closer EXCEPT ![k].at = "swap"]
    /\ UNCHANGED <<published, built, canceled, probing, reload, request, conn, tunnels, tunnelsClosed, late>>

EmptyHandler(k) ==
    /\ closer[k].at = "swap"
    /\ closer' = [closer EXCEPT ![k].at = "stop", ![k].old = published]
    /\ published' = NoGen
    /\ UNCHANGED <<built, canceled, probing, reload, request, conn, tunnels, tunnelsClosed, late>>

StopChecks(k) ==
    /\ closer[k].at = "stop"
    /\ closer' = [closer EXCEPT ![k].at = "wait"]
    /\ canceled' = Cancel(closer[k].old)
    /\ UNCHANGED <<published, built, probing, reload, request, conn, tunnels, tunnelsClosed, late>>

CloseReturns(k) ==
    /\ closer[k].at = "wait" /\ Stopped(closer[k].old)
    /\ closer' = [closer EXCEPT ![k].at = "done"]
    /\ UNCHANGED <<published, built, canceled, probing, reload, request, conn, tunnels, tunnelsClosed, late>>

-----------------------------------------------------------------------------
CloseSteps(k) == \/ \E u \in Upgrades : CloseTunnel(k, u)
                 \/ TunnelsGone(k) \/ EmptyHandler(k) \/ StopChecks(k) \/ CloseReturns(k)

HandlerNext ==
    \/ \E ok \in BOOLEAN : BuildState(ok)
    \/ PublishState \/ RetireState \/ ReloadReturns
    \/ \E g \in Gens, c \in Checks : CheckEnds(g, c)
    \/ \E u \in Upgrades :
          \/ ServeUpgrade(u) \/ NoUpgrade(u) \/ \E cleared \in BOOLEAN : Hijack(u, cleared)
          \/ RegisterProtocolTunnel(u) \/ TunnelEnds(u) \/ UnregisterProtocolTunnel(u)
    \/ \E k \in Closers : CloseBegins(k) \/ CloseSteps(k)

HandlerSpec == HandlerInit /\ [][HandlerNext]_handlerVars

\* The steps Close can rely on: its own, a cancelled check that ends, and a
\* copy that ends because its connection is closed.  Only finitely many of
\* them can be taken.
Unwinding == \/ \E k \in Closers : CloseSteps(k)
             \/ \E g \in Gens, c \in Checks : CheckEnds(g, c)
             \/ \E u \in Upgrades : conn[u] = "closed" /\ TunnelEnds(u)
             \/ \E u \in Upgrades : UnregisterProtocolTunnel(u)

-----------------------------------------------------------------------------
\* Once Close has returned to any caller, no tunnel is registered, the
\* connections of every tunnel that was are closed, and only a generation that
\* a Reload published behind it still checks the health of origins; and when
\* no Reload is under way and nobody closes, only the published generation
\* does (handler.go:112-203).
HandlerQuiet ==
    LET Checking == {g \in Gens : probing[g] # {}}
        Unreturned == {k \in Closers : closer[k].at # "done"}
    IN  /\ Unreturned # Closers
              => /\ tunnels = {}
                 /\ \A u \in Upgrades : conn[u] = "open" => request[u] = "hijacked"
                 /\ reload.at = "idle" => Checking \subseteq late \cup {closer[k].old : k \in Unreturned}
        /\ (reload.at = "idle" /\ \A k \in Unreturned : closer[k].at = "idle")
              => Checking \subseteq {published}

\* HandlerQuiet holds, and Close is never stuck: while it waits, a tunnel it
\* has closed or a check it has cancelled can take a step, and it never waits
\* for a peer (handler.go:125-203).
HandlerShutsDown ==
    /\ HandlerQuiet
    /\ (\E k \in Closers : closer[k].at \notin {"idle", "done"}) => ENABLED Unwinding
=============================================================================
