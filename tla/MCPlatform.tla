----------------------------- MODULE MCPlatform -----------------------------
(***************************************************************************)
(* The parts of the platform that keep files and generations, each checked *)
(* on its own instance: a behaviour takes the steps of one part, its       *)
(* focus, and leaves the state of the others alone.                        *)
(***************************************************************************)
EXTENDS SecurityControl, SecurityLog, ConfigFiles, EdgeHandler, TelemetryHistory, Routing,
        CachePolicy, TLC

CONSTANTS a, b, main, alt, r, s,      \* listen addresses, files, route names
          c1, c2, c3,                 \* configurations
          u1, u2, k1, k2, h1          \* upgrades, callers of Close, checks

VARIABLE focus

Cfg(l, p) == [listen |-> l, policy |-> p]
MCSecConfigs == {Cfg(a, {}), Cfg(a, {s}), Cfg(b, {})}
MCSecEnvs == {[listen |-> None, path |-> main], [listen |-> b, path |-> main], [listen |-> None, path |-> alt]}
MCInitSecEnv == [listen |-> None, path |-> main]
MCInitSecFile == (main :> Cfg(a, {}) @@ alt :> Cfg(b, {}))

\* Routes that overlap in hosts and in paths, two names that differ in case,
\* selectors that are equal once normalised, and routes that are refused.
Every == [kind |-> "any", labels |-> <<>>, spelled |-> FALSE]
Wild(l) == [kind |-> "wild", labels |-> l, spelled |-> FALSE]
Exact(l, spelled) == [kind |-> "exact", labels |-> l, spelled |-> spelled]
Prefix(segments, n) == [segments |-> segments, slashes |-> n]
RawRoute(name, hosts, prefix) == [name |-> name, hosts |-> hosts, prefix |-> prefix]
MCRawRoutes ==
    { RawRoute("api", <<Exact(<<"x", "y">>, FALSE), Wild(<<"y">>)>>, Prefix(<<"a">>, 0)),
      RawRoute("API", <<Exact(<<"x", "y">>, TRUE)>>, Prefix(<<"a">>, 1)),
      RawRoute("web", <<Exact(<<"x", "y">>, TRUE)>>, Prefix(<<"a">>, 1)),
      RawRoute("web", <<Wild(<<"y">>)>>, Prefix(<<"a", "b">>, 0)),
      RawRoute("sub", <<Wild(<<"x", "y">>), Every>>, Prefix(<<"a">>, 1)),
      RawRoute("all", <<Every>>, Prefix(<<>>, 2)),
      RawRoute("two", <<Every>>, Prefix(<<"a">>, 2)),
      RawRoute("dup", <<Exact(<<"y">>, TRUE), Exact(<<"y">>, FALSE)>>, Prefix(<<>>, 1)) }
MCHosts == [labels : {<<"y">>, <<"x", "y">>, <<"w", "y">>, <<"w", "x", "y">>, <<"z">>}, spelled : {TRUE}]
MCPaths == {<<>>, <<"a">>, <<"a", "b">>, <<"b", "..", "a">>, <<"..", "a", "", ".", "c">>, <<"a", "..">>}

\* A plain GET and a plain response, and those that differ from them in the
\* headers the policy looks at.
D(name, value) == [name |-> name, value |-> value]
Plain == [method |-> "GET", upgrade |-> FALSE, range |-> FALSE, cc |-> <<>>, pragma |-> FALSE,
          lang |-> "none", auth |-> "none", cookie |-> "none", match |-> {}, since |-> -1,
          holds |-> 1, oldest |-> -1]
MCAsks ==
    { Plain, [Plain EXCEPT !.lang = "fr"], [Plain EXCEPT !.auth = "u1"], [Plain EXCEPT !.auth = "u2"],
      [Plain EXCEPT !.auth = "blank"], [Plain EXCEPT !.cookie = "u1"], [Plain EXCEPT !.cookie = "u2"],
      [Plain EXCEPT !.method = "HEAD"], [Plain EXCEPT !.method = "OPTIONS", !.oldest = 0],
      [Plain EXCEPT !.range = TRUE, !.oldest = 0], [Plain EXCEPT !.pragma = TRUE, !.oldest = 0],
      [Plain EXCEPT !.cc = <<D("max-age", 1)>>, !.oldest = 1],
      [Plain EXCEPT !.cc = <<D("max-age", 0)>>, !.oldest = 0],
      [Plain EXCEPT !.cc = <<D("max-age", 3), D("max-age", 0)>>, !.oldest = 0],
      [Plain EXCEPT !.cc = <<D("max-age", -1), D("no-store", 1)>>, !.oldest = 0],
      [Plain EXCEPT !.match = {"t1"}, !.since = 5], [Plain EXCEPT !.since = 5],
      [Plain EXCEPT !.match = {"", "t2"}], [Plain EXCEPT !.match = {"*"}] }
Ok == [status |-> 200, content |-> 1, setCookie |-> FALSE, vary |-> {}, cc |-> <<D("max-age", 2)>>,
       pragma |-> FALSE, dated |-> FALSE, date |-> 0, age |-> -1, expires |-> "none", expiresAt |-> 0,
       transit |-> 0, good |-> 2, strict |-> FALSE]
MCResponses ==
    { Ok, [Ok EXCEPT !.content = 2, !.vary = {"lang"}], [Ok EXCEPT !.content = 4, !.vary = {"cookie"}],
      [Ok EXCEPT !.vary = {"*"}, !.good = 0], [Ok EXCEPT !.content = 5, !.setCookie = TRUE],
      [Ok EXCEPT !.cc = <<D("max-age", 2), D("private", 1)>>, !.good = 0],
      [Ok EXCEPT !.cc = <<D("max-age", 2), D("max-age", 3)>>, !.good = 0],
      [Ok EXCEPT !.cc = <<D("max-age", 3), D("s-maxage", 1), D("must-revalidate", 1)>>, !.good = 1, !.strict = TRUE],
      [Ok EXCEPT !.transit = 1, !.dated = TRUE, !.date = -1],
      [Ok EXCEPT !.transit = 1, !.dated = TRUE, !.date = 1, !.age = 1],
      [Ok EXCEPT !.cc = <<>>, !.content = 3, !.transit = 1, !.dated = TRUE, !.date = -1,
                 !.expires = "given", !.expiresAt = 1],
      [Ok EXCEPT !.cc = <<>>, !.expires = "bad", !.good = 0], [Ok EXCEPT !.cc = <<>>],
      [Ok EXCEPT !.status = 404], [Ok EXCEPT !.status = 503] }
Strict == [enabled |-> TRUE, authorized |-> FALSE, cookies |-> FALSE, setCookies |-> FALSE,
           respect |-> TRUE, varyOn |-> {"lang"}, statuses |-> {200, 404}]
MCPolicies == { Strict, [Strict EXCEPT !.authorized = TRUE, !.cookies = TRUE, !.varyOn = {}],
                [Strict EXCEPT !.respect = FALSE, !.setCookies = TRUE, !.cookies = TRUE] }
MCTag == <<"t1", "t2", "none", "t4", "t5">>
MCModified == <<5, 4, -1, 6, 5>>

platformVars == <<focus, secVars, logVars, fileVars, handlerVars, historyVars, routingVars, policyVars>>

PlatformInit ==
    /\ focus \in {"security", "log", "files", "handler", "history", "routing", "policy"}
    /\ SecInit /\ LogInit /\ FilesInit /\ HandlerInit /\ HistoryInit /\ RoutingInit
    /\ PolicyInit
    /\ windows => focus = "files"
    /\ policy = Strict \/ focus = "policy"

PlatformNext ==
    \/ /\ focus = "security" /\ SecNext
       /\ UNCHANGED <<focus, logVars, fileVars, handlerVars, historyVars, routingVars, policyVars>>
    \/ /\ focus = "log" /\ LogNext
       /\ UNCHANGED <<focus, secVars, fileVars, handlerVars, historyVars, routingVars, policyVars>>
    \/ /\ focus = "files" /\ FilesNext
       /\ UNCHANGED <<focus, secVars, logVars, handlerVars, historyVars, routingVars, policyVars>>
    \/ /\ focus = "handler" /\ HandlerNext
       /\ UNCHANGED <<focus, secVars, logVars, fileVars, historyVars, routingVars, policyVars>>
    \/ /\ focus = "history" /\ HistoryNext
       /\ UNCHANGED <<focus, secVars, logVars, fileVars, handlerVars, routingVars, policyVars>>
    \/ /\ focus = "routing" /\ RoutingNext
       /\ UNCHANGED <<focus, secVars, logVars, fileVars, handlerVars, historyVars, policyVars>>
    \/ /\ focus = "policy" /\ PolicyNext
       /\ UNCHANGED <<focus, secVars, logVars, fileVars, handlerVars, historyVars, routingVars>>

\* SecFairness, in the behaviours of the supervisor.
SupervisorFairness ==
    /\ WF_secVars(focus = "security" /\ Updates) /\ WF_secVars(focus = "security" /\ BffSteps)
    /\ WF_secVars(focus = "security" /\ EdgeApplies) /\ WF_secVars(focus = "security" /\ EdgeRestarted)
    /\ WF_secVars(focus = "security" /\ TickEnv) /\ WF_secVars(focus = "security" /\ TickSec)
    /\ WF_secVars(focus = "security" /\ TickEdge) /\ SF_secVars(focus = "security" /\ TickPending)
    /\ WF_secVars(focus = "security" /\ Supervision) /\ WF_secVars(focus = "security" /\ Generations)

PlatformSpec == PlatformInit /\ [][PlatformNext]_platformVars /\ SupervisorFairness

\* Every part's state stays within its bounds and its types: the rings, files,
\* backups, samples and tunnels of the parts never outgrow what they are
\* configured to hold.
PlatformTypeOK ==
    /\ SecTypeOK /\ LogTypeOK /\ FilesTypeOK
    /\ HandlerTypeOK /\ HistoryTypeOK /\ PolicyTypeOK

\* In a behaviour of SecurityEdge's supervisor every restart and every route
\* table that was put off completes (main.go:119-175 and 317-331): the other
\* behaviours never start the supervisor.
SupervisorCompletes == focus = "security" => RestartsAndRoutesComplete
=============================================================================
