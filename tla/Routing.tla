------------------------------- MODULE Routing -------------------------------
(***************************************************************************)
(* How a request finds its route.  Both programs read EdgeProxy's route    *)
(* table and match requests against it with code of their own: EdgeProxy   *)
(* in internal/config (Validate) and internal/router, SecurityEdge in      *)
(* internal/routes.  Matching is the same text in both and is modelled     *)
(* once; what each program accepts is modelled for each.                   *)
(*                                                                         *)
(* A host is a sequence of labels of one character, a path a sequence of   *)
(* such segments, so that the lengths the code compares are exact.  A host *)
(* or a name can be spelled in another way (upper case, a trailing dot).   *)
(***************************************************************************)
EXTENDS Integers, Sequences, SequencesExt

CONSTANTS RawRoutes,     \* routes somebody may write: [name, hosts, prefix]
          MaxTable,      \* bound on the routes of a table
          Hosts, Paths   \* hosts and paths of requests, as they are sent

\* A pattern has at most 253 characters; a longer one is refused.
MaxLabels == 127
Patterns == [kind : {"any", "wild", "exact"}, labels : Seq(STRING), spelled : BOOLEAN]

ASSUME RoutingValues ==
    /\ MaxTable \in Nat
    /\ \A x \in RawRoutes :
          /\ x.hosts \in Seq(Patterns) /\ x.prefix.segments \in Seq(STRING)
          /\ \A i \in 1..Len(x.hosts) :
                Len(x.hosts[i].labels) \in (IF x.hosts[i].kind = "any" THEN {0} ELSE 1..MaxLabels)
    /\ \A h \in Hosts : h.labels \in Seq(STRING)

VARIABLES rawTable,    \* the table in the file
          routed       \* the request and its route in each program

routingVars == <<rawTable, routed>>
NotRouted == [edge |-> "none", sec |-> "none"]

-----------------------------------------------------------------------------
(* Normalisation.                                                          *)

\* A pattern is [kind, labels]: everything, a leading wildcard before at least
\* one label, or a host; a spelled one is [kind, labels, spelled].
NormalizeRouteHostPattern(h) == [kind |-> h.kind, labels |-> h.labels]

\* Upper case, and the dot that ends a name: a request's host loses them.
CanonicalHost(h) == h.labels

\* A prefix is written with up to two slashes behind it; only the root may
\* have two.
PrefixLoads(p) == p.slashes = 2 => p.segments = <<>>
NormalizePathPrefix(p) == p.segments

\* path.Clean.  A trailing slash stays but never decides a match.
CanonicalRequestPath(path) ==
    FoldLeft(LAMBDA clean, s : IF s \in {".", ""} THEN clean
                               ELSE IF s # ".." THEN Append(clean, s)
                               ELSE IF clean = <<>> THEN clean ELSE Front(clean), <<>>, path)

\* Route names are compared without case, as selectors' owners are not.
Lower(name) == IF name = "API" THEN "api" ELSE name

NormalRoute(x) == [name |-> x.name, prefix |-> NormalizePathPrefix(x.prefix),
                   hosts |-> [i \in 1..Len(x.hosts) |-> NormalizeRouteHostPattern(x.hosts[i])]]
NormalTable(t) == [i \in 1..Len(t) |-> NormalRoute(t[i])]

-----------------------------------------------------------------------------
(* What each program accepts.                                              *)

\* Mutant: selectors are compared as they are written.
WrittenSelectors(x) == {<<h, x.prefix>> : h \in ToSet(x.hosts)}
\* The selectors of a route.
Selectors(x) == {<<NormalizeRouteHostPattern(h), NormalizePathPrefix(x.prefix)>> : h \in ToSet(x.hosts)}

RouteLoads(x) ==
    /\ PrefixLoads(x.prefix) /\ x.hosts # <<>>
    /\ \A i, j \in 1..Len(x.hosts) :
          i # j => NormalizeRouteHostPattern(x.hosts[i]) # NormalizeRouteHostPattern(x.hosts[j])

\* routes.Load: the first owner of a selector keeps it.
SecurityAccepts(t) ==
    /\ t # <<>>
    /\ \A i \in 1..Len(t) : RouteLoads(t[i])
    /\ \A i, j \in 1..Len(t) :
          i < j => Lower(t[i].name) # Lower(t[j].name) /\ Selectors(t[i]) \cap Selectors(t[j]) = {}

\* Config.Validate: each route's hosts and prefix are normalised in place
\* before its selectors are compared, and an owner is told by its name.
EdgeAcceptsTable(t) ==
    LET n == NormalTable(t)
    IN  /\ t # <<>>
        /\ \A i \in 1..Len(t) : PrefixLoads(t[i].prefix) /\ n[i].hosts # <<>> /\ IsInjective(n[i].hosts)
        /\ \A i, j \in 1..Len(n) : i # j => Lower(n[i].name) # Lower(n[j].name)
        /\ \A i, j \in 1..Len(n) :
              (n[i].prefix = n[j].prefix /\ ToSet(n[i].hosts) \cap ToSet(n[j].hosts) # {})
                 => n[i].name = n[j].name

-----------------------------------------------------------------------------
(* Matching.                                                               *)

IsSuffixOf(s, t) == Len(s) <= Len(t) /\ SubSeq(t, Len(t) - Len(s) + 1, Len(t)) = s

\* A wildcard needs a label of its own.
WildcardMatches(p, host) == IsSuffixOf(p.labels, host) /\ host # p.labels

\* One pattern's score, -1 when it does not match.  n labels take 2n - 1
\* characters, and a suffix begins with a dot.
PatternScore(p, host) ==
    CASE p.kind = "any" -> 1
      [] p.kind = "wild" -> IF WildcardMatches(p, host) THEN 1000 + 2 * Len(p.labels) ELSE -1
      [] p.kind = "exact" -> IF p.labels = host THEN 1000000 + 2 * Len(p.labels) - 1 ELSE -1

HostMatchSpecificity(patterns, host) ==
    LET best[i \in 0..Len(patterns)] ==
            IF i = 0 THEN -1
            ELSE IF PatternScore(patterns[i], host) > best[i - 1] THEN PatternScore(patterns[i], host)
            ELSE best[i - 1]
    IN  best[Len(patterns)]

PathPrefixMatches(path, prefix) == IsPrefix(prefix, path)

\* The best route so far against the next one.
Better(best, x, host, path) ==
    LET score == HostMatchSpecificity(x.hosts, host)
    IN  IF score < 0 \/ ~PathPrefixMatches(path, x.prefix) THEN best
        ELSE IF Len(x.prefix) > best.length \/ (Len(x.prefix) = best.length /\ score > best.score)
        THEN [name |-> x.name, length |-> Len(x.prefix), score |-> score]
        ELSE best

Unmatched == [name |-> "unmatched", length |-> -1, score |-> -1]
Match(table, host, path) ==
    LET best[i \in 0..Len(table)] ==
            IF i = 0 THEN Unmatched ELSE Better(best[i - 1], table[i], host, path)
    IN  best[Len(table)].name

-----------------------------------------------------------------------------
Reversed(t) == [i \in 1..Len(t) |-> t[Len(t) + 1 - i]]

RoutingInit == rawTable = <<>> /\ routed = NotRouted

WriteRoute(x) ==
    /\ Len(rawTable) < MaxTable /\ routed = NotRouted
    /\ rawTable' = Append(rawTable, x)
    /\ UNCHANGED routed

\* A request passes SecurityEdge and then EdgeProxy.
RouteRequest(h, p) ==
    LET host == CanonicalHost(h)
        path == CanonicalRequestPath(p)
        By(accepted, t) == IF accepted THEN Match(t, host, path) ELSE "refused"
    IN  /\ routed = NotRouted
        /\ routed' = [edge |-> By(EdgeAcceptsTable(rawTable), NormalTable(rawTable)),
                      sec |-> By(SecurityAccepts(rawTable), NormalTable(rawTable)),
                      reversed |-> By(EdgeAcceptsTable(rawTable), Reversed(NormalTable(rawTable))),
                      host |-> host, path |-> path]
        /\ UNCHANGED rawTable

RoutingNext == \/ \E x \in RawRoutes : WriteRoute(x)
               \/ \E h \in Hosts, p \in Paths : RouteRequest(h, p)

RoutingSpec == RoutingInit /\ [][RoutingNext]_routingVars

-----------------------------------------------------------------------------
\* The selector (pattern and prefix) of a route covers a request.
Covers(sel, host, path) ==
    /\ IsPrefix(sel.prefix, path)
    /\ CASE sel.kind = "any" -> TRUE
         [] sel.kind = "exact" -> sel.labels = host
         [] sel.kind = "wild" -> Len(sel.labels) < Len(host) /\ IsSuffixOf(sel.labels, host)

\* Selector s is more specific than t: a longer path, then an exact host
\* before a wildcard before everything, then the longer wildcard.
MoreSpecific(s, t) ==
    LET Rank(x) == CASE x.kind = "any" -> 0 [] x.kind = "wild" -> 1 [] x.kind = "exact" -> 2
    IN  \/ Len(s.prefix) > Len(t.prefix)
        \/ /\ Len(s.prefix) = Len(t.prefix)
           /\ \/ Rank(s) > Rank(t)
              \/ Rank(s) = Rank(t) /\ Len(s.labels) > Len(t.labels)

\* By their names, hosts and prefixes both programs accept the same route
\* tables, and of a table they accept both choose the same route for every
\* request: the owner of the one selector that covers the request and is more
\* specific than every other that does, whatever the order of the table
\* (router.go:24-115, routes.go:86-162).
ProgramsAgreeOnRoute ==
    routed # NotRouted =>
       LET t == NormalTable(rawTable)
           all == UNION {{[kind |-> p.kind, labels |-> p.labels, prefix |-> t[i].prefix, owner |-> t[i].name]
                             : p \in ToSet(t[i].hosts)} : i \in 1..Len(t)}
           covering == {s \in all : Covers(s, routed.host, routed.path)}
           wanted == {s.owner : s \in {x \in covering : \A y \in covering \ {x} : MoreSpecific(x, y)}}
       IN  /\ routed.edge = routed.sec /\ routed.edge = routed.reversed
           /\ routed.edge # "refused" =>
                 IF covering = {} THEN routed.edge = "unmatched" ELSE wanted = {routed.edge}
=============================================================================
