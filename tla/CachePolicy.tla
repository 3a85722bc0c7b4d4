----------------------------- MODULE CachePolicy -----------------------------
(***************************************************************************)
(* What EdgeProxy's cache may store and whom it may answer from it         *)
(* (internal/proxy/cache_policy.go, with the lookups and the storing of    *)
(* handler.go), over real headers and times where EdgeCache has verdicts.  *)
(* Requests for one URI are handled one after the other: EdgeCache has the *)
(* races.  Requests are GET, HEAD or a safe method that is not cached.     *)
(*                                                                         *)
(* A header name stands for all of its spellings.  A Cache-Control header  *)
(* is the sequence of its directives [name, value]; one without a value    *)
(* has the value 1, as in the code, a negative value stands for every      *)
(* value that is no delta-seconds, and Malformed for a directive without a *)
(* name or a line with an open quote.  Content is a number; Tag and        *)
(* Modified are the validators the origin gives it (Unset or "none" when   *)
(* it gives none), and two contents may be of the same second.             *)
(***************************************************************************)
EXTENDS Integers, Sequences, FiniteSetsExt

CONSTANTS Policies,       \* CacheConfig: enabled, authorized, cookies,
                          \* setCookies, respect, varyOn, statuses
          Asks,           \* requests: method, upgrade, range, cc, pragma, the
                          \* headers of varyOn, auth and cookie, match, since,
                          \* and as ghosts holds, the content the client has,
                          \* and oldest, the age it accepts (Unset: any)
          Responses,      \* responses: status, content, setCookie, vary, cc,
                          \* pragma, dated, date, age, expires, expiresAt, and
                          \* as ghosts transit, the age it has on arrival,
                          \* good, how long a shared cache may use it, and
                          \* strict, whether never longer
          DefaultTTL, StaleIfError,
          Tag, Modified,
          MaxClock,       \* bound on the time
          MaxExchanges    \* bound on responses

ASSUME PolicyValues == {DefaultTTL, StaleIfError, MaxClock, MaxExchanges} \subseteq Nat
ASSUME SafeMethods == \A q \in Asks : q.method \in {"GET", "HEAD", "OPTIONS"}

Unset == -1
Malformed == ""
NoAsk == [method |-> "none"]
NoCandidate == [key |-> <<>>]

VARIABLES
    policy,      \* the route's CacheConfig
    clock,       \* EdgeProxy's clock
    kept,        \* the entries of the cache, each with its key
    asking,      \* the request at the origin, or NoAsk
    candidate,   \* its stale entry, or NoCandidate
    answered,    \* the answer that the cache has just given
    exchanges,
    lookedAt     \* ghost: when it, or its stale entry, was looked up

policyVars == <<policy, clock, kept, asking, candidate, answered, exchanges, lookedAt>>
NoAnswer == [from |-> "none", ask |-> NoAsk, entry |-> NoCandidate, notModified |-> FALSE]

\* The cache holds one entry for a key, and no exchange is lost sight of.
PolicyTypeOK ==
    /\ policy \in Policies /\ {clock, lookedAt} \subseteq 0..MaxClock
    /\ asking \in Asks \cup {NoAsk} /\ exchanges \in 0..MaxExchanges
    /\ \A e, f \in kept : e.key = f.key => e = f
    /\ Cardinality(kept) <= exchanges
    /\ asking = NoAsk => candidate = NoCandidate
    /\ answered.from \in {"none", "HIT", "STALE"}

-----------------------------------------------------------------------------
(* Headers.                                                                *)

Named(cc, name) == {i \in DOMAIN cc : cc[i].name = name}
HasCacheDirective(cc, name) == Named(cc, name) # {}
\* parseCacheControlDetailed keeps the first of a directive that is repeated.
Directive(cc, name) == cc[CHOOSE i \in Named(cc, name) : \A j \in Named(cc, name) : i <= j].value
Invalid(cc) == HasCacheDirective(cc, Malformed)
Duplicated(cc, name) == Cardinality(Named(cc, name)) > 1
DeltaSeconds(v) == v >= 0

NonEmpty(value) == value \notin {"none", "blank"}

\* Mutant: credentials that are let in do not part the cache.
KeyWithoutCredentials(q) == [h \in policy.varyOn |-> q[h]]
\* cacheKey: the URI is the same throughout and HEAD shares GET's entry.
CacheKey(q) ==
    [h \in policy.varyOn \cup (IF policy.authorized THEN {"auth"} ELSE {})
                         \cup (IF policy.cookies THEN {"cookie"} ELSE {}) |-> q[h]]

VaryIsSupported(vary) ==
    "*" \notin vary /\
    vary \subseteq policy.varyOn \cup (IF policy.authorized THEN {"auth"} ELSE {})
                                 \cup (IF policy.cookies THEN {"cookie"} ELSE {})

-----------------------------------------------------------------------------
(* Requests.                                                               *)

\* requestCacheMode.
TakesPart(q) ==
    /\ policy.enabled /\ ~q.upgrade
    /\ q.method \in {"GET", "HEAD"} /\ ~q.range
    /\ ~Invalid(q.cc) /\ ~Duplicated(q.cc, "max-age")
    /\ ~HasCacheDirective(q.cc, "no-store")
    /\ NonEmpty(q.auth) => policy.authorized
    /\ NonEmpty(q.cookie) => policy.cookies
ForcesRevalidation(q) ==
    \/ HasCacheDirective(q.cc, "no-cache") \/ q.pragma
    \/ HasCacheDirective(q.cc, "max-age") /\ Directive(q.cc, "max-age") = 0

\* requestAllowsCachedEntry, of a request that takes part.
AllowsEntry(q, e) ==
    HasCacheDirective(q.cc, "max-age") /\ DeltaSeconds(Directive(q.cc, "max-age"))
        => clock - e.storedAt <= Directive(q.cc, "max-age")

-----------------------------------------------------------------------------
(* Responses.  p.date is the Date header, by the origin's clock, as an     *)
(* offset to EdgeProxy's; p.age the Age header; p.expires the Expires      *)
(* header as an offset to the same clock.  An Age that is no number is     *)
(* Unset; expires says whether Expires is there and is a date.   *)

\* responseInitialAge.
InitialAge(p) == Max({0} \cup (IF p.age >= 0 THEN {p.age} ELSE {}) \cup (IF p.dated THEN {-p.date} ELSE {}))

Refuses(p) ==
    \/ Invalid(p.cc) \/ Duplicated(p.cc, "max-age") \/ Duplicated(p.cc, "s-maxage")
    \/ \E d \in {"no-store", "private", "no-cache"} : HasCacheDirective(p.cc, d)
    \/ p.pragma

\* Zero or less is not stored, which stands for values that cannot be read.
Lifetime(p) ==
    IF HasCacheDirective(p.cc, "s-maxage") THEN Directive(p.cc, "s-maxage")
    ELSE IF HasCacheDirective(p.cc, "max-age") THEN Directive(p.cc, "max-age")
    ELSE IF p.expires = "none" THEN DefaultTTL
    ELSE IF p.expires = "bad" THEN 0
    ELSE p.expiresAt - (IF p.dated THEN p.date ELSE 0)

TTL(p) == IF policy.respect THEN Lifetime(p) - InitialAge(p) ELSE DefaultTTL
MayServeStale(p) ==
    policy.respect => ~\E d \in {"must-revalidate", "proxy-revalidate"} : HasCacheDirective(p.cc, d)

\* responseCachePolicy.
Cacheable(p) ==
    /\ p.status \in policy.statuses
    /\ p.setCookie => policy.setCookies
    /\ VaryIsSupported(p.vary)
    /\ policy.respect => ~Refuses(p)
    /\ TTL(p) > 0

\* The entry fetchAndServe stores.  ask, response and gotAt are ghosts.
NewEntry(q, p) ==
    [key |-> CacheKey(q), status |-> p.status, content |-> p.content,
     storedAt |-> clock - (IF policy.respect THEN InitialAge(p) ELSE 0),
     expiresAt |-> clock + TTL(p),
     staleUntil |-> clock + TTL(p) + (IF MayServeStale(p) THEN StaleIfError ELSE 0),
     ask |-> q, response |-> p, gotAt |-> clock]

-----------------------------------------------------------------------------
(* Answers from the cache.                                                 *)

\* conditionalNotModified.  q.match are the tags of If-None-Match, without W/;
\* q.since is the time of If-Modified-Since.
NotModified(q, e) ==
    /\ e.status \in 200..299
    /\ IF q.match # {}
       THEN Malformed \notin q.match /\ ("*" \in q.match \/ Tag[e.content] \in q.match)
       ELSE q.since # Unset /\ Modified[e.content] # Unset /\ Modified[e.content] <= q.since

\* serveCacheEntry.
ServeEntry(q, e, from) ==
    answered' = [from |-> from, ask |-> q, entry |-> e, notModified |-> NotModified(q, e)]

\* cache.Get removes what is past its use.
Alive == {e \in kept : clock <= e.staleUntil}
Usable(q) == {e \in Alive : e.key = CacheKey(q) /\ AllowsEntry(q, e)}
Looks(q) == TakesPart(q) /\ ~ForcesRevalidation(q)

\* handleRoute up to the origin exchange.  With the bound on exchanges used
\* up, a request that could only be answered by the origin is not made.
Ask(q) ==
    /\ asking = NoAsk
    /\ kept' = IF Looks(q) THEN {e \in kept : e.key = CacheKey(q) => e \in Alive} ELSE kept
    /\ LET fresh == {e \in Usable(q) : clock <= e.expiresAt}
       IN  \/ /\ Looks(q) /\ fresh # {}
              /\ \E e \in fresh : ServeEntry(q, e, "HIT")
              /\ UNCHANGED <<asking, candidate>>
           \/ /\ ~Looks(q) \/ fresh = {}
              /\ asking' = q
              /\ candidate' = IF Looks(q) /\ Usable(q) # {} THEN CHOOSE e \in Usable(q) : TRUE
                              ELSE NoCandidate
              /\ exchanges < MaxExchanges \/ candidate' # NoCandidate
              /\ answered' = NoAnswer
    /\ lookedAt' = clock
    /\ UNCHANGED <<policy, clock, exchanges>>

GoesStale == /\ candidate # NoCandidate
             /\ ServeEntry(asking, candidate, "STALE")
             /\ UNCHANGED kept

Stored(q, p) == {e \in kept : e.key # CacheKey(q)} \cup {NewEntry(q, p)}

RetryableStatus(status) == status \in {502, 503, 504}

\* fetchAndServe with a response.  The copy to the client may break off, or
\* the body be too large: then nothing is stored.
Receive(p) ==
    /\ asking # NoAsk /\ exchanges < MaxExchanges
    /\ \/ RetryableStatus(p.status) /\ GoesStale
       \/ /\ ~RetryableStatus(p.status) \/ candidate = NoCandidate
          /\ \/ /\ TakesPart(asking) /\ asking.method # "HEAD" /\ Cacheable(p)
                /\ kept' = Stored(asking, p)
             \/ UNCHANGED kept
          /\ answered' = NoAnswer
    /\ asking' = NoAsk /\ candidate' = NoCandidate /\ exchanges' = exchanges + 1
    /\ UNCHANGED <<policy, clock, lookedAt>>

\* fetchAndServe without one: stale content or 502, and nothing at all for a
\* client that has gone.
OriginFails ==
    /\ asking # NoAsk
    /\ GoesStale \/ UNCHANGED <<kept, answered>>
    /\ asking' = NoAsk /\ candidate' = NoCandidate
    /\ UNCHANGED <<policy, clock, exchanges, lookedAt>>

ClockTicks ==
    /\ clock < MaxClock /\ clock' = clock + 1
    /\ answered' = NoAnswer /\ lookedAt' = IF asking = NoAsk THEN 0 ELSE lookedAt
    /\ UNCHANGED <<policy, kept, asking, candidate, exchanges>>

PolicyInit ==
    /\ policy \in Policies /\ clock = 0 /\ kept = {} /\ exchanges = 0 /\ lookedAt = 0
    /\ asking = NoAsk /\ candidate = NoCandidate /\ answered = NoAnswer

PolicyNext == \/ \E q \in Asks : Ask(q)
              \/ \E p \in Responses : Receive(p)
              \/ OriginFails \/ ClockTicks

PolicySpec == PolicyInit /\ [][PolicyNext]_policyVars

-----------------------------------------------------------------------------
(* What the headers mean to the client and to the origin, by RFC 9111 and  *)
(* 9110: the ghosts of requests and responses.  DefaultTTL is how long the *)
(* operator lets content be used whose origin says nothing.                *)

Directives == [name : STRING, value : Int]
Says(cc, names) == \E d \in names : HasCacheDirective(cc, d)
Once(cc, name) == HasCacheDirective(cc, name) /\ ~Duplicated(cc, name)

\* The age a client takes: none if it wants the origin's own answer.
ClientTakes(q) ==
    IF \/ q.method \notin {"GET", "HEAD"} \/ q.range \/ q.pragma
       \/ Says(q.cc, {"no-store", "no-cache", Malformed}) \/ Duplicated(q.cc, "max-age")
    THEN 0
    ELSE IF Once(q.cc, "max-age") /\ Directive(q.cc, "max-age") >= 0 THEN Directive(q.cc, "max-age")
    ELSE Unset

\* How long a shared cache may use a response, from when the origin made it.
OriginAllows(p) ==
    IF \/ "*" \in p.vary \/ p.pragma
       \/ Says(p.cc, {"no-store", "private", "no-cache", Malformed})
       \/ Duplicated(p.cc, "max-age") \/ Duplicated(p.cc, "s-maxage")
    THEN 0
    ELSE IF Once(p.cc, "s-maxage") THEN Directive(p.cc, "s-maxage")
    ELSE IF Once(p.cc, "max-age") THEN Directive(p.cc, "max-age")
    ELSE IF p.expires = "given" THEN p.expiresAt - (IF p.dated THEN p.date ELSE 0)
    ELSE IF p.expires = "bad" THEN 0 ELSE DefaultTTL

\* Every header of a request can be looked up, also one that is not there.  A
\* client sends the date of the content it has, and in a list of tags that can
\* be read only the tag of that content, which no other content has.
ASSUME AskValues ==
    \A q \in Asks :
       /\ q.cc \in Seq(Directives) /\ q.since \in Int /\ {"auth", "cookie"} \subseteq DOMAIN q
       /\ \A g \in Policies : g.varyOn \subseteq DOMAIN q
       /\ q.oldest = ClientTakes(q)
       /\ q.since # Unset => q.since = Modified[q.holds]
       /\ Malformed \notin q.match => \A p \in Responses : Tag[p.content] \in q.match => p.content = q.holds

ASSUME ResponseValues ==
    \A p \in Responses :
       /\ p.cc \in Seq(Directives) /\ {p.date, p.age, p.expiresAt, Modified[p.content]} \subseteq Int
       /\ p.expires \in {"none", "bad", "given"} /\ p.transit \in Nat
       /\ p.good = OriginAllows(p)
       /\ p.strict <=> Says(p.cc, {"must-revalidate", "proxy-revalidate"})

\* One of Date and Age tells how old the response was.
Honest(p) == (p.dated /\ p.date = -p.transit) \/ p.age = p.transit
AgeOf(e) == lookedAt - e.gotAt + (IF Honest(e.response) THEN e.response.transit ELSE 0)

\* The answer was made for a request like this one: one that agrees in every
\* header the origin looked at, and with the same credentials if it had some.
SameVariant(q, e) ==
    /\ e.response.vary \subseteq DOMAIN q
    /\ \A h \in e.response.vary : q[h] = e.ask[h]
    /\ \A h \in {"auth", "cookie"} : NonEmpty(e.ask[h]) => q[h] = e.ask[h]

\* It is no older than the client takes, and than the origin allows.
YoungEnough(q, e, from) ==
    LET p == e.response
        grace == IF from = "STALE" THEN StaleIfError ELSE 0
    IN  /\ q.oldest # 0
        /\ IF policy.respect
           THEN /\ q.oldest # Unset => AgeOf(e) <= q.oldest
                /\ p.good > 0 /\ AgeOf(e) <= p.good + (IF p.strict THEN 0 ELSE grace)
           ELSE lookedAt - e.gotAt <= DefaultTTL + grace

\* "Not modified" is only said of the content the client has, or, to a client
\* that sends no tags, of one of the same second or an older one, or to a
\* client that takes any.
ClientHasIt(q, e) ==
    \/ q.holds = e.content \/ "*" \in q.match
    \/ q.match = {} /\ Modified[e.content] <= Modified[q.holds]

\* Every answer from the cache is one its request is entitled to, whatever the
\* policy of the route, the headers of the response that was stored, the time
\* it was under way and the time since (cache_policy.go:17-58 and 101-271,
\* handler.go:386-402, 690-728 and 1070-1100).
CacheAnswersFit ==
    answered.from # "none" =>
        /\ SameVariant(answered.ask, answered.entry)
        /\ YoungEnough(answered.ask, answered.entry, answered.from)
        /\ answered.notModified => ClientHasIt(answered.ask, answered.entry)
=============================================================================
