---------------------------- MODULE RequestProofs ----------------------------
(***************************************************************************)
(* Proofs about the path of a request: both programs route every request   *)
(* alike and by its most specific selector, for every route table; and     *)
(* EdgeProxy's cache answers only requests that are entitled to the        *)
(* answer, for every policy, request and response.                         *)
(***************************************************************************)
EXTENDS Routing, CachePolicy, SetSums

-----------------------------------------------------------------------------
(* Normalised patterns and their scores.                                   *)

HostPattern(p) ==
    /\ p \in [kind : {"any", "wild", "exact"}, labels : Seq(STRING)]
    /\ Len(p.labels) \in (IF p.kind = "any" THEN {0} ELSE 1..MaxLabels)

\* A pattern covers a host, as in Covers.
HostCovers(p, host) ==
    CASE p.kind = "any" -> TRUE
      [] p.kind = "exact" -> p.labels = host
      [] p.kind = "wild" -> Len(p.labels) < Len(host) /\ IsSuffixOf(p.labels, host)

RankOf(p) == CASE p.kind = "any" -> 0 [] p.kind = "wild" -> 1 [] p.kind = "exact" -> 2

\* The fields of a pattern.
LEMMA PatternFields ==
    ASSUME NEW p, HostPattern(p)
    PROVE  /\ p = [kind |-> p.kind, labels |-> p.labels]
           /\ p.kind = "any" \/ p.kind = "wild" \/ p.kind = "exact"
           /\ p.labels \in Seq(STRING) /\ Len(p.labels) \in Nat /\ Len(p.labels) <= 127
           /\ p.kind = "any" => Len(p.labels) = 0
  <1>1. p \in [kind : {"any", "wild", "exact"}, labels : Seq(STRING)]
    BY DEF HostPattern
  <1>2. p = [kind |-> p.kind, labels |-> p.labels] /\ p.kind \in {"any", "wild", "exact"} /\ p.labels \in Seq(STRING)
    BY <1>1
  <1>3. Len(p.labels) \in IF p.kind = "any" THEN {0} ELSE 1..127
    BY DEF HostPattern, MaxLabels
  <1>4. Len(p.labels) \in Nat /\ Len(p.labels) <= 127 /\ (p.kind = "any" => Len(p.labels) = 0)
    <2>1. CASE p.kind = "any"
      BY <1>3, <2>1
    <2>2. CASE p.kind # "any"
      <3>0. PICK n : n = Len(p.labels)
        OBVIOUS
      <3>1. n \in 1..127
        BY <1>3, <2>2, <3>0
      <3>2. n \in Nat /\ n <= 127
        BY <3>1
      <3> QED BY <2>2, <3>0, <3>2
    <2> QED BY <2>1, <2>2
  <1> QED BY <1>2, <1>4

\* A suffix of a host that is as long as the host is the host.
LEMMA WholeSuffix ==
    ASSUME NEW s \in Seq(STRING), NEW t \in Seq(STRING), IsSuffixOf(s, t), Len(s) = Len(t)
    PROVE  s = t
  <1>1. s = SubSeq(t, (Len(t) - Len(s)) + 1, Len(t))
    BY DEF IsSuffixOf
  <1>2. (Len(t) - Len(s)) + 1 = 1
    OBVIOUS
  <1>3. SubSeq(t, 1, Len(t)) = t
    OBVIOUS
  <1> QED BY <1>1, <1>2, <1>3

\* A pattern has a score exactly when it covers the host: a wildcard needs a
\* label of its own (router.go:65-93).
LEMMA ScoreCovers ==
    ASSUME NEW p, HostPattern(p), NEW host \in Seq(STRING), NEW s, s = PatternScore(p, host)
    PROVE  /\ s \in Int /\ s >= -1 /\ (s >= 0 <=> HostCovers(p, host))
           /\ HostCovers(p, host) => /\ p.kind = "any" => s = 1
                                     /\ p.kind = "wild" => s = 1000 + 2 * Len(p.labels)
                                     /\ p.kind = "exact" => s = 999999 + 2 * Len(p.labels)
  <1>1. PICK n : n = Len(p.labels)
    OBVIOUS
  <1>2. n \in Nat
    BY <1>1, PatternFields
  <1>3. CASE p.kind = "any"
    BY <1>3 DEF PatternScore, HostCovers
  <1>4. CASE p.kind = "wild"
    <2>1. s = IF WildcardMatches(p, host) THEN 1000 + 2 * n ELSE -1
      BY <1>1, <1>4 DEF PatternScore
    <2>2. WildcardMatches(p, host) <=> HostCovers(p, host)
      <3>1. HostCovers(p, host) <=> Len(p.labels) < Len(host) /\ IsSuffixOf(p.labels, host)
        BY <1>4 DEF HostCovers
      <3>2. WildcardMatches(p, host) <=> IsSuffixOf(p.labels, host) /\ host # p.labels
        BY DEF WildcardMatches
      <3>3. IsSuffixOf(p.labels, host) /\ Len(p.labels) = Len(host) => p.labels = host
        BY PatternFields, WholeSuffix
      <3>4. IsSuffixOf(p.labels, host) => Len(p.labels) <= Len(host)
        BY DEF IsSuffixOf
      <3>5. Len(p.labels) \in Nat /\ Len(host) \in Nat
        BY <1>1, <1>2
      <3>6. Len(p.labels) < Len(host) => host # p.labels
        BY <3>5
      <3>7. Len(p.labels) <= Len(host) /\ Len(p.labels) # Len(host) => Len(p.labels) < Len(host)
        BY <3>5
      <3> QED BY <3>1, <3>2, <3>3, <3>4, <3>6, <3>7
    <2> QED BY <1>1, <1>2, <1>4, <2>1, <2>2
  <1>5. CASE p.kind = "exact"
    <2>1. s = IF p.labels = host THEN (1000000 + 2 * n) - 1 ELSE -1
      BY <1>1, <1>2, <1>5 DEF PatternScore
    <2>2. HostCovers(p, host) <=> p.labels = host
      BY <1>5 DEF HostCovers
    <2> QED BY <1>1, <1>2, <1>5, <2>1, <2>2
  <1> QED BY <1>3, <1>4, <1>5, PatternFields

\* The higher of two scores is that of the more specific pattern, and only one
\* pattern has a given score (router.go:62-93).
LEMMA ScoreOrders ==
    ASSUME NEW p, HostPattern(p), NEW q, HostPattern(q), NEW host \in Seq(STRING),
           HostCovers(p, host), HostCovers(q, host)
    PROVE  /\ PatternScore(p, host) > PatternScore(q, host)
                 => RankOf(p) > RankOf(q) \/ (RankOf(p) = RankOf(q) /\ Len(p.labels) > Len(q.labels))
           /\ PatternScore(p, host) = PatternScore(q, host) => p = q
  <1>1. PICK m, n, s, t : /\ m = Len(p.labels) /\ n = Len(q.labels)
                          /\ s = PatternScore(p, host) /\ t = PatternScore(q, host)
    OBVIOUS
  <1>2. m \in Nat /\ n \in Nat /\ m <= 127 /\ n <= 127
    BY <1>1, PatternFields
  <1>3. /\ p.kind = "any" => s = 1 /\ m = 0 /\ RankOf(p) = 0
        /\ p.kind = "wild" => s = 1000 + 2 * m /\ RankOf(p) = 1
        /\ p.kind = "exact" => s = 999999 + 2 * m /\ RankOf(p) = 2
    BY <1>1, ScoreCovers, PatternFields, SMTT(30) DEF RankOf
  <1>4. /\ q.kind = "any" => t = 1 /\ n = 0 /\ RankOf(q) = 0
        /\ q.kind = "wild" => t = 1000 + 2 * n /\ RankOf(q) = 1
        /\ q.kind = "exact" => t = 999999 + 2 * n /\ RankOf(q) = 2
    BY <1>1, ScoreCovers, PatternFields, SMTT(30) DEF RankOf
  <1>5. /\ p.kind = "any" \/ p.kind = "wild" \/ p.kind = "exact"
        /\ q.kind = "any" \/ q.kind = "wild" \/ q.kind = "exact"
    BY PatternFields
  <1>6. s > t => RankOf(p) > RankOf(q) \/ (RankOf(p) = RankOf(q) /\ m > n)
    BY <1>2, <1>3, <1>4, <1>5
  <1>7. s = t => p.kind = q.kind /\ m = n
    BY <1>2, <1>3, <1>4, <1>5
  <1>8. ASSUME p.kind = q.kind, m = n PROVE p.labels = q.labels
    <2>1. CASE p.kind = "any"
      <3>1. Len(p.labels) = 0 /\ Len(q.labels) = 0 /\ p.labels \in Seq(STRING) /\ q.labels \in Seq(STRING)
        BY <1>1, <1>3, <1>8, <2>1, PatternFields
      <3> QED BY <3>1
    <2>2. CASE p.kind = "exact"
      BY <1>8, <2>2 DEF HostCovers
    <2>3. CASE p.kind = "wild"
      <3>1. IsSuffixOf(p.labels, host) /\ IsSuffixOf(q.labels, host)
        BY <1>8, <2>3 DEF HostCovers
      <3> QED BY <1>1, <1>8, <3>1 DEF IsSuffixOf
    <2> QED BY <1>5, <2>1, <2>2, <2>3
  <1>9. s = t => p = q
    BY <1>7, <1>8, PatternFields
  <1> QED BY <1>1, <1>6, <1>9

-----------------------------------------------------------------------------
(* The loops of hostMatchSpecificity and Match.                            *)

\* b is the largest of the scores, or -1 without any.
TopScore(b, s, n) ==
    /\ b \in Int /\ b >= -1 /\ \A j \in 1..n : s[j] <= b
    /\ b # -1 => \E j \in 1..n : s[j] = b

\* The loop over the patterns of a route keeps the best score
\* (router.go:68-92, routes.go:187-212).
LEMMA SpecificityIs ==
    ASSUME NEW patterns, NEW host, NEW N \in Nat, N = Len(patterns),
           NEW s \in [1..N -> Int], \A i \in 1..N : s[i] = PatternScore(patterns[i], host) /\ s[i] >= -1
    PROVE  TopScore(HostMatchSpecificity(patterns, host), s, N)
  <1> DEFINE g == [i \in 1..N |-> [v \in Int |-> IF s[i] > v THEN s[i] ELSE v]]
  <1>1. Loop(N, Int, -1, g)
    BY DEF Loop
  <1>2. PICK f \in [0..N -> Int] : f[0] = -1 /\ \A i \in 1..N : f[i] = g[i][f[i - 1]]
    <2> HIDE DEF g
    <2>1. PICK f : Arrives(f, N, Int, -1, g)
      BY <1>1, LoopArrives
    <2> QED BY <2>1 DEF Arrives
  <1>3. ASSUME NEW i \in 1..N PROVE f[i] = IF s[i] > f[i - 1] THEN s[i] ELSE f[i - 1]
    <2>1. i - 1 \in 0..N /\ f[i - 1] \in Int
      BY <1>2, SMTT(30)
    <2> QED BY <1>2, <2>1
  <1> DEFINE Step(h, i) == IF i = 0 THEN -1
                           ELSE IF PatternScore(patterns[i], host) > h[i - 1] THEN PatternScore(patterns[i], host)
                           ELSE h[i - 1]
             Def(h) == h = [i \in 0..Len(patterns) |-> Step(h, i)]
             it == CHOOSE h : Def(h)
  <1>4. Def(f)
    <2>1. ASSUME NEW i \in 0..N PROVE f[i] = Step(f, i)
      <3>1. i = 0 \/ (i \in 1..N /\ i # 0)
        OBVIOUS
      <3> QED BY <1>2, <1>3, <3>1
    <2>2. f = [i \in 0..N |-> f[i]]
      BY <1>2
    <2>3. [i \in 0..N |-> f[i]] = [i \in 0..N |-> Step(f, i)]
      BY <2>1
    <2> HIDE DEF Step
    <2> QED BY <2>2, <2>3
  <1>5. Def(it)
    <2> HIDE DEF Def
    <2> QED BY <1>4
  <1>6. HostMatchSpecificity(patterns, host) = it[N]
    BY DEF HostMatchSpecificity
  <1> HIDE DEF it
  <1>7. it[N] = f[N]
    <2> DEFINE G == {i \in 0..N : it[i] = f[i]}
    <2>1. \A i \in 0..N : it[i] = Step(it, i) /\ f[i] = Step(f, i)
      <3> HIDE DEF Step
      <3> QED BY <1>4, <1>5
    <2>2. 0 \in G
      <3>1. Step(it, 0) = Step(f, 0) /\ 0 \in 0..N
        OBVIOUS
      <3> HIDE DEF Step
      <3> QED BY <2>1, <3>1
    <2>3. ASSUME NEW n \in 0..N - 1, n \in G PROVE n + 1 \in G
      <3>1. n + 1 \in 0..N /\ (n + 1) - 1 = n /\ it[n] = f[n]
        BY <2>3
      <3>2. Step(it, n + 1) = Step(f, n + 1)
        BY <3>1
      <3> HIDE DEF Step
      <3> QED BY <2>1, <3>1, <3>2
    <2>4. \A n \in 0..N : n \in G
      <3> HIDE DEF G
      <3> QED BY <2>2, <2>3, UptoInduction
    <2> QED BY <2>4
  <1>8. TopScore(f[N], s, N)
    <2> DEFINE G == {n \in 0..N : TopScore(f[n], s, n)}
    <2>1. 0 \in G
      BY <1>2 DEF TopScore
    <2>2. ASSUME NEW n \in 0..N - 1, n \in G PROVE n + 1 \in G
      <3>1. n + 1 \in 1..N /\ n \in 0..N /\ n + 1 \in 0..N /\ (n + 1) - 1 = n
        OBVIOUS
      <3>2. PICK a, b, x : a = f[n] /\ b = f[n + 1] /\ x = s[n + 1]
        OBVIOUS
      <3>3. b = (IF x > a THEN x ELSE a) /\ x \in Int /\ x >= -1
        BY <1>3, <3>1, <3>2
      <3>4. a \in Int /\ a >= -1 /\ (\A j \in 1..n : s[j] <= a) /\ (a # -1 => \E j \in 1..n : s[j] = a)
        BY <2>2, <3>2 DEF TopScore
      <3>5. \A j \in 1..n + 1 : j \in 1..n \/ j = n + 1
        BY <3>1
      <3>6. b \in Int /\ b >= -1 /\ b >= a /\ b >= x
        BY <3>3, <3>4
      <3>7. ASSUME NEW j \in 1..n + 1 PROVE s[j] <= b
        <4>1. CASE j = n + 1
          BY <3>2, <3>6, <4>1
        <4>2. CASE j \in 1..n
          <5>1. s[j] \in Int /\ s[j] <= a
            BY <3>1, <3>4, <4>2
          <5> QED BY <3>4, <3>6, <5>1
        <4> QED BY <3>5, <4>1, <4>2
      <3>8. ASSUME b # -1 PROVE \E j \in 1..n + 1 : s[j] = b
        <4>1. CASE b = x
          BY <3>1, <3>2, <4>1
        <4>2. CASE b # x
          <5>1. b = a
            BY <3>3, <4>2
          <5>2. PICK j \in 1..n : s[j] = a
            BY <3>4, <3>8, <5>1
          <5> QED BY <3>1, <5>1, <5>2
        <4> QED BY <4>1, <4>2
      <3>9. TopScore(b, s, n + 1)
        BY <3>6, <3>7, <3>8 DEF TopScore
      <3> QED BY <3>1, <3>2, <3>9
    <2>3. \A n \in 0..N : n \in G
      <3> HIDE DEF G
      <3> QED BY <2>1, <2>2, UptoInduction
    <2> QED BY <2>3
  <1> QED BY <1>6, <1>7, <1>8

\* The route with index v is the best of the first n: l are the lengths of the
\* prefixes and s the scores, -1 for no route; M are the routes that match.
Beats(l, s, i, v) == l[i] > l[v] \/ (l[i] = l[v] /\ s[i] > s[v])
BestOf(v, l, s, M, n) ==
    /\ v \in 0..n /\ (v # 0 => v \in M) /\ (v = 0 => \A j \in 1..n : j \notin M)
    /\ \A j \in 1..n : j \in M => ~Beats(l, s, j, v)

\* A route does not beat itself, and every length beats none.
LEMMA BeatsNot ==
    ASSUME NEW a \in Int, NEW b \in Int
    PROVE  ~(a > a) /\ ~(b > b) /\ (a >= 0 => a > -1)
  OBVIOUS

\* To beat a route that was beaten takes no less (router.go:37).
LEMMA BeatsThrough ==
    ASSUME NEW a \in Int, NEW b \in Int, NEW c \in Int, NEW d \in Int, NEW e \in Int, NEW f \in Int,
           ~(a > c \/ (a = c /\ b > d)), e > c \/ (e = c /\ f > d)
    PROVE  ~(a > e \/ (a = e /\ b > f))
  OBVIOUS

\* A loop over routes keeps the one that no other beats (router.go:30-42).
LEMMA BestIndex ==
    ASSUME NEW N \in Nat, NEW l \in [0..N -> Int], NEW s \in [0..N -> Int], NEW M \in SUBSET (1..N),
           l[0] = -1, \A i \in 1..N : l[i] >= 0
    PROVE  \E f : /\ f \in [0..N -> 0..N] /\ f[0] = 0 /\ BestOf(f[N], l, s, M, N)
                  /\ \A i \in 1..N : f[i] = IF i \in M /\ Beats(l, s, i, f[i - 1]) THEN i ELSE f[i - 1]
  <1> DEFINE V == 0..N
             g == [i \in 1..N |-> [v \in V |-> IF i \in M /\ Beats(l, s, i, v) THEN i ELSE v]]
  <1>1. Loop(N, V, 0, g)
    BY DEF Loop
  <1>2. PICK f \in [0..N -> V] : f[0] = 0 /\ \A i \in 1..N : f[i] = g[i][f[i - 1]]
    <2> HIDE DEF g, V
    <2>1. PICK f : Arrives(f, N, V, 0, g)
      BY <1>1, LoopArrives
    <2> QED BY <2>1 DEF Arrives
  <1>3. ASSUME NEW i \in 1..N PROVE f[i] = IF i \in M /\ Beats(l, s, i, f[i - 1]) THEN i ELSE f[i - 1]
    <2>1. i - 1 \in 0..N /\ f[i - 1] \in V
      BY <1>2
    <2> QED BY <1>2, <2>1
  <1> DEFINE G == {n \in 0..N : BestOf(f[n], l, s, M, n)}
  <1>4. 0 \in G
    BY <1>2 DEF BestOf
  <1>5. ASSUME NEW n \in 0..N - 1, n \in G PROVE n + 1 \in G
    <2>1. n + 1 \in 1..N /\ n \in 0..N /\ n + 1 \in 0..N /\ (n + 1) - 1 = n /\ n \in Nat
      OBVIOUS
    <2>2. PICK v, k : v = f[n] /\ k = n + 1
      OBVIOUS
    <2>3. /\ v \in 0..n /\ (v # 0 => v \in M) /\ (v = 0 => \A j \in 1..n : j \notin M)
          /\ \A j \in 1..n : j \in M => ~Beats(l, s, j, v)
      BY <1>5, <2>2 DEF BestOf
    <2>4. f[k] = IF k \in M /\ Beats(l, s, k, v) THEN k ELSE v
      BY <1>3, <2>1, <2>2
    <2>5. \A j \in 1..k : j \in 1..n \/ j = k
      BY <2>1, <2>2
    <2>6. \A j \in 0..N : l[j] \in Int /\ s[j] \in Int
      OBVIOUS
    <2>7. v \in 0..N /\ v \in 0..k /\ k \in 0..N /\ k \in 0..k /\ k # 0
      BY <2>1, <2>2, <2>3
    <2>8. CASE k \in M /\ Beats(l, s, k, v)
      <3>1. f[k] = k
        BY <2>4, <2>8
      <3>2. ASSUME NEW j \in 1..k, j \in M PROVE ~Beats(l, s, j, k)
        <4>1. CASE j = k
          <5>1. l[k] \in Int /\ s[k] \in Int
            BY <2>6, <2>7
          <5>2. ~(l[k] > l[k]) /\ ~(s[k] > s[k])
            BY <5>1, BeatsNot
          <5> QED BY <4>1, <5>2 DEF Beats
        <4>2. CASE j \in 1..n
          <5>1. ~Beats(l, s, j, v) /\ j \in 0..N
            BY <2>1, <2>3, <3>2, <4>2
          <5>2. l[j] \in Int /\ s[j] \in Int /\ l[k] \in Int /\ s[k] \in Int /\ l[v] \in Int /\ s[v] \in Int
            BY <2>6, <2>7, <5>1
          <5>3. ~(l[j] > l[v] \/ (l[j] = l[v] /\ s[j] > s[v])) /\ (l[k] > l[v] \/ (l[k] = l[v] /\ s[k] > s[v]))
            BY <2>8, <5>1 DEF Beats
          <5>4. ~(l[j] > l[k] \/ (l[j] = l[k] /\ s[j] > s[k]))
            BY <5>2, <5>3, BeatsThrough
          <5> QED BY <5>4 DEF Beats
        <4> QED BY <2>5, <4>1, <4>2
      <3>3. BestOf(k, l, s, M, k)
        BY <2>7, <2>8, <3>2 DEF BestOf
      <3> QED BY <2>1, <2>2, <3>1, <3>3
    <2>9. CASE ~(k \in M /\ Beats(l, s, k, v))
      <3>1. f[k] = v
        BY <2>4, <2>9
      <3>2. ASSUME NEW j \in 1..k, j \in M PROVE ~Beats(l, s, j, v)
        BY <2>3, <2>5, <2>9, <3>2
      <3>3. ASSUME v = 0, NEW j \in 1..k PROVE j \notin M
        <4>1. CASE j = k
          <5>1. l[k] >= 0 /\ l[v] = -1 /\ l[k] \in Int
            BY <2>1, <2>2, <3>3
          <5>2. Beats(l, s, k, v)
            <6>1. l[k] > l[v]
              BY <5>1, BeatsNot
            <6> QED BY <6>1 DEF Beats
          <5> QED BY <2>9, <4>1, <5>2
        <4>2. CASE j \in 1..n
          BY <2>3, <3>3, <4>2
        <4> QED BY <2>5, <4>1, <4>2
      <3>4. BestOf(v, l, s, M, k)
        BY <2>3, <2>7, <3>2, <3>3 DEF BestOf
      <3> QED BY <2>1, <2>2, <3>1, <3>4
    <2> QED BY <2>8, <2>9
  <1>6. \A n \in 0..N : n \in G
    <2> HIDE DEF G
    <2> QED BY <1>4, <1>5, UptoInduction
  <1>7. BestOf(f[N], l, s, M, N)
    BY <1>6
  <1> QED BY <1>2, <1>3, <1>7

-----------------------------------------------------------------------------
(* Route tables.                                                           *)

\* A table as Validate and Load leave it: normalised, and no two routes have a
\* selector in common.
TableRoute(x) == /\ x.prefix \in Seq(STRING) /\ Len(x.hosts) \in Nat /\ DOMAIN x.hosts = 1..Len(x.hosts)
                 /\ \A i \in 1..Len(x.hosts) : HostPattern(x.hosts[i])
Parted(x, y) == x.prefix = y.prefix =>
                    \A i \in 1..Len(x.hosts), j \in 1..Len(y.hosts) : x.hosts[i] # y.hosts[j]
GoodTable(T) == /\ Len(T) \in Nat
                /\ \A i \in 1..Len(T) : TableRoute(T[i])
                /\ \A i, j \in 1..Len(T) : i # j => Parted(T[i], T[j])

\* The score and the length with which route i enters the loop of Match.
Scores(T, host) == [i \in 0..Len(T) |-> IF i = 0 THEN -1 ELSE HostMatchSpecificity(T[i].hosts, host)]
Lengths(T) == [i \in 0..Len(T) |-> IF i = 0 THEN -1 ELSE Len(T[i].prefix)]
Matching(T, host, path) == {i \in 1..Len(T) : Scores(T, host)[i] >= 0 /\ IsPrefix(T[i].prefix, path)}

\* The score of a route is that of its best pattern.
LEMMA RouteScore ==
    ASSUME NEW x, TableRoute(x), NEW host \in Seq(STRING), NEW b, b = HostMatchSpecificity(x.hosts, host)
    PROVE  /\ b \in Int /\ b >= -1
           /\ \A j \in 1..Len(x.hosts) : PatternScore(x.hosts[j], host) \in Int /\ PatternScore(x.hosts[j], host) <= b
           /\ b >= 0 => \E j \in 1..Len(x.hosts) : PatternScore(x.hosts[j], host) = b
  <1>1. PICK N, h : N = Len(x.hosts) /\ h = x.hosts
    OBVIOUS
  <1>2. N \in Nat /\ \A i \in 1..N : HostPattern(h[i])
    BY <1>1 DEF TableRoute
  <1>3. PICK s : s = [i \in 1..N |-> PatternScore(h[i], host)]
    OBVIOUS
  <1>4. ASSUME NEW i \in 1..N PROVE s[i] = PatternScore(h[i], host) /\ s[i] \in Int /\ s[i] >= -1
    <2>1. PICK p, v : p = h[i] /\ v = PatternScore(p, host)
      OBVIOUS
    <2>2. HostPattern(p)
      BY <1>2, <2>1
    <2>3. v \in Int /\ v >= -1
      BY <2>1, <2>2, ScoreCovers
    <2> QED BY <1>3, <2>1, <2>3
  <1>5. s \in [1..N -> Int]
    BY <1>3, <1>4
  <1>6. TopScore(b, s, N)
    BY <1>1, <1>2, <1>4, <1>5, SpecificityIs
  <1>7. b \in Int /\ b >= -1 /\ (\A j \in 1..N : s[j] <= b) /\ (b # -1 => \E j \in 1..N : s[j] = b)
    BY <1>6 DEF TopScore
  <1>8. b >= 0 => b # -1
    BY <1>7
  <1> QED BY <1>1, <1>4, <1>7, <1>8

\* The name with which the loop of Match ends.
NameOf(T, v) == IF v = 0 THEN "unmatched" ELSE T[v].name

\* Match finds a route that matches and that no matching route beats
\* (router.go:24-48, routes.go:142-162).
LEMMA MatchIs ==
    ASSUME NEW T, GoodTable(T), NEW host \in Seq(STRING), NEW path
    PROVE  \E v : /\ BestOf(v, Lengths(T), Scores(T, host), Matching(T, host, path), Len(T))
                  /\ Match(T, host, path) = NameOf(T, v)
  <1>1. PICK N, l, s, M : /\ N = Len(T) /\ l = Lengths(T) /\ s = Scores(T, host)
                          /\ M = Matching(T, host, path)
    OBVIOUS
  <1>2. N \in Nat /\ \A i \in 1..N : TableRoute(T[i])
    BY <1>1 DEF GoodTable
  <1>3. /\ l = [i \in 0..N |-> IF i = 0 THEN -1 ELSE Len(T[i].prefix)]
        /\ s = [i \in 0..N |-> IF i = 0 THEN -1 ELSE HostMatchSpecificity(T[i].hosts, host)]
        /\ M = {i \in 1..N : s[i] >= 0 /\ IsPrefix(T[i].prefix, path)}
    BY <1>1 DEF Lengths, Scores, Matching
  <1>4. ASSUME NEW i \in 1..N
        PROVE  /\ i \in 0..N /\ i # 0 /\ l[i] = Len(T[i].prefix) /\ l[i] \in Nat
               /\ s[i] = HostMatchSpecificity(T[i].hosts, host) /\ s[i] \in Int
    <2>1. i \in 0..N /\ i # 0
      BY <1>2
    <2>2. TableRoute(T[i])
      BY <1>2
    <2>3. Len(T[i].prefix) \in Nat
      BY <2>2 DEF TableRoute
    <2>4. PICK b : b = HostMatchSpecificity(T[i].hosts, host)
      OBVIOUS
    <2>5. b \in Int
      BY <2>2, <2>4, RouteScore
    <2> QED BY <1>3, <2>1, <2>3, <2>4, <2>5
  <1>5. l[0] = -1 /\ s[0] = -1 /\ 0 \in 0..N
    BY <1>2, <1>3
  <1>6. \A i \in 0..N : i = 0 \/ i \in 1..N
    BY <1>2
  <1>7. l \in [0..N -> Int] /\ s \in [0..N -> Int] /\ M \in SUBSET (1..N)
    <2>1. \A i \in 0..N : l[i] \in Int /\ s[i] \in Int
      BY <1>4, <1>5, <1>6
    <2> QED BY <1>3, <2>1
  <1>8. \A i \in 1..N : l[i] >= 0
    BY <1>4
  <1>9. PICK f : /\ f \in [0..N -> 0..N] /\ f[0] = 0 /\ BestOf(f[N], l, s, M, N)
                 /\ \A i \in 1..N : f[i] = IF i \in M /\ Beats(l, s, i, f[i - 1]) THEN i ELSE f[i - 1]
    BY <1>2, <1>5, <1>7, <1>8, BestIndex
  <1> DEFINE Rec(v) == [name |-> NameOf(T, v), length |-> l[v], score |-> s[v]]
             Step(h, i) == IF i = 0 THEN Unmatched ELSE Better(h[i - 1], T[i], host, path)
             Def(h) == h = [i \in 0..Len(T) |-> Step(h, i)]
             it == CHOOSE h : Def(h)
  <1>10. PICK r : r = [i \in 0..N |-> Rec(f[i])]
    OBVIOUS
  <1>11. Rec(0) = Unmatched
    BY <1>5 DEF Unmatched, NameOf
  <1>12. ASSUME NEW i \in 1..N, NEW v \in 0..N
         PROVE  Better(Rec(v), T[i], host, path) = Rec(IF i \in M /\ Beats(l, s, i, v) THEN i ELSE v)
    <2>1. PICK c, b : c = HostMatchSpecificity(T[i].hosts, host) /\ b = Len(T[i].prefix)
      OBVIOUS
    <2>2. c = s[i] /\ b = l[i] /\ i # 0
      BY <1>4, <2>1
    <2>3. Rec(v).length = l[v] /\ Rec(v).score = s[v]
      OBVIOUS
    <2>4. i \in M <=> c >= 0 /\ IsPrefix(T[i].prefix, path)
      BY <1>3, <2>2
    <2>5. c < 0 <=> ~(c >= 0)
      BY <1>4, <2>2
    <2>6. Rec(i) = [name |-> T[i].name, length |-> b, score |-> c]
      BY <2>2 DEF NameOf
    <2>7. Better(Rec(v), T[i], host, path) =
             IF c < 0 \/ ~IsPrefix(T[i].prefix, path) THEN Rec(v)
             ELSE IF b > l[v] \/ (b = l[v] /\ c > s[v]) THEN [name |-> T[i].name, length |-> b, score |-> c]
             ELSE Rec(v)
      <3> HIDE DEF Rec
      <3> QED BY <2>1, <2>3 DEF Better, PathPrefixMatches
    <2>8. Beats(l, s, i, v) <=> b > l[v] \/ (b = l[v] /\ c > s[v])
      BY <2>2 DEF Beats
    <2> HIDE DEF Rec
    <2> QED BY <2>4, <2>5, <2>6, <2>7, <2>8
  <1> HIDE DEF Rec
  <1>13. ASSUME NEW i \in 0..N PROVE r[i] = Step(r, i)
    <2>1. CASE i = 0
      BY <1>5, <1>9, <1>10, <1>11, <2>1
    <2>2. CASE i # 0
      <3>1. i \in 1..N /\ i - 1 \in 0..N
        BY <1>2, <2>2
      <3>2. PICK v : v = f[i - 1]
        OBVIOUS
      <3>3. v \in 0..N /\ r[i - 1] = Rec(v) /\ r[i] = Rec(f[i])
        BY <1>9, <1>10, <3>1, <3>2
      <3>4. f[i] = IF i \in M /\ Beats(l, s, i, v) THEN i ELSE v
        BY <1>9, <3>1, <3>2
      <3>5. Better(Rec(v), T[i], host, path) = Rec(f[i])
        BY <1>12, <3>1, <3>3, <3>4
      <3> QED BY <2>2, <3>3, <3>5
    <2> QED BY <2>1, <2>2
  <1>14. Def(r)
    <2>1. r = [i \in 0..N |-> r[i]]
      BY <1>10
    <2>2. [i \in 0..N |-> r[i]] = [i \in 0..N |-> Step(r, i)]
      BY <1>13
    <2> HIDE DEF Step
    <2> QED BY <1>1, <2>1, <2>2
  <1>15. Def(it)
    <2> HIDE DEF Def
    <2> QED BY <1>14
  <1>16. Match(T, host, path) = it[N].name
    BY <1>1 DEF Match
  <1> HIDE DEF it
  <1>17. it[N] = r[N]
    <2> DEFINE G == {i \in 0..N : it[i] = r[i]}
    <2>1. \A i \in 0..N : it[i] = Step(it, i) /\ r[i] = Step(r, i)
      <3> HIDE DEF Step
      <3> QED BY <1>1, <1>14, <1>15
    <2>2. 0 \in G
      <3>1. Step(it, 0) = Step(r, 0) /\ 0 \in 0..N
        BY <1>5
      <3> HIDE DEF Step
      <3> QED BY <2>1, <3>1
    <2>3. ASSUME NEW n \in 0..N - 1, n \in G PROVE n + 1 \in G
      <3>1. n + 1 \in 0..N /\ (n + 1) - 1 = n /\ it[n] = r[n]
        BY <1>2, <2>3
      <3>2. Step(it, n + 1) = Step(r, n + 1)
        BY <3>1
      <3> HIDE DEF Step
      <3> QED BY <2>1, <3>1, <3>2
    <2>4. \A n \in 0..N : n \in G
      <3> HIDE DEF G
      <3> QED BY <1>2, <2>2, <2>3, UptoInduction
    <2> QED BY <1>2, <2>4
  <1>18. N \in 0..N /\ r[N] = Rec(f[N])
    BY <1>2, <1>10
  <1>19. Rec(f[N]).name = NameOf(T, f[N])
    BY DEF Rec
  <1>20. Match(T, host, path) = NameOf(T, f[N])
    BY <1>16, <1>17, <1>18, <1>19
  <1> QED BY <1>1, <1>9, <1>20

-----------------------------------------------------------------------------
(* The most specific selector.                                             *)

\* The selectors of a table, those that cover a request, and the owners of
\* those that are more specific than the others, as in ProgramsAgreeOnRoute.
SelectorOf(T, i, p) == [kind |-> p.kind, labels |-> p.labels, prefix |-> T[i].prefix, owner |-> T[i].name]
AllOf(T) == UNION {{SelectorOf(T, i, p) : p \in ToSet(T[i].hosts)} : i \in 1..Len(T)}
Covering(T, host, path) == {x \in AllOf(T) : Covers(x, host, path)}
Wanted(C) == {x.owner : x \in {y \in C : \A z \in C \ {y} : MoreSpecific(y, z)}}

\* A pattern of route i, by its index.
Sel(T, i, k) == SelectorOf(T, i, T[i].hosts[k])

\* The selectors, by the indices of their routes and patterns.
LEMMA AllOfIs ==
    ASSUME NEW T, GoodTable(T), NEW x
    PROVE  x \in AllOf(T) <=> \E i \in 1..Len(T) : \E k \in 1..Len(T[i].hosts) : x = Sel(T, i, k)
  <1>1. ASSUME NEW i \in 1..Len(T)
        PROVE  x \in {SelectorOf(T, i, p) : p \in ToSet(T[i].hosts)}
                 <=> \E k \in 1..Len(T[i].hosts) : x = Sel(T, i, k)
    <2>1. TableRoute(T[i])
      BY DEF GoodTable
    <2>2. DOMAIN T[i].hosts = 1..Len(T[i].hosts)
      BY <2>1 DEF TableRoute
    <2>3. ToSet(T[i].hosts) = {T[i].hosts[k] : k \in 1..Len(T[i].hosts)}
      BY <2>2 DEF ToSet
    <2> QED BY <2>3 DEF Sel
  <1>2. x \in AllOf(T) <=> \E i \in 1..Len(T) : x \in {SelectorOf(T, i, p) : p \in ToSet(T[i].hosts)}
    BY DEF AllOf
  <1> QED BY <1>1, <1>2

\* A selector covers a request when its pattern covers the host and its prefix
\* the path.
LEMMA SelCovers ==
    ASSUME NEW T, NEW i, NEW k, NEW host, NEW path, HostPattern(T[i].hosts[k])
    PROVE  Covers(Sel(T, i, k), host, path) <=> IsPrefix(T[i].prefix, path) /\ HostCovers(T[i].hosts[k], host)
  <1>1. PICK p, x : p = T[i].hosts[k] /\ x = Sel(T, i, k)
    OBVIOUS
  <1>2. x.kind = p.kind /\ x.labels = p.labels /\ x.prefix = T[i].prefix
    BY <1>1 DEF Sel, SelectorOf
  <1>3. p.kind = "any" \/ p.kind = "wild" \/ p.kind = "exact"
    BY <1>1, PatternFields
  <1>4. CASE p.kind = "any"
    BY <1>1, <1>2, <1>4 DEF Covers, HostCovers
  <1>5. CASE p.kind = "wild"
    BY <1>1, <1>2, <1>5 DEF Covers, HostCovers
  <1>6. CASE p.kind = "exact"
    BY <1>1, <1>2, <1>6 DEF Covers, HostCovers
  <1> QED BY <1>3, <1>4, <1>5, <1>6

\* A route matches when one of its selectors covers the request
\* (router.go:31-34).
LEMMA MatchingIs ==
    ASSUME NEW T, GoodTable(T), NEW host \in Seq(STRING), NEW path, NEW i \in 1..Len(T)
    PROVE  /\ i \in Matching(T, host, path)
                 => \E k \in 1..Len(T[i].hosts) : /\ Covers(Sel(T, i, k), host, path)
                                                /\ PatternScore(T[i].hosts[k], host) = Scores(T, host)[i]
           /\ \A k \in 1..Len(T[i].hosts) :
                 Covers(Sel(T, i, k), host, path) => /\ i \in Matching(T, host, path)
                                                    /\ PatternScore(T[i].hosts[k], host) <= Scores(T, host)[i]
  <1>1. PICK x, b : x = T[i] /\ b = HostMatchSpecificity(x.hosts, host)
    OBVIOUS
  <1>2. TableRoute(x) /\ Len(T) \in Nat
    BY <1>1 DEF GoodTable
  <1>3. Scores(T, host)[i] = b
    BY <1>1, <1>2 DEF Scores
  <1>4. /\ b \in Int /\ b >= -1
        /\ \A j \in 1..Len(x.hosts) : PatternScore(x.hosts[j], host) \in Int /\ PatternScore(x.hosts[j], host) <= b
        /\ b >= 0 => \E j \in 1..Len(x.hosts) : PatternScore(x.hosts[j], host) = b
    BY <1>1, <1>2, RouteScore
  <1>5. \A k \in 1..Len(x.hosts) : HostPattern(x.hosts[k])
    BY <1>2 DEF TableRoute
  <1>6. \A k \in 1..Len(x.hosts) : PatternScore(x.hosts[k], host) >= 0 <=> HostCovers(x.hosts[k], host)
    BY <1>5, ScoreCovers
  <1>7. \A k \in 1..Len(x.hosts) :
          Covers(Sel(T, i, k), host, path) <=> IsPrefix(x.prefix, path) /\ HostCovers(x.hosts[k], host)
    BY <1>1, <1>5, SelCovers
  <1>8. i \in Matching(T, host, path) <=> b >= 0 /\ IsPrefix(x.prefix, path)
    BY <1>1, <1>3 DEF Matching
  <1>9. ASSUME i \in Matching(T, host, path)
        PROVE  \E k \in 1..Len(x.hosts) : Covers(Sel(T, i, k), host, path) /\ PatternScore(x.hosts[k], host) = b
    <2>1. b >= 0 /\ IsPrefix(x.prefix, path)
      BY <1>8, <1>9
    <2>2. PICK k \in 1..Len(x.hosts) : PatternScore(x.hosts[k], host) = b
      BY <1>4, <2>1
    <2>3. HostCovers(x.hosts[k], host)
      BY <1>6, <2>1, <2>2
    <2> QED BY <1>7, <2>1, <2>2, <2>3
  <1>10. ASSUME NEW k \in 1..Len(x.hosts), Covers(Sel(T, i, k), host, path)
         PROVE  i \in Matching(T, host, path) /\ PatternScore(x.hosts[k], host) <= b
    <2>1. PICK c : c = PatternScore(x.hosts[k], host)
      OBVIOUS
    <2>2. c \in Int /\ c <= b /\ c >= 0
      BY <1>4, <1>6, <1>7, <1>10, <2>1
    <2>3. b >= 0
      BY <1>4, <2>2
    <2> QED BY <1>7, <1>8, <1>10, <2>1, <2>2, <2>3
  <1> QED BY <1>1, <1>3, <1>9, <1>10

\* What being more specific says, with the ranks of RankOf.
LEMMA MoreIs ==
    ASSUME NEW x, NEW y
    PROVE  MoreSpecific(x, y) <=>
             \/ Len(x.prefix) > Len(y.prefix)
             \/ /\ Len(x.prefix) = Len(y.prefix)
                /\ \/ RankOf(x) > RankOf(y)
                   \/ RankOf(x) = RankOf(y) /\ Len(x.labels) > Len(y.labels)
  BY DEF MoreSpecific, RankOf

\* Two prefixes of a path that are as long as each other are the same.
LEMMA SamePrefix ==
    ASSUME NEW p \in Seq(STRING), NEW q \in Seq(STRING), NEW path,
           IsPrefix(p, path), IsPrefix(q, path), Len(p) = Len(q)
    PROVE  p = q
  <1>1. SubSeq(p, 1, Len(p)) = SubSeq(path, 1, Len(p)) /\ SubSeq(q, 1, Len(q)) = SubSeq(path, 1, Len(q))
    BY DEF IsPrefix
  <1>2. SubSeq(p, 1, Len(p)) = p /\ SubSeq(q, 1, Len(q)) = q
    OBVIOUS
  <1> QED BY <1>1, <1>2

\* A selector has the rank and the labels of its pattern.
LEMMA SelFields ==
    ASSUME NEW T, NEW i, NEW k, HostPattern(T[i].hosts[k])
    PROVE  /\ RankOf(Sel(T, i, k)) = RankOf(T[i].hosts[k]) /\ RankOf(T[i].hosts[k]) \in Nat
           /\ Sel(T, i, k).labels = T[i].hosts[k].labels /\ Len(T[i].hosts[k].labels) \in Nat
           /\ Sel(T, i, k).prefix = T[i].prefix /\ Sel(T, i, k).owner = T[i].name
  <1>1. PICK p, x : p = T[i].hosts[k] /\ x = Sel(T, i, k)
    OBVIOUS
  <1>2. x.kind = p.kind /\ x.labels = p.labels /\ x.prefix = T[i].prefix /\ x.owner = T[i].name
    BY <1>1 DEF Sel, SelectorOf
  <1>3. (p.kind = "any" \/ p.kind = "wild" \/ p.kind = "exact") /\ Len(p.labels) \in Nat
    BY <1>1, PatternFields
  <1>4. RankOf(x) = RankOf(p) /\ RankOf(p) \in Nat
    <2>1. CASE p.kind = "any"
      BY <1>2, <2>1 DEF RankOf
    <2>2. CASE p.kind = "wild"
      BY <1>2, <2>2 DEF RankOf
    <2>3. CASE p.kind = "exact"
      BY <1>2, <2>3 DEF RankOf
    <2> QED BY <1>3, <2>1, <2>2, <2>3
  <1> QED BY <1>1, <1>2, <1>3, <1>4

\* Neither of two selectors is more specific than the other and less.
LEMMA MoreOneWay ==
    ASSUME NEW a \in Nat, NEW b \in Nat, NEW c \in Nat, NEW d \in Nat, NEW e \in Nat, NEW f \in Nat,
           a > b \/ (a = b /\ (c > d \/ (c = d /\ e > f)))
    PROVE  ~(b > a \/ (b = a /\ (d > c \/ (d = c /\ f > e))))
  OBVIOUS

\* The selector with the best score of the best route is more specific than
\* every other that covers the request: no two have the same length of path and
\* the same score (router.go:24-115).
LEMMA BestIsSpecific ==
    ASSUME NEW T, GoodTable(T), NEW host \in Seq(STRING), NEW path,
           NEW v \in 1..Len(T), BestOf(v, Lengths(T), Scores(T, host), Matching(T, host, path), Len(T)),
           NEW k \in 1..Len(T[v].hosts), Covers(Sel(T, v, k), host, path),
           PatternScore(T[v].hosts[k], host) = Scores(T, host)[v],
           NEW j \in 1..Len(T), NEW m \in 1..Len(T[j].hosts), Covers(Sel(T, j, m), host, path),
           Sel(T, j, m) # Sel(T, v, k)
    PROVE  MoreSpecific(Sel(T, v, k), Sel(T, j, m)) /\ ~MoreSpecific(Sel(T, j, m), Sel(T, v, k))
  <1>1. PICK x, y, p, q : /\ x = Sel(T, v, k) /\ y = Sel(T, j, m)
                          /\ p = T[v].hosts[k] /\ q = T[j].hosts[m]
    OBVIOUS
  <1>2. TableRoute(T[v]) /\ TableRoute(T[j])
    BY DEF GoodTable
  <1>3. HostPattern(p) /\ HostPattern(q) /\ T[v].prefix \in Seq(STRING) /\ T[j].prefix \in Seq(STRING)
    BY <1>1, <1>2 DEF TableRoute
  <1>4. PICK a, b, c, d, e, f : /\ a = Len(T[v].prefix) /\ b = Len(T[j].prefix)
                                /\ c = RankOf(p) /\ d = RankOf(q)
                                /\ e = Len(p.labels) /\ f = Len(q.labels)
    OBVIOUS
  <1>5. a \in Nat /\ b \in Nat /\ c \in Nat /\ d \in Nat /\ e \in Nat /\ f \in Nat
    <2>1. a \in Nat /\ b \in Nat
      BY <1>3, <1>4
    <2>2. c \in Nat /\ d \in Nat /\ e \in Nat /\ f \in Nat
      BY <1>1, <1>3, <1>4, SelFields
    <2> QED BY <2>1, <2>2
  <1>6. /\ Len(x.prefix) = a /\ Len(y.prefix) = b /\ RankOf(x) = c /\ RankOf(y) = d
        /\ Len(x.labels) = e /\ Len(y.labels) = f
    <2>1. HostPattern(T[v].hosts[k]) /\ HostPattern(T[j].hosts[m])
      BY <1>1, <1>3
    <2>2. RankOf(x) = RankOf(p) /\ x.labels = p.labels /\ x.prefix = T[v].prefix
      BY <1>1, <2>1, SelFields
    <2>3. RankOf(y) = RankOf(q) /\ y.labels = q.labels /\ y.prefix = T[j].prefix
      BY <1>1, <2>1, SelFields
    <2> QED BY <1>4, <2>2, <2>3
  <1>7. /\ IsPrefix(T[v].prefix, path) /\ HostCovers(p, host)
        /\ IsPrefix(T[j].prefix, path) /\ HostCovers(q, host)
    BY <1>1, <1>3, SelCovers
  <1>8. PICK s, r, g, h : /\ s = PatternScore(p, host) /\ r = PatternScore(q, host)
                          /\ g = Scores(T, host)[v] /\ h = Scores(T, host)[j]
    OBVIOUS
  <1>9. s \in Int /\ r \in Int /\ s = g
    BY <1>1, <1>3, <1>8, ScoreCovers, SMTT(30)
  <1>10. j \in Matching(T, host, path) /\ r <= h
    BY <1>1, <1>8, MatchingIs
  <1>11. h \in Int
    <2>1. PICK z : z = HostMatchSpecificity(T[j].hosts, host)
      OBVIOUS
    <2>2. z \in Int
      BY <1>2, <2>1, RouteScore
    <2>3. h = z
      BY <1>8, <2>1 DEF Scores, GoodTable
    <2> QED BY <2>2, <2>3
  <1>12. Lengths(T)[v] = a /\ Lengths(T)[j] = b
    BY <1>4 DEF Lengths, GoodTable
  <1>13. ~(b > a \/ (b = a /\ h > g))
    <2>1. ~Beats(Lengths(T), Scores(T, host), j, v)
      BY <1>10 DEF BestOf
    <2> QED BY <1>8, <1>12, <2>1 DEF Beats
  <1>14. b = a => s >= r
    BY <1>5, <1>9, <1>10, <1>11, <1>13
  <1>15. ~(b = a /\ s = r)
    <2>1. SUFFICES ASSUME b = a, s = r PROVE FALSE
      OBVIOUS
    <2>2. p = q
      BY <1>3, <1>7, <1>8, <2>1, ScoreOrders
    <2>3. T[v].prefix = T[j].prefix
      BY <1>3, <1>4, <1>7, <2>1, SamePrefix
    <2>4. CASE v = j
      <3>1. Sel(T, j, m) = Sel(T, v, k)
        BY <1>1, <2>2, <2>4 DEF Sel
      <3> QED BY <3>1
    <2>5. CASE v # j
      <3>1. Parted(T[v], T[j])
        BY <2>5 DEF GoodTable
      <3> QED BY <1>1, <2>2, <2>3, <3>1 DEF Parted
    <2> QED BY <2>4, <2>5
  <1>16. s > r => c > d \/ (c = d /\ e > f)
    BY <1>3, <1>4, <1>7, <1>8, ScoreOrders
  <1>17. a > b \/ (a = b /\ (c > d \/ (c = d /\ e > f)))
    <2>1. a > b \/ a = b
      BY <1>5, <1>13
    <2>2. a = b => s > r
      BY <1>9, <1>14, <1>15
    <2> QED BY <1>16, <2>1, <2>2
  <1>18. ~(b > a \/ (b = a /\ (d > c \/ (d = c /\ f > e))))
    BY <1>5, <1>17, MoreOneWay
  <1>19. MoreSpecific(x, y)
    BY <1>6, <1>17, MoreIs
  <1>20. ~MoreSpecific(y, x)
    BY <1>6, <1>18, MoreIs
  <1> QED BY <1>1, <1>19, <1>20

\* Of a good table Match finds the owner of the one most specific selector
\* that covers the request, or nothing if none does.
LEMMA MatchFinds ==
    ASSUME NEW T, GoodTable(T), NEW host \in Seq(STRING), NEW path
    PROVE  IF Covering(T, host, path) = {} THEN Match(T, host, path) = "unmatched"
           ELSE Wanted(Covering(T, host, path)) = {Match(T, host, path)}
  <1>1. PICK v : /\ BestOf(v, Lengths(T), Scores(T, host), Matching(T, host, path), Len(T))
                 /\ Match(T, host, path) = NameOf(T, v)
    BY MatchIs
  <1>2. PICK C, M : C = Covering(T, host, path) /\ M = Matching(T, host, path)
    OBVIOUS
  <1>3. \A x : x \in C <=> \E i \in 1..Len(T) : \E k \in 1..Len(T[i].hosts) :
                              x = Sel(T, i, k) /\ Covers(Sel(T, i, k), host, path)
    <2> SUFFICES ASSUME NEW x
                 PROVE  x \in C <=> \E i \in 1..Len(T) : \E k \in 1..Len(T[i].hosts) :
                                       x = Sel(T, i, k) /\ Covers(Sel(T, i, k), host, path)
      OBVIOUS
    <2>1. x \in AllOf(T) <=> \E i \in 1..Len(T) : \E k \in 1..Len(T[i].hosts) : x = Sel(T, i, k)
      BY AllOfIs
    <2>2. x \in C <=> x \in AllOf(T) /\ Covers(x, host, path)
      BY <1>2 DEF Covering
    <2> QED BY <2>1, <2>2
  <1>4. Len(T) \in Nat
    BY DEF GoodTable
  <1>5. v \in 0..Len(T) /\ (v # 0 => v \in M) /\ (v = 0 => \A j \in 1..Len(T) : j \notin M)
    BY <1>1, <1>2 DEF BestOf
  <1>6. CASE C = {}
    <2>1. \A i \in 1..Len(T) : i \notin M
      <3> SUFFICES ASSUME NEW i \in 1..Len(T), i \in M PROVE FALSE
        OBVIOUS
      <3>1. PICK k \in 1..Len(T[i].hosts) : Covers(Sel(T, i, k), host, path)
        BY <1>2, MatchingIs
      <3>2. Sel(T, i, k) \in C
        BY <1>3, <3>1
      <3> QED BY <1>6, <3>2
    <2>2. v = 0
      BY <1>4, <1>5, <2>1
    <2> QED BY <1>1, <1>2, <1>6, <2>2 DEF NameOf
  <1>7. CASE C # {}
    <2>1. v # 0
      <3>1. PICK x : x \in C
        BY <1>7
      <3>2. PICK i \in 1..Len(T) : \E k \in 1..Len(T[i].hosts) : x = Sel(T, i, k) /\ Covers(Sel(T, i, k), host, path)
        BY <1>3, <3>1
      <3>3. PICK k \in 1..Len(T[i].hosts) : Covers(Sel(T, i, k), host, path)
        BY <3>2
      <3>4. i \in M
        BY <1>2, <3>3, MatchingIs
      <3> QED BY <1>5, <3>4
    <2>2. v \in 1..Len(T) /\ v \in M
      BY <1>4, <1>5, <2>1
    <2>3. PICK k \in 1..Len(T[v].hosts) : /\ Covers(Sel(T, v, k), host, path)
                                         /\ PatternScore(T[v].hosts[k], host) = Scores(T, host)[v]
      BY <1>2, <2>2, MatchingIs
    <2>4. PICK x : x = Sel(T, v, k)
      OBVIOUS
    <2>5. x \in C
      BY <1>3, <2>2, <2>3, <2>4
    <2>6. ASSUME NEW y \in C, y # x PROVE MoreSpecific(x, y) /\ ~MoreSpecific(y, x)
      <3>1. PICK j \in 1..Len(T) : \E m \in 1..Len(T[j].hosts) : y = Sel(T, j, m) /\ Covers(Sel(T, j, m), host, path)
        BY <1>3
      <3>2. PICK m \in 1..Len(T[j].hosts) : y = Sel(T, j, m) /\ Covers(Sel(T, j, m), host, path)
        BY <3>1
      <3> QED BY <1>1, <2>2, <2>3, <2>4, <2>6, <3>2, BestIsSpecific
    <2>7. {y \in C : \A z \in C \ {y} : MoreSpecific(y, z)} = {x}
      <3>1. x \in {y \in C : \A z \in C \ {y} : MoreSpecific(y, z)}
        BY <2>5, <2>6
      <3>2. ASSUME NEW y \in C, \A z \in C \ {y} : MoreSpecific(y, z) PROVE y = x
        BY <2>5, <2>6, <3>2
      <3> QED BY <3>1, <3>2
    <2>8. x.owner = NameOf(T, v)
      <3>1. TableRoute(T[v])
        BY <2>2 DEF GoodTable
      <3>2. HostPattern(T[v].hosts[k])
        BY <3>1 DEF TableRoute
      <3>3. x.owner = T[v].name
        BY <2>4, <3>2, SelFields
      <3> QED BY <2>1, <3>3 DEF NameOf
    <2>9. Wanted(C) = {x.owner}
      BY <2>7 DEF Wanted
    <2> QED BY <1>1, <1>2, <1>7, <2>8, <2>9
  <1> QED BY <1>2, <1>6, <1>7

-----------------------------------------------------------------------------
(* What both programs accept.                                              *)

\* The length of a list that is written as a function.
LEMMA ListLength ==
    ASSUME NEW n \in Nat, NEW f, f = [i \in 1..n |-> f[i]]
    PROVE  Len(f) = n /\ DOMAIN f = 1..n /\ f \in Seq({f[i] : i \in 1..n})
  <1>1. f \in [1..n -> {f[i] : i \in 1..n}]
    OBVIOUS
  <1>2. f \in Seq({f[i] : i \in 1..n})
    BY <1>1
  <1> QED BY <1>1, <1>2

\* What RoutingValues says of a route that somebody writes.
LEMMA RawFields ==
    ASSUME NEW x \in RawRoutes
    PROVE  /\ x.hosts \in Seq(Patterns) /\ x.prefix.segments \in Seq(STRING)
           /\ \A k \in 1..Len(x.hosts) : HostPattern(NormalizeRouteHostPattern(x.hosts[k]))
  <1>1. /\ x.hosts \in Seq(Patterns) /\ x.prefix.segments \in Seq(STRING)
        /\ \A i \in 1..Len(x.hosts) :
              Len(x.hosts[i].labels) \in (IF x.hosts[i].kind = "any" THEN {0} ELSE 1..MaxLabels)
    BY RoutingValues
  <1>2. ASSUME NEW k \in 1..Len(x.hosts) PROVE HostPattern(NormalizeRouteHostPattern(x.hosts[k]))
    <2>1. PICK h, p : h = x.hosts[k] /\ p = NormalizeRouteHostPattern(h)
      OBVIOUS
    <2>2. h \in Patterns /\ Len(h.labels) \in (IF h.kind = "any" THEN {0} ELSE 1..MaxLabels)
      BY <1>1, <2>1
    <2>3. p = [kind |-> h.kind, labels |-> h.labels]
      BY <2>1 DEF NormalizeRouteHostPattern
    <2>4. h.kind \in {"any", "wild", "exact"} /\ h.labels \in Seq(STRING)
      BY <2>2 DEF Patterns
    <2>5. p.kind = h.kind /\ p.labels = h.labels
      BY <2>3
    <2>6. p \in [kind : {"any", "wild", "exact"}, labels : Seq(STRING)]
      BY <2>3, <2>4
    <2>7. HostPattern(p)
      BY <2>2, <2>5, <2>6 DEF HostPattern
    <2> QED BY <2>1, <2>7
  <1> QED BY <1>1, <1>2

\* A route of the normalised table, by the route it was written as.
NormalOf(y, x) ==
    /\ y.prefix = x.prefix.segments /\ y.name = x.name
    /\ Len(y.hosts) = Len(x.hosts) /\ y.hosts \in Seq({y.hosts[i] : i \in 1..Len(x.hosts)})
    /\ \A k \in 1..Len(x.hosts) : y.hosts[k] = NormalizeRouteHostPattern(x.hosts[k])

\* NormalizeRouteHostPattern and NormalizePathPrefix leave a route of this form.
LEMMA NormalRouteIs ==
    ASSUME NEW x \in RawRoutes
    PROVE  NormalOf(NormalRoute(x), x) /\ TableRoute(NormalRoute(x))
  <1>1. PICK y, n : y = NormalRoute(x) /\ n = Len(x.hosts)
    OBVIOUS
  <1>2. /\ x.hosts \in Seq(Patterns) /\ x.prefix.segments \in Seq(STRING)
        /\ \A k \in 1..n : HostPattern(NormalizeRouteHostPattern(x.hosts[k]))
    BY <1>1, RawFields
  <1>3. n \in Nat
    BY <1>1, <1>2
  <1>4. /\ y.prefix = x.prefix.segments /\ y.name = x.name
        /\ y.hosts = [i \in 1..n |-> NormalizeRouteHostPattern(x.hosts[i])]
    BY <1>1 DEF NormalRoute, NormalizePathPrefix
  <1>5. \A k \in 1..n : y.hosts[k] = NormalizeRouteHostPattern(x.hosts[k])
    BY <1>4
  <1>6. Len(y.hosts) = n /\ DOMAIN y.hosts = 1..n /\ y.hosts \in Seq({y.hosts[i] : i \in 1..n})
    <2>1. PICK f : f = y.hosts
      OBVIOUS
    <2>2. f = [i \in 1..n |-> f[i]]
      BY <1>4, <2>1
    <2>3. Len(f) = n /\ DOMAIN f = 1..n /\ f \in Seq({f[i] : i \in 1..n})
      BY <1>3, <2>2, ListLength
    <2> QED BY <2>1, <2>3
  <1>7. NormalOf(y, x)
    BY <1>1, <1>4, <1>5, <1>6 DEF NormalOf
  <1>8. TableRoute(y)
    BY <1>2, <1>3, <1>4, <1>5, <1>6 DEF TableRoute
  <1> QED BY <1>1, <1>7, <1>8

\* The normalised table, by the table that was written.
LEMMA NormalTableIs ==
    ASSUME NEW t \in Seq(RawRoutes), NEW T, T = NormalTable(t)
    PROVE  /\ Len(T) = Len(t) /\ Len(T) \in Nat /\ DOMAIN T = 1..Len(T)
           /\ \A i \in 1..Len(T) : t[i] \in RawRoutes /\ NormalOf(T[i], t[i]) /\ TableRoute(T[i])
  <1>1. PICK n : n = Len(t)
    OBVIOUS
  <1>2. n \in Nat
    BY <1>1
  <1>3. T = [i \in 1..n |-> NormalRoute(t[i])]
    BY <1>1 DEF NormalTable
  <1>4. T = [i \in 1..n |-> T[i]]
    BY <1>3
  <1>5. Len(T) = n /\ DOMAIN T = 1..n
    BY <1>2, <1>4, ListLength
  <1>6. ASSUME NEW i \in 1..n PROVE t[i] \in RawRoutes /\ NormalOf(T[i], t[i]) /\ TableRoute(T[i])
    <2>1. t[i] \in RawRoutes
      BY <1>1
    <2>2. T[i] = NormalRoute(t[i])
      BY <1>3
    <2> QED BY <2>1, <2>2, NormalRouteIs
  <1> QED BY <1>1, <1>2, <1>5, <1>6

\* Load finds two routes to share a selector when they are not Parted, and so
\* does Validate (routes.go:131-139, config.go:505-517).
LEMMA SelectorsPart ==
    ASSUME NEW x \in RawRoutes, NEW y \in RawRoutes, NEW X, NEW Y, NormalOf(X, x), NormalOf(Y, y)
    PROVE  Selectors(x) \cap Selectors(y) = {} <=> Parted(X, Y)
  <1>1. PICK m, n : m = Len(x.hosts) /\ n = Len(y.hosts)
    OBVIOUS
  <1>2. x.hosts \in Seq(Patterns) /\ y.hosts \in Seq(Patterns)
    BY RawFields
  <1>3. DOMAIN x.hosts = 1..m /\ DOMAIN y.hosts = 1..n
    BY <1>1, <1>2
  <1>4. /\ X.prefix = x.prefix.segments /\ Len(X.hosts) = m
        /\ \A k \in 1..m : X.hosts[k] = NormalizeRouteHostPattern(x.hosts[k])
    BY <1>1 DEF NormalOf
  <1>5. /\ Y.prefix = y.prefix.segments /\ Len(Y.hosts) = n
        /\ \A k \in 1..n : Y.hosts[k] = NormalizeRouteHostPattern(y.hosts[k])
    BY <1>1 DEF NormalOf
  <1>6. ASSUME NEW z PROVE z \in Selectors(x) <=> \E k \in 1..m : z = <<X.hosts[k], X.prefix>>
    <2>1. z \in Selectors(x) <=> \E h \in ToSet(x.hosts) : z = <<NormalizeRouteHostPattern(h), X.prefix>>
      BY <1>4 DEF Selectors, NormalizePathPrefix
    <2>2. ToSet(x.hosts) = {x.hosts[k] : k \in 1..m}
      BY <1>3 DEF ToSet
    <2> QED BY <1>4, <2>1, <2>2
  <1>7. ASSUME NEW z PROVE z \in Selectors(y) <=> \E k \in 1..n : z = <<Y.hosts[k], Y.prefix>>
    <2>1. z \in Selectors(y) <=> \E h \in ToSet(y.hosts) : z = <<NormalizeRouteHostPattern(h), Y.prefix>>
      BY <1>5 DEF Selectors, NormalizePathPrefix
    <2>2. ToSet(y.hosts) = {y.hosts[k] : k \in 1..n}
      BY <1>3 DEF ToSet
    <2> QED BY <1>5, <2>1, <2>2
  <1>8. ASSUME ~Parted(X, Y) PROVE Selectors(x) \cap Selectors(y) # {}
    <2>1. PICK i \in 1..m, j \in 1..n : X.prefix = Y.prefix /\ X.hosts[i] = Y.hosts[j]
      BY <1>4, <1>5, <1>8 DEF Parted
    <2>2. PICK z : z = <<X.hosts[i], X.prefix>>
      OBVIOUS
    <2>3. z \in Selectors(x)
      BY <1>6, <2>2
    <2>4. z = <<Y.hosts[j], Y.prefix>>
      BY <2>1, <2>2
    <2>5. z \in Selectors(y)
      BY <1>7, <2>4
    <2> QED BY <2>3, <2>5
  <1>9. ASSUME Parted(X, Y) PROVE Selectors(x) \cap Selectors(y) = {}
    <2> SUFFICES ASSUME NEW z, z \in Selectors(x), z \in Selectors(y) PROVE FALSE
      OBVIOUS
    <2>1. PICK i \in 1..m : z = <<X.hosts[i], X.prefix>>
      BY <1>6
    <2>2. PICK j \in 1..n : z = <<Y.hosts[j], Y.prefix>>
      BY <1>7
    <2>3. X.hosts[i] = Y.hosts[j] /\ X.prefix = Y.prefix
      BY <2>1, <2>2
    <2> QED BY <1>4, <1>5, <1>9, <2>3 DEF Parted
  <1> QED BY <1>8, <1>9

\* A route loads in both programs or in neither.
LEMMA RouteLoadsIs ==
    ASSUME NEW x \in RawRoutes, NEW X, NormalOf(X, x), TableRoute(X)
    PROVE  RouteLoads(x) <=> PrefixLoads(x.prefix) /\ X.hosts # <<>> /\ IsInjective(X.hosts)
  <1>1. PICK n, f, h : n = Len(x.hosts) /\ f = X.hosts /\ h = x.hosts
    OBVIOUS
  <1>2. h \in Seq(Patterns) /\ n = Len(h) /\ n \in Nat
    BY <1>1, RawFields
  <1>3. Len(f) = n /\ \A k \in 1..n : f[k] = NormalizeRouteHostPattern(h[k])
    BY <1>1 DEF NormalOf
  <1>4. DOMAIN f = 1..n /\ \A k \in 1..n : HostPattern(f[k])
    BY <1>1, <1>3 DEF TableRoute
  <1>5. h # <<>> <=> n # 0
    BY <1>2
  <1>6. f # <<>> <=> n # 0
    <2>1. PICK S : f \in Seq(S)
      BY <1>1 DEF NormalOf
    <2> QED BY <1>3, <2>1
  <1>7. IsInjective(f) <=> \A i, j \in 1..n : i # j => f[i] # f[j]
    BY <1>4 DEF IsInjective
  <1>8. RouteLoads(x) <=> /\ PrefixLoads(x.prefix) /\ h # <<>>
                          /\ \A i, j \in 1..n : i # j => f[i] # f[j]
    BY <1>1, <1>3 DEF RouteLoads
  <1> QED BY <1>1, <1>5, <1>6, <1>7, <1>8

\* Validate and Load accept the same tables (config.go:487-518,
\* routes.go:86-141).
LEMMA ProgramsAccept ==
    ASSUME NEW t \in Seq(RawRoutes), NEW T, T = NormalTable(t)
    PROVE  /\ EdgeAcceptsTable(t) <=> SecurityAccepts(t)
           /\ SecurityAccepts(t) => \A i, j \in 1..Len(T) : i # j => Parted(T[i], T[j])
  <1>1. PICK n : n = Len(T)
    OBVIOUS
  <1>2. /\ Len(t) = n /\ n \in Nat
        /\ \A i \in 1..n : t[i] \in RawRoutes /\ NormalOf(T[i], t[i]) /\ TableRoute(T[i])
    BY <1>1, NormalTableIs
  <1>3. \A i \in 1..n : T[i].name = t[i].name
    BY <1>2 DEF NormalOf
  <1>4. \A i \in 1..n : RouteLoads(t[i]) <=>
                           PrefixLoads(t[i].prefix) /\ T[i].hosts # <<>> /\ IsInjective(T[i].hosts)
    BY <1>2, RouteLoadsIs
  <1>5. \A i, j \in 1..n : Selectors(t[i]) \cap Selectors(t[j]) = {} <=> Parted(T[i], T[j])
    BY <1>2, SelectorsPart
  <1>6. \A i, j \in 1..n :
           (T[i].prefix = T[j].prefix /\ ToSet(T[i].hosts) \cap ToSet(T[j].hosts) # {}) <=> ~Parted(T[i], T[j])
    <2> SUFFICES ASSUME NEW i \in 1..n, NEW j \in 1..n
                 PROVE  (ToSet(T[i].hosts) \cap ToSet(T[j].hosts) # {}) <=>
                           \E k \in 1..Len(T[i].hosts), m \in 1..Len(T[j].hosts) : T[i].hosts[k] = T[j].hosts[m]
      BY DEF Parted
    <2>1. PICK f, g : f = T[i].hosts /\ g = T[j].hosts
      OBVIOUS
    <2>2. DOMAIN f = 1..Len(f) /\ DOMAIN g = 1..Len(g)
      BY <1>2, <2>1 DEF TableRoute
    <2>3. ToSet(f) = {f[k] : k \in 1..Len(f)} /\ ToSet(g) = {g[k] : k \in 1..Len(g)}
      BY <2>2 DEF ToSet
    <2>4. (ToSet(f) \cap ToSet(g) # {}) <=> \E k \in 1..Len(f), m \in 1..Len(g) : f[k] = g[m]
      BY <2>3
    <2> QED BY <2>1, <2>4
  <1>7. \A i, j \in 1..n : Parted(T[i], T[j]) => Parted(T[j], T[i])
    BY DEF Parted
  <1>8. EdgeAcceptsTable(t) <=>
          /\ t # <<>> /\ \A i \in 1..n : RouteLoads(t[i])
          /\ \A i, j \in 1..n : i # j => Lower(t[i].name) # Lower(t[j].name)
          /\ \A i, j \in 1..n : ~Parted(T[i], T[j]) => t[i].name = t[j].name
    <2>1. EdgeAcceptsTable(t) <=>
            /\ t # <<>>
            /\ \A i \in 1..n : PrefixLoads(t[i].prefix) /\ T[i].hosts # <<>> /\ IsInjective(T[i].hosts)
            /\ \A i, j \in 1..n : i # j => Lower(T[i].name) # Lower(T[j].name)
            /\ \A i, j \in 1..n : (T[i].prefix = T[j].prefix /\ ToSet(T[i].hosts) \cap ToSet(T[j].hosts) # {})
                                     => T[i].name = T[j].name
      BY <1>1, <1>2, Zenon DEF EdgeAcceptsTable
    <2>2. (\A i, j \in 1..n : i # j => Lower(T[i].name) # Lower(T[j].name))
             <=> \A i, j \in 1..n : i # j => Lower(t[i].name) # Lower(t[j].name)
      BY <1>3
    <2>3. (\A i, j \in 1..n : (T[i].prefix = T[j].prefix /\ ToSet(T[i].hosts) \cap ToSet(T[j].hosts) # {})
                                 => T[i].name = T[j].name)
             <=> \A i, j \in 1..n : ~Parted(T[i], T[j]) => t[i].name = t[j].name
      <3>1. \A i, j \in 1..n :
              ((T[i].prefix = T[j].prefix /\ ToSet(T[i].hosts) \cap ToSet(T[j].hosts) # {})
                  => T[i].name = T[j].name) <=> (~Parted(T[i], T[j]) => t[i].name = t[j].name)
        BY <1>3, <1>6
      <3> QED BY <3>1, Zenon
    <2>4. (\A i \in 1..n : PrefixLoads(t[i].prefix) /\ T[i].hosts # <<>> /\ IsInjective(T[i].hosts))
             <=> \A i \in 1..n : RouteLoads(t[i])
      BY <1>4, Zenon
    <2> QED BY <2>1, <2>2, <2>3, <2>4, Zenon
  <1>9. (\A i, j \in 1..n : i # j => Lower(t[i].name) # Lower(t[j].name))
          => ((\A i, j \in 1..n : ~Parted(T[i], T[j]) => t[i].name = t[j].name)
                 <=> (\A i, j \in 1..n : i # j => Parted(T[i], T[j])))
    <2>1. SUFFICES ASSUME \A i, j \in 1..n : i # j => Lower(t[i].name) # Lower(t[j].name)
                   PROVE  (\A i, j \in 1..n : ~Parted(T[i], T[j]) => t[i].name = t[j].name)
                             <=> (\A i, j \in 1..n : i # j => Parted(T[i], T[j]))
      OBVIOUS
    <2>2. \A i, j \in 1..n : i # j => t[i].name # t[j].name
      BY <2>1
    <2> QED BY <2>2
  <1>10. SecurityAccepts(t) <=>
          /\ t # <<>> /\ \A i \in 1..n : RouteLoads(t[i])
          /\ \A i, j \in 1..n : i < j => Lower(t[i].name) # Lower(t[j].name) /\ Parted(T[i], T[j])
    BY <1>2, <1>5 DEF SecurityAccepts
  <1>11. (\A i, j \in 1..n : i < j => Lower(t[i].name) # Lower(t[j].name) /\ Parted(T[i], T[j]))
           <=> /\ \A i, j \in 1..n : i # j => Lower(t[i].name) # Lower(t[j].name)
               /\ \A i, j \in 1..n : i # j => Parted(T[i], T[j])
    <2>1. \A i, j \in 1..n : i # j <=> (i < j \/ j < i)
      BY <1>2
    <2> QED BY <1>7, <2>1
  <1> QED BY <1>1, <1>8, <1>9, <1>10, <1>11

\* An accepted table is good, and so is the table with its routes in the other
\* order, which has the same selectors.
LEMMA TurnedTable ==
    ASSUME NEW t \in Seq(RawRoutes), NEW T, T = NormalTable(t), SecurityAccepts(t), NEW R, R = Reversed(T)
    PROVE  GoodTable(T) /\ GoodTable(R) /\ AllOf(R) = AllOf(T)
  <1>1. PICK n : n = Len(T)
    OBVIOUS
  <1>2. n \in Nat /\ \A i \in 1..n : TableRoute(T[i])
    BY <1>1, NormalTableIs
  <1>3. \A i, j \in 1..n : i # j => Parted(T[i], T[j])
    BY <1>1, ProgramsAccept
  <1>4. GoodTable(T)
    BY <1>1, <1>2, <1>3 DEF GoodTable
  <1>5. R = [i \in 1..n |-> T[n + 1 - i]]
    BY <1>1 DEF Reversed
  <1>6. Len(R) = n
    <2>1. R = [i \in 1..n |-> R[i]]
      BY <1>5
    <2> QED BY <1>2, <2>1, ListLength
  <1>7. \A i \in 1..n : (n + 1 - i) \in 1..n /\ R[i] = T[n + 1 - i] /\ T[i] = R[n + 1 - i]
    <2> SUFFICES ASSUME NEW i \in 1..n PROVE (n + 1 - i) \in 1..n /\ R[i] = T[n + 1 - i] /\ T[i] = R[n + 1 - i]
      OBVIOUS
    <2>1. PICK m : m = n + 1 - i
      OBVIOUS
    <2>2. m \in 1..n /\ i = n + 1 - m
      BY <1>2, <2>1
    <2>3. R[m] = T[n + 1 - m] /\ R[i] = T[n + 1 - i]
      BY <1>5, <2>2
    <2> QED BY <2>1, <2>2, <2>3
  <1>8. \A i, j \in 1..n : i # j => n + 1 - i # n + 1 - j
    BY <1>2
  <1>9. GoodTable(R)
    <2>1. \A i \in 1..n : TableRoute(R[i])
      BY <1>2, <1>7
    <2>2. \A i, j \in 1..n : i # j => Parted(R[i], R[j])
      BY <1>3, <1>7, <1>8
    <2> QED BY <1>2, <1>6, <2>1, <2>2 DEF GoodTable
  <1>10. ASSUME NEW x PROVE x \in AllOf(R) <=> x \in AllOf(T)
    <2>1. x \in AllOf(T) <=> \E i \in 1..n : \E k \in 1..Len(T[i].hosts) : x = SelectorOf(T, i, T[i].hosts[k])
      BY <1>1, <1>4, AllOfIs DEF Sel
    <2>2. x \in AllOf(R) <=> \E i \in 1..n : \E k \in 1..Len(R[i].hosts) : x = SelectorOf(R, i, R[i].hosts[k])
      BY <1>6, <1>9, AllOfIs DEF Sel
    <2>3. \A i, j \in 1..n : R[i] = T[j] => \A p : SelectorOf(R, i, p) = SelectorOf(T, j, p)
      BY DEF SelectorOf
    <2>4. ASSUME x \in AllOf(T) PROVE x \in AllOf(R)
      <3>1. PICK i \in 1..n : \E k \in 1..Len(T[i].hosts) : x = SelectorOf(T, i, T[i].hosts[k])
        BY <2>1, <2>4
      <3>2. PICK j \in 1..n : R[j] = T[i]
        BY <1>7
      <3>3. \E k \in 1..Len(R[j].hosts) : x = SelectorOf(R, j, R[j].hosts[k])
        BY <2>3, <3>1, <3>2
      <3> QED BY <2>2, <3>3
    <2>5. ASSUME x \in AllOf(R) PROVE x \in AllOf(T)
      <3>1. PICK i \in 1..n : \E k \in 1..Len(R[i].hosts) : x = SelectorOf(R, i, R[i].hosts[k])
        BY <2>2, <2>5
      <3>2. PICK j \in 1..n : R[i] = T[j]
        BY <1>7
      <3>3. \E k \in 1..Len(T[j].hosts) : x = SelectorOf(T, j, T[j].hosts[k])
        BY <2>3, <3>1, <3>2
      <3> QED BY <2>1, <3>3
    <2> QED BY <2>4, <2>5
  <1> QED BY <1>4, <1>9, <1>10

-----------------------------------------------------------------------------
(* The invariant of routing.                                               *)

\* What one program answers to a request.
Answer(accepted, T, host, path) == IF accepted THEN Match(T, host, path) ELSE "refused"
Answered(r, t, h, p) ==
    /\ r.edge = Answer(EdgeAcceptsTable(t), NormalTable(t), CanonicalHost(h), CanonicalRequestPath(p))
    /\ r.sec = Answer(SecurityAccepts(t), NormalTable(t), CanonicalHost(h), CanonicalRequestPath(p))
    /\ r.reversed = Answer(EdgeAcceptsTable(t), Reversed(NormalTable(t)), CanonicalHost(h), CanonicalRequestPath(p))
    /\ r.host = CanonicalHost(h) /\ r.path = CanonicalRequestPath(p)

RoutingInv == /\ rawTable \in Seq(RawRoutes)
              /\ routed = NotRouted \/ \E h \in Hosts, p \in Paths : Answered(routed, rawTable, h, p)

\* Writing a route and routing a request keep the invariant.
LEMMA RoutingInductive ==
    RoutingSpec => []RoutingInv
  <1>1. RoutingInit => RoutingInv
    BY DEF RoutingInit, RoutingInv
  <1>2. RoutingInv /\ [RoutingNext]_routingVars => RoutingInv'
    <2> SUFFICES ASSUME RoutingInv, [RoutingNext]_routingVars PROVE RoutingInv'
      OBVIOUS
    <2>1. CASE UNCHANGED routingVars
      BY <2>1 DEF RoutingInv, routingVars
    <2>2. ASSUME NEW x \in RawRoutes, WriteRoute(x) PROVE RoutingInv'
      BY <2>2 DEF RoutingInv, WriteRoute
    <2>3. ASSUME NEW h \in Hosts, NEW p \in Paths, RouteRequest(h, p) PROVE RoutingInv'
      <3>1. Answered(routed', rawTable, h, p) /\ rawTable' = rawTable
        BY <2>3 DEF RouteRequest, Answered, Answer
      <3> QED BY <3>1 DEF RoutingInv
    <2> QED BY <2>1, <2>2, <2>3 DEF RoutingNext
  <1> QED BY <1>1, <1>2, PTL DEF RoutingSpec

\* The answers to a request are what ProgramsAgreeOnRoute asks for.
LEMMA AnswersAgree ==
    ASSUME NEW t \in Seq(RawRoutes), NEW h \in Hosts, NEW p, NEW r, Answered(r, t, h, p)
    PROVE  /\ r.edge = r.sec /\ r.edge = r.reversed
           /\ r.edge # "refused" =>
                 IF Covering(NormalTable(t), r.host, r.path) = {} THEN r.edge = "unmatched"
                 ELSE Wanted(Covering(NormalTable(t), r.host, r.path)) = {r.edge}
  <1>1. PICK T, R, host, path : /\ T = NormalTable(t) /\ R = Reversed(T)
                                /\ host = CanonicalHost(h) /\ path = CanonicalRequestPath(p)
    OBVIOUS
  <1>2. EdgeAcceptsTable(t) <=> SecurityAccepts(t)
    BY ProgramsAccept
  <1>3. host \in Seq(STRING)
    BY <1>1, RoutingValues DEF CanonicalHost
  <1>4. /\ r.edge = Answer(EdgeAcceptsTable(t), T, host, path) /\ r.sec = Answer(SecurityAccepts(t), T, host, path)
        /\ r.reversed = Answer(EdgeAcceptsTable(t), R, host, path) /\ r.host = host /\ r.path = path
    BY <1>1 DEF Answered
  <1>5. CASE ~SecurityAccepts(t)
    BY <1>2, <1>4, <1>5 DEF Answer
  <1>6. CASE SecurityAccepts(t)
    <2>1. GoodTable(T) /\ GoodTable(R) /\ AllOf(R) = AllOf(T)
      BY <1>1, <1>6, TurnedTable
    <2>2. Covering(R, host, path) = Covering(T, host, path)
      BY <2>1 DEF Covering
    <2>3. PICK C : C = Covering(T, host, path)
      OBVIOUS
    <2>4. IF C = {} THEN Match(T, host, path) = "unmatched" ELSE Wanted(C) = {Match(T, host, path)}
      BY <1>3, <2>1, <2>3, MatchFinds
    <2>5. IF C = {} THEN Match(R, host, path) = "unmatched" ELSE Wanted(C) = {Match(R, host, path)}
      BY <1>3, <2>1, <2>2, <2>3, MatchFinds
    <2>6. Match(T, host, path) = Match(R, host, path)
      BY <2>4, <2>5
    <2>7. r.edge = Match(T, host, path) /\ r.sec = Match(T, host, path) /\ r.reversed = Match(R, host, path)
      BY <1>2, <1>4, <1>6 DEF Answer
    <2> QED BY <1>1, <1>4, <2>3, <2>4, <2>6, <2>7
  <1> QED BY <1>5, <1>6

\* For every set of routes somebody may write, of every size, both programs
\* accept the same tables and choose the same route, the owner of the one most
\* specific selector, in whatever order the table lists its routes
\* (router.go:24-115, routes.go:86-162).
THEOREM RoutesAgree == RoutingSpec => []ProgramsAgreeOnRoute
  <1>1. RoutingInv => ProgramsAgreeOnRoute
    <2> SUFFICES ASSUME RoutingInv, routed # NotRouted PROVE ProgramsAgreeOnRoute
      BY DEF ProgramsAgreeOnRoute
    <2>1. PICK h \in Hosts, p \in Paths : Answered(routed, rawTable, h, p)
      BY DEF RoutingInv
    <2>2. rawTable \in Seq(RawRoutes)
      BY DEF RoutingInv
    <2>3. PICK C : C = Covering(NormalTable(rawTable), routed.host, routed.path)
      OBVIOUS
    <2>4. /\ routed.edge = routed.sec /\ routed.edge = routed.reversed
          /\ routed.edge # "refused" => IF C = {} THEN routed.edge = "unmatched" ELSE Wanted(C) = {routed.edge}
      BY <2>1, <2>2, <2>3, AnswersAgree, ZenonT(60)
    <2> QED BY <2>3, <2>4 DEF ProgramsAgreeOnRoute, Covering, Wanted, AllOf, SelectorOf
  <1> QED BY <1>1, RoutingInductive, PTL

-----------------------------------------------------------------------------
(* CachePolicy: headers.                                                   *)

\* A header of a request is one of its fields.
LEMMA HeaderField ==
    ASSUME NEW q
    PROVE  q.auth = q["auth"] /\ q.cookie = q["cookie"]
  OBVIOUS

\* parseCacheControlDetailed keeps the first directive of a name.
LEMMA DirectiveIs ==
    ASSUME NEW cc \in Seq(Directives), NEW name, HasCacheDirective(cc, name)
    PROVE  Directive(cc, name) \in Int
  <1>1. PICK S : S = Named(cc, name)
    OBVIOUS
  <1>2. S \subseteq Nat /\ S \subseteq 1..Len(cc) /\ S # {}
    <2>1. DOMAIN cc = 1..Len(cc) /\ Len(cc) \in Nat
      OBVIOUS
    <2> QED BY <1>1, <2>1 DEF Named, HasCacheDirective
  <1>3. \E i \in S : \A j \in S : i <= j
    BY <1>2, LeastNat
  <1>4. PICK k : k = CHOOSE i \in S : \A j \in S : i <= j
    OBVIOUS
  <1>5. k \in S
    BY <1>3, <1>4
  <1>6. cc[k] \in Directives
    BY <1>2, <1>5
  <1>7. cc[k].value \in Int
    BY <1>6 DEF Directives
  <1> QED BY <1>1, <1>4, <1>7 DEF Directive

\* The largest of up to three numbers.
LEMMA MaxOfThree ==
    ASSUME NEW S \in SUBSET Int, NEW m \in S, \A n \in S : m >= n
    PROVE  Max(S) \in S /\ \A n \in S : Max(S) >= n
  BY DEF Max

\* responseInitialAge: an Age or a Date that is right counts in full.
LEMMA InitialAgeIs ==
    ASSUME NEW p \in Responses
    PROVE  /\ InitialAge(p) \in Int /\ InitialAge(p) >= 0
           /\ Honest(p) => InitialAge(p) >= p.transit
  <1>1. PICK a, d, r : a = p.age /\ d = -p.date /\ r = p.transit
    OBVIOUS
  <1>2. a \in Int /\ d \in Int /\ r \in Nat /\ (p.date = -r => d = r)
    BY <1>1, ResponseValues
  <1>3. PICK S : S = {0} \cup (IF a >= 0 THEN {a} ELSE {}) \cup (IF p.dated THEN {d} ELSE {})
    OBVIOUS
  <1>4. S \subseteq Int /\ 0 \in S /\ (a >= 0 => a \in S) /\ (p.dated => d \in S)
        /\ \A n \in S : n = 0 \/ n = a \/ n = d
    BY <1>2, <1>3
  <1>5. \E m \in S : \A n \in S : m >= n
    <2>1. CASE a \in S /\ d \in S
      <3>1. CASE a >= d /\ a >= 0
        BY <1>2, <1>4, <2>1, <3>1
      <3>2. CASE d >= a /\ d >= 0
        BY <1>2, <1>4, <2>1, <3>2
      <3>3. CASE 0 >= a /\ 0 >= d
        BY <1>2, <1>4, <2>1, <3>3
      <3> QED BY <1>2, <3>1, <3>2, <3>3
    <2>2. CASE a \in S /\ d \notin S
      BY <1>2, <1>4, <2>2
    <2>3. CASE a \notin S /\ d \in S
      BY <1>2, <1>4, <2>3
    <2>4. CASE a \notin S /\ d \notin S
      BY <1>2, <1>4, <2>4
    <2> QED BY <2>1, <2>2, <2>3, <2>4
  <1>6. PICK g : g = Max(S)
    OBVIOUS
  <1>7. g \in S /\ \A n \in S : g >= n
    BY <1>4, <1>5, <1>6, MaxOfThree
  <1>8. InitialAge(p) = g
    BY <1>1, <1>3, <1>6 DEF InitialAge
  <1>9. g \in Int /\ g >= 0
    BY <1>4, <1>7
  <1>10. Honest(p) => g >= r
    BY <1>1, <1>2, <1>4, <1>7 DEF Honest
  <1> QED BY <1>1, <1>8, <1>9, <1>10

\* The lifetime of a response whose origin lets it be stored is the one it
\* gives it.
LEMMA LifetimeIs ==
    ASSUME NEW p \in Responses
    PROVE  /\ Lifetime(p) \in Int
           /\ ~Refuses(p) /\ "*" \notin p.vary => p.good = Lifetime(p)
  <1>1. /\ p.cc \in Seq(Directives) /\ p.date \in Int /\ p.expiresAt \in Int
        /\ p.expires \in {"none", "bad", "given"} /\ p.good = OriginAllows(p)
    BY ResponseValues
  <1>2. DefaultTTL \in Int
    BY PolicyValues
  <1>3. \A name : HasCacheDirective(p.cc, name) => Directive(p.cc, name) \in Int
    BY <1>1, DirectiveIs
  <1>4. Lifetime(p) \in Int
    <2>1. PICK s, m : s = Directive(p.cc, "s-maxage") /\ m = Directive(p.cc, "max-age")
      OBVIOUS
    <2>2. (HasCacheDirective(p.cc, "s-maxage") => s \in Int) /\ (HasCacheDirective(p.cc, "max-age") => m \in Int)
      BY <1>3, <2>1
    <2>3. (p.expiresAt - (IF p.dated THEN p.date ELSE 0)) \in Int
      BY <1>1
    <2> QED BY <1>2, <2>1, <2>2, <2>3 DEF Lifetime
  <1>5. ASSUME ~Refuses(p), "*" \notin p.vary PROVE p.good = Lifetime(p)
    <2>1. /\ ~p.pragma /\ ~Says(p.cc, {"no-store", "private", "no-cache", Malformed})
          /\ ~Duplicated(p.cc, "max-age") /\ ~Duplicated(p.cc, "s-maxage")
      BY <1>5 DEF Refuses, Says, Invalid
    <2>2. OriginAllows(p) = Lifetime(p)
      BY <1>1, <1>5, <2>1 DEF OriginAllows, Lifetime, Once
    <2> QED BY <1>1, <2>2
  <1> QED BY <1>4, <1>5

\* A request that is looked up takes what its max-age says, if it has one.
LEMMA LooksTakes ==
    ASSUME NEW q \in Asks, Looks(q)
    PROVE  /\ q.oldest # 0
           /\ q.oldest # Unset => /\ HasCacheDirective(q.cc, "max-age") /\ DeltaSeconds(Directive(q.cc, "max-age"))
                                  /\ q.oldest = Directive(q.cc, "max-age")
  <1>1. q.oldest = ClientTakes(q)
    BY AskValues
  <1>2. /\ q.method \in {"GET", "HEAD"} /\ ~q.range /\ ~q.pragma /\ ~Duplicated(q.cc, "max-age")
        /\ ~Says(q.cc, {"no-store", "no-cache", Malformed})
        /\ ~(HasCacheDirective(q.cc, "max-age") /\ Directive(q.cc, "max-age") = 0)
    BY DEF Looks, TakesPart, ForcesRevalidation, Says, Invalid
  <1>3. q.oldest = IF HasCacheDirective(q.cc, "max-age") /\ Directive(q.cc, "max-age") >= 0
                   THEN Directive(q.cc, "max-age") ELSE -1
    BY <1>1, <1>2 DEF ClientTakes, Once, Unset
  <1> QED BY <1>2, <1>3 DEF Unset, DeltaSeconds

-----------------------------------------------------------------------------
(* Entries and answers.                                                    *)

\* The entry that fetchAndServe stores at time t.
EntryAt(q, p, t) ==
    [key |-> CacheKey(q), status |-> p.status, content |-> p.content,
     storedAt |-> t - (IF policy.respect THEN InitialAge(p) ELSE 0),
     expiresAt |-> t + TTL(p),
     staleUntil |-> t + TTL(p) + (IF MayServeStale(p) THEN StaleIfError ELSE 0),
     ask |-> q, response |-> p, gotAt |-> t]

StoredEntry(e) ==
    \E q \in Asks, p \in Responses, t \in Nat : e = EntryAt(q, p, t) /\ TakesPart(q) /\ Cacheable(p)

\* At time t an entry was found for a request, fresh or not.
WasFound(q, e, t) ==
    /\ q \in Asks /\ Looks(q) /\ StoredEntry(e) /\ e.key = CacheKey(q) /\ t <= e.staleUntil
    /\ HasCacheDirective(q.cc, "max-age") /\ DeltaSeconds(Directive(q.cc, "max-age"))
          => t - e.storedAt <= Directive(q.cc, "max-age")

\* An answer from the cache, by the entry that was found at time t.
FitAnswer(w, t) ==
    /\ w.from \in {"none", "HIT", "STALE"}
    /\ w.from # "none" => /\ WasFound(w.ask, w.entry, t)
                          /\ w.from = "HIT" => t <= w.entry.expiresAt
                          /\ w.notModified => NotModified(w.ask, w.entry)

\* The cache: an entry for each of its keys, and no more than exchanges.
KeptInv == /\ \A e \in kept : StoredEntry(e)
           /\ \A e, f \in kept : e.key = f.key => e = f
           /\ IsFiniteSet(kept) /\ Cardinality(kept) <= exchanges
PolicyInv ==
    /\ policy \in Policies /\ clock \in 0..MaxClock /\ lookedAt \in 0..MaxClock
    /\ asking \in Asks \cup {NoAsk} /\ exchanges \in 0..MaxExchanges
    /\ KeptInv
    /\ asking = NoAsk => candidate = NoCandidate
    /\ candidate # NoCandidate => WasFound(asking, candidate, lookedAt)
    /\ FitAnswer(answered, lookedAt)

\* The times of an entry, with the initial age and the lifetime of its response
\* (handler.go:716-726, cache_policy.go:187-239).
LEMMA EntryTimes ==
    ASSUME policy \in Policies, NEW q \in Asks, NEW p \in Responses, NEW t \in Nat, NEW e, e = EntryAt(q, p, t),
           Cacheable(p), NEW a, a = InitialAge(p), NEW l, l = Lifetime(p)
    PROVE  /\ a \in Int /\ a >= 0 /\ l \in Int /\ DefaultTTL \in Nat /\ StaleIfError \in Nat
           /\ e.gotAt = t /\ e.response = p /\ e.ask = q /\ e.key = CacheKey(q)
           /\ e.content = p.content /\ e.status = p.status
           /\ IF policy.respect THEN /\ e.storedAt = t - a /\ e.expiresAt = t + (l - a) /\ l - a > 0
                                     /\ e.staleUntil = IF MayServeStale(p) THEN (t + (l - a)) + StaleIfError
                                                       ELSE t + (l - a)
              ELSE /\ e.expiresAt = t + DefaultTTL
                   /\ e.staleUntil = (t + DefaultTTL) + StaleIfError
  <1>1. a \in Int /\ a >= 0 /\ l \in Int
    BY InitialAgeIs, LifetimeIs
  <1>2. DefaultTTL \in Nat /\ StaleIfError \in Nat
    BY PolicyValues
  <1>3. /\ e.gotAt = t /\ e.response = p /\ e.ask = q /\ e.key = CacheKey(q)
        /\ e.content = p.content /\ e.status = p.status
        /\ e.storedAt = t - (IF policy.respect THEN a ELSE 0) /\ e.expiresAt = t + TTL(p)
        /\ e.staleUntil = t + TTL(p) + (IF MayServeStale(p) THEN StaleIfError ELSE 0)
    BY DEF EntryAt
  <1>4. CASE policy.respect
    <2>1. TTL(p) = l - a /\ TTL(p) > 0
      BY <1>4 DEF TTL, Cacheable
    <2>2. e.storedAt = t - a /\ e.expiresAt = t + (l - a) /\ l - a > 0
      BY <1>3, <1>4, <2>1
    <2>3. CASE MayServeStale(p)
      <3>1. e.staleUntil = (t + (l - a)) + StaleIfError
        BY <1>1, <1>2, <1>3, <2>1, <2>3
      <3> QED BY <1>1, <1>2, <1>3, <1>4, <2>2, <2>3, <3>1
    <2>4. CASE ~MayServeStale(p)
      <3>1. e.staleUntil = t + (l - a)
        BY <1>1, <1>2, <1>3, <2>1, <2>4
      <3> QED BY <1>1, <1>2, <1>3, <1>4, <2>2, <2>4, <3>1
    <2> QED BY <2>3, <2>4
  <1>5. CASE ~policy.respect
    <2>1. TTL(p) = DefaultTTL /\ MayServeStale(p)
      BY <1>5 DEF TTL, MayServeStale
    <2>2. e.expiresAt = t + DefaultTTL /\ e.staleUntil = (t + DefaultTTL) + StaleIfError
      BY <1>2, <1>3, <2>1
    <2> QED BY <1>1, <1>2, <1>3, <1>5, <2>2
  <1> QED BY <1>4, <1>5

\* The cache key parts requests by every header the origin looked at and by
\* their credentials (cache_policy.go:17-58 and 500-526).
LEMMA KeyParts ==
    ASSUME NEW q \in Asks, NEW e, StoredEntry(e), e.key = CacheKey(q), policy \in Policies
    PROVE  SameVariant(q, e)
  <1>1. PICK b \in Asks, p \in Responses, t \in Nat : e = EntryAt(b, p, t) /\ TakesPart(b) /\ Cacheable(p)
    BY DEF StoredEntry
  <1>2. e.key = CacheKey(b) /\ e.response = p /\ e.ask = b
    BY <1>1 DEF EntryAt
  <1>3. PICK K : K = policy.varyOn \cup (IF policy.authorized THEN {"auth"} ELSE {})
                                   \cup (IF policy.cookies THEN {"cookie"} ELSE {})
    OBVIOUS
  <1>4. CacheKey(q) = [h \in K |-> q[h]] /\ CacheKey(b) = [h \in K |-> b[h]]
    BY <1>3 DEF CacheKey
  <1>5. \A h \in K : q[h] = b[h]
    <2> SUFFICES ASSUME NEW h \in K PROVE q[h] = b[h]
      OBVIOUS
    <2>1. CacheKey(q)[h] = q[h] /\ CacheKey(b)[h] = b[h]
      BY <1>4
    <2> QED BY <1>2, <2>1
  <1>6. p.vary \subseteq K
    BY <1>1, <1>3 DEF Cacheable, VaryIsSupported
  <1>7. K \subseteq DOMAIN q
    BY <1>3, AskValues
  <1>8. ASSUME NEW h \in {"auth", "cookie"}, NonEmpty(b[h]) PROVE q[h] = b[h]
    <2>1. CASE h = "auth"
      <3>1. NonEmpty(b.auth)
        BY <1>8, <2>1, HeaderField
      <3>2. policy.authorized
        BY <1>1, <3>1 DEF TakesPart
      <3>3. h \in K
        BY <1>3, <2>1, <3>2
      <3> QED BY <1>5, <3>3
    <2>2. CASE h = "cookie"
      <3>1. NonEmpty(b.cookie)
        BY <1>8, <2>2, HeaderField
      <3>2. policy.cookies
        BY <1>1, <3>1 DEF TakesPart
      <3>3. h \in K
        BY <1>3, <2>2, <3>2
      <3> QED BY <1>5, <3>3
    <2> QED BY <2>1, <2>2
  <1> QED BY <1>2, <1>5, <1>6, <1>7, <1>8 DEF SameVariant

\* A client is told that its content is not modified only when that is so.
LEMMA NotModifiedRight ==
    ASSUME NEW q \in Asks, NEW e, StoredEntry(e), NotModified(q, e)
    PROVE  ClientHasIt(q, e)
  <1>1. PICK b \in Asks, p \in Responses, t \in Nat : e = EntryAt(b, p, t)
    BY DEF StoredEntry
  <1>2. e.content = p.content
    BY <1>1 DEF EntryAt
  <1>3. CASE q.match # {}
    <2>1. Malformed \notin q.match /\ ("*" \in q.match \/ Tag[p.content] \in q.match)
      BY <1>2, <1>3 DEF NotModified
    <2>2. Tag[p.content] \in q.match => p.content = q.holds
      BY <2>1, AskValues
    <2> QED BY <1>2, <2>1, <2>2 DEF ClientHasIt
  <1>4. CASE q.match = {}
    <2>1. q.since # Unset /\ Modified[p.content] <= q.since
      BY <1>2, <1>4 DEF NotModified
    <2>2. q.since = Modified[q.holds]
      BY <2>1, AskValues
    <2> QED BY <1>2, <1>4, <2>1, <2>2 DEF ClientHasIt
  <1> QED BY <1>3, <1>4

\* What is found is young enough for the client and for the origin, however
\* long it was under way and in the cache.
LEMMA FoundIsYoung ==
    ASSUME policy \in Policies, lookedAt \in Nat, NEW q, NEW e, NEW from \in {"HIT", "STALE"},
           WasFound(q, e, lookedAt), from = "HIT" => lookedAt <= e.expiresAt
    PROVE  YoungEnough(q, e, from)
  <1>1. PICK b \in Asks, p \in Responses, t \in Nat : e = EntryAt(b, p, t) /\ Cacheable(p)
    BY DEF WasFound, StoredEntry
  <1>2. PICK a, l, n, r, s, d : /\ a = InitialAge(p) /\ l = Lifetime(p) /\ n = lookedAt /\ r = p.transit
                                /\ s = StaleIfError /\ d = DefaultTTL
    OBVIOUS
  <1>3. /\ a \in Int /\ a >= 0 /\ l \in Int /\ d \in Nat /\ s \in Nat
        /\ e.gotAt = t /\ e.response = p
        /\ IF policy.respect THEN /\ e.storedAt = t - a /\ e.expiresAt = t + (l - a) /\ l - a > 0
                                  /\ e.staleUntil = IF MayServeStale(p) THEN (t + (l - a)) + s ELSE t + (l - a)
           ELSE e.expiresAt = t + d /\ e.staleUntil = (t + d) + s
    BY <1>1, <1>2, EntryTimes
  <1>4. n \in Nat /\ r \in Nat /\ (Honest(p) => a >= r)
    BY <1>2, InitialAgeIs, ResponseValues
  <1>5. PICK x : x = IF Honest(p) THEN r ELSE 0
    OBVIOUS
  <1>6. x \in Nat /\ x <= a /\ AgeOf(e) = (n - t) + x
    <2>1. x \in Nat /\ x <= a
      BY <1>3, <1>4, <1>5
    <2>2. AgeOf(e) = (n - t) + x
      BY <1>2, <1>3, <1>5 DEF AgeOf
    <2> QED BY <2>1, <2>2
  <1>7. q \in Asks /\ Looks(q) /\ n <= e.staleUntil /\ (from = "HIT" => n <= e.expiresAt)
    BY <1>2 DEF WasFound
  <1>8. q.oldest # 0
    BY <1>7, LooksTakes
  <1>9. CASE ~policy.respect
    <2>1. n - t <= d + (IF from = "STALE" THEN s ELSE 0)
      <3>1. CASE from = "HIT"
        <4>1. n <= t + d
          BY <1>3, <1>7, <1>9, <3>1
        <4> QED BY <1>3, <1>4, <3>1, <4>1
      <3>2. CASE from = "STALE"
        <4>1. n <= (t + d) + s
          BY <1>3, <1>7, <1>9, <3>2
        <4> QED BY <1>3, <1>4, <3>2, <4>1
      <3> QED BY <3>1, <3>2
    <2> QED BY <1>2, <1>3, <1>8, <1>9, <2>1 DEF YoungEnough
  <1>10. CASE policy.respect
    <2>1. e.storedAt = t - a /\ e.expiresAt = t + (l - a) /\ l - a > 0
          /\ e.staleUntil = IF MayServeStale(p) THEN (t + (l - a)) + s ELSE t + (l - a)
      BY <1>3, <1>10
    <2>2. q.oldest # Unset => AgeOf(e) <= q.oldest
      <3>1. SUFFICES ASSUME q.oldest # Unset PROVE AgeOf(e) <= q.oldest
        OBVIOUS
      <3>2. PICK m : m = Directive(q.cc, "max-age")
        OBVIOUS
      <3>3. HasCacheDirective(q.cc, "max-age") /\ DeltaSeconds(m) /\ q.oldest = m
        BY <1>7, <3>1, <3>2, LooksTakes
      <3>4. m \in Int
        BY <1>7, <3>2, <3>3, DirectiveIs, AskValues
      <3>5. n - e.storedAt <= m
        BY <1>2, <3>2, <3>3 DEF WasFound
      <3>6. n - (t - a) <= m
        BY <2>1, <3>5
      <3>7. (n - t) + x <= m
        BY <1>3, <1>4, <1>6, <3>4, <3>6
      <3> QED BY <1>6, <3>3, <3>7
    <2>3. p.good = l
      BY <1>1, <1>2, <1>10, LifetimeIs DEF Cacheable, VaryIsSupported
    <2>4. l > 0
      BY <1>3, <2>1
    <2>5. p.strict => ~MayServeStale(p)
      BY <1>10, ResponseValues DEF MayServeStale, Says
    <2>6. PICK g : g = IF p.strict THEN 0 ELSE IF from = "STALE" THEN s ELSE 0
      OBVIOUS
    <2>7. (n - t) + x <= l + g
      <3>1. CASE from = "HIT"
        <4>1. n <= t + (l - a) /\ g = 0
          BY <1>7, <2>1, <2>6, <3>1
        <4> QED BY <1>3, <1>4, <1>6, <4>1
      <3>2. CASE from = "STALE" /\ ~p.strict
        <4>1. g = s /\ (n <= (t + (l - a)) + s \/ n <= t + (l - a))
          BY <1>7, <2>1, <2>6, <3>2
        <4> QED BY <1>3, <1>4, <1>6, <4>1
      <3>3. CASE from = "STALE" /\ p.strict
        <4>1. n <= t + (l - a) /\ g = 0
          BY <1>7, <2>1, <2>5, <2>6, <3>3
        <4> QED BY <1>3, <1>4, <1>6, <4>1
      <3> QED BY <3>1, <3>2, <3>3
    <2>8. p.good > 0 /\ AgeOf(e) <= p.good + (IF p.strict THEN 0 ELSE IF from = "STALE" THEN s ELSE 0)
      BY <1>6, <2>3, <2>4, <2>6, <2>7
    <2> QED BY <1>2, <1>3, <1>8, <1>10, <2>2, <2>8 DEF YoungEnough
  <1> QED BY <1>9, <1>10

-----------------------------------------------------------------------------
(* The steps.                                                              *)

\* The policy of the route stays, and all that depends on it.
LEMMA PolicyStays ==
    ASSUME policy' = policy, NEW e, NEW q, NEW t
    PROVE  /\ StoredEntry(e)' <=> StoredEntry(e)
           /\ WasFound(q, e, t)' <=> WasFound(q, e, t)
           /\ CacheKey(q)' = CacheKey(q)
  <1>1. \A r : CacheKey(r)' = CacheKey(r)
    BY DEF CacheKey
  <1>2. \A r : TakesPart(r)' <=> TakesPart(r)
    BY DEF TakesPart
  <1>3. \A p : TTL(p)' = TTL(p) /\ (MayServeStale(p)' <=> MayServeStale(p))
    BY DEF TTL, MayServeStale
  <1>4. \A p : Cacheable(p)' <=> Cacheable(p)
    BY <1>3 DEF Cacheable, VaryIsSupported
  <1>5. \A r, p, u : EntryAt(r, p, u)' = EntryAt(r, p, u)
    BY <1>1, <1>3 DEF EntryAt
  <1>6. StoredEntry(e)' <=> StoredEntry(e)
    BY <1>2, <1>4, <1>5 DEF StoredEntry
  <1>7. Looks(q)' <=> Looks(q)
    BY <1>2 DEF Looks
  <1>8. WasFound(q, e, t)' <=> WasFound(q, e, t)
    BY <1>1, <1>6, <1>7 DEF WasFound
  <1> QED BY <1>1, <1>6, <1>8

\* Removing entries keeps what holds of the cache.
LEMMA KeptFewer ==
    ASSUME KeptInv, policy' = policy, kept' \subseteq kept, exchanges \in Nat, exchanges' \in Nat,
           exchanges <= exchanges'
    PROVE  KeptInv'
  <1>1. \A e \in kept' : StoredEntry(e)'
    BY PolicyStays DEF KeptInv
  <1>2. \A e, f \in kept' : e.key = f.key => e = f
    BY DEF KeptInv
  <1>3. IsFiniteSet(kept') /\ Cardinality(kept') <= Cardinality(kept)
    BY FS_Subset DEF KeptInv
  <1>4. Cardinality(kept) \in Nat /\ Cardinality(kept') \in Nat /\ Cardinality(kept) <= exchanges
    BY <1>3, FS_CardinalityType DEF KeptInv
  <1>5. Cardinality(kept') <= exchanges'
    BY <1>3, <1>4
  <1> QED BY <1>1, <1>2, <1>3, <1>5 DEF KeptInv

\* Set replaces the entry of its key.
LEMMA KeptMore ==
    ASSUME KeptInv, policy' = policy, NEW q \in Asks, NEW p \in Responses, clock \in Nat,
           TakesPart(q), Cacheable(p), kept' = Stored(q, p), exchanges \in Nat, exchanges' = exchanges + 1
    PROVE  KeptInv'
  <1>1. PICK n, S, k : /\ n = NewEntry(q, p) /\ S = {e \in kept : e.key # CacheKey(q)} /\ k = CacheKey(q)
    OBVIOUS
  <1>2. kept' = S \cup {n} /\ S \subseteq kept
    BY <1>1 DEF Stored
  <1>3. n = EntryAt(q, p, clock) /\ n.key = k
    BY <1>1 DEF NewEntry, EntryAt
  <1>4. StoredEntry(n)
    BY <1>3 DEF StoredEntry
  <1>5. \A e \in kept' : StoredEntry(e)'
    <2>1. \A e \in kept' : StoredEntry(e)
      BY <1>2, <1>4 DEF KeptInv
    <2> QED BY <2>1, PolicyStays
  <1>6. \A e, f \in kept' : e.key = f.key => e = f
    <2>1. \A e \in S : e.key # n.key
      BY <1>1, <1>3
    <2>2. \A e, f \in S : e.key = f.key => e = f
      BY <1>2 DEF KeptInv
    <2> QED BY <1>2, <2>1, <2>2
  <1>7. IsFiniteSet(S) /\ Cardinality(S) <= Cardinality(kept) /\ Cardinality(S) \in Nat /\ Cardinality(kept) \in Nat
    BY <1>2, FS_Subset, FS_CardinalityType DEF KeptInv
  <1>8. IsFiniteSet(kept') /\ (Cardinality(kept') = Cardinality(S) \/ Cardinality(kept') = Cardinality(S) + 1)
    BY <1>2, <1>7, FS_AddElement
  <1>9. Cardinality(kept) <= exchanges
    BY DEF KeptInv
  <1>10. Cardinality(kept') <= exchanges'
    BY <1>7, <1>8, <1>9
  <1> QED BY <1>5, <1>6, <1>8, <1>10 DEF KeptInv

\* NoAnswer is one that fits.
LEMMA NoAnswerFits ==
    ASSUME NEW t
    PROVE  FitAnswer(NoAnswer, t)
  BY DEF FitAnswer, NoAnswer

\* An entry found at the time it is served fits, and so does a stale one that
\* was found when the request came.
LEMMA EntryFits ==
    ASSUME NEW q, NEW e, NEW t, NEW from \in {"HIT", "STALE"}, WasFound(q, e, t),
           from = "HIT" => t <= e.expiresAt, NEW w,
           w = [from |-> from, ask |-> q, entry |-> e, notModified |-> NotModified(q, e)]
    PROVE  FitAnswer(w, t)
  <1>1. w.from = from /\ w.ask = q /\ w.entry = e /\ w.notModified = NotModified(q, e)
    OBVIOUS
  <1> QED BY <1>1 DEF FitAnswer

\* What is found stays found while the policy stays.
LEMMA AnswerStays ==
    ASSUME policy' = policy, NEW w, NEW t, FitAnswer(w, t)
    PROVE  FitAnswer(w, t)'
  BY PolicyStays DEF FitAnswer

\* What Usable gives was found at this moment.
LEMMA UsableFound ==
    ASSUME KeptInv, NEW q \in Asks, Looks(q), NEW e \in Usable(q)
    PROVE  WasFound(q, e, clock)
  BY DEF Usable, Alive, AllowsEntry, WasFound, KeptInv

\* No request is NoAsk.
LEMMA AskIsOne ==
    ASSUME NEW q \in Asks
    PROVE  q # NoAsk
  BY SafeMethods DEF NoAsk

\* handleRoute's lookup.
LEMMA AskKeeps ==
    ASSUME PolicyInv, NEW q \in Asks, Ask(q)
    PROVE  PolicyInv'
  <1>1. /\ policy' = policy /\ clock' = clock /\ exchanges' = exchanges /\ lookedAt' = clock /\ asking = NoAsk
        /\ kept' \subseteq kept
    BY DEF Ask
  <1>2. /\ policy \in Policies /\ clock \in 0..MaxClock /\ exchanges \in 0..MaxExchanges /\ KeptInv
        /\ candidate = NoCandidate /\ MaxExchanges \in Nat
    BY <1>1, PolicyValues DEF PolicyInv
  <1>3. KeptInv'
    <2>1. exchanges \in Nat /\ exchanges' \in Nat /\ exchanges <= exchanges'
      BY <1>1, <1>2
    <2> QED BY <1>1, <1>2, <2>1, KeptFewer
  <1>4. CASE \E e \in Usable(q) : Looks(q) /\ clock <= e.expiresAt /\ ServeEntry(q, e, "HIT")
                                  /\ UNCHANGED <<asking, candidate>>
    <2>1. PICK e \in Usable(q) : Looks(q) /\ clock <= e.expiresAt /\ ServeEntry(q, e, "HIT")
      BY <1>4
    <2>2. PICK w, t : w = answered' /\ t = clock
      OBVIOUS
    <2>3. w = [from |-> "HIT", ask |-> q, entry |-> e, notModified |-> NotModified(q, e)]
      BY <2>1, <2>2 DEF ServeEntry
    <2>4. WasFound(q, e, t)
      BY <1>2, <2>1, <2>2, UsableFound
    <2>5. FitAnswer(w, t)
      BY <2>1, <2>2, <2>3, <2>4, EntryFits
    <2>6. FitAnswer(w, t)'
      BY <1>1, <2>5, AnswerStays
    <2>7. FitAnswer(answered, lookedAt)'
      BY <1>1, <2>2, <2>6
    <2>8. asking' = NoAsk /\ candidate' = NoCandidate
      BY <1>1, <1>2, <1>4
    <2> QED BY <1>1, <1>2, <1>3, <2>7, <2>8 DEF PolicyInv
  <1>5. CASE /\ asking' = q /\ answered' = NoAnswer
             /\ candidate' = IF Looks(q) /\ Usable(q) # {} THEN CHOOSE e \in Usable(q) : TRUE ELSE NoCandidate
    <2>1. FitAnswer(answered, lookedAt)'
      <3>1. PICK w, t : w = NoAnswer /\ t = clock
        OBVIOUS
      <3>2. FitAnswer(w, t)'
        BY <1>1, <3>1, NoAnswerFits, AnswerStays
      <3> QED BY <1>1, <1>5, <3>1, <3>2
    <2>2. candidate' # NoCandidate => WasFound(asking, candidate, lookedAt)'
      <3>1. SUFFICES ASSUME candidate' # NoCandidate PROVE WasFound(asking, candidate, lookedAt)'
        OBVIOUS
      <3>2. Looks(q) /\ candidate' \in Usable(q)
        BY <1>5, <3>1
      <3>3. PICK e, t : e = candidate' /\ t = clock
        OBVIOUS
      <3>4. WasFound(q, e, t)
        BY <1>2, <3>2, <3>3, UsableFound
      <3>5. WasFound(q, e, t)'
        BY <1>1, <3>4, PolicyStays
      <3> QED BY <1>1, <1>5, <3>3, <3>5
    <2>3. asking' \in Asks /\ asking' # NoAsk
      BY <1>5, AskIsOne
    <2> QED BY <1>1, <1>2, <1>3, <2>1, <2>2, <2>3 DEF PolicyInv
  <1> QED BY <1>4, <1>5 DEF Ask

\* Stale content is served as it was found.
LEMMA StaleFits ==
    ASSUME PolicyInv, GoesStale, policy' = policy, lookedAt' = lookedAt
    PROVE  FitAnswer(answered, lookedAt)'
  <1>1. PICK q, e, t, w : q = asking /\ e = candidate /\ t = lookedAt /\ w = answered'
    OBVIOUS
  <1>2. WasFound(q, e, t)
    BY <1>1 DEF PolicyInv, GoesStale
  <1>3. w = [from |-> "STALE", ask |-> q, entry |-> e, notModified |-> NotModified(q, e)]
    BY <1>1 DEF GoesStale, ServeEntry
  <1>4. FitAnswer(w, t)
    BY <1>2, <1>3, EntryFits
  <1>5. FitAnswer(w, t)'
    BY <1>4, AnswerStays
  <1> QED BY <1>1, <1>5

\* An answer that stays, or that is taken away, fits.
LEMMA OldFits ==
    ASSUME PolicyInv, policy' = policy,
           answered' = NoAnswer \/ (answered' = answered /\ lookedAt' = lookedAt)
    PROVE  FitAnswer(answered, lookedAt)'
  <1>1. PICK w, t : w = answered' /\ t = lookedAt'
    OBVIOUS
  <1>2. FitAnswer(w, t)
    BY <1>1, NoAnswerFits DEF PolicyInv
  <1>3. FitAnswer(w, t)'
    BY <1>2, AnswerStays
  <1> QED BY <1>1, <1>3

\* fetchAndServe when the origin answers.
LEMMA ReceiveKeeps ==
    ASSUME PolicyInv, NEW p \in Responses, Receive(p)
    PROVE  PolicyInv'
  <1>1. /\ policy' = policy /\ clock' = clock /\ exchanges' = exchanges + 1 /\ lookedAt' = lookedAt
        /\ asking # NoAsk /\ exchanges < MaxExchanges /\ asking' = NoAsk /\ candidate' = NoCandidate
    BY DEF Receive
  <1>2. /\ policy \in Policies /\ clock \in 0..MaxClock /\ lookedAt \in 0..MaxClock /\ exchanges \in 0..MaxExchanges
        /\ KeptInv /\ asking \in Asks /\ MaxExchanges \in Nat /\ MaxClock \in Nat
    BY <1>1, PolicyValues DEF PolicyInv
  <1>3. exchanges \in Nat /\ exchanges' \in Nat /\ exchanges <= exchanges' /\ exchanges' \in 0..MaxExchanges /\ clock \in Nat
    BY <1>1, <1>2
  <1>4. KeptInv'
    <2>1. CASE kept' = kept
      BY <1>1, <1>2, <1>3, <2>1, KeptFewer
    <2>2. CASE TakesPart(asking) /\ Cacheable(p) /\ kept' = Stored(asking, p)
      <3>1. PICK q : q = asking
        OBVIOUS
      <3> QED BY <1>1, <1>2, <1>3, <2>2, <3>1, KeptMore
    <2> QED BY <2>1, <2>2 DEF Receive, GoesStale
  <1>5. FitAnswer(answered, lookedAt)'
    <2>1. CASE GoesStale
      BY <1>1, <2>1, StaleFits
    <2>2. CASE answered' = NoAnswer
      BY <1>1, <2>2, OldFits
    <2> QED BY <2>1, <2>2 DEF Receive
  <1> QED BY <1>1, <1>2, <1>3, <1>4, <1>5 DEF PolicyInv

\* fetchAndServe when the origin does not answer.
LEMMA FailKeeps ==
    ASSUME PolicyInv, OriginFails
    PROVE  PolicyInv'
  <1>1. /\ policy' = policy /\ clock' = clock /\ exchanges' = exchanges /\ lookedAt' = lookedAt
        /\ asking' = NoAsk /\ candidate' = NoCandidate /\ kept' = kept
    BY DEF OriginFails, GoesStale
  <1>2. /\ policy \in Policies /\ clock \in 0..MaxClock /\ lookedAt \in 0..MaxClock /\ exchanges \in 0..MaxExchanges
        /\ KeptInv /\ MaxExchanges \in Nat
    BY PolicyValues DEF PolicyInv
  <1>3. exchanges \in Nat /\ exchanges' \in Nat /\ exchanges <= exchanges'
    BY <1>1, <1>2
  <1>4. KeptInv'
    BY <1>1, <1>2, <1>3, KeptFewer
  <1>5. FitAnswer(answered, lookedAt)'
    <2>1. CASE GoesStale
      BY <1>1, <2>1, StaleFits
    <2>2. CASE answered' = answered
      BY <1>1, <2>2, OldFits
    <2> QED BY <2>1, <2>2 DEF OriginFails
  <1> QED BY <1>1, <1>2, <1>4, <1>5 DEF PolicyInv

\* Time passes; a stale entry stays with its request.
LEMMA TickKeeps ==
    ASSUME PolicyInv, ClockTicks
    PROVE  PolicyInv'
  <1>1. /\ policy' = policy /\ clock' = clock + 1 /\ clock < MaxClock /\ exchanges' = exchanges /\ kept' = kept
        /\ asking' = asking /\ candidate' = candidate /\ answered' = NoAnswer
        /\ lookedAt' = IF asking = NoAsk THEN 0 ELSE lookedAt
    BY DEF ClockTicks
  <1>2. /\ policy \in Policies /\ clock \in 0..MaxClock /\ lookedAt \in 0..MaxClock /\ exchanges \in 0..MaxExchanges
        /\ KeptInv /\ asking \in Asks \cup {NoAsk} /\ (asking = NoAsk => candidate = NoCandidate)
        /\ MaxExchanges \in Nat /\ MaxClock \in Nat
    BY PolicyValues DEF PolicyInv
  <1>3. /\ exchanges \in Nat /\ exchanges' \in Nat /\ exchanges <= exchanges' /\ clock' \in 0..MaxClock
        /\ lookedAt' \in 0..MaxClock
    BY <1>1, <1>2
  <1>4. KeptInv'
    BY <1>1, <1>2, <1>3, KeptFewer
  <1>5. FitAnswer(answered, lookedAt)'
    <2>1. policy' = policy /\ answered' = NoAnswer
      BY <1>1
    <2> QED BY <2>1, OldFits
  <1>6. candidate' # NoCandidate => WasFound(asking, candidate, lookedAt)'
    <2>1. SUFFICES ASSUME candidate' # NoCandidate PROVE WasFound(asking, candidate, lookedAt)'
      OBVIOUS
    <2>2. lookedAt' = lookedAt
      BY <1>1, <1>2, <2>1
    <2>3. PICK q, e, t : q = asking /\ e = candidate /\ t = lookedAt
      OBVIOUS
    <2>4. WasFound(q, e, t)
      BY <1>1, <2>1, <2>3 DEF PolicyInv
    <2>5. WasFound(q, e, t)'
      BY <1>1, <2>4, PolicyStays
    <2> QED BY <1>1, <2>2, <2>3, <2>5
  <1> QED BY <1>1, <1>2, <1>3, <1>4, <1>5, <1>6 DEF PolicyInv

\* The invariant of the cache's policy.
THEOREM PolicyInvariant == PolicySpec => []PolicyInv
  <1>1. PolicyInit => PolicyInv
    <2> SUFFICES ASSUME PolicyInit PROVE PolicyInv
      OBVIOUS
    <2>1. KeptInv
      <3>1. IsFiniteSet({}) /\ Cardinality({}) = 0
        BY FS_EmptySet
      <3> QED BY <3>1 DEF PolicyInit, KeptInv
    <2>2. FitAnswer(answered, lookedAt)
      BY NoAnswerFits DEF PolicyInit
    <2>3. MaxClock \in Nat /\ MaxExchanges \in Nat
      BY PolicyValues
    <2> QED BY <2>1, <2>2, <2>3 DEF PolicyInit, PolicyInv
  <1>2. PolicyInv /\ [PolicyNext]_policyVars => PolicyInv'
    <2> SUFFICES ASSUME PolicyInv, [PolicyNext]_policyVars PROVE PolicyInv'
      OBVIOUS
    <2>1. CASE UNCHANGED policyVars
      <3>1. /\ policy' = policy /\ clock' = clock /\ exchanges' = exchanges /\ lookedAt' = lookedAt
            /\ asking' = asking /\ candidate' = candidate /\ kept' = kept /\ answered' = answered
        BY <2>1 DEF policyVars
      <3>2. exchanges \in Nat /\ exchanges' \in Nat /\ exchanges <= exchanges'
        BY <3>1, PolicyValues DEF PolicyInv
      <3>3. KeptInv'
        BY <3>1, <3>2, KeptFewer DEF PolicyInv
      <3>4. FitAnswer(answered, lookedAt)'
        BY <3>1, OldFits
      <3>5. candidate' # NoCandidate => WasFound(asking, candidate, lookedAt)'
        <4>1. PICK q, e, t : q = asking /\ e = candidate /\ t = lookedAt
          OBVIOUS
        <4>2. e # NoCandidate => WasFound(q, e, t)'
          BY <3>1, <4>1, PolicyStays DEF PolicyInv
        <4> QED BY <3>1, <4>1, <4>2
      <3> QED BY <3>1, <3>3, <3>4, <3>5 DEF PolicyInv
    <2>2. CASE \E q \in Asks : Ask(q)
      BY <2>2, AskKeeps
    <2>3. CASE \E p \in Responses : Receive(p)
      BY <2>3, ReceiveKeeps
    <2>4. CASE OriginFails
      BY <2>4, FailKeeps
    <2>5. CASE ClockTicks
      BY <2>5, TickKeeps
    <2> QED BY <2>1, <2>2, <2>3, <2>4, <2>5 DEF PolicyNext
  <1> QED BY <1>1, <1>2, PTL DEF PolicySpec

\* The cache keeps one entry for a key and never more than the origin has sent
\* responses, and a stale entry is never kept beyond its request.
THEOREM PolicyTypes == PolicySpec => []PolicyTypeOK
  <1>1. PolicyInv => PolicyTypeOK
    BY DEF PolicyInv, PolicyTypeOK, KeptInv, FitAnswer
  <1> QED BY <1>1, PolicyInvariant, PTL

\* Every answer from the cache is one its request is entitled to, for every
\* policy of the route, every request and every response
\* (cache_policy.go:17-58 and 101-271, handler.go:386-402, 690-728 and
\* 1070-1100).
THEOREM CacheEntitles == PolicySpec => []CacheAnswersFit
  <1>1. PolicyInv => CacheAnswersFit
    <2> SUFFICES ASSUME PolicyInv, answered.from # "none"
                 PROVE  /\ SameVariant(answered.ask, answered.entry)
                        /\ YoungEnough(answered.ask, answered.entry, answered.from)
                        /\ answered.notModified => ClientHasIt(answered.ask, answered.entry)
      BY DEF CacheAnswersFit
    <2>1. PICK q, e, from : q = answered.ask /\ e = answered.entry /\ from = answered.from
      OBVIOUS
    <2>2. /\ WasFound(q, e, lookedAt) /\ from \in {"HIT", "STALE"} /\ (from = "HIT" => lookedAt <= e.expiresAt)
          /\ answered.notModified => NotModified(q, e)
      BY <2>1 DEF PolicyInv, FitAnswer
    <2>3. policy \in Policies /\ lookedAt \in Nat
      BY PolicyValues DEF PolicyInv
    <2>4. q \in Asks /\ StoredEntry(e) /\ e.key = CacheKey(q)
      BY <2>2 DEF WasFound
    <2>5. SameVariant(q, e)
      BY <2>3, <2>4, KeyParts
    <2>6. YoungEnough(q, e, from)
      BY <2>2, <2>3, FoundIsYoung
    <2>7. answered.notModified => ClientHasIt(q, e)
      BY <2>2, <2>4, NotModifiedRight
    <2> QED BY <2>1, <2>5, <2>6, <2>7
  <1> QED BY <1>1, PolicyInvariant, PTL
==============================================================================
