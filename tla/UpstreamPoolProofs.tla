------------------------- MODULE UpstreamPoolProofs -------------------------
(***************************************************************************)
(* What holds of upstreamPool and of the attempt loop that drives it (see  *)
(* UpstreamPool) for every number of origins, weights, priorities,         *)
(* requests, retries and health checks.                                    *)
(***************************************************************************)
EXTENDS UpstreamPool, SetSums

Placed == {"trip", "recover", "blame", "drop", "serve"}

\* A set that a request may be sent to does not bring back an origin that it
\* has tried while there is one that it has not.
Spread(S, ex) == S \cap ex # {} => ex = Nodes

\* What the place of a request in the attempt loop says about it.
RequestOK(r) ==
    /\ at[r] \in Placed => node[r] \in Nodes
    /\ at[r] = "select" => Counted(r) /\ Spread(cand[r], excluded[r])
    /\ at[r] = "trip" => Spread({node[r]}, excluded[r])
    /\ at[r] = "blame" /\ Counted(r) => node[r] \in faulted

\* A check finds only an origin bad that was down.
SignsOK == \A n \in Nodes : ~up[n] \/ checking[n] = "bad" => n \in faulted

PoolInv == PoolTypeOK /\ ActiveExact /\ SignsOK /\ \A r \in Requests : RequestOK(r)

\* A step that leaves a request alone.
Aside(s) == /\ at'[s] = at[s] /\ kind'[s] = kind[s] /\ node'[s] = node[s]
            /\ cand'[s] = cand[s] /\ excluded'[s] = excluded[s]

\* A request that a step leaves alone keeps what its place says about it
\* (fetchAndServe's locals belong to one goroutine).
LEMMA AsideKeeps ==
    ASSUME NEW s, RequestOK(s), Aside(s), faulted \subseteq faulted'
    PROVE  RequestOK(s)'
  BY DEF RequestOK, Aside, Counted, Spread

-----------------------------------------------------------------------------
(* Counting the requests that use an origin.                               *)

\* The requests that use an origin are finitely many.
LEMMA UsingFinite ==
    ASSUME NEW n
    PROVE  IsFiniteSet(Using(n)) /\ Cardinality(Using(n)) \in Nat
  BY FiniteRequests, FS_Subset, FS_CardinalityType DEF Using

\* A step after which every request uses the origin it used before leaves the
\* counts exact when it leaves them alone.
LEMMA CountsStay ==
    ASSUME ActiveExact, UNCHANGED active,
           \A s \in Requests, n \in Nodes : s \in Using(n)' <=> s \in Using(n)
    PROVE  ActiveExact'
  <1>1. \A n \in Nodes : Using(n)' = Using(n)
    BY DEF Using
  <1> QED BY <1>1 DEF ActiveExact

\* releaseActive by a request that uses its origin and does not afterwards.
LEMMA CountsRelease ==
    ASSUME PoolTypeOK, ActiveExact, NEW r \in Requests, node[r] \in Nodes, at[r] \in Placed,
           Release(r), kind'[r] # "probe" => at'[r] \notin Placed,
           \A s \in Requests \ {r} : Aside(s)
    PROVE  ActiveExact' /\ active' \in [Nodes -> Nat]
  <1>1. \A n \in Nodes : IsFiniteSet(Using(n)) /\ active[n] = Cardinality(Using(n)) /\ active[n] \in Nat
    BY UsingFinite DEF ActiveExact, PoolTypeOK
  <1>2. \A n \in Nodes : Using(n)' = Using(n) \ {r}
    BY DEF Using, Aside, Counted, Places, Placed
  <1>3. \A n \in Nodes : r \in Using(n) <=> Counted(r) /\ node[r] = n
    BY DEF Using, Places, Placed
  <1>4. CASE ~Counted(r)
    <2>1. \A n \in Nodes : Using(n)' = Using(n)
      BY <1>2, <1>3, <1>4
    <2> QED BY <1>1, <1>4, <2>1 DEF ActiveExact, Release, PoolTypeOK
  <1>5. CASE Counted(r)
    <2>1. active' = [active EXCEPT ![node[r]] = @ - 1]
      BY <1>5 DEF Release
    <2>2. ASSUME NEW n \in Nodes
          PROVE  active'[n] = Cardinality(Using(n)') /\ active'[n] \in Nat
      <3>1. CASE n = node[r]
        <4>1. Cardinality(Using(n) \ {r}) = Cardinality(Using(n)) - 1
          BY <1>1, <1>3, <1>5, <3>1, FS_RemoveElement
        <4>2. Cardinality(Using(n) \ {r}) \in Nat
          BY <1>1, FS_Subset, FS_CardinalityType
        <4> QED BY <1>1, <1>2, <2>1, <3>1, <4>1, <4>2 DEF PoolTypeOK
      <3>2. CASE n # node[r]
        <4>1. Using(n)' = Using(n)
          BY <1>2, <1>3, <3>2
        <4> QED BY <1>1, <2>1, <3>2, <4>1 DEF PoolTypeOK
      <3> QED BY <3>1, <3>2
    <2> QED BY <2>1, <2>2 DEF ActiveExact, PoolTypeOK
  <1> QED BY <1>4, <1>5

\* pick counts the origin it selects for a request that used none.
LEMMA CountsPick ==
    ASSUME PoolTypeOK, ActiveExact, NEW r \in Requests, NEW n \in Nodes, at[r] = "select",
           active' = [active EXCEPT ![n] = @ + 1],
           kind'[r] # "probe", node'[r] = n, at'[r] = "trip",
           \A s \in Requests \ {r} : Aside(s)
    PROVE  ActiveExact' /\ active' \in [Nodes -> Nat]
  <1>1. \A m \in Nodes : IsFiniteSet(Using(m)) /\ active[m] = Cardinality(Using(m)) /\ active[m] \in Nat
    BY UsingFinite DEF ActiveExact, PoolTypeOK
  <1>2. \A m \in Nodes : r \notin Using(m)
    BY DEF Using, Places
  <1>3. \A m \in Nodes : Using(m)' = IF m = n THEN Using(m) \cup {r} ELSE Using(m)
    BY <1>2 DEF Using, Aside, Counted, Places
  <1>4. Cardinality(Using(n) \cup {r}) = Cardinality(Using(n)) + 1
    BY <1>1, <1>2, FS_AddElement
  <1>5. ASSUME NEW m \in Nodes
        PROVE  active'[m] = Cardinality(Using(m)') /\ active'[m] \in Nat
    <2>1. active'[m] = IF m = n THEN active[m] + 1 ELSE active[m]
      BY DEF PoolTypeOK
    <2>2. CASE m = n
      <3>1. Cardinality(Using(m)') = Cardinality(Using(n)) + 1
        BY <1>3, <1>4, <2>2
      <3> QED BY <1>1, <2>1, <2>2, <3>1
    <2>3. CASE m # n
      BY <1>1, <1>3, <2>1, <2>3
    <2> QED BY <2>2, <2>3
  <1> QED BY <1>5 DEF ActiveExact, PoolTypeOK

-----------------------------------------------------------------------------
(* The scheduler.                                                          *)

\* There is at least one origin, and there are finitely many.
LEMMA NodesFinite ==
    IsFiniteSet(Nodes) /\ Nodes # {} /\ Cardinality(Nodes) = N /\ Nodes \subseteq Nat
  <1>1. N \in Nat /\ 1 \in Nodes
    BY PoolSize DEF Nodes
  <1>2. IsFiniteSet(1..N) /\ Cardinality(1..N) = N
    BY <1>1, FS_Interval
  <1> QED BY <1>1, <1>2 DEF Nodes

\* The weights of the candidates have a total.
LEMMA TotalIsSum ==
    /\ \A S : Total(S) = Sum(Weight, S)
    /\ \A n \in Nodes : Weight[n] \in Nat \ {0}
    /\ \A S \in SUBSET Nodes : Total(S) \in Int
  <1>1. \A S : Total(S) = Sum(Weight, S)
    BY DEF Total, Sum
  <1>2. \A n \in Nodes : Weight[n] \in Nat \ {0}
    BY NodeSettings
  <1>3. \A n \in Nodes : Weight[n] \in Int
    BY <1>2
  <1>4. \A S \in SUBSET Nodes : Sum(Weight, S) \in Int
    BY <1>3, NodesFinite, SumType
  <1> QED BY <1>1, <1>2, <1>4

\* The counter of round_robin is taken modulo a positive number.
LEMMA TurnsPositive == ProductSet(Nodes) \in Nat \ {0}
  <1> DEFINE P == Nat \ {0}
             step == [p \in Nodes \X P |-> p[1] * p[2]]
             Def(g) == g = [s \in SUBSET Nodes |-> IF s = {} THEN 1 ELSE Chosen(s) * g[Rest(s)]]
             it == CHOOSE g : Def(g)
  <1>1. step \in [Nodes \X P -> P] /\ 1 \in P
    BY DEF Nodes
  <1>2. PICK g \in [SUBSET Nodes -> P] : FoldsTo(g, SUBSET Nodes, 1, step)
    <2> HIDE DEF step, P
    <2> QED BY <1>1, NodesFinite, FoldExists, Zenon
  <1>3. \A s \in SUBSET Nodes : s # {} => Chosen(s) \in Nodes /\ Rest(s) \in SUBSET Nodes
    BY DEF Chosen, Rest
  <1>4. Def(g)
    BY <1>2, <1>3 DEF FoldsTo
  <1>5. Def(it)
    <2> HIDE DEF Def
    <2> QED BY <1>4
  <1>6. ProductSet(Nodes) = it[Nodes]
    BY DEF ProductSet, FoldSet, MapThenFoldSet, Chosen, Rest
  <1> HIDE DEF it
  <1>7. \A s \in SUBSET Nodes : it[s] = g[s]
    <2> DEFINE Good == {s \in SUBSET Nodes : it[s] = g[s]}
    <2>1. ASSUME NEW s \in SUBSET Nodes, \A x \in s : s \ {x} \in Good
          PROVE  s \in Good
      <3>1. s # {} => Chosen(s) \in s /\ Rest(s) \in Good
        BY <2>1 DEF Chosen, Rest
      <3> QED BY <1>4, <1>5, <3>1
    <2> HIDE DEF Good
    <2>2. \A s \in SUBSET Nodes : s \in Good
      BY <2>1, NodesFinite, StrongSetInduction
    <2> QED BY <2>2 DEF Good
  <1> QED BY <1>2, <1>6, <1>7

\* The step of pickSmoothWeighted with candidates S: the winner n is a
\* candidate, no candidate is heavier, and it pays what the candidates got.
SmoothStep(S, n) ==
    /\ S \in SUBSET Nodes /\ n \in S
    /\ \A m \in S : Raised(S)[m] <= Raised(S)[n]
    /\ cw' = [Raised(S) EXCEPT ![n] = @ - Total(S)]

\* The loop of pickSmoothWeighted finds the heaviest of its candidates.
LEMMA HeaviestWins ==
    ASSUME PoolTypeOK, NEW S \in SUBSET Nodes, S # {}, NEW n, PickSmoothWeighted(S, n)
    PROVE  SmoothStep(S, n) /\ UNCHANGED turn
  <1> DEFINE R == Raised(S)
             First(a) == \A m \in S \ {a} : R[a] > R[m] \/ (a < m /\ ~(R[m] > R[a]))
             Top == {a \in S : \A m \in S : R[m] <= R[a]}
  <1>1. \A a \in S : R[a] \in Int /\ a \in Nat
    BY NodesFinite, NodeSettings DEF Raised, PoolTypeOK
  <1>2. IsFiniteSet(S)
    BY NodesFinite, FS_Subset
  <1> HIDE DEF R
  <1>3. Top # {}
    BY <1>1, <1>2, Largest
  <1>4. PICK a \in Top : \A m \in Top : a <= m
    BY <1>1, <1>3, LeastNat
  <1>5. First(a)
    BY <1>1, <1>4
  <1>6. n = CHOOSE x \in S : First(x)
    BY DEF PickSmoothWeighted, Heaviest, Best, R
  <1>7. n \in S /\ First(n)
    <2> HIDE DEF First
    <2> QED BY <1>4, <1>5, <1>6
  <1>8. \A m \in S : R[m] <= R[n]
    BY <1>1, <1>7
  <1> QED BY <1>7, <1>8 DEF SmoothStep, PickSmoothWeighted, R

\* What a step of pickSmoothWeighted leaves are weights.
LEMMA SmoothType ==
    ASSUME PoolTypeOK, NEW S, NEW n, SmoothStep(S, n)
    PROVE  cw' \in [Nodes -> Int]
  <1>1. Raised(S) \in [Nodes -> Int]
    BY NodeSettings DEF Raised, PoolTypeOK
  <1>2. Total(S) \in Int
    BY TotalIsSum DEF SmoothStep
  <1> QED BY <1>1, <1>2 DEF SmoothStep

\* Whatever the algorithm, pick moves the scheduler's state by a step of
\* pickSmoothWeighted or leaves the weights alone, and keeps it typed.
LEMMA PickNodeSteps ==
    ASSUME PoolTypeOK, NEW S \in SUBSET Nodes, NEW n \in S, PickNode(S, n)
    PROVE  /\ UNCHANGED cw \/ \E G \in SUBSET Nodes : SmoothStep(G, n)
           /\ cw' \in [Nodes -> Int] /\ turn' \in Nat
  <1>1. cw \in [Nodes -> Int] /\ turn \in Nat
    BY DEF PoolTypeOK
  <1>2. CASE UNCHANGED <<cw, turn>>
    BY <1>1, <1>2
  <1>3. ASSUME NEW G \in SUBSET S, G # {}, PickSmoothWeighted(G, n)
        PROVE  /\ \E H \in SUBSET Nodes : SmoothStep(H, n)
               /\ cw' \in [Nodes -> Int] /\ turn' \in Nat
    <2>1. SmoothStep(G, n) /\ UNCHANGED turn
      BY <1>3, HeaviestWins
    <2> QED BY <1>1, <2>1, SmoothType
  <1>4. CASE PickRoundRobin(S, n)
    <2>1. turn' = (turn + 1) % ProductSet(Nodes) /\ UNCHANGED cw
      BY <1>4 DEF PickRoundRobin
    <2> QED BY <1>1, <2>1, TurnsPositive
  <1>5. CASE PickPriority(S, n)
    <2> DEFINE group == {m \in S : \A o \in S : Priority[m] <= Priority[o]}
               minus == [m \in Nodes |-> 0 - Priority[m]]
    <2>1. \A m \in Nodes : minus[m] \in Int /\ Priority[m] \in Int /\ minus[m] = 0 - Priority[m]
      BY NodeSettings
    <2> HIDE DEF minus
    <2>2. PICK m \in S : \A o \in S : minus[o] <= minus[m]
      BY <2>1, NodesFinite, FS_Subset, Largest
    <2>3. m \in group
      <3>1. \A o \in S : Priority[m] <= Priority[o]
        BY <2>1, <2>2
      <3> QED BY <3>1
    <2>4. PickSmoothWeighted(group, n) \/ UNCHANGED <<cw, turn>>
      BY <1>5 DEF PickPriority
    <2> HIDE DEF group
    <2>5. group \in SUBSET S
      BY DEF group
    <2> QED BY <1>2, <1>3, <2>3, <2>4, <2>5
  <1>6. CASE PickSmoothWeighted(S, n)
    BY <1>3, <1>6
  <1> QED BY <1>2, <1>4, <1>5, <1>6 DEF PickNode, PickLeastConnections, PickAny

-----------------------------------------------------------------------------
(* Smooth weighting.                                                       *)

\* No k origins together are more than k times the number of the others above
\* zero, in units of the largest weight.  This is what makes the bound on one
\* origin inductive: an origin that does not win may gain what the others of
\* its group have lost.
Reach(A) == MostWeight * (Cardinality(A) * (N - Cardinality(A)))
WeightInv == Sum(cw, Nodes) = 0 /\ \A A \in SUBSET Nodes : Sum(cw, A) <= Reach(A)

\* Sums over sets of origins are numbers, and any origin may be taken out.
LEMMA NodeSums ==
    ASSUME NEW f, \A x \in Nodes : f[x] \in Int, NEW A \in SUBSET Nodes
    PROVE  /\ IsFiniteSet(A) /\ Cardinality(A) \in Nat /\ Sum(f, A) \in Int
           /\ \A x \in A : Sum(f, A) = f[x] + Sum(f, A \ {x})
  <1>0. IsFiniteSet(Nodes)
    BY NodesFinite
  <1>1. IsFiniteSet(A) /\ Cardinality(A) \in Nat
    BY NodesFinite, FS_Subset, FS_CardinalityType
  <1>2. Sum(f, A) \in Int
    BY NodesFinite, SumType
  <1>3. ASSUME NEW x \in A
        PROVE  Sum(f, A) = f[x] + Sum(f, A \ {x})
    BY <1>0, SumWithout
  <1> QED BY <1>1, <1>2, <1>3

SplitsAt(f, A, T) == Sum(f, A) = Sum(f, A \cap T) + Sum(f, A \ T)

\* A sum over origins splits into those in a set, the candidates, and the rest.
LEMMA NodeSplit ==
    ASSUME NEW f, \A x \in Nodes : f[x] \in Int, NEW A \in SUBSET Nodes, NEW T
    PROVE  SplitsAt(f, A, T)
  <1>1. IsFiniteSet(Nodes)
    BY NodesFinite
  <1>2. Sum(f, A) = Sum(f, A \cap T) + Sum(f, A \ T)
    BY <1>1, SumSplit
  <1> QED BY <1>2 DEF SplitsAt

\* The largest weight is one of the weights and bounds them all.
LEMMA MostWeightBounds ==
    MostWeight \in Nat /\ \A n \in Nodes : Weight[n] \in Nat /\ Weight[n] <= MostWeight
  <1>1. \A n \in Nodes : Weight[n] \in Nat
    BY NodeSettings
  <1>2. PICK n \in Nodes : \A m \in Nodes : Weight[m] <= Weight[n]
    <2>1. \A m \in Nodes : Weight[m] \in Int
      BY <1>1
    <2> QED BY <2>1, NodesFinite, Largest
  <1> DEFINE W == {Weight[m] : m \in Nodes}
  <1>3. Weight[n] \in W /\ \A y \in W : Weight[n] >= y
    BY <1>1, <1>2
  <1>4. MostWeight = CHOOSE x \in W : \A y \in W : x >= y
    BY DEF MostWeight, Max
  <1>5. MostWeight \in W /\ \A y \in W : MostWeight >= y
    <2> HIDE DEF W
    <2> QED BY <1>3, <1>4
  <1> QED BY <1>1, <1>5

\* The two bounds on what a group that loses a pick can gain, weighed against
\* each other (pickSmoothWeighted).
LEMMA Weighing ==
    ASSUME NEW s \in Int, NEW x \in Int, NEW m \in Int, NEW k \in Int, NEW j \in Nat, NEW size \in Int,
           s <= m * ((k - j) * (size - (k - j))) + j * x,
           s <= m * ((k + 1) * (size - (k + 1))) + (j + 1) * m - x
    PROVE  s <= m * (k * (size - k))
  <1> DEFINE low == m * ((k - j) * (size - (k - j)))
             high == m * ((k + 1) * (size - (k + 1)))
             goal == m * (k * (size - k))
  <1>1. low \in Int /\ high \in Int /\ goal \in Int
    OBVIOUS
  <1>2. low + j * high + j * ((j + 1) * m) = (j + 1) * goal
    OBVIOUS
  <1> HIDE DEF low, high, goal
  <1>3. s <= low + j * x /\ s <= high + (j + 1) * m - x
    BY DEF low, high
  <1>4. j * s <= j * (high + (j + 1) * m - x)
    BY <1>1, <1>3
  <1>5. j * (high + (j + 1) * m - x) = j * high + j * ((j + 1) * m) - j * x
    BY <1>1
  <1>6. (j + 1) * s = j * s + s
    OBVIOUS
  <1>7. (j + 1) * s <= (j + 1) * goal
    BY <1>1, <1>2, <1>3, <1>4, <1>5, <1>6
  <1>8. s <= goal
    BY <1>1, <1>7
  <1> QED BY <1>8 DEF goal

\* What a pick does to the sum of the weights of a set of origins.
LEMMA SmoothSums ==
    ASSUME PoolTypeOK, NEW S, NEW n, SmoothStep(S, n), NEW A \in SUBSET Nodes
    PROVE  /\ Sum(Raised(S), A) = Sum(cw, A) + Sum(Weight, A \cap S)
           /\ Sum(cw', A) = IF n \in A THEN Sum(Raised(S), A) - Total(S) ELSE Sum(Raised(S), A)
  <1> DEFINE R == Raised(S)
  <1>1. \A x \in Nodes : cw[x] \in Int /\ Weight[x] \in Int
    BY NodeSettings DEF PoolTypeOK
  <1>2. \A x \in Nodes : R[x] \in Int
    BY <1>1 DEF Raised
  <1>3. Sum(R, A) = Sum(cw, A) + Sum(Weight, A \cap S)
    <2>1. RaisedBy(R, cw, Weight, S, Nodes)
      BY <1>1 DEF Raised, RaisedBy
    <2> HIDE DEF R
    <2>2. IsFiniteSet(Nodes)
      BY NodesFinite
    <2> QED BY <2>1, <2>2, SumRaised
  <1>4. n \in Nodes /\ Total(S) \in Int
    BY TotalIsSum DEF SmoothStep
  <1>5. /\ cw'[n] = R[n] - Total(S)
        /\ \A x \in Nodes \ {n} : cw'[x] = R[x]
    BY <1>4 DEF SmoothStep, Raised
  <1> HIDE DEF R
  <1>6. ASSUME NEW B \in SUBSET (Nodes \ {n})
        PROVE  Sum(cw', B) = Sum(R, B)
    <2>1. IsFiniteSet(Nodes \ {n}) /\ \A x \in Nodes \ {n} : R[x] \in Int /\ cw'[x] = R[x]
      BY <1>2, <1>5, NodesFinite, FS_Subset
    <2> QED BY <2>1, SumSame
  <1>7. CASE n \notin A
    BY <1>3, <1>6, <1>7 DEF R
  <1>8. CASE n \in A
    <2>1. \A x \in Nodes : cw'[x] \in Int
      BY SmoothType
    <2>2. Sum(R, A) = R[n] + Sum(R, A \ {n})
      BY <1>2, <1>8, NodeSums
    <2>6. Sum(cw', A) = cw'[n] + Sum(cw', A \ {n})
      BY <1>8, <2>1, NodeSums
    <2>3. A \ {n} \in SUBSET (Nodes \ {n}) /\ A \ {n} \in SUBSET Nodes
      OBVIOUS
    <2>4. Sum(cw', A \ {n}) = Sum(R, A \ {n}) /\ Sum(R, A \ {n}) \in Int /\ R[n] \in Int
      BY <1>2, <1>4, <1>6, <2>3, NodeSums
    <2>5. Sum(cw', A) = Sum(R, A) - Total(S)
      BY <1>4, <1>5, <2>2, <2>4, <2>6
    <2> QED BY <1>3, <1>8, <2>5 DEF R
  <1> QED BY <1>7, <1>8

\* A group that the winner belongs to never gains from a pick.
LEMMA WinnersLose ==
    ASSUME PoolTypeOK, NEW S, NEW n, SmoothStep(S, n), NEW A \in SUBSET Nodes, n \in A
    PROVE  /\ Sum(cw', A) = Sum(cw, A) + Sum(Weight, A \cap S) - Total(S)
           /\ Sum(cw', A) <= Sum(cw, A)
  <1> DEFINE gain == Sum(Weight, A \cap S)
             rest == Sum(Weight, S \ A)
  <1>1. S \in SUBSET Nodes
    BY DEF SmoothStep
  <1>2. \A x \in Nodes : Weight[x] \in Nat
    BY NodeSettings
  <1>3. \A x \in Nodes : Weight[x] \in Int
    BY <1>2
  <1>4. \A x \in Nodes : cw[x] \in Int
    BY DEF PoolTypeOK
  <1>5. Sum(Raised(S), A) = Sum(cw, A) + gain /\ Sum(cw', A) = Sum(Raised(S), A) - Total(S)
    <2>1. /\ Sum(Raised(S), A) = Sum(cw, A) + Sum(Weight, A \cap S)
          /\ Sum(cw', A) = IF n \in A THEN Sum(Raised(S), A) - Total(S) ELSE Sum(Raised(S), A)
      BY SmoothSums
    <2> QED BY <2>1
  <1>6. Total(S) = gain + rest
    <2>1. SplitsAt(Weight, S, A)
      BY <1>1, <1>3, NodeSplit
    <2>2. S \cap A = A \cap S
      OBVIOUS
    <2> QED BY <2>1, <2>2, TotalIsSum DEF SplitsAt
  <1>7. S \ A \in SUBSET Nodes /\ A \cap S \in SUBSET Nodes
    BY <1>1
  <1>8. rest \in Int /\ gain \in Int /\ Sum(cw, A) \in Int
    BY <1>3, <1>4, <1>7, NodeSums
  <1>9. rest >= 0
    BY <1>2, <1>7, NodesFinite, SumNonNegative
  <1> HIDE DEF gain, rest
  <1>10. Sum(cw', A) = Sum(cw, A) + gain - Total(S) /\ Sum(cw', A) <= Sum(cw, A)
    BY <1>5, <1>6, <1>8, <1>9
  <1> QED BY <1>10 DEF gain

\* A group of losers gains no more than its reach: what it has is at most its
\* candidates' share of the winner's weight, and the winner has what it has
\* because the group and the winner together were within their reach.
LEMMA LosersStayWithin ==
    ASSUME PoolTypeOK, WeightInv, NEW S, NEW n, SmoothStep(S, n), NEW A \in SUBSET Nodes, n \notin A
    PROVE  Sum(cw', A) <= Reach(A)
  <1> DEFINE R == Raised(S)
             B == A \cup {n}
             j == Cardinality(A \cap S)
             k == Cardinality(A)
  <1>1. S \in SUBSET Nodes /\ n \in S /\ n \in Nodes /\ \A m \in S : R[m] <= R[n]
    BY DEF SmoothStep
  <1>2. \A x \in Nodes : R[x] \in Int /\ cw[x] \in Int /\ Weight[x] \in Int
    BY NodeSettings DEF Raised, PoolTypeOK
  <1>3. \A x \in Nodes : Weight[x] <= MostWeight /\ MostWeight \in Int
    BY MostWeightBounds
  <1>4. /\ A \cap S \in SUBSET Nodes /\ A \ S \in SUBSET Nodes
        /\ B \in SUBSET Nodes /\ B \cap S \in SUBSET Nodes
    BY <1>1
  <1>5. /\ IsFiniteSet(A) /\ IsFiniteSet(A \cap S) /\ IsFiniteSet(B \cap S)
        /\ j \in Nat /\ k \in Nat
    BY <1>4, NodesFinite, FS_Subset, FS_CardinalityType
  <1>6. Cardinality(A \ S) = k - j
    BY <1>5, FS_Difference
  <1>7. Cardinality(B) = k + 1
    BY <1>5, FS_AddElement
  <1>8. Cardinality(B \cap S) = j + 1
    <2>1. B \cap S = (A \cap S) \cup {n} /\ n \notin A \cap S
      BY <1>1
    <2> QED BY <1>5, <2>1, FS_AddElement
  <1>9. Sum(cw', A) = Sum(R, A)
    <2>1. /\ Sum(Raised(S), A) = Sum(cw, A) + Sum(Weight, A \cap S)
          /\ Sum(cw', A) = IF n \in A THEN Sum(Raised(S), A) - Total(S) ELSE Sum(Raised(S), A)
      BY SmoothSums
    <2> QED BY <2>1
  <1> HIDE DEF R
  <1>10. Sum(R, A) <= MostWeight * ((k - j) * (N - (k - j))) + j * R[n]
    <2>1. Sum(R, A) = Sum(R, A \cap S) + Sum(R, A \ S)
      <3>1. \A x \in Nodes : R[x] \in Int
        BY <1>2
      <3>2. SplitsAt(R, A, S)
        BY <3>1, NodeSplit
      <3> QED BY <3>2 DEF SplitsAt
    <2>2. Sum(R, A \cap S) <= j * R[n]
      <3>1. \A x \in A \cap S : R[x] \in Int /\ R[x] <= R[n]
        BY <1>1, <1>2
      <3> QED BY <1>1, <1>2, <1>5, <3>1, SumAtMost
    <2>3. Sum(R, A \ S) = Sum(cw, A \ S) + Sum(Weight, (A \ S) \cap S)
      BY <1>4, SmoothSums DEF R
    <2>4. (A \ S) \cap S = {}
      OBVIOUS
    <2>5. Sum(cw, A \ S) \in Int /\ Sum(R, A \cap S) \in Int
      BY <1>2, <1>4, NodeSums
    <2>8. Sum(R, A \ S) = Sum(cw, A \ S)
      <3>1. Sum(Weight, (A \ S) \cap S) = 0
        BY <2>4, SumEmpty
      <3> QED BY <2>3, <2>5, <3>1
    <2>6. Sum(cw, A \ S) <= MostWeight * ((k - j) * (N - (k - j)))
      BY <1>4, <1>6 DEF WeightInv, Reach
    <2>7. MostWeight * ((k - j) * (N - (k - j))) \in Int /\ j * R[n] \in Int
      BY <1>1, <1>2, <1>3, <1>5, PoolSize
    <2> HIDE DEF j, k
    <2> QED BY <2>1, <2>2, <2>5, <2>6, <2>7, <2>8
  <1>11. Sum(R, A) <= MostWeight * ((k + 1) * (N - (k + 1))) + (j + 1) * MostWeight - R[n]
    <2>1. B \ {n} = A /\ n \in B
      OBVIOUS
    <2>2. Sum(R, B) = R[n] + Sum(R, A)
      BY <1>2, <1>4, <2>1, NodeSums
    <2>3. Sum(R, B) = Sum(cw, B) + Sum(Weight, B \cap S)
      BY <1>4, SmoothSums DEF R
    <2>4. Sum(Weight, B \cap S) <= (j + 1) * MostWeight
      <3>1. \A x \in B \cap S : Weight[x] \in Int /\ Weight[x] <= MostWeight
        BY <1>1, <1>2, <1>3
      <3>2. MostWeight \in Int
        BY MostWeightBounds
      <3> QED BY <1>5, <1>8, <3>1, <3>2, SumAtMost
    <2>5. Sum(cw, B) <= MostWeight * ((k + 1) * (N - (k + 1)))
      BY <1>4, <1>7 DEF WeightInv, Reach
    <2>6. /\ Sum(R, A) \in Int /\ R[n] \in Int /\ Sum(cw, B) \in Int /\ Sum(Weight, B \cap S) \in Int
          /\ MostWeight * ((k + 1) * (N - (k + 1))) \in Int /\ (j + 1) * MostWeight \in Int
      BY <1>1, <1>2, <1>3, <1>4, <1>5, NodeSums, PoolSize
    <2> HIDE DEF j, k, B
    <2> QED BY <2>2, <2>3, <2>4, <2>5, <2>6
  <1>12. Sum(R, A) \in Int /\ R[n] \in Int /\ MostWeight \in Int /\ N \in Int
    BY <1>1, <1>2, MostWeightBounds, NodeSums, PoolSize
  <1>13. Sum(R, A) <= MostWeight * (k * (N - k))
    <2> HIDE DEF j, k
    <2> QED BY <1>5, <1>10, <1>11, <1>12, Weighing
  <1> QED BY <1>9, <1>13 DEF Reach

\* pickSmoothWeighted keeps the weights balanced.
LEMMA SmoothKeeps ==
    ASSUME PoolTypeOK, WeightInv, NEW S, NEW n, SmoothStep(S, n)
    PROVE  WeightInv'
  <1>1. S \in SUBSET Nodes /\ n \in Nodes /\ Nodes \cap S = S /\ Total(S) = Sum(Weight, S)
    BY TotalIsSum DEF SmoothStep
  <1>2. Sum(cw', Nodes) = 0
    <2>1. Sum(cw', Nodes) = Sum(cw, Nodes) + Sum(Weight, Nodes \cap S) - Total(S)
      BY <1>1, WinnersLose
    <2>2. Sum(Weight, Nodes \cap S) = Total(S) /\ Total(S) \in Int
      BY <1>1, TotalIsSum
    <2> QED BY <2>1, <2>2 DEF WeightInv
  <1>3. ASSUME NEW A \in SUBSET Nodes
        PROVE  Sum(cw', A) <= Reach(A)
    <2>1. CASE n \in A
      <3>1. Sum(cw', A) <= Sum(cw, A) /\ Sum(cw, A) <= Reach(A)
        BY <2>1, WinnersLose DEF WeightInv
      <3>2. \A x \in Nodes : cw[x] \in Int /\ cw'[x] \in Int
        BY SmoothType DEF PoolTypeOK
      <3>3. Sum(cw', A) \in Int /\ Sum(cw, A) \in Int /\ Cardinality(A) \in Nat
        BY <3>2, NodeSums
      <3>4. Reach(A) \in Int
        BY <3>3, MostWeightBounds, PoolSize DEF Reach
      <3> QED BY <3>1, <3>3, <3>4
    <2>2. CASE n \notin A
      BY <2>2, LosersStayWithin
    <2> QED BY <2>1, <2>2
  <1> QED BY <1>2, <1>3 DEF WeightInv, Reach

\* Balanced weights are within the bound that WeightsBalanced states.
LEMMA BalancedWithin ==
    ASSUME PoolTypeOK, WeightInv
    PROVE  WeightsBalanced
  <1>1. \A x \in Nodes : cw[x] \in Int
    BY DEF PoolTypeOK
  <1>2. ASSUME NEW n \in Nodes
        PROVE  cw[n] \in -((N - 1) * MostWeight)..((N - 1) * MostWeight)
    <2>1. {n} \in SUBSET Nodes /\ Nodes \ {n} \in SUBSET Nodes /\ {n} \ {n} = {}
      OBVIOUS
    <2>2. Cardinality({n}) = 1 /\ Cardinality(Nodes \ {n}) = N - 1
      BY NodesFinite, FS_Singleton, FS_RemoveElement
    <2>3. Sum(cw, {n}) = cw[n] + Sum(cw, {n} \ {n})
      BY <1>1, <2>1, NodeSums
    <2>4. Sum(cw, {n} \ {n}) = 0
      BY <2>1, SumEmpty
    <2>5. Sum(cw, Nodes) = cw[n] + Sum(cw, Nodes \ {n})
      BY <1>1, NodeSums
    <2>6. Sum(cw, {n}) <= MostWeight * (1 * (N - 1))
      BY <2>1, <2>2 DEF WeightInv, Reach
    <2>7. Sum(cw, Nodes \ {n}) <= MostWeight * ((N - 1) * (N - (N - 1)))
      BY <2>1, <2>2 DEF WeightInv, Reach
    <2>8. N \in Int /\ MostWeight \in Int /\ cw[n] \in Int /\ Sum(cw, Nodes \ {n}) \in Int
      BY <1>1, <2>1, MostWeightBounds, PoolSize, NodeSums
    <2>9. /\ MostWeight * (1 * (N - 1)) = (N - 1) * MostWeight
          /\ MostWeight * ((N - 1) * (N - (N - 1))) = (N - 1) * MostWeight
          /\ (N - 1) * MostWeight \in Int
      BY <2>8
    <2> QED BY <2>3, <2>4, <2>5, <2>6, <2>7, <2>8, <2>9 DEF WeightInv
  <1> QED BY <1>2 DEF WeightsBalanced, WeightInv, Sum

-----------------------------------------------------------------------------
(* One lemma for each step of the attempt loop.                            *)

\* What PoolChangesAreEarned says of one step.
Earned ==
    /\ \A r \in Requests : kind[r] = "probe" /\ kind'[r] = "probe" /\ at'[r] # at[r] => UNCHANGED pool
    /\ \A n \in Nodes : healthy[n] /\ ~healthy'[n] => n \in faulted

\* A step of request r that leaves the other requests and the world alone.
StepOf(r) == /\ \A s \in Requests \ {r} : Aside(s)
             /\ UNCHANGED <<checking, up>> /\ faulted \subseteq faulted'
             /\ PoolTypeOK' /\ ActiveExact' /\ RequestOK(r)' /\ Earned

\* Such a step preserves the invariant.
LEMMA StepKeeps ==
    ASSUME PoolInv, NEW r \in Requests, StepOf(r)
    PROVE  PoolInv' /\ Earned
  <1>1. \A s \in Requests : RequestOK(s)'
    BY AsideKeeps DEF PoolInv, StepOf
  <1>2. SignsOK'
    BY DEF SignsOK, PoolInv, StepOf
  <1> QED BY <1>1, <1>2 DEF PoolInv, StepOf

\* A request enters the attempt loop.
LEMMA ArriveKeeps ==
    ASSUME PoolInv, NEW r \in Requests, NEW kd \in Kinds, Arrive(r, kd)
    PROVE  StepOf(r)
  <1> USE DEF PoolInv, PoolTypeOK, Arrive, Go, pool, checker, world
  <1>1. PoolTypeOK'
    BY DEF Places
  <1>2. \A s \in Requests \ {r} : Aside(s)
    BY DEF Aside
  <1>3. ActiveExact'
    <2>1. \A s \in Requests, n \in Nodes : s \in Using(n)' <=> s \in Using(n)
      BY DEF Using, Counted, Places
    <2> QED BY <2>1, CountsStay
  <1>4. RequestOK(r)' /\ Earned
    BY DEF RequestOK, Earned, Placed
  <1> QED BY <1>1, <1>2, <1>3, <1>4 DEF StepOf

\* The candidates of pick and pickProbe are origins, and bring back a tried
\* one only when all have been tried (upstream.go:126-137).
LEMMA CandidatesSpread ==
    ASSUME NEW ex
    PROVE  /\ Candidates(ex) \in SUBSET Nodes /\ Spread(Candidates(ex), ex \cap Nodes)
           /\ ProbeCandidates(ex) \in SUBSET Nodes /\ Spread(ProbeCandidates(ex), ex \cap Nodes)
  BY DEF Candidates, ProbeCandidates, Healthy, Spread

\* eligible: the candidates are collected.
LEMMA CollectKeeps ==
    ASSUME PoolInv, NEW r \in Requests, Collect(r)
    PROVE  StepOf(r)
  <1> USE DEF PoolInv, PoolTypeOK, Collect, Go, pool, checker, world
  <1>0. /\ Candidates(excluded[r]) \in SUBSET Nodes
        /\ Spread(Candidates(excluded[r]), excluded[r])
    <2>1. excluded[r] \cap Nodes = excluded[r]
      OBVIOUS
    <2> QED BY <2>1, CandidatesSpread, ZenonT(60)
  <1>1. PoolTypeOK'
    BY <1>0 DEF Places
  <1>2. \A s \in Requests \ {r} : Aside(s)
    BY DEF Aside
  <1>3. ActiveExact'
    <2>1. \A s \in Requests, n \in Nodes : s \in Using(n)' <=> s \in Using(n)
      BY DEF Using, Counted, Places
    <2> QED BY <2>1, CountsStay
  <1>4. RequestOK(r)'
    BY <1>0 DEF RequestOK, Placed, Counted
  <1>5. Earned
    BY DEF Earned
  <1> QED BY <1>1, <1>2, <1>3, <1>4, <1>5 DEF StepOf

\* pick: an origin is selected, and counted.
LEMMA SelectKeeps ==
    ASSUME PoolInv, NEW r \in Requests, NEW n \in Nodes, Select(r, n)
    PROVE  StepOf(r)
  <1> USE DEF PoolInv, Select, Go, checker, world
  <1>1. cw' \in [Nodes -> Int] /\ turn' \in Nat
    <2>1. cand[r] \in SUBSET Nodes
      BY DEF PoolTypeOK
    <2> QED BY <2>1, PickNodeSteps
  <1>2. \A s \in Requests \ {r} : Aside(s)
    BY DEF Aside, PoolTypeOK
  <1>3. kind'[r] # "probe" /\ node'[r] = n /\ at'[r] = "trip"
    BY DEF PoolTypeOK, RequestOK, Counted
  <1>4. ActiveExact' /\ active' \in [Nodes -> Nat]
    BY <1>2, <1>3, CountsPick
  <1>5. PoolTypeOK'
    BY <1>1, <1>4 DEF PoolTypeOK, Places
  <1>6. RequestOK(r)'
    BY DEF RequestOK, PoolTypeOK, Placed, Spread
  <1>7. Earned
    BY <1>2, <1>3 DEF Earned, Aside
  <1> QED BY <1>2, <1>4, <1>5, <1>6, <1>7 DEF StepOf

\* The first candidate of a probe is one of its candidates (pickProbe).
LEMMA FirstIsOne ==
    ASSUME NEW S \in SUBSET Nodes, S # {}
    PROVE  Nth(S, 0) \in S
  <1>1. PICK n \in S : \A m \in S : n <= m
    BY NodesFinite, LeastNat
  <1>2. {m \in S : m < n} = {}
    <2>1. \A m \in S : m \in Int
      BY NodesFinite
    <2>2. \A m \in S : ~(m < n)
      BY <1>1, <2>1
    <2> QED BY <2>2
  <1>3. Cardinality({m \in S : m < n}) = 0
    BY <1>2, FS_EmptySet
  <1> QED BY <1>3 DEF Nth

\* What is left of a request that leaves the attempt loop is nothing.
LEMMA EndIsIdle ==
    ASSUME PoolTypeOK, NEW r \in Requests, End(r)
    PROVE  /\ at' \in [Requests -> Places] /\ kind' \in [Requests -> Kinds]
           /\ attempt' \in [Requests -> 0..RetryCount]
           /\ excluded' \in [Requests -> SUBSET Nodes] /\ cand' \in [Requests -> SUBSET Nodes]
           /\ node' \in [Requests -> Nodes \cup {0}] /\ outcome' \in [Requests -> Outcomes]
           /\ at'[r] = "idle" /\ kind'[r] = "once"
           /\ RequestOK(r)' /\ \A s \in Requests \ {r} : Aside(s)
  <1> USE DEF PoolTypeOK, End, Go
  <1>1. /\ at' \in [Requests -> Places] /\ kind' \in [Requests -> Kinds]
        /\ attempt' \in [Requests -> 0..RetryCount]
        /\ excluded' \in [Requests -> SUBSET Nodes] /\ cand' \in [Requests -> SUBSET Nodes]
        /\ node' \in [Requests -> Nodes \cup {0}] /\ outcome' \in [Requests -> Outcomes]
    BY PoolBounds DEF Places, Kinds, Outcomes
  <1>2. at'[r] = "idle" /\ kind'[r] = "once"
    OBVIOUS
  <1>3. RequestOK(r)'
    BY <1>2 DEF RequestOK, Placed
  <1>4. \A s \in Requests \ {r} : Aside(s)
    BY DEF Aside
  <1> QED BY <1>1, <1>2, <1>3, <1>4

\* pickProbe: the first candidate, or the end of the request.
LEMMA PickProbeKeeps ==
    ASSUME PoolInv, NEW r \in Requests, PickProbe(r)
    PROVE  StepOf(r)
  <1> DEFINE S == ProbeCandidates(excluded[r])
  <1> USE DEF PoolInv, PickProbe, pool, checker, world
  <1>1. S \in SUBSET Nodes /\ Spread(S, excluded[r])
    <2>1. excluded[r] \cap Nodes = excluded[r]
      BY DEF PoolTypeOK
    <2> QED BY <2>1, CandidatesSpread
  <1>2. CASE S = {}
    <2>1. End(r)
      BY <1>2
    <2>2. PoolTypeOK'
      BY <2>1, EndIsIdle DEF PoolTypeOK
    <2>3. \A s \in Requests, n \in Nodes : s \in Using(n)' <=> s \in Using(n)
      BY <2>1, EndIsIdle DEF Using, Counted, Aside
    <2>4. ActiveExact'
      BY <2>3, CountsStay
    <2>5. Earned
      BY DEF Earned
    <2> QED BY <2>1, <2>2, <2>4, <2>5, EndIsIdle DEF StepOf
  <1>3. CASE S # {}
    <2> DEFINE n == Nth(S, 0)
    <2>1. n \in S /\ n \in Nodes
      BY <1>1, <1>3, FirstIsOne
    <2>2. /\ node' = [node EXCEPT ![r] = n] /\ Go(r, "trip")
          /\ UNCHANGED <<kind, attempt, excluded, cand, outcome>>
      BY <1>3
    <2> HIDE DEF n, S
    <2>3. PoolTypeOK'
      BY <2>1, <2>2 DEF PoolTypeOK, Go, Places
    <2>4. \A s \in Requests \ {r} : Aside(s)
      BY <2>2 DEF Aside, Go, PoolTypeOK
    <2>5. \A s \in Requests, m \in Nodes : s \in Using(m)' <=> s \in Using(m)
      BY <2>2, <2>4 DEF Using, Counted, Aside
    <2>6. ActiveExact'
      BY <2>5, CountsStay
    <2>7. RequestOK(r)'
      <3>1. Spread({n}, excluded[r])
        BY <1>1, <2>1 DEF Spread
      <3>2. at'[r] = "trip" /\ node'[r] = n /\ excluded'[r] = excluded[r]
        BY <2>2 DEF Go, PoolTypeOK
      <3> QED BY <2>1, <3>1, <3>2 DEF RequestOK, Spread
    <2>8. Earned
      BY DEF Earned
    <2> QED BY <2>3, <2>4, <2>6, <2>7, <2>8 DEF StepOf
  <1> QED BY <1>2, <1>3

\* The steps that release the origin and end the request.
LEMMA ReleaseEndKeeps ==
    ASSUME PoolInv, NEW r \in Requests, at[r] \in Placed, Release(r), End(r),
           UNCHANGED <<algorithm, healthy, cw, turn, checker, world>>
    PROVE  StepOf(r)
  <1> USE DEF PoolInv, checker, world
  <1>1. node[r] \in Nodes
    BY DEF RequestOK
  <1>2. at'[r] = "idle" /\ kind'[r] = "once" /\ \A s \in Requests \ {r} : Aside(s)
    BY EndIsIdle
  <1>3. ActiveExact' /\ active' \in [Nodes -> Nat]
    BY <1>1, <1>2, CountsRelease DEF Placed
  <1>4. PoolTypeOK'
    BY <1>3, EndIsIdle DEF PoolTypeOK
  <1>5. Earned
    BY <1>2 DEF Earned, Aside
  <1> QED BY <1>2, <1>3, <1>4, <1>5, EndIsIdle DEF StepOf

\* A failed copy of the request, a client that goes away, a response that has
\* been copied: the origin is released.
LEMMA LeavingKeeps ==
    ASSUME PoolInv, NEW r \in Requests, Abandon(r) \/ Served(r)
    PROVE  StepOf(r)
  BY ReleaseEndKeeps DEF Abandon, Served, Placed

\* The response is dropped, and there may be another attempt.
LEMMA DropKeeps ==
    ASSUME PoolInv, NEW r \in Requests, Drop(r)
    PROVE  StepOf(r)
  <1>1. /\ at[r] = "drop" /\ Release(r)
        /\ UNCHANGED <<algorithm, healthy, cw, turn, checker, world>>
    BY DEF Drop
  <1>2. CASE End(r)
    BY <1>1, <1>2, ReleaseEndKeeps DEF Placed
  <1>3. CASE CanRetry(r) /\ Again(r)
    <2> USE DEF PoolInv, checker, world
    <2>1. node[r] \in Nodes
      BY <1>1 DEF RequestOK, Placed
    <2>2. at'[r] = "pick" /\ kind'[r] = kind[r] /\ \A s \in Requests \ {r} : Aside(s)
      BY <1>3 DEF Again, Go, Aside, PoolTypeOK
    <2>3. ActiveExact' /\ active' \in [Nodes -> Nat]
      BY <1>1, <2>1, <2>2, CountsRelease DEF Placed
    <2>4. attempt' \in [Requests -> 0..RetryCount]
      BY <1>3, PoolBounds DEF CanRetry, Attempts, Again, PoolTypeOK
    <2>5. PoolTypeOK'
      BY <1>1, <1>3, <2>3, <2>4 DEF PoolTypeOK, Again, Go, Places, Outcomes
    <2>6. RequestOK(r)'
      BY <2>2 DEF RequestOK, Placed
    <2>7. Earned
      BY <1>1, <2>2 DEF Earned, Aside, Release, Counted, pool
    <2> QED BY <1>1, <2>2, <2>3, <2>5, <2>6, <2>7 DEF StepOf
  <1> QED BY <1>1, <1>2, <1>3 DEF Drop

\* RoundTrip: what fails is remembered, whether the origin or the request made
\* it fail.
LEMMA RoundTripKeeps ==
    ASSUME PoolInv, NEW r \in Requests, NEW out \in Outcomes, RoundTrip(r, out)
    PROVE  StepOf(r)
  <1> USE DEF PoolInv, RoundTrip, Go, pool, checker, world
  <1>0. node[r] \in Nodes
    BY DEF RequestOK, Placed
  <1>1. PoolTypeOK'
    BY <1>0 DEF PoolTypeOK, Places
  <1>2. \A s \in Requests \ {r} : Aside(s)
    BY DEF Aside, PoolTypeOK
  <1>3. at'[r] = (IF out = "ok" THEN "recover" ELSE "blame") /\ node'[r] = node[r]
    BY DEF PoolTypeOK
  <1>4. ActiveExact'
    <2>1. \A s \in Requests, n \in Nodes : s \in Using(n)' <=> s \in Using(n)
      BY <1>2, <1>3 DEF Using, Counted, Places, Aside
    <2> QED BY <2>1, CountsStay
  <1>5. RequestOK(r)'
    BY <1>0, <1>3 DEF RequestOK, Placed, Counted
  <1>6. Earned
    BY DEF Earned
  <1> QED BY <1>1, <1>2, <1>4, <1>5, <1>6 DEF StepOf

\* setNodeHealth(node, true) after an answer.
LEMMA RecoverKeeps ==
    ASSUME PoolInv, NEW r \in Requests, Recover(r)
    PROVE  StepOf(r)
  <1> USE DEF PoolInv, Recover, Go, locals, checker, world
  <1>0. node[r] \in Nodes
    BY DEF RequestOK, Placed
  <1>1. PoolTypeOK'
    BY <1>0 DEF PoolTypeOK, Places
  <1>2. \A s \in Requests \ {r} : Aside(s)
    BY DEF Aside, PoolTypeOK
  <1>3. at'[r] = "serve" /\ UNCHANGED <<kind, node>>
    BY DEF PoolTypeOK
  <1>4. ActiveExact'
    <2>1. \A s \in Requests, n \in Nodes : s \in Using(n)' <=> s \in Using(n)
      BY <1>2, <1>3 DEF Using, Counted, Places, Aside
    <2> QED BY <2>1, CountsStay
  <1>5. RequestOK(r)'
    BY <1>0, <1>3 DEF RequestOK, Placed
  <1>6. Earned
    BY <1>2, <1>3 DEF Earned, Aside, Counted, pool, PoolTypeOK
  <1> QED BY <1>1, <1>2, <1>4, <1>5, <1>6 DEF StepOf

\* setNodeHealth(node, false) after a failed attempt.
LEMMA BlameKeeps ==
    ASSUME PoolInv, NEW r \in Requests, Blame(r)
    PROVE  StepOf(r)
  <1> USE DEF PoolInv, Blame, Exclude, Go, checker, world
  <1>0. node[r] \in Nodes /\ (Counted(r) => node[r] \in faulted)
    BY DEF RequestOK, Placed
  <1>1. PoolTypeOK'
    BY <1>0 DEF PoolTypeOK, Places
  <1>2. \A s \in Requests \ {r} : Aside(s)
    BY DEF Aside, PoolTypeOK
  <1>3. at'[r] \in {"serve", "drop"} /\ UNCHANGED <<kind, node>>
    BY DEF PoolTypeOK
  <1>4. ActiveExact'
    <2>1. \A s \in Requests, n \in Nodes : s \in Using(n)' <=> s \in Using(n)
      BY <1>2, <1>3 DEF Using, Counted, Places, Aside
    <2> QED BY <2>1, CountsStay
  <1>5. RequestOK(r)'
    BY <1>0, <1>3 DEF RequestOK, Placed
  <1>6. Earned
    BY <1>0, <1>2, <1>3 DEF Earned, Aside, Counted, pool, PoolTypeOK
  <1> QED BY <1>1, <1>2, <1>4, <1>5, <1>6 DEF StepOf

-----------------------------------------------------------------------------
(* The steps of the health checker and of the origins.                     *)

\* Every step of a request, of the health checker and of the origins preserves
\* the invariant, and changes the pool only as PoolChangesAreEarned allows.
LEMMA StepPreserves == PoolInv /\ [Next]_vars => PoolInv' /\ [Earned]_vars
  <1> SUFFICES ASSUME PoolInv, [Next]_vars
               PROVE  PoolInv' /\ (Earned \/ UNCHANGED vars)
    OBVIOUS
  <1>1. ASSUME UNCHANGED <<at, locals, active, cw, turn>>, faulted \subseteq faulted',
               SignsOK', PoolTypeOK', \A n \in Nodes : healthy[n] /\ ~healthy'[n] => n \in faulted
        PROVE  PoolInv' /\ Earned
    <2> USE <1>1 DEF locals
    <2>1. \A s \in Requests : RequestOK(s)'
      BY AsideKeeps DEF PoolInv, Aside
    <2>2. ActiveExact'
      <3>1. \A s \in Requests, n \in Nodes : s \in Using(n)' <=> s \in Using(n)
        BY DEF Using, Counted
      <3> QED BY <3>1, CountsStay DEF PoolInv
    <2>3. Earned
      BY DEF Earned
    <2> QED BY <2>1, <2>2, <2>3 DEF PoolInv
  <1>2. ASSUME NEW r \in Requests, Progress(r) \/ \E kd \in Kinds : Arrive(r, kd)
        PROVE  PoolInv' /\ Earned
    <2>1. StepOf(r)
      BY <1>2, ArriveKeeps, CollectKeeps, SelectKeeps, PickProbeKeeps, LeavingKeeps, DropKeeps,
         RoundTripKeeps, RecoverKeeps, BlameKeeps DEF Progress
    <2> QED BY <2>1, StepKeeps
  <1> USE DEF PoolInv, SignsOK, pool, locals, checker, world
  <1>3. CASE NextRound
    BY <1>1, <1>3 DEF NextRound, PoolTypeOK
  <1>4. ASSUME NEW n \in Nodes, StartCheck(n)
        PROVE  PoolInv' /\ Earned
    BY <1>1, <1>4 DEF StartCheck, PoolTypeOK
  <1>5. ASSUME NEW n \in Nodes, CheckAnswered(n)
        PROVE  PoolInv' /\ Earned
    BY <1>1, <1>5 DEF CheckAnswered, PoolTypeOK
  <1>6. ASSUME NEW n \in Nodes, SetHealth(n)
        PROVE  PoolInv' /\ Earned
    BY <1>1, <1>6 DEF SetHealth, PoolTypeOK
  <1>7. ASSUME NEW n \in Nodes, Flip(n)
        PROVE  PoolInv' /\ Earned
    BY <1>1, <1>7, PoolBounds DEF Flip, PoolTypeOK
  <1>8. CASE UNCHANGED vars
    BY <1>1, <1>8 DEF vars, PoolTypeOK
  <1> QED BY <1>2, <1>3, <1>4, <1>5, <1>6, <1>7, <1>8 DEF Next, CheckStep

\* A new pool (newUpstreamPool) has no requests and no signs.
LEMMA InitPool == Init => PoolInv
  <1> SUFFICES ASSUME Init PROVE PoolInv
    OBVIOUS
  <1>1. PoolTypeOK
    BY PoolBounds DEF Init, PoolTypeOK, Places, Kinds, Outcomes
  <1>2. ActiveExact
    <2>1. \A n \in Nodes : Using(n) = {}
      BY DEF Init, Using
    <2> QED BY <2>1, FS_EmptySet DEF Init, ActiveExact
  <1>3. SignsOK /\ \A r \in Requests : RequestOK(r)
    BY DEF Init, SignsOK, RequestOK, Placed
  <1> QED BY <1>1, <1>2, <1>3 DEF PoolInv

\* The weights of a new pool are balanced.
LEMMA InitWeights == Init => WeightInv
  <1> SUFFICES ASSUME Init PROVE WeightInv
    OBVIOUS
  <1>1. ASSUME NEW A \in SUBSET Nodes
        PROVE  Sum(cw, A) = 0 /\ Reach(A) >= 0
    <2>1. \A x \in Nodes : cw[x] = 0
      BY DEF Init
    <2>2. IsFiniteSet(A) /\ Cardinality(A) \in Nat /\ Sum(cw, A) \in Int
      BY <2>1, NodeSums
    <2>3. Sum(cw, A) <= Cardinality(A) * 0
      <3>1. IsFiniteSet(A)
        BY <2>2
      <3>2. \A x \in A : cw[x] \in Int /\ cw[x] <= 0
        BY <2>1
      <3> QED BY <3>1, <3>2, SumAtMost
    <2>4. Sum(cw, A) >= 0
      <3>1. IsFiniteSet(A)
        BY <2>2
      <3>2. \A x \in A : cw[x] \in Nat
        BY <2>1
      <3> QED BY <3>1, <3>2, SumNonNegative
    <2>5. Cardinality(A) <= N
      BY NodesFinite, FS_Subset
    <2>6. Reach(A) >= 0
      BY <2>2, <2>5, MostWeightBounds, PoolSize DEF Reach
    <2> QED BY <2>2, <2>3, <2>4, <2>6
  <1>2. Sum(cw, Nodes) = 0
    BY <1>1
  <1>3. ASSUME NEW A \in SUBSET Nodes
        PROVE  Sum(cw, A) <= Reach(A)
    <2>1. Reach(A) \in Int
      <3>1. Cardinality(A) \in Nat
        BY NodesFinite, FS_Subset, FS_CardinalityType
      <3> QED BY <3>1, MostWeightBounds, PoolSize DEF Reach
    <2> QED BY <1>1, <2>1
  <1> QED BY <1>2, <1>3 DEF WeightInv

\* Only pick changes the weights, and it keeps them balanced.
LEMMA WeightsPreserved == PoolInv /\ WeightInv /\ [Next]_vars => WeightInv'
  <1> SUFFICES ASSUME PoolInv, WeightInv, [Next]_vars
               PROVE  WeightInv'
    OBVIOUS
  <1>1. CASE UNCHANGED cw
    BY <1>1 DEF WeightInv, Reach
  <1>2. ASSUME NEW r \in Requests, NEW n \in Nodes, Select(r, n)
        PROVE  WeightInv'
    <2>1. cand[r] \in SUBSET Nodes /\ n \in cand[r] /\ PickNode(cand[r], n)
      BY <1>2 DEF Select, PoolInv, PoolTypeOK
    <2>2. UNCHANGED cw \/ \E G \in SUBSET Nodes : SmoothStep(G, n)
      BY <2>1, PickNodeSteps DEF PoolInv
    <2> QED BY <1>1, <2>2, SmoothKeeps DEF PoolInv
  <1>3. ASSUME NEW r \in Requests, Progress(r), \A n \in Nodes : ~Select(r, n)
        PROVE  UNCHANGED cw
    BY <1>3 DEF Progress, Collect, PickProbe, Abandon, RoundTrip, Recover, Blame, Exclude, Drop,
                Served, pool
  <1>4. ASSUME NEW r \in Requests, NEW kd \in Kinds, Arrive(r, kd)
        PROVE  UNCHANGED cw
    BY <1>4 DEF Arrive, pool
  <1>5. ASSUME CheckStep \/ \E n \in Nodes : Flip(n)
        PROVE  UNCHANGED cw
    BY <1>5 DEF CheckStep, NextRound, StartCheck, CheckAnswered, SetHealth, Flip, pool
  <1> QED BY <1>1, <1>2, <1>3, <1>4, <1>5 DEF Next, vars, pool

-----------------------------------------------------------------------------
\* The invariant holds in every reachable state of the pool.
THEOREM PoolInvariant == Spec => []PoolInv
  BY InitPool, StepPreserves, PTL DEF Spec

\* The state of the scheduler, the attempt loop and the checks is well typed;
\* in particular no active count goes below zero (releaseActive, upstream.go).
THEOREM PoolTypes == Spec => []PoolTypeOK
  <1>1. PoolInv => PoolTypeOK
    BY DEF PoolInv
  <1> QED BY <1>1, PoolInvariant, PTL

\* Every path out of the attempt loop of fetchAndServe releases the origin
\* that pick counted, exactly once.
THEOREM CountsAreExact == Spec => []ActiveExact
  <1>1. PoolInv => ActiveExact
    BY DEF PoolInv
  <1> QED BY <1>1, PoolInvariant, PTL

\* pick and pickProbe send a request to an origin that it has tried only when
\* it has tried all of them.
THEOREM RetriesAreSpread == Spec => []RetriesSpread
  <1>1. PoolInv => RetriesSpread
    BY DEF PoolInv, RequestOK, RetriesSpread, Spread
  <1> QED BY <1>1, PoolInvariant, PTL

\* pickSmoothWeighted keeps the sum of the weights at zero and each of them
\* within the largest weight for each other origin, whatever sets of
\* candidates the health flags and the retries give it, and in any order.
THEOREM WeightsStayBalanced == Spec => []WeightsBalanced
  <1>1. PoolInv /\ WeightInv => WeightsBalanced
    BY BalancedWithin DEF PoolInv
  <1> QED BY <1>1, InitPool, InitWeights, StepPreserves, WeightsPreserved, PTL DEF Spec

\* Probes leave the pool alone, and only an origin that was down, or at which
\* production traffic failed, is marked unhealthy, by fetchAndServe or by the
\* checks.
THEOREM ChangesAreEarned == Spec => PoolChangesAreEarned
  <1>1. Init => PoolInv
    BY InitPool
  <1>2. PoolInv /\ [Next]_vars => PoolInv' /\ [Earned]_vars
    BY StepPreserves
  <1>3. Spec => [][Earned]_vars
    BY <1>1, <1>2, PTL DEF Spec
  <1> QED BY <1>3 DEF PoolChangesAreEarned, Earned
====
