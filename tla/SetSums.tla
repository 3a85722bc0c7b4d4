------------------------------ MODULE SetSums -------------------------------
(***************************************************************************)
(* Sums over finite sets, as MapThenSumSet computes them, and what can be  *)
(* said of them for every set: the facts behind the scheduler weights of   *)
(* upstreamPool (apps/edgeproxy/internal/proxy/upstream.go).               *)
(*                                                                         *)
(* The induction theorems of the library range over predicates, which SMT  *)
(* and Zenon do not instantiate.  Induction is therefore carried out on    *)
(* sets: the set of the subsets for which a claim holds contains {} and is *)
(* closed under adding an element, so it contains every subset.            *)
(***************************************************************************)
EXTENDS FiniteSetsExt, FiniteSetTheorems, TLAPS

\* The sum of f[x] over the x of S.
Sum(f, S) == MapThenSumSet(LAMBDA x : f[x], S)

\* The element with which MapThenSumSet begins, and what is then left.
Chosen(s) == CHOOSE x \in s : TRUE
Rest(s) == s \ {Chosen(s)}

-----------------------------------------------------------------------------
(* Induction.                                                              *)

\* Every non-empty set of natural numbers has a least element; used for
\* the first of the best candidates of pickBest (upstream.go).
LEMMA LeastNat ==
    ASSUME NEW T \in SUBSET Nat, T # {}
    PROVE  \E x \in T : \A y \in T : x <= y
  <1> DEFINE R == OpToRel(<, Nat)
  <1>1. PICK x \in T : \A y \in T : ~(<<y, x>> \in R)
    <2>1. IsWellFoundedOn(R, Nat)
      BY NatLessThanWellFounded
    <2> HIDE DEF R
    <2> QED BY <2>1, WFMin, Zenon
  <1>2. \A y \in T : ~(y < x)
    BY <1>1 DEF OpToRel
  <1> QED BY <1>2

\* A set that contains 0 and, with every number below a limit, the next one
\* contains every number up to the limit; used for the loop over the times of
\* violations (ratelimit/limiter.go) and for index loops in general.
LEMMA UptoInduction ==
    ASSUME NEW L \in Nat, NEW G, 0 \in G, \A n \in 0..L - 1 : n \in G => n + 1 \in G
    PROVE  \A n \in 0..L : n \in G
  <1> DEFINE Bad == {n \in 0..L : n \notin G}
  <1>1. CASE Bad = {}
    BY <1>1
  <1>2. CASE Bad # {}
    <2>0. Bad \in SUBSET Nat
      OBVIOUS
    <2>1. PICK x \in Bad : \A y \in Bad : x <= y
      <3> HIDE DEF Bad
      <3> QED BY <1>2, <2>0, LeastNat
    <2>2. x # 0 /\ x \in 0..L
      BY <2>1
    <2>3. x - 1 \in 0..L - 1 /\ x - 1 \notin Bad
      BY <2>1, <2>2
    <2> QED BY <2>1, <2>2, <2>3
  <1> QED BY <1>1, <1>2

\* A loop over an index that goes from v to g[i][v], and what it arrives at.
Loop(L, V, a, g) == L \in Nat /\ a \in V /\ g \in [1..L -> [V -> V]]
Arrives(f, L, V, a, g) == f \in [0..L -> V] /\ f[0] = a /\ \A i \in 1..L : f[i] = g[i][f[i - 1]]

\* A recursion over an index has a solution, and its values stay in V: the
\* loops of cache.go over its list arrive somewhere.
LEMMA LoopArrives ==
    ASSUME NEW L, NEW V, NEW a, NEW g, Loop(L, V, a, g)
    PROVE  \E f : Arrives(f, L, V, a, g)
  <1>0. L \in Nat /\ a \in V /\ g \in [1..L -> [V -> V]]
    BY DEF Loop
  <1> USE <1>0
  <1> DEFINE Solves(f, n) == f \in [0..n -> V] /\ f[0] = a /\ \A i \in 1..n : f[i] = g[i][f[i - 1]]
             Good == {n \in 0..L : \E f : Solves(f, n)}
  <1>1. 0 \in Good
    <2>1. Solves([i \in 0..0 |-> a], 0)
      OBVIOUS
    <2> HIDE DEF Solves
    <2> QED BY <2>1
  <1>2. ASSUME NEW n \in 0..L - 1, n \in Good
        PROVE  n + 1 \in Good
    <2>1. PICK f : Solves(f, n)
      BY <1>2
    <2>2. n \in Nat /\ n \in 0..n /\ n + 1 \in 1..L /\ n + 1 \in 0..L
      OBVIOUS
    <2>3. f[n] \in V /\ g[n + 1][f[n]] \in V
      BY <2>1, <2>2
    <2> DEFINE h == [i \in 0..n + 1 |-> IF i = n + 1 THEN g[n + 1][f[n]] ELSE f[i]]
    <2>4. h \in [0..n + 1 -> V]
      BY <2>1, <2>2, <2>3
    <2>5. h[0] = a
      BY <2>1, <2>2
    <2>6. ASSUME NEW i \in 1..n + 1 PROVE h[i] = g[i][h[i - 1]]
      <3>1. CASE i = n + 1
        <4>1. i - 1 = n /\ h[i - 1] = f[n] /\ h[i] = g[n + 1][f[n]]
          BY <2>2, <3>1
        <4> QED BY <3>1, <4>1
      <3>2. CASE i # n + 1
        <4>1. i \in 1..n /\ i - 1 \in 0..n
          BY <2>2, <3>2
        <4>2. h[i] = f[i] /\ h[i - 1] = f[i - 1]
          BY <2>2, <4>1
        <4> QED BY <2>1, <4>1, <4>2
      <3> QED BY <3>1, <3>2
    <2>7. Solves(h, n + 1)
      BY <2>4, <2>5, <2>6
    <2> HIDE DEF h, Solves
    <2> QED BY <2>2, <2>7
  <1>3. L \in Good
    <2> HIDE DEF Good
    <2>1. \A n \in 0..L : n \in Good
      BY <1>1, <1>2, UptoInduction
    <2> QED BY <2>1
  <1>4. PICK f : Solves(f, L)
    BY <1>3
  <1> QED BY <1>4 DEF Arrives

\* The same, with what a loop is spelled out.
LEMMA Recursion ==
    ASSUME NEW L \in Nat, NEW V, NEW a \in V, NEW g \in [1..L -> [V -> V]]
    PROVE  \E f \in [0..L -> V] : f[0] = a /\ \A i \in 1..L : f[i] = g[i][f[i - 1]]
  <1>1. Loop(L, V, a, g)
    BY DEF Loop
  <1>2. PICK f : Arrives(f, L, V, a, g)
    BY <1>1, LoopArrives
  <1> QED BY <1>2 DEF Arrives

\* A set of numbers up to a limit has a largest: the number of items that the
\* eviction loop leaves (cache.go:103-105) exists.
LEMMA MaxUpto ==
    ASSUME NEW N \in Nat, NEW T \in SUBSET (0..N), T # {}
    PROVE  Max(T) \in T
  <1> DEFINE D == {N - x : x \in T}
  <1>0. \A x \in T : x \in Nat /\ x <= N /\ N - x \in Nat /\ N - x \in D
    <2> SUFFICES ASSUME NEW x \in T PROVE x \in Nat /\ x <= N /\ N - x \in Nat /\ N - x \in D
      OBVIOUS
    <2>1. x \in 0..N
      OBVIOUS
    <2>2. x \in Nat /\ x <= N /\ N - x \in Nat
      BY <2>1
    <2> QED BY <2>2
  <1>1. D \in SUBSET Nat /\ D # {}
    BY <1>0
  <1>2. PICK d \in D : \A e \in D : d <= e
    <2> HIDE DEF D
    <2> QED BY <1>1, LeastNat
  <1>3. PICK x \in T : d = N - x
    BY <1>2
  <1>4. ASSUME NEW y \in T PROVE x >= y
    <2>1. N - x <= N - y
      <3>1. N - y \in D
        BY <1>0
      <3> HIDE DEF D
      <3> QED BY <1>2, <1>3, <3>1
    <2>2. x \in Nat /\ y \in Nat
      BY <1>0
    <2> QED BY <2>1, <2>2
  <1> QED BY <1>4 DEF Max

\* A non-empty family of subsets of a finite set has a member none of whose
\* subsets with one element less is in the family (the loops of upstream.go
\* over candidates are reasoned about one candidate at a time).
LEMMA SmallestSet ==
    ASSUME NEW S, IsFiniteSet(S), NEW Bad \in SUBSET (SUBSET S), Bad # {}
    PROVE  \E s \in Bad : \A x \in s : s \ {x} \notin Bad
  <1> DEFINE Sizes == {Cardinality(s) : s \in Bad}
  <1>1. \A s \in SUBSET S : IsFiniteSet(s) /\ Cardinality(s) \in Nat
    BY FS_Subset, FS_CardinalityType
  <1>2. PICK m \in Sizes : \A j \in Sizes : m <= j
    <2>1. Sizes \in SUBSET Nat /\ Sizes # {}
      BY <1>1
    <2> QED BY <2>1, LeastNat
  <1>3. PICK s \in Bad : \A t \in Bad : Cardinality(s) <= Cardinality(t)
    BY <1>2
  <1>4. ASSUME NEW x \in s, s \ {x} \in Bad
        PROVE  FALSE
    <2>1. Cardinality(s \ {x}) = Cardinality(s) - 1 /\ Cardinality(s) \in Nat
      BY <1>1, FS_RemoveElement
    <2>2. ~(Cardinality(s) <= Cardinality(s \ {x}))
      BY <2>1
    <2> QED BY <1>3, <1>4, <2>2
  <1> QED BY <1>4

\* A family of subsets of a finite set that has every set all of whose
\* subsets with one element less it has, has all subsets: induction over the
\* candidates of upstream.go.
LEMMA StrongSetInduction ==
    ASSUME NEW S, IsFiniteSet(S), NEW Good,
           \A s \in SUBSET S : (\A x \in s : s \ {x} \in Good) => s \in Good
    PROVE  \A s \in SUBSET S : s \in Good
  <1> DEFINE Bad == (SUBSET S) \ Good
  <1> SUFFICES ASSUME Bad # {} PROVE FALSE
    OBVIOUS
  <1>1. PICK s \in Bad : \A x \in s : s \ {x} \notin Bad
    BY SmallestSet
  <1>2. \A x \in s : s \ {x} \in Good
    BY <1>1
  <1> QED BY <1>2

\* The same with the empty set and the addition of one element.
LEMMA SetInduction ==
    ASSUME NEW S, IsFiniteSet(S), NEW Good, {} \in Good,
           \A s \in SUBSET S : \A x \in s : s \ {x} \in Good => s \in Good
    PROVE  \A s \in SUBSET S : s \in Good
  <1>1. ASSUME NEW s \in SUBSET S, \A x \in s : s \ {x} \in Good
        PROVE  s \in Good
    <2>1. CASE s = {}
      BY <2>1
    <2>2. CASE s # {}
      <3>1. PICK x \in s : TRUE
        BY <2>2
      <3> QED BY <1>1, <3>1
    <2> QED BY <2>1, <2>2
  <1> QED BY <1>1, StrongSetInduction

-----------------------------------------------------------------------------
(* The fold that computes a sum exists and is unique.                      *)

\* g is a fold over the members of D, a family of sets.
FoldsTo(g, D, base, step) ==
    \A s \in D : g[s] = IF s = {} THEN base ELSE step[<<Chosen(s), g[Rest(s)]>>]

Upto(S, k) == {s \in SUBSET S : Cardinality(s) <= k}

\* What is left of a finite set without the element with which a fold begins
\* is one element smaller (the loops of upstream.go end).
LEMMA RestSmaller ==
    ASSUME NEW s, IsFiniteSet(s), s # {}
    PROVE  /\ Chosen(s) \in s
           /\ Cardinality(s) \in Nat
           /\ Cardinality(Rest(s)) = Cardinality(s) - 1
  <1>1. Chosen(s) \in s
    BY DEF Chosen
  <1> QED BY <1>1, FS_RemoveElement, FS_CardinalityType DEF Rest

\* A fold over the subsets of size k extends to those of size k + 1.
LEMMA FoldExtends ==
    ASSUME NEW S, IsFiniteSet(S), NEW T, NEW base \in T, NEW step \in [S \X T -> T],
           NEW k \in Nat, NEW g \in [Upto(S, k) -> T], FoldsTo(g, Upto(S, k), base, step)
    PROVE  \E h \in [Upto(S, k + 1) -> T] : FoldsTo(h, Upto(S, k + 1), base, step)
  <1> DEFINE h == [s \in Upto(S, k + 1) |-> IF s = {} THEN base ELSE step[<<Chosen(s), g[Rest(s)]>>]]
  <1>1. \A s \in SUBSET S : IsFiniteSet(s) /\ Cardinality(s) \in Nat
    BY FS_Subset, FS_CardinalityType
  <1>2. \A s \in Upto(S, k + 1) : s # {} => Chosen(s) \in S /\ Rest(s) \in Upto(S, k)
    <2> SUFFICES ASSUME NEW s \in Upto(S, k + 1), s # {}
                 PROVE  Chosen(s) \in S /\ Rest(s) \in Upto(S, k)
      OBVIOUS
    <2>1. s \in SUBSET S /\ Cardinality(s) <= k + 1 /\ IsFiniteSet(s)
      BY <1>1 DEF Upto
    <2>2. Chosen(s) \in s /\ Cardinality(s) \in Nat /\ Cardinality(Rest(s)) = Cardinality(s) - 1
      BY <2>1, RestSmaller
    <2>3. Rest(s) \subseteq S
      BY <2>1 DEF Rest
    <2>4. Cardinality(Rest(s)) <= k
      BY <2>1, <2>2
    <2> QED BY <2>1, <2>2, <2>3, <2>4 DEF Upto
  <1>3. h \in [Upto(S, k + 1) -> T]
    BY <1>2
  <1>4. \A s \in Upto(S, k) : s \in Upto(S, k + 1)
    BY <1>1 DEF Upto
  <1>5. \A s \in Upto(S, k) : h[s] = g[s]
    BY <1>4 DEF FoldsTo
  <1>6. \A s \in Upto(S, k + 1) : h[s] = IF s = {} THEN base ELSE step[<<Chosen(s), g[Rest(s)]>>]
    OBVIOUS
  <1> HIDE DEF h
  <1>7. FoldsTo(h, Upto(S, k + 1), base, step)
    BY <1>2, <1>5, <1>6 DEF FoldsTo
  <1> QED BY <1>3, <1>7

\* Every fold over a finite set exists.
LEMMA FoldExists ==
    ASSUME NEW S, IsFiniteSet(S), NEW T, NEW base \in T, NEW step \in [S \X T -> T]
    PROVE  \E g \in [SUBSET S -> T] : FoldsTo(g, SUBSET S, base, step)
  <1> DEFINE Ok(k) == \E g \in [Upto(S, k) -> T] : FoldsTo(g, Upto(S, k), base, step)
             Bad == {k \in Nat : ~Ok(k)}
  <1>1. \A s \in SUBSET S : IsFiniteSet(s) /\ Cardinality(s) \in Nat
    BY FS_Subset, FS_CardinalityType
  <1>2. ASSUME NEW k \in Nat, Ok(k)
        PROVE  Ok(k + 1)
    BY <1>2, FoldExtends
  <1>3. Ok(0)
    <2> DEFINE g == [s \in Upto(S, 0) |-> base]
    <2>1. \A s \in Upto(S, 0) : s = {}
      BY <1>1, FS_EmptySet DEF Upto
    <2>2. g \in [Upto(S, 0) -> T] /\ FoldsTo(g, Upto(S, 0), base, step)
      BY <2>1 DEF FoldsTo
    <2> QED BY <2>2
  <1> HIDE DEF Ok
  <1>4. Bad = {}
    <2> SUFFICES ASSUME Bad # {} PROVE FALSE
      OBVIOUS
    <2>1. PICK k \in Bad : \A j \in Bad : k <= j
      BY LeastNat
    <2>2. k # 0 /\ k \in Nat /\ ~Ok(k)
      BY <1>3
    <2>3. k - 1 \in Nat /\ Ok(k - 1) /\ k - 1 + 1 = k
      BY <2>1, <2>2
    <2> QED BY <1>2, <2>2, <2>3
  <1>5. Ok(Cardinality(S))
    BY <1>4, FS_CardinalityType
  <1>6. Upto(S, Cardinality(S)) = SUBSET S
    BY FS_Subset DEF Upto
  <1> QED BY <1>5, <1>6 DEF Ok

\* g computes the sums of f over the subsets of S.
SumsTo(g, f, S) == \A s \in SUBSET S : g[s] = IF s = {} THEN 0 ELSE f[Chosen(s)] + g[Rest(s)]

\* Two functions that compute sums of f agree where both do: the order in
\* which a loop visits the candidates is the same in both.
LEMMA SumUnique ==
    ASSUME NEW R, NEW S, IsFiniteSet(R), R \subseteq S, NEW f, NEW g, NEW h,
           SumsTo(g, f, R), SumsTo(h, f, S)
    PROVE  g[R] = h[R]
  <1> DEFINE Bad == {s \in SUBSET R : g[s] # h[s]}
  <1> SUFFICES ASSUME Bad # {} PROVE FALSE
    OBVIOUS
  <1>1. PICK s \in Bad : \A x \in s : s \ {x} \notin Bad
    BY SmallestSet
  <1>2. s # {}
    BY DEF SumsTo
  <1>3. Rest(s) \in SUBSET R /\ Rest(s) \notin Bad
    BY <1>1, <1>2 DEF Rest, Chosen
  <1> QED BY <1>2, <1>3 DEF SumsTo

\* MapThenSumSet over a finite set of integers is what such a function
\* returns: without this the total of pickSmoothWeighted (upstream.go) would
\* be an arbitrary value.
LEMMA SumIsFold ==
    ASSUME NEW S, IsFiniteSet(S), NEW f, \A x \in S : f[x] \in Int
    PROVE  \E g \in [SUBSET S -> Int] : SumsTo(g, f, S) /\ Sum(f, S) = g[S]
  <1> DEFINE step == [p \in S \X Int |-> f[p[1]] + p[2]]
             Def(g) == g = [s \in SUBSET S |-> IF s = {} THEN 0 ELSE f[Chosen(s)] + g[Rest(s)]]
             it == CHOOSE g : Def(g)
  <1>1. step \in [S \X Int -> Int]
    OBVIOUS
  <1>2. PICK g \in [SUBSET S -> Int] : FoldsTo(g, SUBSET S, 0, step)
    <2>1. 0 \in Int
      OBVIOUS
    <2> HIDE DEF step
    <2> QED BY <1>1, <2>1, FoldExists, Zenon
  <1>3. \A s \in SUBSET S : s # {} => Chosen(s) \in S /\ Rest(s) \in SUBSET S
    BY DEF Chosen, Rest
  <1>4. SumsTo(g, f, S)
    BY <1>2, <1>3 DEF FoldsTo, SumsTo
  <1>5. Def(g)
    BY <1>4 DEF SumsTo
  <1>6. Def(it)
    <2> HIDE DEF Def
    <2> QED BY <1>5
  <1>7. Sum(f, S) = it[S]
    BY DEF Sum, MapThenSumSet, MapThenFoldSet, Chosen, Rest
  <1> HIDE DEF it
  <1>8. SumsTo(it, f, S)
    BY <1>6 DEF SumsTo
  <1>9. it[S] = g[S]
    BY <1>4, <1>8, SumUnique
  <1> QED BY <1>4, <1>7, <1>9

\* A sum is a number, and takes the elements one by one (total +=
\* item.weight, upstream.go).
LEMMA SumRest ==
    ASSUME NEW S, IsFiniteSet(S), NEW f, \A x \in S : f[x] \in Int
    PROVE  /\ Sum(f, S) \in Int
           /\ Sum(f, S) = IF S = {} THEN 0 ELSE f[Chosen(S)] + Sum(f, Rest(S))
  <1>1. PICK g \in [SUBSET S -> Int] : SumsTo(g, f, S) /\ Sum(f, S) = g[S]
    BY SumIsFold
  <1>2. Rest(S) \subseteq S /\ IsFiniteSet(Rest(S))
    BY FS_Subset DEF Rest
  <1>3. PICK h \in [SUBSET Rest(S) -> Int] : SumsTo(h, f, Rest(S)) /\ Sum(f, Rest(S)) = h[Rest(S)]
    BY <1>2, SumIsFold
  <1>4. h[Rest(S)] = g[Rest(S)]
    BY <1>1, <1>2, <1>3, SumUnique
  <1> QED BY <1>1, <1>3, <1>4 DEF SumsTo

-----------------------------------------------------------------------------
(* What sums do.                                                           *)

\* Nothing adds up to zero: currentWeight before any pick.
LEMMA SumEmpty ==
    ASSUME NEW f
    PROVE  Sum(f, {}) = 0
  BY FS_EmptySet, SumRest

\* The sums over the subsets of a finite set are numbers.
LEMMA SumType ==
    ASSUME NEW S, IsFiniteSet(S), NEW f, \A x \in S : f[x] \in Int
    PROVE  \A s \in SUBSET S : IsFiniteSet(s) /\ Sum(f, s) \in Int
  <1>1. \A s \in SUBSET S : IsFiniteSet(s)
    BY FS_Subset
  <1> QED BY <1>1, SumRest

\* A sum does not depend on the element that is taken first: the order of the
\* candidates does not matter to the total of pickSmoothWeighted.
LEMMA SumWithout ==
    ASSUME NEW S, IsFiniteSet(S), NEW f, \A x \in S : f[x] \in Int
    PROVE  \A s \in SUBSET S : \A x \in s : Sum(f, s) = f[x] + Sum(f, s \ {x})
  <1> DEFINE Good == {s \in SUBSET S : \A x \in s : Sum(f, s) = f[x] + Sum(f, s \ {x})}
  <1>2. ASSUME NEW s \in SUBSET S, \A x \in s : s \ {x} \in Good
        PROVE  s \in Good
    <2> SUFFICES ASSUME NEW x \in s
                 PROVE  Sum(f, s) = f[x] + Sum(f, s \ {x})
      OBVIOUS
    <2> DEFINE a == Chosen(s)
               t == Sum(f, (s \ {a}) \ {x})
    <2>1. a \in s /\ Rest(s) = s \ {a}
      BY DEF Chosen, Rest
    <2> HIDE DEF a
    <2>2. Sum(f, s) = f[a] + Sum(f, s \ {a})
      BY <2>1, SumRest, FS_Subset DEF a
    <2>3. CASE x = a
      BY <2>2, <2>3
    <2>4. CASE x # a
      <3>1. Sum(f, s \ {a}) = f[x] + t
        BY <1>2, <2>1, <2>4
      <3>2. Sum(f, s \ {x}) = f[a] + Sum(f, (s \ {x}) \ {a})
        BY <1>2, <2>1, <2>4
      <3>3. (s \ {x}) \ {a} = (s \ {a}) \ {x}
        OBVIOUS
      <3>4. (s \ {a}) \ {x} \in SUBSET S
        OBVIOUS
      <3>5. t \in Int /\ f[a] \in Int /\ f[x] \in Int
        BY <2>1, <3>4, SumType
      <3>6. Sum(f, s \ {x}) = f[a] + t /\ Sum(f, s) = f[a] + (f[x] + t)
        BY <2>2, <3>1, <3>2, <3>3
      <3> HIDE DEF t
      <3> QED BY <3>5, <3>6
    <2> QED BY <2>3, <2>4
  <1> HIDE DEF Good
  <1>4. \A s \in SUBSET S : s \in Good
    BY <1>2, StrongSetInduction
  <1> QED BY <1>4 DEF Good

\* g is f, raised by w at the elements of T.
RaisedBy(g, f, w, T, S) ==
    \A x \in S : /\ f[x] \in Int /\ w[x] \in Int
                 /\ g[x] = IF x \in T THEN f[x] + w[x] ELSE f[x]

\* Raising f by w at the elements of T raises the sum by the sum of w over T:
\* what pickSmoothWeighted gives to the candidates.
LEMMA SumRaised ==
    ASSUME NEW S, IsFiniteSet(S), NEW T, NEW f, NEW w, NEW g, RaisedBy(g, f, w, T, S)
    PROVE  \A s \in SUBSET S : Sum(g, s) = Sum(f, s) + Sum(w, s \cap T)
  <1> USE DEF RaisedBy
  <1> DEFINE Good == {s \in SUBSET S : Sum(g, s) = Sum(f, s) + Sum(w, s \cap T)}
  <1>1. {} \in Good
    <2>1. {} \cap T = {}
      OBVIOUS
    <2> QED BY <2>1, SumEmpty
  <1>2. ASSUME NEW s \in SUBSET S, NEW x \in s, s \ {x} \in Good
        PROVE  s \in Good
    <2> DEFINE t == s \ {x}
    <2>1. \A y \in S : g[y] \in Int
      OBVIOUS
    <2>2. Sum(g, s) = g[x] + Sum(g, t) /\ Sum(f, s) = f[x] + Sum(f, t)
      BY <2>1, SumWithout
    <2>3. t \cap T \in SUBSET S /\ t \in SUBSET S /\ s \cap T \in SUBSET S
      OBVIOUS
    <2>4. Sum(w, t \cap T) \in Int /\ Sum(f, t) \in Int /\ f[x] \in Int /\ w[x] \in Int
      BY <2>3, SumType
    <2>5. Sum(w, s \cap T) = IF x \in T THEN w[x] + Sum(w, t \cap T) ELSE Sum(w, t \cap T)
      <3>1. CASE x \in T
        <4>1. (s \cap T) \ {x} = t \cap T /\ x \in s \cap T
          BY <3>1
        <4>2. Sum(w, s \cap T) = w[x] + Sum(w, (s \cap T) \ {x})
          BY <2>3, <4>1, SumWithout
        <4> QED BY <3>1, <4>1, <4>2
      <3>2. CASE x \notin T
        <4>1. s \cap T = t \cap T
          BY <3>2
        <4> QED BY <3>2, <4>1
      <3> QED BY <3>1, <3>2
    <2>6. g[x] = IF x \in T THEN f[x] + w[x] ELSE f[x]
      OBVIOUS
    <2>7. Sum(g, t) = Sum(f, t) + Sum(w, t \cap T)
      BY <1>2
    <2>8. Sum(g, s) = Sum(f, s) + Sum(w, s \cap T)
      <3> HIDE DEF t, Good
      <3> QED BY <2>2, <2>4, <2>5, <2>6, <2>7
    <2> QED BY <2>8
  <1> HIDE DEF Good
  <1>3. \A s \in SUBSET S : s \in Good
    BY <1>1, <1>2, SetInduction
  <1> QED BY <1>3 DEF Good

\* Functions that agree on a set have the same sum over it.
LEMMA SumSame ==
    ASSUME NEW S, IsFiniteSet(S), NEW f, NEW g, \A x \in S : f[x] \in Int /\ g[x] = f[x]
    PROVE  \A s \in SUBSET S : Sum(g, s) = Sum(f, s)
  <1> DEFINE Good == {s \in SUBSET S : Sum(g, s) = Sum(f, s)}
  <1>1. {} \in Good
    BY SumEmpty
  <1>2. ASSUME NEW s \in SUBSET S, NEW x \in s, s \ {x} \in Good
        PROVE  s \in Good
    <2>1. Sum(f, s) = f[x] + Sum(f, s \ {x}) /\ Sum(g, s) = g[x] + Sum(g, s \ {x})
      BY SumWithout
    <2> QED BY <1>2, <2>1
  <1> HIDE DEF Good
  <1>3. \A s \in SUBSET S : s \in Good
    BY <1>1, <1>2, SetInduction
  <1> QED BY <1>3 DEF Good

\* A sum splits along any set T: the candidates and the others.
LEMMA SumSplit ==
    ASSUME NEW S, IsFiniteSet(S), NEW T, NEW f, \A x \in S : f[x] \in Int
    PROVE  \A s \in SUBSET S : Sum(f, s) = Sum(f, s \cap T) + Sum(f, s \ T)
  <1> DEFINE Good == {s \in SUBSET S : Sum(f, s) = Sum(f, s \cap T) + Sum(f, s \ T)}
  <1>1. {} \in Good
    <2>1. {} \cap T = {} /\ {} \ T = {}
      OBVIOUS
    <2> QED BY <2>1, SumEmpty
  <1>2. ASSUME NEW s \in SUBSET S, NEW x \in s, s \ {x} \in Good
        PROVE  s \in Good
    <2> DEFINE t == s \ {x}
    <2>1. Sum(f, t) = Sum(f, t \cap T) + Sum(f, t \ T)
      BY <1>2
    <2>2. Sum(f, s) = f[x] + Sum(f, t) /\ f[x] \in Int
      BY SumWithout
    <2>3. /\ t \cap T \in SUBSET S /\ t \ T \in SUBSET S
          /\ s \cap T \in SUBSET S /\ s \ T \in SUBSET S
      OBVIOUS
    <2>4. Sum(f, t \cap T) \in Int /\ Sum(f, t \ T) \in Int
      BY <2>3, SumType
    <2>5. CASE x \in T
      <3>1. x \in s \cap T /\ (s \cap T) \ {x} = t \cap T /\ s \ T = t \ T
        BY <2>5
      <3>2. Sum(f, s \cap T) = f[x] + Sum(f, (s \cap T) \ {x})
        BY <2>3, <3>1, SumWithout
      <3>3. Sum(f, s \cap T) = f[x] + Sum(f, t \cap T) /\ Sum(f, s \ T) = Sum(f, t \ T)
        BY <3>1, <3>2
      <3>4. Sum(f, s) = Sum(f, s \cap T) + Sum(f, s \ T)
        <4> HIDE DEF t, Good
        <4> QED BY <2>1, <2>2, <2>4, <3>3
      <3> QED BY <3>4
    <2>6. CASE x \notin T
      <3>1. x \in s \ T /\ (s \ T) \ {x} = t \ T /\ s \cap T = t \cap T
        BY <2>6
      <3>2. Sum(f, s \ T) = f[x] + Sum(f, (s \ T) \ {x})
        BY <2>3, <3>1, SumWithout
      <3>3. Sum(f, s \ T) = f[x] + Sum(f, t \ T) /\ Sum(f, s \cap T) = Sum(f, t \cap T)
        BY <3>1, <3>2
      <3>4. Sum(f, s) = Sum(f, s \cap T) + Sum(f, s \ T)
        <4> HIDE DEF t, Good
        <4> QED BY <2>1, <2>2, <2>4, <3>3
      <3> QED BY <3>4
    <2> QED BY <2>5, <2>6
  <1> HIDE DEF Good
  <1>3. \A s \in SUBSET S : s \in Good
    BY <1>1, <1>2, SetInduction
  <1> QED BY <1>3 DEF Good

\* Numbers that are at most b sum up to at most b for each.
LEMMA SumAtMost ==
    ASSUME NEW S, IsFiniteSet(S), NEW f, NEW b \in Int, \A x \in S : f[x] \in Int /\ f[x] <= b
    PROVE  Sum(f, S) <= Cardinality(S) * b
  <1> DEFINE Good == {s \in SUBSET S : Sum(f, s) <= Cardinality(s) * b}
  <1>1. {} \in Good
    BY SumEmpty, FS_EmptySet
  <1>2. ASSUME NEW s \in SUBSET S, NEW x \in s, s \ {x} \in Good
        PROVE  s \in Good
    <2> DEFINE t == s \ {x}
    <2>1. Sum(f, t) <= Cardinality(t) * b
      BY <1>2
    <2>2. Sum(f, s) = f[x] + Sum(f, t) /\ f[x] \in Int /\ f[x] <= b
      BY SumWithout
    <2>3. t \in SUBSET S
      OBVIOUS
    <2>4. Cardinality(s) \in Nat /\ Cardinality(t) = Cardinality(s) - 1 /\ Sum(f, t) \in Int
      BY <2>3, SumType, FS_RemoveElement, FS_CardinalityType
    <2>5. (Cardinality(s) - 1) * b = Cardinality(s) * b - b
      BY <2>4
    <2>6. Sum(f, s) <= Cardinality(s) * b
      <3> HIDE DEF t, Good
      <3> QED BY <2>1, <2>2, <2>4, <2>5
    <2> QED BY <2>6
  <1> HIDE DEF Good
  <1>3. \A s \in SUBSET S : s \in Good
    BY <1>1, <1>2, SetInduction
  <1> QED BY <1>3 DEF Good

\* Numbers that are not negative have a sum that is not negative: weights.
LEMMA SumNonNegative ==
    ASSUME NEW S, IsFiniteSet(S), NEW f, \A x \in S : f[x] \in Nat
    PROVE  \A s \in SUBSET S : Sum(f, s) >= 0
  <1> DEFINE Good == {s \in SUBSET S : Sum(f, s) >= 0}
  <1>1. {} \in Good
    BY SumEmpty
  <1>2. ASSUME NEW s \in SUBSET S, NEW x \in s, s \ {x} \in Good
        PROVE  s \in Good
    <2>1. Sum(f, s) = f[x] + Sum(f, s \ {x}) /\ Sum(f, s \ {x}) \in Int /\ f[x] \in Nat
      BY SumWithout, SumType
    <2>2. Sum(f, s \ {x}) >= 0
      BY <1>2
    <2> QED BY <2>1, <2>2
  <1> HIDE DEF Good
  <1>3. \A s \in SUBSET S : s \in Good
    BY <1>1, <1>2, SetInduction
  <1> QED BY <1>3 DEF Good

\* Among finitely many numbers there is a largest: a scheduler that looks for
\* the best of some candidates finds one.
LEMMA Largest ==
    ASSUME NEW S, IsFiniteSet(S), S # {}, NEW f, \A x \in S : f[x] \in Int
    PROVE  \E x \in S : \A y \in S : f[y] <= f[x]
  <1> DEFINE Good == {s \in SUBSET S : s = {} \/ \E x \in s : \A y \in s : f[y] <= f[x]}
  <1>1. {} \in Good
    OBVIOUS
  <1>2. ASSUME NEW s \in SUBSET S, NEW x \in s, s \ {x} \in Good
        PROVE  s \in Good
    <2>1. \A y \in s : f[y] \in Int
      OBVIOUS
    <2>2. CASE s \ {x} = {}
      <3>1. \A y \in s : y = x
        BY <2>2
      <3> QED BY <2>1, <3>1
    <2>3. CASE s \ {x} # {}
      <3>1. PICK z \in s \ {x} : \A y \in s \ {x} : f[y] <= f[z]
        BY <1>2, <2>3
      <3>2. CASE f[x] <= f[z]
        BY <3>1, <3>2
      <3>3. CASE ~(f[x] <= f[z])
        <4>1. \A y \in s : f[y] <= f[x]
          BY <2>1, <3>1, <3>3
        <4> QED BY <4>1
      <3> QED BY <3>2, <3>3
    <2> QED BY <2>2, <2>3
  <1> HIDE DEF Good
  <1>3. \A s \in SUBSET S : s \in Good
    BY <1>1, <1>2, SetInduction
  <1> QED BY <1>3 DEF Good
====
