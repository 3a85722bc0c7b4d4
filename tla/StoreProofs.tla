----------------------------- MODULE StoreProofs -----------------------------
(***************************************************************************)
(* SecurityEdge's security log keeps its history and its telemetry history *)
(* is honest, for every capacity, file size, number of backups and bound.  *)
(***************************************************************************)
EXTENDS SecurityLog, TelemetryHistory, SetSums

-----------------------------------------------------------------------------
(* Lists.                                                                  *)

\* f is the loop of Only over s: the list kept so far, for every index.
Filters(f, s, S, X) ==
    /\ f \in [0..Len(s) -> Seq(X)] /\ f[0] = <<>>
    /\ \A i \in 1..Len(s) : f[i] = IF s[i] \in S THEN Append(f[i - 1], s[i]) ELSE f[i - 1]

\* Only is what a loop over the list arrives at, as in restorePersistentEntries
\* (store.go:143-193) and discardSamplesAfterLocked (history.go:307-337).
LEMMA OnlyIs ==
    ASSUME NEW X, NEW s \in Seq(X), NEW S
    PROVE  \E f : Filters(f, s, S, X) /\ Only(s, S) = f[Len(s)]
  <1>1. PICK V, N, z : V = Seq(X) /\ N = Len(s) /\ z = <<>>
    OBVIOUS
  <1> DEFINE g == [i \in 1..N |-> [v \in V |-> IF s[i] \in S THEN Append(v, s[i]) ELSE v]]
  <1>2. N \in Nat /\ Loop(N, V, z, g)
    <2>1. \A i \in 1..N : s[i] \in X
      BY <1>1
    <2>2. \A v \in V, x \in X : Append(v, x) \in V
      BY <1>1
    <2>3. N \in Nat /\ z \in V
      BY <1>1
    <2> QED BY <2>1, <2>2, <2>3 DEF Loop
  <1>3. PICK f \in [0..N -> V] : f[0] = z /\ \A i \in 1..N : f[i] = g[i][f[i - 1]]
    <2> HIDE DEF g
    <2>1. PICK f : Arrives(f, N, V, z, g)
      BY <1>2, LoopArrives
    <2> QED BY <2>1 DEF Arrives
  <1>4. ASSUME NEW i \in 1..N
        PROVE  f[i] = IF s[i] \in S THEN Append(f[i - 1], s[i]) ELSE f[i - 1]
    <2>1. i - 1 \in 0..N
      BY <1>2
    <2>2. f[i - 1] \in V
      BY <1>3, <2>1
    <2> QED BY <1>3, <2>2
  <1>5. Filters(f, s, S, X)
    BY <1>1, <1>3, <1>4 DEF Filters
  <1> DEFINE Step(h, i) == IF i = 0 THEN <<>>
                           ELSE IF s[i] \in S THEN Append(h[i - 1], s[i])
                           ELSE h[i - 1]
             Def(h) == h = [i \in 0..Len(s) |-> Step(h, i)]
             it == CHOOSE h : Def(h)
  <1>6. Def(f)
    <2>1. ASSUME NEW i \in 0..N PROVE f[i] = Step(f, i)
      <3>1. i = 0 \/ i \in 1..N
        BY <1>2
      <3> QED BY <1>1, <1>3, <1>4, <3>1
    <2>2. f = [i \in 0..N |-> f[i]]
      BY <1>3
    <2>3. [i \in 0..N |-> f[i]] = [i \in 0..N |-> Step(f, i)]
      BY <2>1
    <2> HIDE DEF Step
    <2> QED BY <1>1, <2>2, <2>3
  <1>7. Def(it)
    <2> HIDE DEF Def
    <2> QED BY <1>6
  <1>8. Only(s, S) = it[N]
    BY <1>1 DEF Only
  <1> HIDE DEF it
  <1>9. it[N] = f[N]
    <2> DEFINE G == {i \in 0..N : it[i] = f[i]}
    <2>1. \A i \in 0..N : it[i] = Step(it, i) /\ f[i] = Step(f, i)
      BY <1>1, <1>6, <1>7
    <2>2. 0 \in G
      BY <1>2, <2>1
    <2>3. ASSUME NEW n \in 0..N - 1, n \in G PROVE n + 1 \in G
      <3>1. n + 1 \in 0..N /\ (n + 1) - 1 = n /\ n + 1 # 0
        BY <1>2
      <3>2. Step(it, n + 1) = Step(f, n + 1)
        BY <2>3, <3>1
      <3> HIDE DEF Step
      <3> QED BY <2>1, <3>1, <3>2
    <2> HIDE DEF G
    <2>4. \A n \in 0..N : n \in G
      BY <1>2, <2>2, <2>3, UptoInduction
    <2> QED BY <1>2, <2>4 DEF G
  <1> QED BY <1>1, <1>5, <1>8, <1>9

\* t is the subsequence of s at the places at, which are below n and are those
\* of the elements in S.
Embeds(t, s, S, n, at) ==
    /\ at \in [1..Len(t) -> 1..n]
    /\ \A i \in 1..Len(t) : t[i] = s[at[i]] /\ t[i] \in S
    /\ \A i, j \in 1..Len(t) : i < j => at[i] < at[j]
    /\ \A j \in 1..n : s[j] \in S => \E i \in 1..Len(t) : at[i] = j

\* What a loop that skips elements keeps is in the order of the list, and it
\* keeps every element it does not skip (store.go:143-193, history.go:307-337).
LEMMA OnlyDoes ==
    ASSUME NEW X, NEW s \in Seq(X), NEW S
    PROVE  Only(s, S) \in Seq(X) /\ \E at : Embeds(Only(s, S), s, S, Len(s), at)
  <1>1. PICK f : Filters(f, s, S, X) /\ Only(s, S) = f[Len(s)]
    BY OnlyIs
  <1> DEFINE N == Len(s)
             G == {n \in 0..N : \E at : Embeds(f[n], s, S, n, at)}
  <1>2. N \in Nat /\ \A n \in 0..N : f[n] \in Seq(X)
    <2>1. f \in [0..Len(s) -> Seq(X)]
      BY <1>1 DEF Filters
    <2>2. Len(s) \in Nat
      OBVIOUS
    <2> QED BY <2>1, <2>2
  <1>3. 0 \in G
    <2>1. f[0] = <<>> /\ Len(f[0]) = 0
      BY <1>1 DEF Filters
    <2>2. Embeds(f[0], s, S, 0, [i \in 1..0 |-> 0])
      BY <2>1 DEF Embeds
    <2> QED BY <1>2, <2>2
  <1>4. ASSUME NEW n \in 0..N - 1, n \in G PROVE n + 1 \in G
    <2>1. n \in Nat /\ n \in 0..N /\ n + 1 \in 1..N /\ n + 1 \in 0..N /\ (n + 1) - 1 = n
      BY <1>2
    <2>2. PICK at : Embeds(f[n], s, S, n, at)
      BY <1>4
    <2>3. PICK t, x : t = f[n] /\ t \in Seq(X) /\ x = s[n + 1] /\ x \in X
      BY <1>2, <2>1
    <2>4. f[n + 1] = IF x \in S THEN Append(t, x) ELSE t
      BY <1>1, <2>1, <2>3 DEF Filters
    <2>5. CASE x \in S
      <3>0. PICK u : u = Append(t, x)
        OBVIOUS
      <3>1. u = Append(t, x) /\ u \in Seq(X) /\ f[n + 1] = u
        <4>1. Append(t, x) \in Seq(X)
          BY <2>3
        <4> QED BY <2>4, <2>5, <3>0, <4>1
      <3>2. /\ Len(u) = Len(t) + 1 /\ Len(t) \in Nat
            /\ \A j \in 1..Len(t) : u[j] = t[j]
            /\ u[Len(t) + 1] = x
        BY <2>3, <3>1
      <3>3. PICK m : m = Len(t)
        OBVIOUS
      <3> DEFINE new == [j \in 1..(m + 1) |-> IF j = m + 1 THEN n + 1 ELSE at[j]]
      <3>4. /\ at \in [1..m -> 1..n] /\ \A i \in 1..m : t[i] = s[at[i]] /\ t[i] \in S
            /\ \A i, j \in 1..m : i < j => at[i] < at[j]
            /\ \A j \in 1..n : s[j] \in S => \E i \in 1..m : at[i] = j
        BY <2>2, <2>3, <3>3 DEF Embeds
      <3>5. m \in Nat /\ \A i \in 1..m + 1 : i \in 1..m \/ i = m + 1
        BY <3>2, <3>3
      <3>6. \A i \in 1..m : new[i] = at[i] /\ new[i] \in 1..n
        BY <3>4, <3>5
      <3>7. new[m + 1] = n + 1
        BY <3>5
      <3>8. new \in [1..m + 1 -> 1..n + 1]
        BY <2>1, <3>4, <3>5
      <3> HIDE DEF new
      <3>9. \A i \in 1..m + 1 : u[i] = s[new[i]] /\ u[i] \in S
        <4> SUFFICES ASSUME NEW i \in 1..m + 1 PROVE u[i] = s[new[i]] /\ u[i] \in S
          OBVIOUS
        <4>1. CASE i = m + 1
          BY <2>3, <2>5, <3>2, <3>3, <3>7, <4>1
        <4>2. CASE i \in 1..m
          BY <3>2, <3>3, <3>4, <3>6, <4>2
        <4> QED BY <3>5, <4>1, <4>2
      <3>10. \A i, j \in 1..m + 1 : i < j => new[i] < new[j]
        <4> SUFFICES ASSUME NEW i \in 1..m + 1, NEW j \in 1..m + 1, i < j PROVE new[i] < new[j]
          OBVIOUS
        <4>1. i \in 1..m
          BY <3>5
        <4>2. CASE j = m + 1
          BY <2>1, <3>6, <3>7, <4>1, <4>2
        <4>3. CASE j \in 1..m
          <5>1. at[i] < at[j]
            BY <3>4, <4>1, <4>3
          <5> QED BY <3>6, <4>1, <4>3, <5>1
        <4> QED BY <3>5, <4>2, <4>3
      <3>11. ASSUME NEW j \in 1..n + 1, s[j] \in S PROVE \E i \in 1..m + 1 : new[i] = j
        <4>1. CASE j = n + 1
          BY <3>5, <3>7, <4>1
        <4>2. CASE j # n + 1
          <5>1. j \in 1..n
            BY <2>1, <4>2
          <5>2. PICK i \in 1..m : at[i] = j
            BY <3>4, <3>11, <5>1
          <5>3. i \in 1..m + 1
            BY <3>5
          <5> QED BY <3>6, <5>2, <5>3
        <4> QED BY <4>1, <4>2
      <3>12. Embeds(u, s, S, n + 1, new)
        BY <3>2, <3>3, <3>8, <3>9, <3>10, <3>11 DEF Embeds
      <3> QED BY <2>1, <3>1, <3>12
    <2>6. CASE x \notin S
      <3>1. \A j \in 1..n + 1 : s[j] \in S => j \in 1..n
        BY <2>1, <2>3, <2>6
      <3>2. at \in [1..Len(t) -> 1..n + 1]
        <4>1. at \in [1..Len(t) -> 1..n] /\ 1..n \subseteq 1..n + 1
          BY <2>1, <2>2, <2>3 DEF Embeds
        <4> QED BY <4>1
      <3>3. Embeds(t, s, S, n + 1, at)
        BY <2>2, <2>3, <3>1, <3>2 DEF Embeds
      <3> QED BY <2>1, <2>4, <2>6, <3>3
    <2> QED BY <2>5, <2>6
  <1>5. N \in G
    <2> HIDE DEF G
    <2>1. \A n \in 0..N : n \in G
      BY <1>2, <1>3, <1>4, UptoInduction
    <2> QED BY <1>2, <2>1
  <1> QED BY <1>1, <1>2, <1>5

\* A sequence all of whose elements are in Y is a sequence over Y (what Only
\* keeps of a file are entries, store.go:160-172).
LEMMA SeqOver ==
    ASSUME NEW X, NEW s \in Seq(X), NEW Y, \A i \in 1..Len(s) : s[i] \in Y
    PROVE  s \in Seq(Y)
  BY Len(s) \in Nat, s \in [1..Len(s) -> Y]

\* Two lists one after the other, element by element.
LEMMA JoinDoes ==
    ASSUME NEW X, NEW s \in Seq(X), NEW u \in Seq(X), NEW w, w = s \o u
    PROVE  /\ w \in Seq(X) /\ Len(w) = Len(s) + Len(u)
           /\ \A i \in 1..Len(s) : w[i] = s[i]
           /\ \A i \in Len(s) + 1..Len(s) + Len(u) : w[i] = u[i - Len(s)]
  OBVIOUS

\* w are the first m elements of s.
FirstOf(w, s, m, X) == w \in Seq(X) /\ Len(w) = m /\ \A i \in 1..m : w[i] = s[i]

\* The beginning of a list, as a page is cut from what was found.
LEMMA FirstDoes ==
    ASSUME NEW X, NEW s \in Seq(X), NEW m \in 0..Len(s)
    PROVE  FirstOf(SubSeq(s, 1, m), s, m, X)
  BY DEF FirstOf

\* The smaller of two numbers.
LEMMA MinOfTwo ==
    ASSUME NEW m \in Nat, NEW n \in Nat
    PROVE  Min({m, n}) = IF m <= n THEN m ELSE n
  <1>1. PICK k : k = (IF m <= n THEN m ELSE n) /\ k \in {m, n} /\ \A y \in {m, n} : k <= y
    OBVIOUS
  <1>2. \A x \in {m, n} : (\A y \in {m, n} : x <= y) => x = k
    BY <1>1
  <1> QED BY <1>1, <1>2 DEF Min

\* v is the end of s, of at most n elements.
EndOf(v, s, n, X) ==
    /\ v \in Seq(X) /\ Len(v) <= n /\ (s # <<>> => v # <<>>)
    /\ \E d \in Nat : Len(s) = d + Len(v) /\ \A i \in 1..Len(v) : v[i] = s[d + i]

\* The ring keeps the end of what was appended to it: overwriting the oldest
\* entry and moving the head (store.go:222-233, 268-285).
LEMMA NewestDoes ==
    ASSUME NEW X, NEW s \in Seq(X), NEW n \in Nat \ {0}
    PROVE  EndOf(Newest(s, n), s, n, X)
  <1>1. PICK m : m = Min({n, Len(s)})
    OBVIOUS
  <1>2. PICK L : L = Len(s) /\ L \in Nat
    OBVIOUS
  <1>3. m \in Nat /\ m <= n /\ m <= L /\ (L > 0 => m > 0)
    <2>1. m = IF n <= L THEN n ELSE L
      BY <1>1, <1>2, MinOfTwo
    <2> QED BY <1>2, <2>1
  <1>4. PICK u, k : k = (L - m) + 1 /\ u = SubSeq(s, k, L) /\ u = Newest(s, n)
    BY <1>1, <1>2 DEF Newest
  <1>5. k \in 1..L + 1
    BY <1>2, <1>3, <1>4
  <1>6. u \in Seq(X) /\ Len(u) = m /\ \A i \in 1..m : u[i] = s[(L - m) + i]
    <2>1. /\ u \in Seq(X) /\ Len(u) = IF k <= L THEN (L - k) + 1 ELSE 0
          /\ \A i \in 1..Len(u) : u[i] = s[(k + i) - 1]
      BY <1>2, <1>4, <1>5, SMTT(30)
    <2>2. Len(u) = m
      BY <1>2, <1>3, <1>4, <2>1
    <2>3. \A i \in 1..m : (k + i) - 1 = (L - m) + i
      BY <1>2, <1>3, <1>4
    <2> QED BY <2>1, <2>2, <2>3
  <1>7. L - m \in Nat /\ L = (L - m) + m
    BY <1>2, <1>3
  <1>8. s # <<>> => L > 0
    BY <1>2
  <1>9. u = <<>> => m = 0
    BY <1>6
  <1>10. \E d \in Nat : Len(s) = d + Len(u) /\ \A i \in 1..Len(u) : u[i] = s[d + i]
    BY <1>2, <1>6, <1>7
  <1>11. u \in Seq(X) /\ Len(u) <= n /\ (s # <<>> => u # <<>>)
    BY <1>3, <1>6, <1>8, <1>9
  <1> QED BY <1>4, <1>10, <1>11 DEF EndOf

-----------------------------------------------------------------------------
(* The files of the security log.                                          *)

FileSets == [0..MaxBackups -> Seq(Entries \cup {Torn})]

\* From the oldest file to the active one and from its first line to its last,
\* the entries are in the order of the events.
FilesInOrder(F) ==
    \A k, l \in 0..MaxBackups : \A i \in 1..Len(F[k]), j \in 1..Len(F[l]) :
        (k > l \/ (k = l /\ i < j)) /\ F[k][i] # Torn /\ F[l][j] # Torn => F[k][i].id < F[l][j].id

\* No line is of an event after n, and no sequence number is ahead of it.
FilesBelow(F, n) ==
    \A k \in 0..MaxBackups : \A i \in 1..Len(F[k]) : F[k][i].id <= n /\ F[k][i].seq <= F[k][i].id

\* Bounds, one by one.
LEMMA LogNumbers ==
    /\ LogCapacity \in Nat \ {0} /\ FileLines \in Nat \ {0} /\ BatchSize \in Nat \ {0}
    /\ MaxBackups \in Nat /\ MaxLogged \in Nat /\ MaxLogFaults \in Nat
  BY LogBounds

\* An entry is not a torn line, and its fields are numbers.
LEMMA EntryFields ==
    ASSUME NEW e \in Entries
    PROVE  e.id \in 1..MaxLogged /\ e.seq \in 1..MaxLogged /\ e # Torn /\ e.id \in Nat /\ e.seq \in Nat
  <1>1. e.id \in 1..MaxLogged /\ e.seq \in 1..MaxLogged
    BY DEF Entries
  <1>2. Torn.id = 0
    BY DEF Torn
  <1> QED BY <1>1, <1>2, LogNumbers

\* What is read of one file: its whole lines (store.go:160-172).
LEMMA FileRead ==
    ASSUME NEW F \in FileSets, FilesInOrder(F), NEW n \in Nat, FilesBelow(F, n), NEW k \in 0..MaxBackups
    PROVE  /\ Only(F[k], Entries) \in Seq(Entries)
           /\ \A i \in 1..Len(Only(F[k], Entries)) :
                 \E j \in 1..Len(F[k]) : F[k][j] = Only(F[k], Entries)[i] /\ F[k][j] # Torn
           /\ \A i \in 1..Len(Only(F[k], Entries)) :
                 /\ Only(F[k], Entries)[i].id <= n
                 /\ Only(F[k], Entries)[i].seq <= Only(F[k], Entries)[i].id
           /\ \A i, j \in 1..Len(Only(F[k], Entries)) :
                 i < j => Only(F[k], Entries)[i].id < Only(F[k], Entries)[j].id
  <1>1. PICK s, X, u : s = F[k] /\ X = Entries \cup {Torn} /\ u = Only(s, Entries)
    OBVIOUS
  <1>2. s \in Seq(X)
    BY <1>1 DEF FileSets
  <1>3. u \in Seq(X) /\ \E at : Embeds(u, s, Entries, Len(s), at)
    BY <1>1, <1>2, OnlyDoes
  <1>4. PICK at : Embeds(u, s, Entries, Len(s), at)
    BY <1>3
  <1>5. \A i \in 1..Len(u) : at[i] \in 1..Len(s) /\ u[i] = s[at[i]] /\ u[i] \in Entries /\ u[i] # Torn
    BY <1>4, EntryFields DEF Embeds
  <1>6. u \in Seq(Entries)
    <2>1. Len(u) \in Nat /\ \A i \in 1..Len(u) : u[i] \in Entries
      BY <1>3, <1>5
    <2> QED BY <1>3, <2>1, SeqOver
  <1>7. \A i \in 1..Len(u) : u[i].id <= n /\ u[i].seq <= u[i].id
    BY <1>1, <1>5 DEF FilesBelow
  <1>8. ASSUME NEW i \in 1..Len(u), NEW j \in 1..Len(u), i < j PROVE u[i].id < u[j].id
    <2>1. at[i] < at[j]
      BY <1>4, <1>8 DEF Embeds
    <2>2. s[at[i]].id < s[at[j]].id
      BY <1>1, <1>5, <2>1 DEF FilesInOrder
    <2> QED BY <1>5, <2>2
  <1> QED BY <1>1, <1>5, <1>6, <1>7, <1>8

\* f is the loop that puts the lists of p together: the list so far.
Concatenates(f, p, N, X) ==
    f \in [0..N -> Seq(X)] /\ f[0] = <<>> /\ \A i \in 1..N : f[i] = f[i - 1] \o p[i]

\* A loop can put lists together one after the other (store.go:143-172).
LEMMA Concatenation ==
    ASSUME NEW X, NEW N \in Nat, NEW p \in [1..N -> Seq(X)]
    PROVE  \E f : Concatenates(f, p, N, X)
  <1>1. PICK V, z : V = Seq(X) /\ z = <<>>
    OBVIOUS
  <1> DEFINE g == [k \in 1..N |-> [v \in V |-> v \o p[k]]]
  <1>2. Loop(N, V, z, g)
    <2>1. \A v \in V, w \in V : v \o w \in V
      BY <1>1
    <2>2. z \in V /\ p \in [1..N -> V]
      BY <1>1
    <2> QED BY <2>1, <2>2 DEF Loop
  <1>3. PICK f \in [0..N -> V] : f[0] = z /\ \A i \in 1..N : f[i] = g[i][f[i - 1]]
    <2> HIDE DEF g
    <2>1. PICK f : Arrives(f, N, V, z, g)
      BY <1>2, LoopArrives
    <2> QED BY <2>1 DEF Arrives
  <1>4. ASSUME NEW i \in 1..N PROVE f[i] = f[i - 1] \o p[i]
    <2>1. i - 1 \in 0..N /\ f[i - 1] \in V
      BY <1>3
    <2> QED BY <1>3, <2>1
  <1> QED BY <1>1, <1>3, <1>4 DEF Concatenates

\* The lines restored are those of the files one after the other
\* (store.go:143-172).
LEMMA LinesIs ==
    ASSUME logFiles \in FileSets, FilesInOrder(logFiles), NEW n \in Nat, FilesBelow(logFiles, n)
    PROVE  \E f \in [0..(MaxBackups + 1) -> Seq(Entries)] :
              /\ f[0] = <<>>
              /\ \A k \in 1..(MaxBackups + 1) :
                    f[k] = f[k - 1] \o Only(logFiles[MaxBackups + 1 - k], Entries)
              /\ Lines = f[MaxBackups + 1]
  <1>1. PICK V, N, z : V = Seq(Entries) /\ N = MaxBackups + 1 /\ z = <<>>
    OBVIOUS
  <1>2. N \in Nat /\ N \in 0..N /\ 0 \in 0..N /\ z \in V
    BY <1>1, LogNumbers
  <1>2a. \A k \in 1..N : N - k \in 0..MaxBackups /\ MaxBackups + 1 - k = N - k /\ k # 0
    BY <1>1, LogNumbers
  <1>3. PICK p : p = [k \in 1..N |-> Only(logFiles[N - k], Entries)]
    OBVIOUS
  <1>4. \A k \in 1..N : p[k] \in V
    BY <1>1, <1>2a, <1>3, FileRead
  <1>5. p \in [1..N -> V]
    BY <1>3, <1>4
  <1>6. PICK f \in [0..N -> V] : f[0] = z /\ \A i \in 1..N : f[i] = f[i - 1] \o p[i]
    <2>1. N \in Nat /\ p \in [1..N -> Seq(Entries)]
      BY <1>1, <1>2, <1>5
    <2>2. PICK f : Concatenates(f, p, N, Entries)
      BY <2>1, Concatenation
    <2> QED BY <1>1, <2>2 DEF Concatenates
  <1>7. ASSUME NEW i \in 1..N PROVE f[i] = f[i - 1] \o p[i]
    BY <1>6
  <1> DEFINE Step(h, k) == IF k = 0 THEN <<>> ELSE h[k - 1] \o Only(logFiles[MaxBackups + 1 - k], Entries)
             Def(h) == h = [k \in 0..(MaxBackups + 1) |-> Step(h, k)]
             it == CHOOSE h : Def(h)
  <1>8. ASSUME NEW i \in 1..N, NEW h PROVE Step(h, i) = h[i - 1] \o p[i]
    <2>1. p[i] = Only(logFiles[MaxBackups + 1 - i], Entries)
      BY <1>2a, <1>3
    <2>2. i # 0
      BY <1>2a
    <2> QED BY <2>1, <2>2
  <1>9. Def(f)
    <2>1. ASSUME NEW i \in 0..N PROVE f[i] = Step(f, i)
      <3>1. i = 0 \/ i \in 1..N
        BY <1>2
      <3>2. Step(f, 0) = <<>>
        OBVIOUS
      <3> HIDE DEF Step
      <3> QED BY <1>1, <1>6, <1>7, <1>8, <3>1, <3>2
    <2>2. f = [i \in 0..N |-> f[i]]
      BY <1>6
    <2>3. [i \in 0..N |-> f[i]] = [i \in 0..N |-> Step(f, i)]
      BY <2>1
    <2> HIDE DEF Step
    <2> QED BY <1>1, <2>2, <2>3
  <1>10. Def(it)
    <2> HIDE DEF Def
    <2> QED BY <1>9
  <1>11. Lines = it[N]
    BY <1>1 DEF Lines
  <1> HIDE DEF it
  <1>12. it[N] = f[N]
    <2> DEFINE G == {i \in 0..N : it[i] = f[i]}
    <2>1. \A i \in 0..N : it[i] = Step(it, i) /\ f[i] = Step(f, i)
      <3> HIDE DEF Step
      <3> QED BY <1>1, <1>9, <1>10
    <2>2. 0 \in G
      <3>1. Step(it, 0) = Step(f, 0)
        OBVIOUS
      <3> HIDE DEF Step
      <3> QED BY <1>2, <2>1, <3>1
    <2>3. ASSUME NEW m \in 0..N - 1, m \in G PROVE m + 1 \in G
      <3>1. m + 1 \in 0..N /\ m + 1 \in 1..N /\ (m + 1) - 1 = m
        BY <1>2
      <3>2. it[m] = f[m]
        BY <2>3
      <3> HIDE DEF Step
      <3>3. Step(it, m + 1) = Step(f, m + 1)
        BY <1>8, <3>1, <3>2
      <3> QED BY <2>1, <3>1, <3>3
    <2> HIDE DEF G
    <2>4. \A m \in 0..N : m \in G
      BY <1>2, <2>2, <2>3, UptoInduction
    <2> QED BY <1>2, <2>4 DEF G
  <1>13. \A k \in 1..N : f[k] = f[k - 1] \o Only(logFiles[MaxBackups + 1 - k], Entries)
    <2> SUFFICES ASSUME NEW k \in 1..N
                 PROVE  f[k] = f[k - 1] \o Only(logFiles[MaxBackups + 1 - k], Entries)
      OBVIOUS
    <2>1. p[k] = Only(logFiles[MaxBackups + 1 - k], Entries)
      BY <1>2a, <1>3
    <2> QED BY <1>7, <2>1
  <1> QED BY <1>1, <1>6, <1>11, <1>12, <1>13

\* The lines restored are entries in the order of the events (store.go:143-172).
LEMMA LinesDo ==
    ASSUME logFiles \in FileSets, FilesInOrder(logFiles), NEW n \in Nat, FilesBelow(logFiles, n)
    PROVE  /\ Lines \in Seq(Entries)
           /\ \A i \in 1..Len(Lines) : Lines[i].id <= n /\ Lines[i].seq <= Lines[i].id
           /\ \A i, j \in 1..Len(Lines) : i < j => Lines[i].id < Lines[j].id
  <1>1. PICK f \in [0..(MaxBackups + 1) -> Seq(Entries)] :
              /\ f[0] = <<>>
              /\ \A k \in 1..(MaxBackups + 1) :
                    f[k] = f[k - 1] \o Only(logFiles[MaxBackups + 1 - k], Entries)
              /\ Lines = f[MaxBackups + 1]
    BY LinesIs
  <1>2. PICK N : N = MaxBackups + 1
    OBVIOUS
  <1> DEFINE Of(s, k) == \A i \in 1..Len(s) : \E l \in 0..MaxBackups :
                            /\ l >= N - k
                            /\ \E j \in 1..Len(logFiles[l]) : logFiles[l][j] = s[i] /\ s[i] # Torn
             Up(s) == \A i, j \in 1..Len(s) : i < j => s[i].id < s[j].id
             G == {k \in 0..N : Of(f[k], k) /\ Up(f[k])}
  <1>3. N \in Nat /\ N \in 0..N /\ N - 1 = MaxBackups
    BY <1>2, LogNumbers
  <1>4. 0 \in G
    <2>1. Len(f[0]) = 0
      BY <1>1
    <2> QED BY <1>3, <2>1
  <1>5. ASSUME NEW m \in 0..N - 1, m \in G PROVE m + 1 \in G
    <2>1. m + 1 \in 0..N /\ m \in 0..N /\ m + 1 \in 1..N /\ (m + 1) - 1 = m
      BY <1>3
    <2>2. PICK k \in 0..MaxBackups : k = N - (m + 1)
      BY <1>3, <2>1
    <2>3. PICK s, p : s = f[m] /\ p = Only(logFiles[k], Entries)
      OBVIOUS
    <2>4. s \in Seq(Entries) /\ f[m + 1] = s \o p
      <3>1. MaxBackups + 1 - (m + 1) = k
        BY <1>2, <2>1, <2>2, LogNumbers
      <3>2. f[m + 1] = f[(m + 1) - 1] \o Only(logFiles[MaxBackups + 1 - (m + 1)], Entries)
        BY <1>1, <1>2, <2>1
      <3>3. f[m] \in Seq(Entries)
        BY <1>1, <1>2, <2>1
      <3> QED BY <2>1, <2>3, <3>1, <3>2, <3>3
    <2>5. /\ p \in Seq(Entries)
          /\ \A i \in 1..Len(p) : \E j \in 1..Len(logFiles[k]) : logFiles[k][j] = p[i] /\ logFiles[k][j] # Torn
          /\ Up(p)
      BY <2>3, FileRead
    <2>6. Of(s, m) /\ Up(s)
      <3> HIDE DEF Of, Up
      <3> QED BY <1>5, <2>3
    <2>7. PICK u : u = s \o p
      OBVIOUS
    <2>7a. PICK a, b : a = Len(s) /\ b = Len(p)
      OBVIOUS
    <2>8. a = Len(s) /\ b = Len(p) /\ a \in Nat /\ b \in Nat
      BY <2>4, <2>5, <2>7a
    <2>9. /\ Len(u) = a + b
          /\ \A i \in 1..a : u[i] = s[i]
          /\ \A i \in a + 1..a + b : u[i] = p[i - a]
      BY <2>4, <2>5, <2>7, <2>8
    <2>10. Of(u, m + 1)
      <3> SUFFICES ASSUME NEW i \in 1..Len(u)
                   PROVE  \E l \in 0..MaxBackups :
                            /\ l >= N - (m + 1)
                            /\ \E j \in 1..Len(logFiles[l]) : logFiles[l][j] = u[i] /\ u[i] # Torn
        OBVIOUS
      <3>1. CASE i <= a
        <4>1. i \in 1..Len(s) /\ u[i] = s[i]
          BY <2>8, <2>9, <3>1
        <4>2. PICK l \in 0..MaxBackups : l >= N - m /\ \E j \in 1..Len(logFiles[l]) : logFiles[l][j] = u[i] /\ u[i] # Torn
          BY <2>6, <4>1
        <4>3. l >= N - (m + 1)
          BY <1>3, <4>2
        <4> QED BY <4>2, <4>3
      <3>2. CASE ~(i <= a)
        <4>1. i - a \in 1..Len(p) /\ u[i] = p[i - a]
          BY <2>8, <2>9, <3>2
        <4>2. \E j \in 1..Len(logFiles[k]) : logFiles[k][j] = u[i] /\ u[i] # Torn
          BY <2>5, <4>1
        <4>3. k >= N - (m + 1)
          BY <1>3, <2>2
        <4> QED BY <4>2, <4>3
      <3> QED BY <3>1, <3>2
    <2>11. Up(u)
      <3> SUFFICES ASSUME NEW i \in 1..Len(u), NEW j \in 1..Len(u), i < j
                   PROVE  u[i].id < u[j].id
        OBVIOUS
      <3>1. CASE j <= a
        <4>1. i \in 1..Len(s) /\ u[i] = s[i] /\ j \in 1..Len(s) /\ u[j] = s[j]
          BY <2>8, <2>9, <3>1
        <4> QED BY <2>6, <4>1
      <3>2. CASE i > a
        <4>0. i \in a + 1..a + b /\ j \in a + 1..a + b
          BY <2>8, <2>9, <3>2
        <4>1. i - a \in 1..Len(p) /\ u[i] = p[i - a] /\ j - a \in 1..Len(p) /\ u[j] = p[j - a] /\ i - a < j - a
          <5>1. u[i] = p[i - a] /\ u[j] = p[j - a]
            BY <2>9, <4>0
          <5>2. i - a \in 1..Len(p) /\ j - a \in 1..Len(p) /\ i - a < j - a
            BY <2>8, <4>0
          <5> QED BY <5>1, <5>2
        <4> QED BY <2>5, <4>1
      <3>3. CASE i <= a /\ j > a
        <4>1. i \in 1..Len(s) /\ u[i] = s[i] /\ j - a \in 1..Len(p) /\ u[j] = p[j - a]
          BY <2>8, <2>9, <3>3
        <4>2. PICK l \in 0..MaxBackups : l >= N - m /\ \E x \in 1..Len(logFiles[l]) : logFiles[l][x] = u[i] /\ u[i] # Torn
          BY <2>6, <4>1
        <4>3. PICK x \in 1..Len(logFiles[l]) : logFiles[l][x] = u[i] /\ u[i] # Torn
          BY <4>2
        <4>4. PICK y \in 1..Len(logFiles[k]) : logFiles[k][y] = u[j] /\ u[j] # Torn
          BY <2>5, <4>1
        <4>5. l > k
          BY <1>3, <2>2, <4>2
        <4> QED BY <4>3, <4>4, <4>5 DEF FilesInOrder
      <3>4. i \in Nat /\ j \in Nat
        BY <2>8, <2>9
      <3> QED BY <2>8, <3>1, <3>2, <3>3, <3>4
    <2> HIDE DEF Of, Up
    <2> QED BY <2>1, <2>4, <2>7, <2>10, <2>11
  <1>6. N \in G
    <2> HIDE DEF G
    <2>1. \A k \in 0..N : k \in G
      BY <1>3, <1>4, <1>5, UptoInduction
    <2> QED BY <1>3, <2>1
  <1>7. Lines \in Seq(Entries)
    BY <1>1, <1>2, <1>3
  <1>8. Of(Lines, N) /\ Up(Lines)
    <2> HIDE DEF Of, Up
    <2> QED BY <1>1, <1>2, <1>6
  <1>9. \A i \in 1..Len(Lines) : Lines[i].id <= n /\ Lines[i].seq <= Lines[i].id
    BY <1>8 DEF FilesBelow
  <1> QED BY <1>7, <1>8, <1>9

\* Entries in the order of the events, none after n, whose sequence numbers
\* are not ahead of them.
Chronicle(s, n) ==
    /\ s \in Seq(Entries)
    /\ \A i \in 1..Len(s) : s[i].id <= n /\ s[i].seq <= s[i].id
    /\ \A i, j \in 1..Len(s) : i < j => s[i].id < s[j].id

\* highestSequence after every line (store.go:173-193).
LEMMA HighestIs ==
    ASSUME NEW s \in Seq(Entries)
    PROVE  /\ Highest(s) \in [0..Len(s) -> Nat] /\ Highest(s)[0] = 0
           /\ \A i \in 1..Len(s) : Highest(s)[i] = IF s[i].seq > Highest(s)[i - 1] THEN s[i].seq
                                                   ELSE Highest(s)[i - 1] + 1
  <1>1. PICK N : N = Len(s) /\ N \in Nat
    OBVIOUS
  <1>2. PICK q : q = [i \in 1..N |-> s[i].seq]
    OBVIOUS
  <1>3. \A i \in 1..N : q[i] = s[i].seq /\ q[i] \in Nat
    BY <1>1, <1>2, EntryFields
  <1>4. PICK g : g = [i \in 1..N |-> [v \in Nat |-> IF q[i] > v THEN q[i] ELSE v + 1]]
    OBVIOUS
  <1>5. Loop(N, Nat, 0, g)
    BY <1>1, <1>3, <1>4 DEF Loop
  <1>6. PICK f : Arrives(f, N, Nat, 0, g)
    BY <1>5, LoopArrives
  <1>7. f \in [0..N -> Nat] /\ f[0] = 0 /\ \A i \in 1..N : f[i] = g[i][f[i - 1]]
    BY <1>6 DEF Arrives
  <1> DEFINE Step(h, i) == IF i = 0 THEN 0
                           ELSE IF s[i].seq > h[i - 1] THEN s[i].seq ELSE h[i - 1] + 1
             Def(h) == h = [i \in 0..Len(s) |-> Step(h, i)]
             it == CHOOSE h : Def(h)
  <1>8. ASSUME NEW i \in 1..N PROVE f[i] = IF s[i].seq > f[i - 1] THEN s[i].seq ELSE f[i - 1] + 1
    <2>1. i - 1 \in 0..N /\ f[i - 1] \in Nat
      BY <1>1, <1>7
    <2>2. g[i][f[i - 1]] = IF q[i] > f[i - 1] THEN q[i] ELSE f[i - 1] + 1
      BY <1>4, <2>1
    <2> QED BY <1>3, <1>7, <2>2
  <1>9. Def(f)
    <2>1. ASSUME NEW i \in 0..N PROVE f[i] = Step(f, i)
      <3>1. i = 0 \/ (i \in 1..N /\ i # 0)
        BY <1>1
      <3> QED BY <1>7, <1>8, <3>1
    <2>2. f = [i \in 0..N |-> f[i]]
      BY <1>7
    <2>3. [i \in 0..N |-> f[i]] = [i \in 0..N |-> Step(f, i)]
      BY <2>1
    <2> HIDE DEF Step
    <2> QED BY <1>1, <2>2, <2>3
  <1>10. Def(it)
    <2> HIDE DEF Def
    <2> QED BY <1>9
  <1>11. Highest(s) = it
    BY DEF Highest
  <1> HIDE DEF it
  <1>12. it = f
    <2> DEFINE G == {i \in 0..N : it[i] = f[i]}
    <2>1. \A i \in 0..N : it[i] = Step(it, i) /\ f[i] = Step(f, i)
      <3> HIDE DEF Step
      <3> QED BY <1>1, <1>9, <1>10
    <2>2. 0 \in G
      <3>1. Step(it, 0) = Step(f, 0)
        OBVIOUS
      <3>2. 0 \in 0..N
        BY <1>1
      <3> HIDE DEF Step
      <3> QED BY <2>1, <3>1, <3>2
    <2>3. ASSUME NEW m \in 0..N - 1, m \in G PROVE m + 1 \in G
      <3>1. m + 1 \in 0..N /\ (m + 1) - 1 = m
        BY <1>1
      <3>2. it[m] = f[m]
        BY <2>3
      <3>3. Step(it, m + 1) = Step(f, m + 1)
        BY <3>1, <3>2
      <3> HIDE DEF Step
      <3> QED BY <2>1, <3>1, <3>3
    <2>4. \A m \in 0..N : m \in G
      <3> HIDE DEF G
      <3> QED BY <1>1, <2>2, <2>3, UptoInduction
    <2>5. \A m \in 0..N : it[m] = f[m]
      BY <2>4
    <2>6. it = [m \in 0..N |-> Step(it, m)]
      <3> HIDE DEF Step
      <3> QED BY <1>1, <1>10
    <2>7. it = [m \in 0..N |-> it[m]]
      <3> HIDE DEF Step
      <3> QED BY <2>1, <2>6
    <2>8. f = [m \in 0..N |-> f[m]]
      BY <1>7
    <2>9. [m \in 0..N |-> it[m]] = [m \in 0..N |-> f[m]]
      BY <2>5
    <2> QED BY <2>7, <2>8, <2>9
  <1> QED BY <1>1, <1>7, <1>8, <1>11, <1>12

\* Sequence numbers grow from line to line and stay behind the number of
\* events (store.go:173-193).
LEMMA HighestDoes ==
    ASSUME NEW s, NEW n \in Nat, Chronicle(s, n)
    PROVE  /\ \A i \in 1..Len(s) : Highest(s)[i] \in 1..s[i].id
           /\ \A i, j \in 0..Len(s) : i < j => Highest(s)[i] < Highest(s)[j]
           /\ Highest(s)[Len(s)] \in 0..n
  <1>1. s \in Seq(Entries)
    BY DEF Chronicle
  <1>2. PICK h, N : h = Highest(s) /\ N = Len(s)
    OBVIOUS
  <1>3. N \in Nat
    BY <1>1, <1>2
  <1>4. /\ h \in [0..N -> Nat] /\ h[0] = 0
        /\ \A i \in 1..N : h[i] = IF s[i].seq > h[i - 1] THEN s[i].seq ELSE h[i - 1] + 1
    BY <1>1, <1>2, HighestIs
  <1>5. \A i \in 1..N : s[i].id \in Nat /\ s[i].seq \in Nat /\ s[i].seq > 0 /\ s[i].id <= n /\ s[i].seq <= s[i].id
    <2>1. \A i \in 1..N : s[i] \in Entries
      BY <1>1, <1>2
    <2> QED BY <1>2, <2>1, EntryFields DEF Chronicle
  <1>6. \A i \in 1..N : h[i] \in Nat /\ h[i - 1] \in Nat /\ h[i] > h[i - 1]
    <2> SUFFICES ASSUME NEW i \in 1..N PROVE h[i] \in Nat /\ h[i - 1] \in Nat /\ h[i] > h[i - 1]
      OBVIOUS
    <2>1. i \in 0..N /\ i - 1 \in 0..N
      BY <1>3
    <2>2. h[i] \in Nat /\ h[i - 1] \in Nat
      BY <1>4, <2>1
    <2>3. s[i].seq \in Nat /\ h[i] = IF s[i].seq > h[i - 1] THEN s[i].seq ELSE h[i - 1] + 1
      BY <1>4, <1>5
    <2> QED BY <2>2, <2>3
  <1>7. \A i \in 0..N : h[i] \in Nat
    BY <1>4
  <1>8. \A m \in 0..N : (m > 0 => h[m] <= s[m].id) /\ \A i \in 0..N : i < m => h[i] < h[m]
    <2> DEFINE G == {m \in 0..N : (m > 0 => h[m] <= s[m].id) /\ \A i \in 0..N : i < m => h[i] < h[m]}
    <2>1. 0 \in G
      BY <1>3
    <2>2. ASSUME NEW m \in 0..N - 1, m \in G PROVE m + 1 \in G
      <3>1. m \in Nat /\ m \in 0..N /\ m + 1 \in 1..N /\ m + 1 \in 0..N /\ (m + 1) - 1 = m
        BY <1>3
      <3>2. h[m + 1] > h[m] /\ h[m] \in Nat /\ h[m + 1] \in Nat
        BY <1>6, <1>7, <3>1
      <3>3. h[m + 1] = IF s[m + 1].seq > h[m] THEN s[m + 1].seq ELSE h[m] + 1
        BY <1>4, <3>1
      <3>4. h[m] < s[m + 1].id
        <4>1. CASE m = 0
          <5>1. h[m] = 0 /\ s[m + 1].id > 0
            BY <1>4, <1>5, <3>1, <4>1
          <5> QED BY <5>1
        <4>2. CASE m > 0
          <5>1. m \in 1..N /\ m < m + 1
            BY <3>1, <4>2
          <5>2. s[m].id < s[m + 1].id
            BY <1>2, <3>1, <5>1 DEF Chronicle
          <5>3. h[m] <= s[m].id
            BY <2>2, <4>2
          <5>4. s[m].id \in Nat /\ s[m + 1].id \in Nat
            BY <1>5, <3>1, <5>1
          <5> QED BY <3>2, <5>2, <5>3, <5>4
        <4> QED BY <3>1, <4>1, <4>2
      <3>5. h[m + 1] <= s[m + 1].id
        <4>1. s[m + 1].seq <= s[m + 1].id /\ s[m + 1].id \in Nat /\ s[m + 1].seq \in Nat
          BY <1>5, <3>1
        <4> QED BY <3>2, <3>3, <3>4, <4>1
      <3>6. ASSUME NEW i \in 0..N, i < m + 1 PROVE h[i] < h[m + 1]
        <4>1. i = m \/ i < m
          BY <3>1, <3>6
        <4>2. i < m => h[i] < h[m]
          BY <2>2
        <4> QED BY <1>7, <3>2, <4>1, <4>2
      <3> QED BY <3>1, <3>5, <3>6
    <2>3. \A m \in 0..N : m \in G
      <3> HIDE DEF G
      <3> QED BY <1>3, <2>1, <2>2, UptoInduction
    <2> QED BY <2>3
  <1>9. ASSUME NEW i \in 1..N PROVE h[i] \in 1..s[i].id
    <2>1. i \in 0..N /\ i > 0 /\ 0 \in 0..N
      BY <1>3
    <2>2. h[i] > 0 /\ h[i] <= s[i].id
      BY <1>4, <1>8, <2>1
    <2> QED BY <1>5, <1>7, <2>1, <2>2
  <1>10. h[N] \in 0..n
    <2>1. CASE N = 0
      BY <1>4, <2>1
    <2>2. CASE N > 0
      <3>1. N \in 1..N
        BY <1>3, <2>2
      <3> QED BY <1>5, <1>9, <3>1
    <2> QED BY <1>3, <2>1, <2>2
  <1>11. \A i, j \in 0..N : i < j => h[i] < h[j]
    BY <1>8
  <1> QED BY <1>2, <1>9, <1>10, <1>11

\* What the ring is filled with after a restart is in the order of the events
\* and of the sequence numbers (store.go:173-233).
LEMMA RenumberedDoes ==
    ASSUME NEW s, NEW n \in 0..MaxLogged, Chronicle(s, n)
    PROVE  /\ Chronicle(Renumbered(s), n) /\ Grows(Renumbered(s))
           /\ \A i \in 1..Len(Renumbered(s)) : Renumbered(s)[i].seq <= Highest(s)[Len(s)]
  <1>1. s \in Seq(Entries) /\ n \in Nat
    BY LogNumbers DEF Chronicle
  <1>2. PICK h, N, u : h = Highest(s) /\ N = Len(s) /\ u = Renumbered(s)
    OBVIOUS
  <1>3. N \in Nat /\ \A i \in 1..N : s[i] \in Entries
    BY <1>1, <1>2
  <1>4. /\ \A i \in 1..N : h[i] \in 1..s[i].id
        /\ \A i, j \in 0..N : i < j => h[i] < h[j]
    BY <1>1, <1>2, HighestDoes
  <1>5. u = [i \in 1..N |-> [s[i] EXCEPT !.seq = h[i]]]
    BY <1>2 DEF Renumbered
  <1>6. ASSUME NEW i \in 1..N PROVE u[i] \in Entries /\ u[i].id = s[i].id /\ u[i].seq = h[i] /\ u[i].seq <= u[i].id
    <2>1. u[i] = [s[i] EXCEPT !.seq = h[i]]
      BY <1>5
    <2>2. s[i] \in Entries /\ s[i].id \in 1..MaxLogged /\ h[i] \in 1..s[i].id
      BY <1>3, <1>4, EntryFields
    <2>3. h[i] \in 1..MaxLogged
      BY <2>2, LogNumbers
    <2>4. s[i] = [id |-> s[i].id, seq |-> s[i].seq]
      BY <2>2 DEF Entries
    <2>5. u[i] = [id |-> s[i].id, seq |-> h[i]]
      BY <2>1, <2>4
    <2> QED BY <2>2, <2>3, <2>5 DEF Entries
  <1>7. u \in Seq(Entries) /\ Len(u) = N
    BY <1>3, <1>5, <1>6
  <1>8. \A i \in 1..N : s[i].id <= n
    BY <1>2 DEF Chronicle
  <1>9. \A i, j \in 1..N : i < j => s[i].id < s[j].id
    BY <1>2 DEF Chronicle
  <1>10. \A i, j \in 1..N : i < j => u[i].id < u[j].id
    BY <1>6, <1>9
  <1>11. Chronicle(u, n)
    BY <1>6, <1>7, <1>8, <1>10 DEF Chronicle
  <1>12. \A i \in 1..N : i \in 0..N
    BY <1>3
  <1>13. Grows(u)
    <2>1. DOMAIN u = 1..N
      BY <1>5
    <2>2. \A i, j \in 1..N : i < j => u[i].seq < u[j].seq
      BY <1>4, <1>6, <1>12
    <2> QED BY <1>10, <2>1, <2>2 DEF Grows
  <1>14. ASSUME NEW i \in 1..N PROVE u[i].seq <= h[N]
    <2>1. i \in 0..N /\ N \in 0..N /\ (i = N \/ i < N)
      BY <1>3
    <2>2. h[i] \in Nat /\ h[N] \in Nat
      <3>1. h \in [0..N -> Nat]
        BY <1>1, <1>2, HighestIs
      <3> QED BY <2>1, <3>1
    <2> QED BY <1>4, <1>6, <2>1, <2>2
  <1> QED BY <1>2, <1>7, <1>11, <1>13, <1>14

-----------------------------------------------------------------------------
(* What the steps do to the files.                                         *)

\* The numbers of the entries on disk.
OnDisk(F) == UNION {Numbers(F[k]) : k \in 0..MaxBackups}

\* A set of files that keeps its order, and what is in it.
GoodFiles(F, n) == F \in FileSets /\ FilesInOrder(F) /\ FilesBelow(F, n)

\* What is on disk, entry by entry.
LEMMA OnDiskIs ==
    ASSUME NEW F, NEW x
    PROVE  x \in OnDisk(F) <=> x # 0 /\ \E k \in 0..MaxBackups : \E i \in DOMAIN F[k] : x = F[k][i].id
  BY DEF OnDisk, Numbers

\* Files that are empty are in order (Clear, store.go:566-598).
LEMMA FilesEmptied ==
    ASSUME NEW F, F = [k \in 0..MaxBackups |-> <<>>], NEW n
    PROVE  GoodFiles(F, n)
  <1>1. \A k \in 0..MaxBackups : F[k] = <<>> /\ Len(F[k]) = 0
    OBVIOUS
  <1>2. F \in FileSets
    <2>1. <<>> \in Seq(Entries \cup {Torn})
      OBVIOUS
    <2> QED BY <2>1 DEF FileSets
  <1> QED BY <1>1, <1>2 DEF GoodFiles, FilesInOrder, FilesBelow

\* A file disappears (store.go:367-372).
LEMMA FileRemoved ==
    ASSUME NEW F, NEW n, GoodFiles(F, n), NEW k \in 0..MaxBackups, NEW E, E = [F EXCEPT ![k] = <<>>]
    PROVE  /\ GoodFiles(E, n) /\ E[k] = <<>> /\ \A l \in 0..MaxBackups : l # k => E[l] = F[l]
           /\ OnDisk(F) \ Numbers(F[k]) \subseteq OnDisk(E)
  <1>1. F \in FileSets
    BY DEF GoodFiles
  <1>2. E[k] = <<>> /\ Len(E[k]) = 0 /\ \A l \in 0..MaxBackups : l # k => E[l] = F[l]
    BY <1>1 DEF FileSets
  <1>3. E \in FileSets
    <2>1. <<>> \in Seq(Entries \cup {Torn})
      OBVIOUS
    <2> QED BY <1>1, <2>1 DEF FileSets
  <1>4. FilesInOrder(E)
    <2>1. \A l \in 0..MaxBackups : Len(E[l]) = 0 \/ E[l] = F[l]
      BY <1>2
    <2>2. \A l \in 0..MaxBackups : \A i \in 1..Len(E[l]) : E[l] = F[l]
      BY <2>1
    <2> QED BY <2>2 DEF FilesInOrder, GoodFiles
  <1>5. FilesBelow(E, n)
    <2>1. \A l \in 0..MaxBackups : \A i \in 1..Len(E[l]) : E[l] = F[l]
      BY <1>2
    <2> QED BY <2>1 DEF FilesBelow, GoodFiles
  <1>6. ASSUME NEW x \in OnDisk(F), x \notin Numbers(F[k]) PROVE x \in OnDisk(E)
    <2>1. PICK l \in 0..MaxBackups : x \in Numbers(F[l])
      BY DEF OnDisk
    <2>2. l # k
      BY <1>6, <2>1
    <2> QED BY <1>2, <2>1, <2>2 DEF OnDisk
  <1> QED BY <1>2, <1>3, <1>4, <1>5, <1>6 DEF GoodFiles

\* What moving file k - 1 to the free place k leaves.
MovedUp(E, F, k, n) ==
    /\ GoodFiles(E, n) /\ E[k - 1] = <<>>
    /\ \A l \in 0..MaxBackups : l # k /\ l # k - 1 => E[l] = F[l]
    /\ OnDisk(F) \subseteq OnDisk(E)

\* A file takes the place of the next one, which is gone (store.go:373-387,
\* 418-436).
LEMMA FileShifted ==
    ASSUME NEW F, NEW n, GoodFiles(F, n), NEW k \in 1..MaxBackups, F[k] = <<>>,
           NEW E, E = [F EXCEPT ![k] = F[k - 1], ![k - 1] = <<>>]
    PROVE  MovedUp(E, F, k, n)
  <1>1. F \in FileSets
    BY DEF GoodFiles
  <1>2. PICK p : p = k - 1 /\ p \in 0..MaxBackups /\ k \in 0..MaxBackups /\ p # k /\ p < k
    BY LogNumbers
  <1>3. E = [l \in 0..MaxBackups |-> IF l = p THEN <<>> ELSE IF l = k THEN F[p] ELSE F[l]]
    BY <1>1, <1>2 DEF FileSets
  <1>4. /\ E[p] = <<>> /\ Len(E[p]) = 0 /\ E[k] = F[p]
        /\ \A l \in 0..MaxBackups : l # k /\ l # p => E[l] = F[l]
    BY <1>2, <1>3
  <1>5. E \in FileSets
    <2>1. <<>> \in Seq(Entries \cup {Torn})
      OBVIOUS
    <2> QED BY <1>1, <1>2, <1>3, <2>1 DEF FileSets
  <1> DEFINE From(l) == IF l = k THEN p ELSE l
  <1>6. \A l \in 0..MaxBackups : \A i \in 1..Len(E[l]) : l # p /\ E[l] = F[From(l)]
    <2> SUFFICES ASSUME NEW l \in 0..MaxBackups, NEW i \in 1..Len(E[l]) PROVE l # p /\ E[l] = F[From(l)]
      OBVIOUS
    <2>1. l # p
      BY <1>4
    <2>2. CASE l = k
      BY <1>4, <2>1, <2>2
    <2>3. CASE l # k
      BY <1>4, <2>1, <2>3
    <2> QED BY <2>2, <2>3
  <1>7. \A l, m \in 0..MaxBackups : l # p /\ m # p /\ l > m => From(l) > From(m)
    BY <1>2, LogNumbers
  <1>8. \A l \in 0..MaxBackups : From(l) \in 0..MaxBackups
    BY <1>2
  <1>9. FilesInOrder(E)
    <2> SUFFICES ASSUME NEW l \in 0..MaxBackups, NEW m \in 0..MaxBackups,
                        NEW i \in 1..Len(E[l]), NEW j \in 1..Len(E[m]),
                        (l > m \/ (l = m /\ i < j)) /\ E[l][i] # Torn /\ E[m][j] # Torn
                 PROVE  E[l][i].id < E[m][j].id
      BY DEF FilesInOrder
    <2>1. l # p /\ m # p /\ E[l] = F[From(l)] /\ E[m] = F[From(m)]
      BY <1>6
    <2>2. From(l) > From(m) \/ (From(l) = From(m) /\ i < j)
      BY <1>7, <2>1
    <2>3. PICK a, b : a = From(l) /\ b = From(m) /\ a \in 0..MaxBackups /\ b \in 0..MaxBackups
      BY <1>8
    <2> HIDE DEF From
    <2> QED BY <2>1, <2>2, <2>3 DEF FilesInOrder, GoodFiles
  <1>10. FilesBelow(E, n)
    <2> HIDE DEF From
    <2> QED BY <1>6, <1>8 DEF FilesBelow, GoodFiles
  <1>11. ASSUME NEW x \in OnDisk(F) PROVE x \in OnDisk(E)
    <2>1. PICK l \in 0..MaxBackups : x \in Numbers(F[l])
      BY DEF OnDisk
    <2>2. CASE l = p
      BY <1>2, <1>4, <2>1, <2>2 DEF OnDisk
    <2>3. CASE l = k
      BY <2>1, <2>3 DEF Numbers
    <2>4. CASE l # k /\ l # p
      BY <1>4, <2>1, <2>4 DEF OnDisk
    <2> QED BY <2>2, <2>3, <2>4
  <1> QED BY <1>2, <1>4, <1>5, <1>9, <1>10, <1>11 DEF GoodFiles, MovedUp

\* A line that can follow the events up to n, and what adding it leaves.
NextLine(x, n, m) == x = Torn \/ (x \in Entries /\ n < x.id /\ x.id <= m /\ x.seq <= x.id)
Added(E, F, x, m) ==
    /\ GoodFiles(E, m) /\ Len(E[0]) = Len(F[0]) + 1 /\ \A l \in 0..MaxBackups : l # 0 => E[l] = F[l]
    /\ OnDisk(F) \subseteq OnDisk(E)
    /\ x \in Entries => x.id \in OnDisk(E)

\* A line is added to the active file: the entry n + 1, or a line that was cut
\* off (store.go:334-356).
LEMMA LineAdded ==
    ASSUME NEW F, NEW n \in Nat, GoodFiles(F, n), NEW m \in Nat, n <= m,
           NEW x, NextLine(x, n, m), NEW E, E = [F EXCEPT ![0] = Append(F[0], x)]
    PROVE  Added(E, F, x, m)
  <1>0. x = Torn \/ (x \in Entries /\ n < x.id /\ x.id <= m /\ x.seq <= x.id)
    BY DEF NextLine
  <1> USE <1>0
  <1>1. F \in FileSets /\ 0 \in 0..MaxBackups
    BY LogNumbers DEF GoodFiles
  <1>2. PICK s, t, X : s = F[0] /\ t = Append(s, x) /\ X = Entries \cup {Torn}
    OBVIOUS
  <1>3. s \in Seq(X) /\ x \in X /\ \A l \in 0..MaxBackups : F[l] \in Seq(X)
    BY <1>1, <1>2 DEF FileSets
  <1>4. E[0] = t /\ \A l \in 0..MaxBackups : l # 0 => E[l] = F[l]
    BY <1>1, <1>2 DEF FileSets
  <1>5. /\ t \in Seq(X) /\ Len(s) \in Nat /\ Len(t) = Len(s) + 1 /\ t[Len(s) + 1] = x
        /\ \A i \in 1..Len(s) : t[i] = s[i]
    BY <1>2, <1>3
  <1>6. E \in FileSets
    BY <1>1, <1>2, <1>4, <1>5 DEF FileSets
  <1>7. ASSUME NEW l \in 0..MaxBackups, NEW i \in 1..Len(E[l])
        PROVE  (i \in 1..Len(F[l]) /\ E[l][i] = F[l][i]) \/ (l = 0 /\ i = Len(s) + 1 /\ E[l][i] = x)
    <2>1. CASE l # 0
      BY <1>4, <2>1
    <2>2. CASE l = 0
      <3>1. i \in 1..Len(s) + 1
        BY <1>4, <1>5, <2>2
      <3>2. i \in 1..Len(s) \/ i = Len(s) + 1
        BY <1>5, <3>1
      <3> QED BY <1>2, <1>4, <1>5, <2>2, <3>2
    <2> QED BY <2>1, <2>2
  <1>8. FilesInOrder(E)
    <2> SUFFICES ASSUME NEW k \in 0..MaxBackups, NEW l \in 0..MaxBackups,
                        NEW i \in 1..Len(E[k]), NEW j \in 1..Len(E[l]),
                        (k > l \/ (k = l /\ i < j)) /\ E[k][i] # Torn /\ E[l][j] # Torn
                 PROVE  E[k][i].id < E[l][j].id
      BY DEF FilesInOrder
    <2>1. CASE k = 0 /\ i = Len(s) + 1
      <3>1. l = 0 /\ i < j
        BY <2>1, LogNumbers
      <3>2. j \in 1..Len(s) + 1
        BY <1>4, <1>5, <3>1
      <3> QED BY <1>5, <2>1, <3>1, <3>2
    <2>2. CASE i \in 1..Len(F[k]) /\ E[k][i] = F[k][i] /\ j \in 1..Len(F[l]) /\ E[l][j] = F[l][j]
      BY <2>2 DEF FilesInOrder, GoodFiles
    <2>3. CASE i \in 1..Len(F[k]) /\ E[k][i] = F[k][i] /\ E[l][j] = x
      <3>1. F[k][i].id <= n
        BY <2>3 DEF FilesBelow, GoodFiles
      <3>2. x \in Entries /\ n < x.id
        BY <2>3
      <3>3. F[k][i] \in X /\ F[k][i] # Torn
        BY <1>3, <2>3
      <3>4. F[k][i].id \in Nat /\ x.id \in Nat
        BY <1>2, <3>2, <3>3, EntryFields
      <3>5. PICK u, v : u = F[k][i].id /\ v = x.id
        OBVIOUS
      <3>6. u < v
        BY <3>1, <3>2, <3>4, <3>5
      <3> QED BY <2>3, <3>5, <3>6
    <2> QED BY <1>7, <2>1, <2>2, <2>3
  <1>9. FilesBelow(E, m)
    <2> SUFFICES ASSUME NEW k \in 0..MaxBackups, NEW i \in 1..Len(E[k])
                 PROVE  E[k][i].id <= m /\ E[k][i].seq <= E[k][i].id
      BY DEF FilesBelow
    <2>1. CASE i \in 1..Len(F[k]) /\ E[k][i] = F[k][i]
      <3>1. F[k][i].id <= n /\ F[k][i].seq <= F[k][i].id
        BY <2>1 DEF FilesBelow, GoodFiles
      <3>2. F[k][i] \in X
        BY <1>3, <2>1
      <3>3. F[k][i].id \in Nat
        BY <1>2, <3>2, EntryFields DEF Torn
      <3> QED BY <2>1, <3>1, <3>3
    <2>2. CASE E[k][i] = x
      <3>1. Torn.id = 0 /\ Torn.seq = 0
        BY DEF Torn
      <3> QED BY <2>2, <3>1
    <2> QED BY <1>7, <2>1, <2>2
  <1>10. \A l \in 0..MaxBackups : DOMAIN F[l] = 1..Len(F[l]) /\ DOMAIN E[l] = 1..Len(E[l])
    <2>1. \A l \in 0..MaxBackups : E[l] \in Seq(X)
      BY <1>2, <1>6 DEF FileSets
    <2> QED BY <1>3, <2>1
  <1>11. ASSUME NEW y \in OnDisk(F) PROVE y \in OnDisk(E)
    <2>1. PICK l \in 0..MaxBackups : \E i \in DOMAIN F[l] : y # 0 /\ y = F[l][i].id
      BY OnDiskIs
    <2>2. PICK i \in 1..Len(F[l]) : y # 0 /\ y = F[l][i].id
      BY <1>10, <2>1
    <2>3. i \in 1..Len(E[l]) /\ E[l][i] = F[l][i]
      <3>1. CASE l = 0
        BY <1>2, <1>4, <1>5, <2>2, <3>1
      <3>2. CASE l # 0
        BY <1>4, <2>2, <3>2
      <3> QED BY <3>1, <3>2
    <2> QED BY <1>10, <2>2, <2>3, OnDiskIs
  <1>12. ASSUME x \in Entries PROVE x.id \in OnDisk(E)
    <2>1. x.id # 0
      BY <1>12, EntryFields
    <2>2. Len(s) + 1 \in DOMAIN E[0] /\ x.id = E[0][Len(s) + 1].id
      BY <1>1, <1>4, <1>5, <1>10
    <2> QED BY <1>1, <2>1, <2>2, OnDiskIs
  <1> QED BY <1>2, <1>4, <1>5, <1>6, <1>8, <1>9, <1>11, <1>12 DEF GoodFiles, Added

-----------------------------------------------------------------------------
(* The inductive invariant of the security log.                            *)

\* The last event a file can hold: during a rotation the newest is not written.
FileMax == IF logRot = NoRotation THEN logCount ELSE logCount - 1

\* The ring is a part of the history that ends before the next sequence number.
RingInv ==
    /\ logCount \in 0..MaxLogged /\ logNext \in 1..(logCount + 1)
    /\ Chronicle(logRing, logCount) /\ Grows(logRing) /\ Len(logRing) <= LogCapacity
    /\ \A i \in 1..Len(logRing) : logRing[i].seq < logNext

\* An export is behind the ring: what is older than something exported in
\* sequence is older in time.
ExportInv ==
    /\ export \in [on : BOOLEAN, max : Nat, before : Nat, out : Seq(Entries)]
    /\ \A i \in 1..Len(export.out) : export.out[i].seq < logNext
    /\ \A i \in 1..Len(logRing), j \in 1..Len(export.out) :
          logRing[i].seq < export.out[j].seq => logRing[i].id < export.out[j].id
    /\ export.on /\ Len(export.out) > 0 => export.before = export.out[Len(export.out)].seq
    /\ \A i, j \in 1..Len(export.out) :
          i < j => export.out[j].seq < export.out[i].seq /\ export.out[j].id < export.out[i].id
    /\ ~logUp => export = NoExport

LogFlags ==
    /\ logEnds \in BOOLEAN /\ logOpen \in BOOLEAN /\ logUp \in BOOLEAN /\ logTorn \in BOOLEAN
    /\ logRot \in 0..NoRotation /\ logFaults \in 0..MaxLogFaults

\* The active file outgrows its limit only by lines that were cut off.
LogSizes ==
    /\ logBytes \in 0..(FileLines + logFaults)
    /\ Len(logFiles[0]) <= FileLines + logFaults
    /\ logOpen => Len(logFiles[0]) <= logBytes + logFaults

\* What a rotation under way can rely on.
LogPhases ==
    /\ ~logUp => logRot = NoRotation /\ ~logOpen
    /\ logUp /\ ~logTorn => logEnds
    /\ logRot # NoRotation => ~logOpen /\ Len(logRing) > 0 /\ logRing[Len(logRing)].id = logCount
    /\ logRot <= MaxBackups => logFiles[logRot] = <<>>
    /\ logRot = 0 => logEnds

LogDisk == GoodFiles(logFiles, FileMax) /\ logWritten \subseteq OnDisk(logFiles)

LogInv == RingInv /\ ExportInv /\ LogFlags /\ LogSizes /\ LogPhases /\ LogDisk

\* The invariant holds when the first process has started (store.go:95-111).
LEMMA LogStarts == LogInit => LogInv
  <1> SUFFICES ASSUME LogInit PROVE LogInv
    OBVIOUS
  <1> USE LogNumbers
  <1>1. RingInv
    BY DEF LogInit, RingInv, Chronicle, Grows
  <1>2. ExportInv
    <2>1. export = [on |-> FALSE, max |-> 0, before |-> 0, out |-> <<>>]
      BY DEF LogInit, NoExport
    <2>2. export \in [on : BOOLEAN, max : Nat, before : Nat, out : Seq(Entries)]
      BY <2>1
    <2>3. Len(export.out) = 0 /\ logUp = TRUE /\ ~export.on
      BY <2>1 DEF LogInit
    <2> QED BY <2>2, <2>3 DEF ExportInv
  <1>3. LogFlags
    BY DEF LogInit, LogFlags, NoRotation
  <1>4. LogSizes
    BY DEF LogInit, LogSizes
  <1>5. LogPhases
    BY DEF LogInit, LogPhases, NoRotation
  <1>6. LogDisk
    BY FilesEmptied DEF LogInit, LogDisk
  <1> QED BY <1>1, <1>2, <1>3, <1>4, <1>5, <1>6 DEF LogInv

\* An event enters the ring (store.go:268-285).
LEMMA RingAppends ==
    ASSUME RingInv, LogAppend
    PROVE  /\ RingInv' /\ Len(logRing') > 0 /\ logRing'[Len(logRing')] = [id |-> logCount + 1, seq |-> logNext]
           /\ [id |-> logCount + 1, seq |-> logNext] \in Entries
           /\ logCount' = logCount + 1 /\ logNext' = logNext + 1
           /\ \A i \in 1..Len(logRing') :
                 logRing'[i].seq = logNext \/ \E j \in 1..Len(logRing) : logRing'[i] = logRing[j]
  <1>1. /\ logCount \in Nat /\ logCount < MaxLogged /\ logNext \in 1..(logCount + 1)
        /\ logCount' = logCount + 1 /\ logNext' = logNext + 1
    BY LogNumbers DEF RingInv, LogAppend
  <1>2. PICK e : e = [id |-> logCount + 1, seq |-> logNext]
    OBVIOUS
  <1>3. e \in Entries /\ e.id = logCount + 1 /\ e.seq = logNext
    BY <1>1, <1>2, LogNumbers DEF Entries
  <1>4. logRing' = Newest(Append(logRing, e), LogCapacity)
    BY <1>2 DEF LogAppend
  <1>5. PICK s, u, v : s = logRing /\ u = Append(s, e) /\ v = Newest(u, LogCapacity)
    OBVIOUS
  <1>6. s \in Seq(Entries)
    BY <1>5 DEF RingInv, Chronicle
  <1>7. PICK L : L = Len(s) /\ L \in Nat
    BY <1>6
  <1>8. u \in Seq(Entries) /\ Len(u) = L + 1 /\ u[L + 1] = e /\ u # <<>> /\ \A i \in 1..L : u[i] = s[i]
    BY <1>3, <1>5, <1>6, <1>7
  <1>9. /\ v \in Seq(Entries) /\ Len(v) <= LogCapacity /\ v # <<>>
        /\ \E d \in Nat : Len(u) = d + Len(v) /\ \A i \in 1..Len(v) : v[i] = u[d + i]
    <2>1. EndOf(v, u, LogCapacity, Entries)
      BY <1>5, <1>8, NewestDoes, LogNumbers
    <2> QED BY <1>8, <2>1 DEF EndOf
  <1>10. PICK d \in Nat : Len(u) = d + Len(v) /\ \A i \in 1..Len(v) : v[i] = u[d + i]
    BY <1>9
  <1>11. PICK N : N = Len(v) /\ N \in Nat /\ N > 0 /\ d + N = L + 1
    BY <1>7, <1>8, <1>9, <1>10
  <1>12. v[N] = e
    <2>1. v[N] = u[d + N]
      BY <1>10, <1>11
    <2> QED BY <1>8, <1>11, <2>1
  <1>13. \A i \in 1..N : i < N => d + i \in 1..L /\ v[i] = s[d + i]
    <2> SUFFICES ASSUME NEW i \in 1..N, i < N PROVE d + i \in 1..L /\ v[i] = s[d + i]
      OBVIOUS
    <2>1. d + i \in 1..L
      BY <1>7, <1>11
    <2>2. v[i] = u[d + i]
      BY <1>10, <1>11
    <2> QED BY <1>8, <2>1, <2>2
  <1>14. /\ \A i \in 1..L : s[i] \in Entries /\ s[i].id <= logCount /\ s[i].seq <= s[i].id /\ s[i].seq < logNext
         /\ \A i, j \in 1..L : i < j => s[i].id < s[j].id /\ s[i].seq < s[j].seq
    <2>1. DOMAIN s = 1..L
      BY <1>6, <1>7
    <2> QED BY <1>5, <1>6, <1>7, <2>1, SMTT(30) DEF RingInv, Chronicle, Grows
  <1>15. ASSUME NEW i \in 1..N
         PROVE  v[i].id <= logCount + 1 /\ v[i].seq <= v[i].id /\ v[i].seq < logNext + 1
    <2>1. CASE i = N
      BY <1>1, <1>3, <1>12, <2>1
    <2>2. CASE i # N
      <3>1. i < N
        BY <1>11, <2>2
      <3>2. d + i \in 1..L /\ v[i] = s[d + i]
        BY <1>13, <3>1
      <3>3. v[i].id \in Nat /\ v[i].seq \in Nat
        BY <1>14, <3>2, EntryFields
      <3> QED BY <1>1, <1>14, <3>2, <3>3
    <2> QED BY <2>1, <2>2
  <1>16. ASSUME NEW i \in 1..N, NEW j \in 1..N, i < j PROVE v[i].id < v[j].id /\ v[i].seq < v[j].seq
    <2>1. i < N
      BY <1>11, <1>16
    <2>2. d + i \in 1..L /\ v[i] = s[d + i]
      BY <1>13, <2>1
    <2>3. CASE j = N
      <3>1. v[j].id = logCount + 1 /\ v[j].seq = logNext
        BY <1>3, <1>12, <2>3
      <3>2. v[i].id <= logCount /\ v[i].seq < logNext /\ v[i].id \in Nat
        BY <1>14, <2>2, EntryFields
      <3> QED BY <1>1, <3>1, <3>2
    <2>4. CASE j # N
      <3>1. j < N
        BY <1>11, <2>4
      <3>2. d + j \in 1..L /\ v[j] = s[d + j] /\ d + i < d + j
        BY <1>11, <1>13, <1>16, <3>1
      <3> QED BY <1>14, <2>2, <3>2
    <2> QED BY <2>3, <2>4
  <1>17. RingInv'
    <2>1. Chronicle(v, logCount + 1)
      BY <1>9, <1>11, <1>15, <1>16 DEF Chronicle
    <2>2. Grows(v)
      <3>1. DOMAIN v = 1..N
        BY <1>9, <1>11
      <3> QED BY <1>16, <3>1 DEF Grows
    <2>3. logRing' = v /\ logCount' \in 0..MaxLogged /\ logNext' \in 1..(logCount' + 1)
      BY <1>1, <1>4, <1>5, LogNumbers
    <2> QED BY <1>1, <1>9, <1>11, <1>15, <2>1, <2>2, <2>3 DEF RingInv
  <1>18. \A i \in 1..N : v[i].seq = logNext \/ \E j \in 1..L : v[i] = s[j]
    <2> SUFFICES ASSUME NEW i \in 1..N PROVE v[i].seq = logNext \/ \E j \in 1..L : v[i] = s[j]
      OBVIOUS
    <2>1. i = N \/ i < N
      BY <1>11
    <2> QED BY <1>3, <1>12, <1>13, <2>1
  <1> QED BY <1>1, <1>2, <1>3, <1>4, <1>5, <1>7, <1>11, <1>12, <1>17, <1>18

\* A restart fills the ring from the files (store.go:113-233).
LEMMA RingRestored ==
    ASSUME RingInv, LogPhases, LogDisk, LogStart
    PROVE  RingInv'
  <1>1. PICK n : n = logCount /\ n \in 0..MaxLogged /\ n \in Nat
    BY LogNumbers DEF RingInv
  <1>2. logFiles \in FileSets /\ FilesInOrder(logFiles) /\ FilesBelow(logFiles, n)
    BY <1>1 DEF LogPhases, LogDisk, LogStart, FileMax, GoodFiles
  <1>3. PICK s, r, v : s = Lines /\ r = Renumbered(s) /\ v = Newest(r, LogCapacity)
    OBVIOUS
  <1>4. Chronicle(s, n)
    BY <1>1, <1>2, <1>3, LinesDo DEF Chronicle
  <1>5. PICK top : top = Highest(s)[Len(s)]
    OBVIOUS
  <1>6. /\ Chronicle(r, n) /\ Grows(r) /\ \A i \in 1..Len(r) : r[i].seq <= top
    BY <1>1, <1>3, <1>4, <1>5, RenumberedDoes
  <1>7. top \in 0..n
    BY <1>1, <1>4, <1>5, HighestDoes
  <1>8. logRing' = v /\ logNext' = top + 1 /\ logCount' = n
    BY <1>1, <1>3, <1>5 DEF LogStart
  <1>9. r \in Seq(Entries)
    BY <1>6 DEF Chronicle
  <1>10. /\ v \in Seq(Entries) /\ Len(v) <= LogCapacity
         /\ \E d \in Nat : Len(r) = d + Len(v) /\ \A i \in 1..Len(v) : v[i] = r[d + i]
    <2>1. EndOf(v, r, LogCapacity, Entries)
      BY <1>3, <1>9, NewestDoes, LogNumbers
    <2> QED BY <2>1 DEF EndOf
  <1>11. PICK d \in Nat : Len(r) = d + Len(v) /\ \A i \in 1..Len(v) : v[i] = r[d + i]
    BY <1>10
  <1>12. PICK N, L : N = Len(v) /\ L = Len(r)
    OBVIOUS
  <1>13. N \in Nat /\ L \in Nat /\ L = d + N
    BY <1>9, <1>10, <1>11, <1>12
  <1>14. \A i \in 1..N : d + i \in 1..L /\ v[i] = r[d + i]
    BY <1>11, <1>12, <1>13
  <1>15. /\ \A i \in 1..L : r[i].id <= n /\ r[i].seq <= r[i].id /\ r[i].seq <= top /\ r[i].seq \in Nat
         /\ \A i, j \in 1..L : i < j => r[i].id < r[j].id /\ r[i].seq < r[j].seq
    <2>1. DOMAIN r = 1..L /\ \A i \in 1..L : r[i] \in Entries
      BY <1>9, <1>12
    <2>2. \A i \in 1..L : r[i].seq \in Nat
      BY <2>1, EntryFields
    <2> QED BY <1>6, <1>12, <2>1, <2>2 DEF Chronicle, Grows
  <1>16. \A i \in 1..N : v[i].id <= n /\ v[i].seq <= v[i].id /\ v[i].seq < top + 1
    <2> SUFFICES ASSUME NEW i \in 1..N PROVE v[i].id <= n /\ v[i].seq <= v[i].id /\ v[i].seq < top + 1
      OBVIOUS
    <2>1. d + i \in 1..L /\ v[i] = r[d + i]
      BY <1>14
    <2>2. v[i].id <= n /\ v[i].seq <= v[i].id /\ v[i].seq <= top /\ v[i].seq \in Nat
      BY <1>15, <2>1
    <2> QED BY <1>1, <1>7, <2>2
  <1>17. \A i, j \in 1..N : i < j => v[i].id < v[j].id /\ v[i].seq < v[j].seq
    <2> SUFFICES ASSUME NEW i \in 1..N, NEW j \in 1..N, i < j PROVE v[i].id < v[j].id /\ v[i].seq < v[j].seq
      OBVIOUS
    <2>1. d + i \in 1..L /\ v[i] = r[d + i] /\ d + j \in 1..L /\ v[j] = r[d + j] /\ d + i < d + j
      BY <1>13, <1>14
    <2> QED BY <1>15, <2>1
  <1>18. Chronicle(v, n) /\ Grows(v)
    <2>1. DOMAIN v = 1..N
      BY <1>10, <1>12
    <2> QED BY <1>10, <1>12, <1>16, <1>17, <2>1 DEF Chronicle, Grows
  <1>19. logNext' \in 1..(logCount' + 1)
    BY <1>1, <1>7, <1>8
  <1> QED BY <1>1, <1>8, <1>10, <1>12, <1>16, <1>18, <1>19 DEF RingInv

\* The ring stays in order under every step.
LEMMA RingStep ==
    ASSUME LogInv, LogNext
    PROVE  RingInv'
  <1> USE DEF LogInv
  <1>1. CASE LogAppend
    BY <1>1, RingAppends
  <1>2. CASE LogStart
    BY <1>2, RingRestored
  <1>3. CASE logRing' = <<>> /\ UNCHANGED <<logNext, logCount>>
    <2>1. <<>> \in Seq(Entries) /\ Len(<<>>) = 0 /\ DOMAIN <<>> = {}
      OBVIOUS
    <2>2. Chronicle(<<>>, logCount) /\ Grows(<<>>)
      BY <2>1 DEF Chronicle, Grows
    <2>3. logCount \in 0..MaxLogged /\ logNext \in 1..(logCount + 1)
      BY DEF RingInv
    <2> QED BY <1>3, <2>1, <2>2, <2>3, LogNumbers DEF RingInv
  <1>4. CASE UNCHANGED <<logRing, logNext, logCount>>
    BY <1>4 DEF RingInv
  <1>5. RotateRemove \/ RotateShift \/ RotateOpen \/ RotateFails \/ ExportBegin \/ ExportBatch
           => UNCHANGED <<logRing, logNext, logCount>>
    BY DEF RotateRemove, RotateShift, RotateOpen, RotateFails, ExportBegin, ExportBatch
  <1>6. LogClear \/ LogStop => logRing' = <<>> /\ UNCHANGED <<logNext, logCount>>
    BY DEF LogClear, LogStop
  <1> QED BY <1>1, <1>2, <1>3, <1>4, <1>5, <1>6 DEF LogNext

\* A page of an export: entries of the ring, from newer to older.
PageOf(page, ring) ==
    /\ page \in Seq(Entries) /\ Len(page) <= BatchSize
    /\ \A i \in 1..Len(page) : page[i] \in InExport /\ \E j \in 1..Len(ring) : page[i] = ring[j]
    /\ \A i, j \in 1..Len(page) : i < j => page[j].seq < page[i].seq /\ page[j].id < page[i].id

\* What ExportBatch copies under the lock is such a page (store.go:516-564).
LEMMA PageDoes ==
    ASSUME RingInv, NEW found, found = Only(Reverse(logRing), InExport),
           NEW page, page = SubSeq(found, 1, Min({BatchSize, Len(found)}))
    PROVE  PageOf(page, logRing)
  <1>1. PICK s, L : s = logRing /\ L = Len(s) /\ s \in Seq(Entries) /\ L \in Nat
    <2>1. logRing \in Seq(Entries)
      BY DEF RingInv, Chronicle
    <2> QED BY <2>1
  <1>2. PICK r : r = Reverse(s)
    OBVIOUS
  <1>3. r = [i \in 1..L |-> s[(L - i) + 1]]
    BY <1>1, <1>2 DEF Reverse
  <1>4. \A i \in 1..L : (L - i) + 1 \in 1..L /\ r[i] = s[(L - i) + 1] /\ r[i] \in Entries
    BY <1>1, <1>3
  <1>5. r \in Seq(Entries) /\ Len(r) = L
    BY <1>1, <1>3, <1>4
  <1>6. found \in Seq(Entries) /\ \E at : Embeds(found, r, InExport, Len(r), at)
    BY <1>1, <1>2, <1>5, OnlyDoes
  <1>7. PICK at : Embeds(found, r, InExport, Len(r), at)
    BY <1>6
  <1>8. PICK m : m = Min({BatchSize, Len(found)})
    OBVIOUS
  <1>9. m \in Nat /\ m <= BatchSize /\ m <= Len(found) /\ Len(found) \in Nat
    <2>1. Len(found) \in Nat
      BY <1>6
    <2>2. m = IF BatchSize <= Len(found) THEN BatchSize ELSE Len(found)
      BY <1>8, <2>1, MinOfTwo, LogNumbers
    <2> QED BY <2>1, <2>2, LogNumbers
  <1>10. page \in Seq(Entries) /\ Len(page) = m /\ \A i \in 1..m : page[i] = found[i] /\ i \in 1..Len(found)
    <2>1. m \in 0..Len(found) /\ page = SubSeq(found, 1, m)
      BY <1>8, <1>9
    <2>2. page \in Seq(Entries) /\ Len(page) = m /\ \A i \in 1..m : page[i] = found[i]
      <3>1. found \in Seq(Entries)
        BY <1>6
      <3>2. FirstOf(page, found, m, Entries)
        BY <2>1, <3>1, FirstDoes
      <3> QED BY <3>2 DEF FirstOf
    <2>3. \A i \in 1..m : i \in 1..Len(found)
      BY <1>9
    <2> QED BY <2>2, <2>3
  <1>11. ASSUME NEW i \in 1..m
         PROVE  at[i] \in 1..L /\ page[i] = s[(L - at[i]) + 1] /\ (L - at[i]) + 1 \in 1..L /\ page[i] \in InExport
    <2>1. at[i] \in 1..L /\ found[i] = r[at[i]] /\ found[i] \in InExport
      BY <1>5, <1>7, <1>10 DEF Embeds
    <2> QED BY <1>4, <1>10, <2>1
  <1>12. ASSUME NEW i \in 1..m, NEW j \in 1..m, i < j
         PROVE  page[j].seq < page[i].seq /\ page[j].id < page[i].id
    <2>1. at[i] < at[j]
      BY <1>7, <1>10, <1>12 DEF Embeds
    <2>2. PICK a, b : a = (L - at[j]) + 1 /\ b = (L - at[i]) + 1
      OBVIOUS
    <2>3. a \in 1..L /\ b \in 1..L /\ a < b /\ page[j] = s[a] /\ page[i] = s[b]
      <3>1. at[i] \in 1..L /\ at[j] \in 1..L
        BY <1>11
      <3>2. a < b
        BY <1>1, <2>1, <2>2, <3>1
      <3> QED BY <1>11, <2>2, <3>2
    <2>4. DOMAIN s = 1..L
      BY <1>1
    <2> QED BY <1>1, <2>3, <2>4 DEF RingInv, Grows
  <1>13. \A i \in 1..m : page[i] \in InExport /\ \E j \in 1..L : page[i] = s[j]
    BY <1>11
  <1>14. page \in Seq(Entries) /\ Len(page) <= BatchSize
    BY <1>9, <1>10
  <1>15. \A i \in 1..Len(page) : page[i] \in InExport /\ \E j \in 1..Len(logRing) : page[i] = logRing[j]
    <2>1. Len(page) = m /\ Len(logRing) = L /\ s = logRing
      BY <1>1, <1>10
    <2> QED BY <1>13, <2>1
  <1>16. \A i, j \in 1..Len(page) : i < j => page[j].seq < page[i].seq /\ page[j].id < page[i].id
    <2>1. Len(page) = m
      BY <1>10
    <2> QED BY <1>12, <2>1
  <1> QED BY <1>14, <1>15, <1>16 DEF PageOf

\* A page is added to an export (store.go:490-564).
LEMMA ExportPaged ==
    ASSUME RingInv, ExportInv, ExportBatch
    PROVE  ExportInv'
  <1>1. PICK found, page, out :
           /\ found = Only(Reverse(logRing), InExport)
           /\ page = SubSeq(found, 1, Min({BatchSize, Len(found)}))
           /\ out = export.out \o page
    OBVIOUS
  <1>2. /\ export' = IF Len(page) < BatchSize \/ Len(out) >= LogCapacity
                     THEN [NoExport EXCEPT !.out = out]
                     ELSE [export EXCEPT !.out = out, !.before = page[Len(page)].seq]
        /\ UNCHANGED <<logRing, logNext, logUp>> /\ export.on /\ logUp
    BY <1>1 DEF ExportBatch
  <1>3. PageOf(page, logRing)
    BY <1>1, PageDoes
  <1>4. PICK s, t : s = logRing /\ t = export.out
    OBVIOUS
  <1>5. /\ export \in [on : BOOLEAN, max : Nat, before : Nat, out : Seq(Entries)]
        /\ s \in Seq(Entries) /\ t \in Seq(Entries) /\ page \in Seq(Entries)
    BY <1>3, <1>4 DEF ExportInv, RingInv, Chronicle, PageOf
  <1>6. PICK A, B : A = Len(t) /\ B = Len(page)
    OBVIOUS
  <1>7. A \in Nat /\ B \in Nat /\ B <= BatchSize
    BY <1>3, <1>5, <1>6 DEF PageOf
  <1>8. /\ out \in Seq(Entries) /\ Len(out) = A + B
        /\ \A i \in 1..A : out[i] = t[i]
        /\ \A i \in A + 1..A + B : out[i] = page[i - A]
    <2>1. out = t \o page
      BY <1>1, <1>4
    <2> QED BY <1>5, <1>6, <2>1, JoinDoes
  <1>9. \A i \in 1..Len(s) : s[i] \in Entries /\ s[i].seq \in Nat /\ s[i].id \in Nat /\ s[i].seq < logNext
    <2>1. \A i \in 1..Len(s) : s[i] \in Entries
      BY <1>5
    <2> QED BY <1>4, <2>1, EntryFields DEF RingInv
  <1>10. \A i \in 1..B : page[i] \in InExport /\ page[i] \in Entries /\ \E j \in 1..Len(s) : page[i] = s[j]
    BY <1>3, <1>4, <1>6 DEF PageOf, InExport
  <1>11. \A i \in 1..A + B : (i \in 1..A /\ out[i] = t[i])
                             \/ (i \in A + 1..A + B /\ i - A \in 1..B /\ out[i] = page[i - A])
    <2> SUFFICES ASSUME NEW i \in 1..A + B
                 PROVE  (i \in 1..A /\ out[i] = t[i])
                        \/ (i \in A + 1..A + B /\ i - A \in 1..B /\ out[i] = page[i - A])
      OBVIOUS
    <2>1. i \in 1..A \/ (i \in A + 1..A + B /\ i - A \in 1..B)
      BY <1>7
    <2> QED BY <1>8, <2>1
  <1>12. \A i \in 1..A + B : out[i].seq < logNext
    <2>1. \A i \in 1..A : t[i].seq < logNext
      BY <1>4, <1>6 DEF ExportInv
    <2>2. \A i \in 1..B : page[i].seq < logNext
      BY <1>9, <1>10
    <2> QED BY <1>11, <2>1, <2>2
  <1>13. \A i \in 1..Len(s), j \in 1..A + B : s[i].seq < out[j].seq => s[i].id < out[j].id
    <2> SUFFICES ASSUME NEW i \in 1..Len(s), NEW j \in 1..A + B, s[i].seq < out[j].seq
                 PROVE  s[i].id < out[j].id
      OBVIOUS
    <2>1. CASE j \in 1..A /\ out[j] = t[j]
      BY <1>4, <1>6, <2>1 DEF ExportInv
    <2>2. CASE j - A \in 1..B /\ out[j] = page[j - A]
      <3>1. PICK k \in 1..Len(s) : out[j] = s[k]
        BY <1>10, <2>2
      <3>2. DOMAIN s = 1..Len(s) /\ Len(s) \in Nat
        BY <1>5
      <3>3. \A x, y \in 1..Len(s) : x < y => s[x].id < s[y].id /\ s[x].seq < s[y].seq
        BY <1>4, <3>2 DEF RingInv, Grows
      <3>4. i < k
        <4>1. CASE i = k
          BY <1>9, <3>1, <4>1
        <4>2. CASE k < i
          <5>1. s[k].seq < s[i].seq /\ s[k].seq \in Nat /\ s[i].seq \in Nat /\ s[i].seq < s[k].seq
            BY <1>9, <3>1, <3>3, <4>2
          <5> QED BY <5>1
        <4> QED BY <3>2, <4>1, <4>2
      <3> QED BY <3>1, <3>3, <3>4
    <2> QED BY <1>11, <2>1, <2>2
  <1>14. \A i, j \in 1..A + B : i < j => out[j].seq < out[i].seq /\ out[j].id < out[i].id
    <2> SUFFICES ASSUME NEW i \in 1..A + B, NEW j \in 1..A + B, i < j
                 PROVE  out[j].seq < out[i].seq /\ out[j].id < out[i].id
      OBVIOUS
    <2>1. CASE i \in 1..A /\ out[i] = t[i] /\ j \in 1..A /\ out[j] = t[j]
      BY <1>4, <1>6, <2>1 DEF ExportInv
    <2>2. CASE i - A \in 1..B /\ out[i] = page[i - A] /\ j - A \in 1..B /\ out[j] = page[j - A]
      <3>1. i - A < j - A
        BY <1>7
      <3> QED BY <1>3, <1>6, <2>2, <3>1 DEF PageOf
    <2>3. CASE i \in 1..A /\ out[i] = t[i] /\ j - A \in 1..B /\ out[j] = page[j - A]
      <3>1. PICK k \in 1..Len(s) : out[j] = s[k]
        BY <1>10, <2>3
      <3>2. A > 0 /\ A \in 1..A
        BY <1>7, <2>3
      <3>3. export.before = t[A].seq
        BY <1>2, <1>4, <1>6, <3>2 DEF ExportInv
      <3>4. t[A] \in Entries /\ t[i] \in Entries /\ out[j] \in Entries
        BY <1>5, <1>6, <1>10, <2>3, <3>2
      <3>5. t[A].seq \in Nat /\ t[A].seq > 0 /\ t[i].seq \in Nat /\ out[j].seq \in Nat
        BY <3>4, EntryFields
      <3>6. out[j].seq < t[A].seq
        <4>1. out[j] \in InExport
          BY <1>10, <2>3
        <4>2. export.before # 0
          BY <3>3, <3>5
        <4>3. out[j].seq < export.before
          BY <4>1, <4>2 DEF InExport
        <4> QED BY <3>3, <4>3
      <3>7. t[A].seq <= t[i].seq
        <4>1. CASE i = A
          BY <3>5, <4>1
        <4>2. CASE i < A
          <5>1. t[A].seq < t[i].seq
            BY <1>4, <1>6, <2>3, <3>2, <4>2 DEF ExportInv
          <5> QED BY <3>5, <5>1
        <4>3. i = A \/ i < A
          BY <1>7, <2>3
        <4> QED BY <4>1, <4>2, <4>3
      <3>8. out[j].seq < out[i].seq
        BY <2>3, <3>5, <3>6, <3>7
      <3>9. s[k].id < t[i].id
        <4>1. s[k].seq < t[i].seq
          BY <2>3, <3>1, <3>8
        <4> QED BY <1>4, <1>6, <2>3, <4>1 DEF ExportInv
      <3> QED BY <2>3, <3>1, <3>8, <3>9
    <2>4. ~(i - A \in 1..B /\ j \in 1..A)
      BY <1>7
    <2>5. /\ (i \in 1..A /\ out[i] = t[i]) \/ (i - A \in 1..B /\ out[i] = page[i - A])
          /\ (j \in 1..A /\ out[j] = t[j]) \/ (j - A \in 1..B /\ out[j] = page[j - A])
      BY <1>11
    <2> QED BY <2>1, <2>2, <2>3, <2>4, <2>5
  <1>15. CASE Len(page) < BatchSize \/ Len(out) >= LogCapacity
    <2>1. export' = [on |-> FALSE, max |-> 0, before |-> 0, out |-> out]
      BY <1>2, <1>15 DEF NoExport
    <2>2. /\ export' \in [on : BOOLEAN, max : Nat, before : Nat, out : Seq(Entries)]
          /\ export'.out = out /\ export'.on = FALSE
      BY <1>8, <2>1
    <2> QED BY <1>2, <1>4, <1>8, <1>12, <1>13, <1>14, <2>2, SMTT(30) DEF ExportInv
  <1>16. CASE ~(Len(page) < BatchSize \/ Len(out) >= LogCapacity)
    <2>1. export' = [export EXCEPT !.out = out, !.before = page[Len(page)].seq]
      BY <1>2, <1>16
    <2>2. B \in 1..B /\ B > 0 /\ A + B \in A + 1..A + B /\ (A + B) - A = B /\ A + B > 0
      BY <1>6, <1>7, <1>16, LogNumbers
    <2>3. page[B].seq \in Nat /\ page[B] = out[A + B]
      <3>1. page[B] \in Entries
        BY <1>10, <2>2
      <3>2. out[A + B] = page[(A + B) - A]
        BY <1>8, <2>2
      <3> QED BY <2>2, <3>1, <3>2, EntryFields
    <2>4. /\ export' \in [on : BOOLEAN, max : Nat, before : Nat, out : Seq(Entries)]
          /\ export'.out = out /\ export'.before = page[B].seq
      BY <1>5, <1>6, <1>8, <2>1, <2>3
    <2>5. export'.before = out[Len(out)].seq
      BY <1>8, <2>3, <2>4
    <2>6. /\ logRing' = s /\ logNext' = logNext /\ logUp' /\ Len(export'.out) = A + B
          /\ export'.out = out
      BY <1>2, <1>4, <1>8, <2>4
    <2>7. export'.before = export'.out[Len(export'.out)].seq
      BY <2>4, <2>5
    <2> QED BY <1>12, <1>13, <1>14, <2>4, <2>6, <2>7 DEF ExportInv
  <1> QED BY <1>15, <1>16

\* Exports stay behind the ring under every step.
LEMMA ExportStep ==
    ASSUME LogInv, LogNext
    PROVE  ExportInv'
  <1>1. RingInv /\ ExportInv
    BY DEF LogInv
  <1>2. CASE LogAppend
    <2>1. /\ logNext' = logNext + 1 /\ logNext \in Nat
          /\ \A i \in 1..Len(logRing') :
                logRing'[i].seq = logNext \/ \E j \in 1..Len(logRing) : logRing'[i] = logRing[j]
      BY <1>1, <1>2, RingAppends, LogNumbers DEF RingInv
    <2>2. export' = export /\ logUp' = logUp
      BY <1>2 DEF LogAppend
    <2>3. PICK t : t = export.out /\ t \in Seq(Entries)
      BY <1>1 DEF ExportInv
    <2>4. \A i \in 1..Len(t) : t[i].seq \in Nat /\ t[i].seq < logNext
      <3>1. \A i \in 1..Len(t) : t[i] \in Entries
        BY <2>3
      <3> QED BY <1>1, <2>3, <3>1, EntryFields DEF ExportInv
    <2>5. \A i \in 1..Len(t) : t[i].seq < logNext + 1
      BY <2>1, <2>4
    <2>6. ASSUME NEW i \in 1..Len(logRing'), NEW j \in 1..Len(t), logRing'[i].seq < t[j].seq
          PROVE  logRing'[i].id < t[j].id
      <3>1. logRing'[i].seq # logNext
        BY <2>1, <2>4, <2>6
      <3>2. PICK k \in 1..Len(logRing) : logRing'[i] = logRing[k]
        BY <2>1, <3>1
      <3> QED BY <1>1, <2>3, <2>6, <3>2 DEF ExportInv
    <2> QED BY <1>1, <2>1, <2>2, <2>3, <2>5, <2>6 DEF ExportInv
  <1>3. CASE ExportBatch
    BY <1>1, <1>3, ExportPaged
  <1>4. CASE ExportBegin
    <2>1. PICK m : m = logRing[Len(logRing)].seq
      OBVIOUS
    <2>2. m \in Nat
      <3>1. logRing \in Seq(Entries) /\ logRing # <<>>
        BY <1>1, <1>4 DEF RingInv, Chronicle, ExportBegin
      <3>2. logRing[Len(logRing)] \in Entries
        BY <3>1
      <3> QED BY <2>1, <3>2, EntryFields
    <2>3. export' = [on |-> TRUE, max |-> m, before |-> 0, out |-> <<>>] /\ logUp' = logUp /\ logUp
      BY <1>4, <2>1 DEF ExportBegin
    <2>4. export' \in [on : BOOLEAN, max : Nat, before : Nat, out : Seq(Entries)]
      BY <2>2, <2>3
    <2>5. Len(export'.out) = 0
      BY <2>3
    <2> QED BY <2>3, <2>4, <2>5 DEF ExportInv
  <1>5. CASE LogStop
    <2>1. export' = NoExport
      BY <1>5 DEF LogStop
    <2>2. export' \in [on : BOOLEAN, max : Nat, before : Nat, out : Seq(Entries)]
      BY <2>1 DEF NoExport
    <2>3. Len(export'.out) = 0
      BY <2>1 DEF NoExport
    <2> QED BY <2>1, <2>2, <2>3 DEF ExportInv
  <1>6. CASE LogStart
    <2>1. export' = NoExport
      BY <1>1, <1>6 DEF LogStart, ExportInv
    <2>2. export' \in [on : BOOLEAN, max : Nat, before : Nat, out : Seq(Entries)]
      BY <2>1 DEF NoExport
    <2>3. Len(export'.out) = 0
      BY <2>1 DEF NoExport
    <2> QED BY <2>1, <2>2, <2>3 DEF ExportInv
  <1>7. CASE LogClear
    <2>1. logRing' = <<>> /\ UNCHANGED <<logNext, export, logUp>>
      BY <1>7 DEF LogClear
    <2>2. Len(logRing') = 0
      BY <2>1
    <2> QED BY <1>1, <2>1, <2>2 DEF ExportInv
  <1>8. CASE RotateRemove \/ RotateShift \/ RotateOpen \/ RotateFails
    <2>1. UNCHANGED <<logRing, logNext, export, logUp>>
      BY <1>8 DEF RotateRemove, RotateShift, RotateOpen, RotateFails
    <2> QED BY <1>1, <2>1 DEF ExportInv
  <1> QED BY <1>2, <1>3, <1>4, <1>5, <1>6, <1>7, <1>8 DEF LogNext

\* A write to the active file leaves the line, a part of it or nothing, and
\* what was written before stays (store.go:334-356).
LEMMA WriteDoes ==
    ASSUME NEW e \in Entries, NEW n \in Nat, NEW m \in Nat, n < e.id, e.id <= m, e.seq <= e.id,
           GoodFiles(logFiles, n), logWritten \subseteq OnDisk(logFiles), NEW bytes,
           logEnds \in BOOLEAN, logTorn \in BOOLEAN, ~logTorn => logEnds,
           logFaults \in 0..MaxLogFaults, Write(e, logFiles[0], bytes)
    PROVE  /\ GoodFiles(logFiles', m) /\ logWritten' \subseteq OnDisk(logFiles')
           /\ logEnds' \in BOOLEAN /\ logTorn' \in BOOLEAN /\ (~logTorn' => logEnds') /\ logOpen'
           /\ logFaults' \in 0..MaxLogFaults
           /\ \A l \in 0..MaxBackups : l # 0 => logFiles'[l] = logFiles[l]
           /\ \/ logBytes' = bytes + 1 /\ logFaults' = logFaults /\ Len(logFiles'[0]) <= Len(logFiles[0]) + 1
              \/ logBytes' = bytes /\ logFaults' = logFaults + 1 /\ Len(logFiles'[0]) <= Len(logFiles[0]) + 1
  <1>0. PICK F, s : F = logFiles /\ s = F[0]
    OBVIOUS
  <1>1. F \in FileSets /\ 0 \in 0..MaxBackups /\ GoodFiles(F, n) /\ n <= m /\ GoodFiles(F, m)
    <2>1. F \in FileSets /\ 0 \in 0..MaxBackups /\ GoodFiles(F, n)
      BY <1>0, LogNumbers DEF GoodFiles
    <2>2. e.id \in Nat
      BY EntryFields
    <2>3. n <= m
      BY <2>2
    <2>4. ASSUME NEW k \in 0..MaxBackups, NEW i \in 1..Len(F[k]) PROVE F[k][i].id <= m
      <3>1. F[k] \in Seq(Entries \cup {Torn})
        BY <2>1 DEF FileSets
      <3>2. F[k][i] \in Entries \cup {Torn}
        BY <3>1
      <3>3. F[k][i].id \in Nat
        BY <3>2, EntryFields DEF Torn
      <3>4. F[k][i].id <= n
        BY <2>1 DEF GoodFiles, FilesBelow
      <3> QED BY <2>3, <3>3, <3>4
    <2> QED BY <2>1, <2>3, <2>4 DEF GoodFiles, FilesBelow
  <1>2. s \in Seq(Entries \cup {Torn}) /\ Len(s) \in Nat
    BY <1>0, <1>1 DEF FileSets
  <1>3. [F EXCEPT ![0] = s] = F
    BY <1>0, <1>1 DEF FileSets
  <1>4. logOpen' = TRUE
    BY DEF Write
  <1>5. CASE /\ NoLogFault /\ logFiles' = [logFiles EXCEPT ![0] = Written(e, logFiles[0])]
             /\ logEnds' = TRUE /\ logTorn' = FALSE /\ logBytes' = bytes + 1
             /\ logWritten' = IF logTorn THEN logWritten ELSE logWritten \cup {e.id}
    <2>1. CASE logEnds
      <3>1. logFiles' = [F EXCEPT ![0] = Append(F[0], e)]
        BY <1>0, <1>5, <2>1 DEF Written
      <3>2. PICK E : E = logFiles'
        OBVIOUS
      <3>3. /\ GoodFiles(E, m) /\ Len(E[0]) = Len(F[0]) + 1 /\ OnDisk(F) \subseteq OnDisk(E)
            /\ \A l \in 0..MaxBackups : l # 0 => E[l] = F[l]
            /\ e.id \in OnDisk(E)
        <4>1. NextLine(e, n, m)
          BY DEF NextLine
        <4>2. Added(E, F, e, m)
          BY <1>1, <3>1, <3>2, <4>1, LineAdded
        <4> QED BY <4>2 DEF Added
      <3>4. logWritten' \subseteq OnDisk(E)
        BY <1>0, <1>5, <3>3
      <3>5. Len(E[0]) <= Len(s) + 1
        BY <1>0, <1>2, <3>3
      <3> QED BY <1>0, <1>4, <1>5, <3>2, <3>3, <3>4, <3>5 DEF NoLogFault
    <2>2. CASE ~logEnds
      <3>1. logFiles' = F /\ logTorn
        BY <1>0, <1>3, <1>5, <2>2 DEF Written
      <3>2. logWritten' \subseteq OnDisk(logFiles') /\ Len(logFiles'[0]) <= Len(logFiles[0]) + 1
        BY <1>0, <1>2, <1>5, <3>1
      <3> QED BY <1>0, <1>1, <1>4, <1>5, <3>1, <3>2 DEF NoLogFault
    <2> QED BY <2>1, <2>2
  <1>6. CASE /\ LogFault /\ logFiles' = [logFiles EXCEPT ![0] = Written(Torn, logFiles[0])]
             /\ logEnds' = FALSE /\ logTorn' = TRUE /\ logBytes' = bytes /\ UNCHANGED logWritten
    <2>0. logFaults' \in 0..MaxLogFaults /\ logFaults' = logFaults + 1
      BY <1>6, LogNumbers DEF LogFault
    <2>1. CASE logEnds
      <3>1. logFiles' = [F EXCEPT ![0] = Append(F[0], Torn)]
        BY <1>0, <1>6, <2>1 DEF Written
      <3>2. PICK E : E = logFiles'
        OBVIOUS
      <3>3. /\ GoodFiles(E, m) /\ Len(E[0]) = Len(F[0]) + 1 /\ OnDisk(F) \subseteq OnDisk(E)
            /\ \A l \in 0..MaxBackups : l # 0 => E[l] = F[l]
        <4>1. NextLine(Torn, n, m)
          BY DEF NextLine
        <4>2. Added(E, F, Torn, m)
          BY <1>1, <3>1, <3>2, <4>1, LineAdded
        <4> QED BY <4>2 DEF Added
      <3>4. logWritten' \subseteq OnDisk(E)
        BY <1>0, <1>6, <3>3
      <3>5. Len(E[0]) <= Len(s) + 1
        BY <1>0, <1>2, <3>3
      <3> QED BY <1>0, <1>4, <1>6, <2>0, <3>2, <3>3, <3>4, <3>5
    <2>2. CASE ~logEnds
      <3>1. logFiles' = F
        BY <1>0, <1>3, <1>6, <2>2 DEF Written
      <3>2. logWritten' \subseteq OnDisk(logFiles') /\ Len(logFiles'[0]) <= Len(logFiles[0]) + 1
        BY <1>0, <1>2, <1>6, <3>1
      <3> QED BY <1>0, <1>1, <1>4, <1>6, <2>0, <3>1, <3>2
    <2> QED BY <2>1, <2>2
  <1>7. CASE /\ LogFault /\ logFiles' = [logFiles EXCEPT ![0] = logFiles[0]]
             /\ UNCHANGED <<logEnds, logTorn>> /\ logBytes' = bytes /\ UNCHANGED logWritten
    <2>0. logFaults' \in 0..MaxLogFaults /\ logFaults' = logFaults + 1
      BY <1>7, LogNumbers DEF LogFault
    <2>1. logFiles' = F
      BY <1>0, <1>3, <1>7
    <2>2. logWritten' \subseteq OnDisk(logFiles') /\ Len(logFiles'[0]) <= Len(logFiles[0]) + 1
      BY <1>0, <1>2, <1>7, <2>1
    <2> QED BY <1>0, <1>1, <1>4, <1>7, <2>0, <2>1, <2>2
  <1> QED BY <1>5, <1>6, <1>7 DEF Write

\* What the files and the flags must keep.
LogState == LogFlags /\ LogSizes /\ LogPhases /\ LogDisk

\* The files as the lemmas above take them.
LEMMA FilesGood ==
    ASSUME LogInv
    PROVE  /\ GoodFiles(logFiles, FileMax) /\ logFiles \in FileSets /\ 0 \in 0..MaxBackups
           /\ logFiles[0] \in Seq(Entries \cup {Torn}) /\ Len(logFiles[0]) \in Nat
           /\ logCount \in Nat /\ FileMax \in Nat
           /\ logRot # NoRotation => logRing[Len(logRing)] \in Entries /\ logCount > 0
  <1>1. GoodFiles(logFiles, FileMax) /\ logFiles \in FileSets /\ 0 \in 0..MaxBackups
    BY LogNumbers DEF LogInv, LogDisk, GoodFiles
  <1>2. logFiles[0] \in Seq(Entries \cup {Torn})
    BY <1>1 DEF FileSets
  <1>3. logCount \in Nat
    BY LogNumbers DEF LogInv, RingInv
  <1>4. ASSUME logRot # NoRotation PROVE logRing[Len(logRing)] \in Entries /\ logCount > 0
    <2>1. Len(logRing) > 0 /\ logRing[Len(logRing)].id = logCount
      BY <1>4 DEF LogInv, LogPhases
    <2>2. logRing \in Seq(Entries)
      BY DEF LogInv, RingInv, Chronicle
    <2>3. logRing[Len(logRing)] \in Entries
      BY <2>1, <2>2
    <2> QED BY <2>1, <2>3, EntryFields
  <1>5. FileMax \in Nat
    BY <1>3, <1>4 DEF FileMax
  <1> QED BY <1>1, <1>2, <1>3, <1>4, <1>5

\* An entry is written, or a rotation begins (store.go:268-366).
LEMMA AppendState ==
    ASSUME LogInv, LogAppend
    PROVE  LogState'
  <1>0. /\ LogFlags /\ LogSizes /\ LogPhases /\ LogDisk /\ RingInv
        /\ logUp /\ logRot = NoRotation /\ logUp' = logUp
    BY DEF LogInv, LogAppend
  <1>1. PICK e : e = [id |-> logCount + 1, seq |-> logNext]
    OBVIOUS
  <1>2. /\ Len(logRing') > 0 /\ logRing'[Len(logRing')] = e /\ e \in Entries
        /\ logCount' = logCount + 1
    BY <1>0, <1>1, RingAppends
  <1>3. /\ GoodFiles(logFiles, logCount) /\ Len(logFiles[0]) \in Nat /\ logCount \in Nat
        /\ logWritten \subseteq OnDisk(logFiles)
    BY <1>0, FilesGood DEF FileMax, LogDisk
  <1>4. e.id = logCount + 1 /\ e.seq <= e.id
    BY <1>0, <1>1, <1>3 DEF RingInv
  <1>5. GoodFiles(logFiles, logCount + 1)
    <2>1. ASSUME NEW k \in 0..MaxBackups, NEW i \in 1..Len(logFiles[k]) PROVE logFiles[k][i].id <= logCount + 1
      <3>1. logFiles[k] \in Seq(Entries \cup {Torn})
        BY <1>3 DEF FileSets, GoodFiles
      <3>2. logFiles[k][i].id \in Nat
        BY <3>1, EntryFields DEF Torn
      <3>3. logFiles[k][i].id <= logCount
        BY <1>3 DEF GoodFiles, FilesBelow
      <3> QED BY <1>3, <3>2, <3>3
    <2> QED BY <1>3, <2>1 DEF GoodFiles, FilesBelow
  <1>6. NoRotation \in Nat /\ NoRotation = MaxBackups + 2
    BY LogNumbers DEF NoRotation
  <1>7. CASE /\ ~logOpen
             /\ UNCHANGED <<logFiles, logEnds, logOpen, logBytes, logRot, logFaults, logTorn, logWritten>>
    <2>1. LogFlags'
      BY <1>0, <1>7 DEF LogFlags
    <2>2. LogSizes'
      BY <1>0, <1>7 DEF LogSizes
    <2>3. LogPhases'
      <3>1. logRot' = NoRotation /\ ~(logRot' <= MaxBackups) /\ logRot' # 0
        BY <1>0, <1>6, <1>7, LogNumbers
      <3> QED BY <1>0, <1>7, <3>1 DEF LogPhases
    <2>4. LogDisk'
      <3>1. FileMax' = logCount + 1
        BY <1>0, <1>2, <1>7 DEF FileMax
      <3> QED BY <1>3, <1>5, <1>7, <3>1 DEF LogDisk
    <2> QED BY <2>1, <2>2, <2>3, <2>4 DEF LogState
  <1>8. CASE logOpen /\ logBytes < FileLines /\ Write(e, logFiles[0], logBytes) /\ UNCHANGED logRot
    <2>1. logEnds \in BOOLEAN /\ logTorn \in BOOLEAN /\ logFaults \in 0..MaxLogFaults /\ (~logTorn => logEnds)
      BY <1>0 DEF LogFlags, LogPhases
    <2>2. PICK m : m = logCount + 1 /\ m \in Nat /\ logCount < e.id /\ e.id <= m
      BY <1>3, <1>4
    <2>3. /\ GoodFiles(logFiles', m) /\ logWritten' \subseteq OnDisk(logFiles')
          /\ logEnds' \in BOOLEAN /\ logTorn' \in BOOLEAN /\ (~logTorn' => logEnds') /\ logOpen'
          /\ logFaults' \in 0..MaxLogFaults
          /\ \/ logBytes' = logBytes + 1 /\ logFaults' = logFaults /\ Len(logFiles'[0]) <= Len(logFiles[0]) + 1
             \/ logBytes' = logBytes /\ logFaults' = logFaults + 1 /\ Len(logFiles'[0]) <= Len(logFiles[0]) + 1
      BY <1>2, <1>3, <1>4, <1>8, <2>1, <2>2, WriteDoes
    <2>4. LogFlags'
      <3>1. logOpen' = TRUE
        BY <1>8 DEF Write
      <3> QED BY <1>0, <1>8, <2>3, <3>1 DEF LogFlags
    <2>5. LogSizes'
      <3>1. /\ logBytes \in Nat /\ FileLines \in Nat /\ logFaults \in Nat /\ logBytes < FileLines
            /\ Len(logFiles[0]) <= logBytes + logFaults
        BY <1>0, <1>8, LogNumbers DEF LogSizes, LogFlags
      <3>2. Len(logFiles'[0]) \in Nat
        <4>1. logFiles'[0] \in Seq(Entries \cup {Torn})
          BY <2>3, LogNumbers DEF GoodFiles, FileSets
        <4> QED BY <4>1
      <3>3. CASE logBytes' = logBytes + 1 /\ logFaults' = logFaults /\ Len(logFiles'[0]) <= Len(logFiles[0]) + 1
        BY <1>3, <3>1, <3>2, <3>3 DEF LogSizes
      <3>4. CASE logBytes' = logBytes /\ logFaults' = logFaults + 1 /\ Len(logFiles'[0]) <= Len(logFiles[0]) + 1
        BY <1>3, <3>1, <3>2, <3>4 DEF LogSizes
      <3> QED BY <2>3, <3>3, <3>4
    <2>6. LogPhases'
      <3>1. logRot' = NoRotation /\ ~(logRot' <= MaxBackups) /\ logRot' # 0
        BY <1>0, <1>6, <1>8, LogNumbers
      <3> QED BY <1>0, <2>3, <3>1 DEF LogPhases
    <2>7. LogDisk'
      <3>1. FileMax' = m
        BY <1>0, <1>2, <1>8, <2>2 DEF FileMax
      <3> QED BY <2>3, <3>1 DEF LogDisk
    <2> QED BY <2>4, <2>5, <2>6, <2>7 DEF LogState
  <1>9. CASE /\ logOpen /\ logBytes >= FileLines /\ logOpen' = FALSE /\ logRot' = MaxBackups + 1
             /\ UNCHANGED <<logFiles, logEnds, logBytes, logFaults, logTorn, logWritten>>
    <2>1. LogFlags'
      <3>1. logRot' \in 0..NoRotation
        BY <1>6, <1>9, LogNumbers
      <3> QED BY <1>0, <1>9, <3>1 DEF LogFlags
    <2>2. LogSizes'
      BY <1>0, <1>9 DEF LogSizes
    <2>3. LogPhases'
      <3>1. ~(logRot' <= MaxBackups) /\ logRot' # 0
        BY <1>9, LogNumbers
      <3> QED BY <1>0, <1>2, <1>4, <1>9, <3>1 DEF LogPhases
    <2>4. LogDisk'
      <3>1. FileMax' = logCount
        BY <1>2, <1>3, <1>6, <1>9, LogNumbers DEF FileMax
      <3> QED BY <1>3, <1>9, <3>1 DEF LogDisk
    <2> QED BY <2>1, <2>2, <2>3, <2>4 DEF LogState
  <1> QED BY <1>1, <1>7, <1>8, <1>9 DEF LogAppend

\* The oldest file is removed (store.go:367-372).
LEMMA RemoveState ==
    ASSUME LogInv, RotateRemove
    PROVE  LogState'
  <1>0. /\ LogFlags /\ LogSizes /\ LogPhases /\ LogDisk
        /\ logUp /\ logRot = MaxBackups + 1 /\ logRot' = MaxBackups
        /\ UNCHANGED <<logRing, logOpen, logBytes, logUp, logCount, logFaults>>
    BY DEF LogInv, RotateRemove, Rotating
  <1>1. NoRotation \in Nat /\ NoRotation = MaxBackups + 2 /\ MaxBackups \in Nat
    BY LogNumbers DEF NoRotation
  <1>2. PICK F, n : F = logFiles /\ n = FileMax
    OBVIOUS
  <1>3. /\ GoodFiles(F, n) /\ MaxBackups \in 0..MaxBackups /\ 0 \in 0..MaxBackups
        /\ Len(logFiles[0]) \in Nat
    BY <1>1, <1>2, FilesGood
  <1>4. PICK E : E = logFiles' /\ E = [F EXCEPT ![MaxBackups] = <<>>]
    BY <1>2 DEF RotateRemove
  <1>5. /\ GoodFiles(E, n) /\ E[MaxBackups] = <<>> /\ \A l \in 0..MaxBackups : l # MaxBackups => E[l] = F[l]
        /\ OnDisk(F) \ Numbers(F[MaxBackups]) \subseteq OnDisk(E)
    BY <1>3, <1>4, FileRemoved
  <1>6. logEnds' = (logEnds \/ MaxBackups = 0) /\ logTorn' = (logTorn /\ ~(MaxBackups = 0))
    BY DEF RotateRemove, Renewed
  <1>7. LogFlags'
    BY <1>0, <1>1, <1>6 DEF LogFlags
  <1>8. Len(E[0]) <= Len(F[0]) /\ Len(E[0]) \in Nat
    <2>1. E[0] = F[0] \/ E[0] = <<>>
      BY <1>1, <1>3, <1>5
    <2> QED BY <1>2, <1>3, <2>1
  <1>9. LogSizes'
    <2>1. FileLines \in Nat /\ logFaults \in Nat /\ logBytes \in Nat
      BY <1>0, LogNumbers DEF LogSizes, LogFlags
    <2> QED BY <1>0, <1>2, <1>3, <1>4, <1>8, <2>1 DEF LogSizes
  <1>10. LogPhases'
    <2>1. logRot' = 0 => logEnds'
      BY <1>0, <1>6
    <2>2. logUp' /\ ~logTorn' => logEnds'
      BY <1>0, <1>6 DEF LogPhases, LogFlags
    <2>3. ~logOpen /\ Len(logRing) > 0 /\ logRing[Len(logRing)].id = logCount
      BY <1>0, <1>1 DEF LogPhases
    <2> QED BY <1>0, <1>4, <1>5, <2>1, <2>2, <2>3 DEF LogPhases
  <1>11. LogDisk'
    <2>1. FileMax' = n
      BY <1>0, <1>1, <1>2 DEF FileMax
    <2>2. logWritten' = logWritten \ Numbers(F[MaxBackups])
      BY <1>2 DEF RotateRemove
    <2> QED BY <1>0, <1>2, <1>4, <1>5, <2>1, <2>2 DEF LogDisk
  <1> QED BY <1>7, <1>9, <1>10, <1>11 DEF LogState

\* A backup takes the next number (store.go:373-387).
LEMMA ShiftState ==
    ASSUME LogInv, RotateShift
    PROVE  LogState'
  <1>0. /\ LogFlags /\ LogSizes /\ LogPhases /\ LogDisk
        /\ logUp /\ logRot \in 1..MaxBackups /\ logRot' = logRot - 1
        /\ UNCHANGED <<logRing, logOpen, logBytes, logUp, logCount, logFaults, logWritten>>
    BY DEF LogInv, RotateShift, Rotating
  <1>1. NoRotation \in Nat /\ NoRotation = MaxBackups + 2 /\ MaxBackups \in Nat
    BY LogNumbers DEF NoRotation
  <1>2. PICK F, n, k, E : F = logFiles /\ n = FileMax /\ k = logRot /\ E = logFiles'
    OBVIOUS
  <1>3. /\ GoodFiles(F, n) /\ k \in 1..MaxBackups /\ F[k] = <<>> /\ Len(F[0]) \in Nat
        /\ E = [F EXCEPT ![k] = F[k - 1], ![k - 1] = <<>>]
    <2>1. GoodFiles(F, n) /\ Len(F[0]) \in Nat
      BY <1>2, FilesGood
    <2>2. k \in 1..MaxBackups /\ F[k] = <<>>
      BY <1>0, <1>1, <1>2 DEF LogPhases
    <2> QED BY <1>2, <2>1, <2>2 DEF RotateShift, Shifted
  <1>4. /\ GoodFiles(E, n) /\ E[k - 1] = <<>>
        /\ \A l \in 0..MaxBackups : l # k /\ l # k - 1 => E[l] = F[l]
        /\ OnDisk(F) \subseteq OnDisk(E)
    <2>1. MovedUp(E, F, k, n)
      BY <1>3, FileShifted
    <2> QED BY <2>1 DEF MovedUp
  <1>5. logEnds' = (logEnds \/ k = 1) /\ logTorn' = (logTorn /\ ~(k = 1))
    BY <1>2 DEF RotateShift, Renewed
  <1>6. LogFlags'
    BY <1>0, <1>1, <1>5 DEF LogFlags
  <1>7. Len(E[0]) <= Len(F[0]) /\ Len(E[0]) \in Nat
    <2>1. CASE k = 1
      BY <1>3, <1>4, <2>1
    <2>2. CASE k # 1
      <3>1. 0 \in 0..MaxBackups /\ 0 # k /\ 0 # k - 1
        BY <1>1, <1>3, <2>2
      <3>2. E[0] = F[0]
        BY <1>4, <3>1
      <3> QED BY <1>3, <3>2
    <2> QED BY <2>1, <2>2
  <1>8. LogSizes'
    <2>1. FileLines \in Nat /\ logFaults \in Nat /\ logBytes \in Nat
      BY <1>0, LogNumbers DEF LogSizes, LogFlags
    <2> QED BY <1>0, <1>2, <1>3, <1>7, <2>1 DEF LogSizes
  <1>9. LogPhases'
    <2>1. logRot' = 0 => logEnds'
      <3>1. logRot' = 0 => k = 1
        BY <1>0, <1>2, <1>3, <1>1
      <3> QED BY <1>5, <3>1
    <2>2. logUp' /\ ~logTorn' => logEnds'
      BY <1>0, <1>5 DEF LogPhases, LogFlags
    <2>3. ~logOpen /\ Len(logRing) > 0 /\ logRing[Len(logRing)].id = logCount
      BY <1>0, <1>1 DEF LogPhases
    <2>4. logFiles'[logRot'] = <<>>
      BY <1>0, <1>2, <1>4
    <2> QED BY <1>0, <2>1, <2>2, <2>3, <2>4 DEF LogPhases
  <1>10. LogDisk'
    <2>1. FileMax' = n
      BY <1>0, <1>1, <1>2 DEF FileMax
    <2> QED BY <1>0, <1>2, <1>4, <2>1 DEF LogDisk
  <1> QED BY <1>6, <1>8, <1>9, <1>10 DEF LogState

\* The rotation ends with a new file and the entry in it (store.go:393-401).
LEMMA OpenState ==
    ASSUME LogInv, RotateOpen
    PROVE  LogState'
  <1>0. /\ LogFlags /\ LogSizes /\ LogPhases /\ LogDisk
        /\ logUp /\ logRot = 0 /\ logRot' = NoRotation
        /\ UNCHANGED <<logRing, logUp, logCount>>
    BY DEF LogInv, RotateOpen, Rotating
  <1>1. NoRotation \in Nat /\ NoRotation = MaxBackups + 2 /\ MaxBackups \in Nat /\ logRot # NoRotation
    BY <1>0, LogNumbers DEF NoRotation
  <1>2. PICK e, n : e = logRing[Len(logRing)] /\ n = FileMax
    OBVIOUS
  <1>3. /\ GoodFiles(logFiles, n) /\ e \in Entries /\ n \in Nat /\ logCount \in Nat /\ n = logCount - 1
        /\ logFiles[0] = <<>> /\ Len(logFiles[0]) = 0 /\ e.id = logCount
    <2>1. GoodFiles(logFiles, n) /\ e \in Entries /\ n \in Nat /\ logCount \in Nat
      BY <1>1, <1>2, FilesGood
    <2>2. n = logCount - 1
      BY <1>1, <1>2 DEF FileMax
    <2>3. logFiles[0] = <<>> /\ e.id = logCount
      BY <1>0, <1>1, <1>2 DEF LogPhases
    <2> QED BY <2>1, <2>2, <2>3
  <1>4. Write(e, logFiles[0], 0)
    BY <1>2, <1>3 DEF RotateOpen
  <1>5. e.seq <= e.id
    <2>1. Chronicle(logRing, logCount) /\ Len(logRing) > 0
      BY <1>0, <1>1 DEF LogInv, RingInv, LogPhases
    <2>2. Len(logRing) \in 1..Len(logRing)
      <3>1. Len(logRing) \in Nat
        BY <2>1 DEF Chronicle
      <3> QED BY <2>1, <3>1
    <2> QED BY <1>2, <2>1, <2>2 DEF Chronicle
  <1>6. /\ logEnds \in BOOLEAN /\ logTorn \in BOOLEAN /\ logFaults \in 0..MaxLogFaults /\ (~logTorn => logEnds)
        /\ logWritten \subseteq OnDisk(logFiles)
    BY <1>0 DEF LogFlags, LogPhases, LogDisk
  <1>7. PICK m : m = logCount /\ m \in Nat /\ n < e.id /\ e.id <= m
    BY <1>3
  <1>8. /\ GoodFiles(logFiles', m) /\ logWritten' \subseteq OnDisk(logFiles')
        /\ logEnds' \in BOOLEAN /\ logTorn' \in BOOLEAN /\ (~logTorn' => logEnds') /\ logOpen'
        /\ logFaults' \in 0..MaxLogFaults
        /\ \/ logBytes' = 0 + 1 /\ logFaults' = logFaults /\ Len(logFiles'[0]) <= Len(logFiles[0]) + 1
           \/ logBytes' = 0 /\ logFaults' = logFaults + 1 /\ Len(logFiles'[0]) <= Len(logFiles[0]) + 1
    BY <1>3, <1>4, <1>5, <1>6, <1>7, WriteDoes
  <1>9. LogFlags'
    <2>1. logOpen' = TRUE /\ logRot' \in 0..NoRotation
      BY <1>0, <1>1, <1>4 DEF Write
    <2> QED BY <1>0, <1>8, <2>1 DEF LogFlags
  <1>10. LogSizes'
    <2>1. FileLines \in Nat /\ FileLines > 0 /\ logFaults \in Nat
      BY <1>6, LogNumbers
    <2>2. Len(logFiles'[0]) \in Nat
      <3>1. logFiles'[0] \in Seq(Entries \cup {Torn})
        BY <1>8, LogNumbers DEF GoodFiles, FileSets
      <3> QED BY <3>1
    <2> QED BY <1>3, <1>8, <2>1, <2>2 DEF LogSizes
  <1>11. LogPhases'
    <2>1. logRot' = NoRotation /\ ~(logRot' <= MaxBackups) /\ logRot' # 0
      BY <1>0, <1>1
    <2> QED BY <1>0, <1>8, <2>1 DEF LogPhases
  <1>12. LogDisk'
    <2>1. FileMax' = m
      BY <1>0, <1>7 DEF FileMax
    <2> QED BY <1>8, <2>1 DEF LogDisk
  <1> QED BY <1>9, <1>10, <1>11, <1>12 DEF LogState

\* The files hold nothing after a later event either.
LEMMA FilesStayGood ==
    ASSUME NEW F, NEW n \in Nat, NEW m \in Nat, n <= m, GoodFiles(F, n)
    PROVE  GoodFiles(F, m)
  <1>1. ASSUME NEW k \in 0..MaxBackups, NEW i \in 1..Len(F[k]) PROVE F[k][i].id <= m
    <2>1. F[k] \in Seq(Entries \cup {Torn})
      BY DEF FileSets, GoodFiles
    <2>2. F[k][i].id \in Nat
      BY <2>1, EntryFields DEF Torn
    <2>3. F[k][i].id <= n
      BY DEF GoodFiles, FilesBelow
    <2> QED BY <2>2, <2>3
  <1> QED BY <1>1 DEF GoodFiles, FilesBelow

\* A rotation is given up (store.go:389-416).
LEMMA FailsState ==
    ASSUME LogInv, RotateFails
    PROVE  LogState'
  <1>0. /\ LogFlags /\ LogSizes /\ LogPhases /\ LogDisk
        /\ logUp /\ logRot # NoRotation /\ logRot' = NoRotation
        /\ UNCHANGED <<logRing, logFiles, logEnds, logUp, logCount, logTorn, logWritten>>
        /\ (logOpen' = TRUE /\ logBytes' = Len(logFiles[0])) \/ UNCHANGED <<logOpen, logBytes>>
        /\ logFaults' = logFaults + 1 /\ logFaults < MaxLogFaults
    BY DEF LogInv, RotateFails, Rotating, LogFault
  <1>1. NoRotation \in Nat /\ NoRotation = MaxBackups + 2 /\ MaxBackups \in Nat
    BY LogNumbers DEF NoRotation
  <1>2. /\ GoodFiles(logFiles, FileMax) /\ FileMax \in Nat /\ logCount \in Nat /\ Len(logFiles[0]) \in Nat
        /\ logFaults \in Nat /\ logFaults' \in 0..MaxLogFaults /\ FileLines \in Nat /\ logBytes \in Nat
    BY <1>0, FilesGood, LogNumbers DEF LogFlags, LogSizes
  <1>3. LogFlags'
    <2>1. logOpen' \in BOOLEAN
      BY <1>0 DEF LogFlags
    <2> QED BY <1>0, <1>1, <1>2, <2>1 DEF LogFlags
  <1>4. LogSizes'
    <2>1. ~logOpen
      BY <1>0 DEF LogPhases
    <2>2. CASE logOpen' = TRUE /\ logBytes' = Len(logFiles[0])
      <3>1. Len(logFiles[0]) <= FileLines + logFaults
        BY <1>0 DEF LogSizes
      <3>2. PICK l, f, c : l = Len(logFiles[0]) /\ f = FileLines /\ c = logFaults
        OBVIOUS
      <3>3. l \in 0..(f + (c + 1)) /\ l <= f + (c + 1) /\ l <= l + (c + 1)
        <4>1. l \in Nat /\ f \in Nat /\ c \in Nat /\ l <= f + c
          BY <1>2, <3>1, <3>2
        <4> QED BY <4>1
      <3> QED BY <1>0, <2>2, <3>2, <3>3 DEF LogSizes
    <2>3. CASE UNCHANGED <<logOpen, logBytes>>
      BY <1>0, <1>2, <2>1, <2>3 DEF LogSizes
    <2> QED BY <1>0, <2>2, <2>3
  <1>5. LogPhases'
    <2>1. ~(logRot' <= MaxBackups) /\ logRot' # 0
      BY <1>0, <1>1
    <2> QED BY <1>0, <2>1 DEF LogPhases
  <1>6. LogDisk'
    <2>1. FileMax' = logCount /\ FileMax <= logCount
      BY <1>0, <1>2 DEF FileMax
    <2>2. GoodFiles(logFiles, logCount)
      BY <1>2, <2>1, FilesStayGood
    <2> QED BY <1>0, <2>1, <2>2 DEF LogDisk
  <1> QED BY <1>3, <1>4, <1>5, <1>6 DEF LogState

\* Clear leaves nothing, or the active file (store.go:566-598).
LEMMA ClearState ==
    ASSUME LogInv, LogClear
    PROVE  LogState'
  <1>0. /\ LogFlags /\ LogSizes /\ LogPhases /\ LogDisk
        /\ logUp /\ logRot = NoRotation /\ logWritten' = {}
        /\ UNCHANGED <<logOpen, logUp, logRot, logCount>>
    BY DEF LogInv, LogClear
  <1>1. NoRotation \in Nat /\ NoRotation = MaxBackups + 2 /\ MaxBackups \in Nat
    BY LogNumbers DEF NoRotation
  <1>2. PICK F, rest : F = logFiles /\ rest = [k \in 0..MaxBackups |-> <<>>]
    OBVIOUS
  <1>3. /\ GoodFiles(F, logCount) /\ F \in FileSets /\ 0 \in 0..MaxBackups /\ Len(F[0]) \in Nat
        /\ logFaults \in Nat /\ FileLines \in Nat /\ logBytes \in Nat
    BY <1>0, <1>2, FilesGood, LogNumbers DEF FileMax, LogFlags, LogSizes
  <1>4. ~(logRot' <= MaxBackups) /\ logRot' # 0 /\ logRot' = NoRotation /\ FileMax' = logCount
    BY <1>0, <1>1 DEF FileMax
  <1>5. CASE /\ logOpen /\ NoLogFault /\ logFiles' = rest
             /\ logBytes' = 0 /\ logEnds' = TRUE /\ logTorn' = FALSE
    <2>1. GoodFiles(rest, logCount) /\ Len(rest[0]) = 0
      BY <1>2, <1>3, FilesEmptied
    <2>2. LogFlags'
      BY <1>0, <1>5 DEF LogFlags, NoLogFault
    <2>3. LogSizes'
      BY <1>3, <1>5, <2>1 DEF LogSizes, NoLogFault
    <2>4. LogPhases'
      BY <1>0, <1>4, <1>5 DEF LogPhases
    <2>5. LogDisk'
      BY <1>0, <1>4, <1>5, <2>1 DEF LogDisk
    <2> QED BY <2>2, <2>3, <2>4, <2>5 DEF LogState
  <1>6. CASE /\ (IF logOpen THEN LogFault ELSE NoLogFault)
             /\ logFiles' = [rest EXCEPT ![0] = F[0]] /\ UNCHANGED <<logBytes, logEnds, logTorn>>
    <2>1. PICK E : E = logFiles' /\ E = [rest EXCEPT ![0] = F[0]]
      BY <1>6
    <2>2. E[0] = F[0] /\ \A k \in 0..MaxBackups : k # 0 => E[k] = <<>> /\ Len(E[k]) = 0
      BY <1>2, <1>3, <2>1
    <2>3. E \in FileSets
      <3>1. E = [k \in 0..MaxBackups |-> IF k = 0 THEN F[0] ELSE <<>>]
        BY <1>2, <1>3, <2>1
      <3>2. F[0] \in Seq(Entries \cup {Torn}) /\ <<>> \in Seq(Entries \cup {Torn})
        BY <1>3 DEF FileSets
      <3> QED BY <3>1, <3>2 DEF FileSets
    <2>4. \A k \in 0..MaxBackups : \A i \in 1..Len(E[k]) : k = 0 /\ E[k] = F[k]
      BY <2>2
    <2>5. FilesInOrder(E)
      BY <1>3, <2>4 DEF FilesInOrder, GoodFiles
    <2>6. FilesBelow(E, logCount)
      BY <1>3, <2>4 DEF FilesBelow, GoodFiles
    <2>7. logFaults' \in 0..MaxLogFaults /\ logFaults' \in Nat /\ logFaults' >= logFaults
      BY <1>0, <1>3, <1>6, LogNumbers DEF LogFault, NoLogFault, LogFlags
    <2>8. LogFlags'
      BY <1>0, <1>6, <2>7 DEF LogFlags
    <2>9. LogSizes'
      <3>1. /\ logBytes \in 0..(FileLines + logFaults) /\ Len(F[0]) <= FileLines + logFaults
            /\ logOpen => Len(F[0]) <= logBytes + logFaults
        BY <1>0, <1>2 DEF LogSizes
      <3>2. logFiles'[0] = F[0] /\ logBytes' = logBytes /\ logOpen' = logOpen
        BY <1>0, <1>6, <2>1, <2>2
      <3>3. PICK a, b, c, d, l : a = logBytes /\ b = FileLines /\ c = logFaults /\ d = logFaults' /\ l = Len(F[0])
        OBVIOUS
      <3>4. a \in 0..(b + d) /\ l <= b + d /\ (logOpen => l <= a + d)
        <4>1. a \in 0..(b + c) /\ l <= b + c /\ (logOpen => l <= a + c)
          BY <3>1, <3>3
        <4>2. a \in Nat /\ b \in Nat /\ c \in Nat /\ d \in Nat /\ l \in Nat /\ c <= d
          BY <1>3, <2>7, <3>3
        <4> QED BY <4>1, <4>2
      <3> QED BY <3>2, <3>3, <3>4 DEF LogSizes
    <2>10. LogPhases'
      BY <1>0, <1>4, <1>6 DEF LogPhases
    <2>11. LogDisk'
      BY <1>0, <1>4, <2>1, <2>3, <2>5, <2>6 DEF LogDisk, GoodFiles
    <2> QED BY <2>8, <2>9, <2>10, <2>11 DEF LogState
  <1> QED BY <1>2, <1>5, <1>6 DEF LogClear

\* The process ends, perhaps in the middle of a line (store.go:256-266).
LEMMA StopState ==
    ASSUME LogInv, LogStop
    PROVE  LogState'
  <1>0. /\ LogFlags /\ LogSizes /\ LogPhases /\ LogDisk
        /\ logUp' = FALSE /\ logOpen' = FALSE /\ logRot' = NoRotation /\ logTorn' = FALSE
        /\ UNCHANGED <<logBytes, logCount, logWritten>>
        /\ logFaults' = logFaults + 1 /\ logFaults < MaxLogFaults
    BY DEF LogInv, LogStop, LogFault
  <1>1. NoRotation \in Nat /\ NoRotation = MaxBackups + 2 /\ MaxBackups \in Nat
    BY LogNumbers DEF NoRotation
  <1>2. PICK F, n : F = logFiles /\ n = FileMax
    OBVIOUS
  <1>3. /\ GoodFiles(F, n) /\ n \in Nat /\ logCount \in Nat /\ n <= logCount /\ F \in FileSets
        /\ 0 \in 0..MaxBackups /\ Len(F[0]) \in Nat
        /\ logFaults \in Nat /\ logFaults' \in 0..MaxLogFaults /\ FileLines \in Nat /\ logBytes \in Nat
    <2>1. n <= logCount
      BY <1>2, FilesGood DEF FileMax
    <2> QED BY <1>0, <1>2, <2>1, FilesGood, LogNumbers DEF LogFlags, LogSizes
  <1>4. ~(logRot' <= MaxBackups) /\ logRot' # 0 /\ FileMax' = logCount
    BY <1>0, <1>1 DEF FileMax
  <1>5. ASSUME NEW E, E = logFiles', GoodFiles(E, logCount), OnDisk(F) \subseteq OnDisk(E),
               Len(E[0]) <= Len(F[0]) + 1, logEnds' \in BOOLEAN
        PROVE  LogState'
    <2>1. LogFlags'
      <3>1. logRot' \in 0..NoRotation
        BY <1>0, <1>1
      <3> QED BY <1>0, <1>3, <1>5, <3>1 DEF LogFlags
    <2>2. LogSizes'
      <3>1. Len(E[0]) \in Nat
        <4>1. E[0] \in Seq(Entries \cup {Torn})
          BY <1>3, <1>5 DEF GoodFiles, FileSets
        <4> QED BY <4>1
      <3>2. logBytes \in 0..(FileLines + logFaults) /\ Len(F[0]) <= FileLines + logFaults
        BY <1>0, <1>2 DEF LogSizes
      <3>3. PICK l, k, c, f : l = Len(E[0]) /\ k = Len(F[0]) /\ c = logFaults /\ f = FileLines
        OBVIOUS
      <3>4. l <= f + (c + 1) /\ logBytes \in 0..(f + (c + 1))
        BY <1>3, <1>5, <3>1, <3>2, <3>3
      <3> QED BY <1>0, <1>5, <3>3, <3>4 DEF LogSizes
    <2>3. LogPhases'
      BY <1>0, <1>4 DEF LogPhases
    <2>4. LogDisk'
      BY <1>0, <1>2, <1>4, <1>5 DEF LogDisk
    <2> QED BY <2>1, <2>2, <2>3, <2>4 DEF LogState
  <1>6. GoodFiles(F, logCount)
    BY <1>3, FilesStayGood
  <1>7. CASE UNCHANGED <<logFiles, logEnds>>
    BY <1>0, <1>2, <1>3, <1>5, <1>6, <1>7 DEF LogFlags
  <1>8. CASE logFiles' = [logFiles EXCEPT ![0] = Written(Torn, @)] /\ logEnds' = FALSE
    <2>1. CASE logEnds
      <3>1. logFiles' = [F EXCEPT ![0] = Append(F[0], Torn)]
        BY <1>2, <1>8, <2>1 DEF Written
      <3>2. PICK E : E = logFiles'
        OBVIOUS
      <3>3. NextLine(Torn, n, logCount)
        BY DEF NextLine
      <3>4. Added(E, F, Torn, logCount)
        BY <1>3, <3>1, <3>2, <3>3, LineAdded
      <3>5. GoodFiles(E, logCount) /\ Len(E[0]) <= Len(F[0]) + 1 /\ OnDisk(F) \subseteq OnDisk(E)
        BY <1>3, <3>4 DEF Added
      <3> QED BY <1>5, <1>8, <3>2, <3>5
    <2>2. CASE ~logEnds
      <3>1. logFiles' = F
        <4>1. logFiles' = [F EXCEPT ![0] = F[0]]
          BY <1>2, <1>8, <2>2 DEF Written
        <4> QED BY <1>3, <4>1 DEF FileSets
      <3>2. Len(F[0]) <= Len(F[0]) + 1
        BY <1>3
      <3> QED BY <1>5, <1>6, <1>8, <3>1, <3>2
    <2> QED BY <2>1, <2>2
  <1> QED BY <1>7, <1>8 DEF LogStop

\* The process starts again (store.go:113-141).
LEMMA StartState ==
    ASSUME LogInv, LogStart
    PROVE  LogState'
  <1>0. /\ LogFlags /\ LogSizes /\ LogPhases /\ LogDisk /\ logRot = NoRotation
        /\ logUp' = TRUE /\ logOpen' = TRUE /\ logBytes' = Len(logFiles[0]) /\ logEnds' = TRUE
        /\ UNCHANGED <<logFiles, logRot, logCount, logFaults, logTorn, logWritten>>
    BY DEF LogInv, LogStart, LogPhases, Terminated
  <1>1. NoRotation \in Nat /\ NoRotation = MaxBackups + 2 /\ MaxBackups \in Nat
    BY LogNumbers DEF NoRotation
  <1>2. Len(logFiles[0]) \in Nat /\ logFaults \in Nat /\ FileLines \in Nat
    BY <1>0, FilesGood, LogNumbers DEF LogFlags
  <1>3. LogFlags'
    BY <1>0 DEF LogFlags
  <1>4. LogSizes'
    BY <1>0, <1>2 DEF LogSizes
  <1>5. LogPhases'
    <2>1. ~(logRot' <= MaxBackups) /\ logRot' # 0 /\ logRot' = NoRotation
      BY <1>0, <1>1
    <2> QED BY <1>0, <2>1 DEF LogPhases
  <1>6. LogDisk'
    <2>1. FileMax' = FileMax
      BY <1>0 DEF FileMax
    <2> QED BY <1>0, <2>1 DEF LogDisk
  <1> QED BY <1>3, <1>4, <1>5, <1>6 DEF LogState

\* Every step of the log keeps the invariant.
LEMMA LogStep == LogInv /\ [LogNext]_logVars => LogInv'
  <1>1. ASSUME LogInv, LogNext PROVE LogState'
    <2>1. CASE ExportBegin \/ ExportBatch
      <3>1. UNCHANGED <<logRing, logFiles, logEnds, logOpen, logBytes, logUp, logRot, logCount,
                        logFaults, logTorn, logWritten>>
        BY <2>1 DEF ExportBegin, ExportBatch
      <3>2. LogFlags' /\ LogSizes' /\ LogPhases'
        BY <1>1, <3>1 DEF LogInv, LogFlags, LogSizes, LogPhases
      <3>3. LogDisk'
        BY <1>1, <3>1 DEF LogInv, LogDisk, FileMax
      <3> QED BY <3>2, <3>3 DEF LogState
    <2> QED BY <1>1, <2>1, AppendState, RemoveState, ShiftState, OpenState, FailsState, ClearState,
               StopState, StartState DEF LogNext
  <1>2. ASSUME LogInv, UNCHANGED logVars PROVE LogInv'
    BY <1>2 DEF LogInv, logVars, RingInv, ExportInv, LogFlags, LogSizes, LogPhases, LogDisk, FileMax
  <1> QED BY <1>1, <1>2, RingStep, ExportStep DEF LogInv, LogState

\* The invariant is what was wanted: types, order and what is on disk.
LEMMA LogMeans == LogInv => LogTypeOK /\ LogKeepsHistory
  <1> SUFFICES ASSUME LogInv PROVE LogTypeOK /\ LogKeepsHistory
    OBVIOUS
  <1>1. LogTypeOK
    <2>1. logRing \in Seq(Entries) /\ Len(logRing) <= LogCapacity
      BY DEF LogInv, RingInv, Chronicle
    <2>2. logNext \in 1..(MaxLogged + 1)
      BY LogNumbers DEF LogInv, RingInv
    <2>3. logFiles \in [0..MaxBackups -> Seq(Entries \cup {Torn})]
      BY FilesGood DEF FileSets
    <2>4. {logEnds, logOpen, logUp, logTorn} \subseteq BOOLEAN /\ logRot \in 0..NoRotation
      BY DEF LogInv, LogFlags
    <2>5. logBytes \in 0..(FileLines + MaxLogFaults)
      <3>1. logFaults \in 0..MaxLogFaults /\ logBytes \in 0..(FileLines + logFaults)
        BY DEF LogInv, LogFlags, LogSizes
      <3> QED BY <3>1, LogNumbers
    <2> QED BY <2>1, <2>2, <2>3, <2>4, <2>5 DEF LogTypeOK
  <1>2. LogOnDisk
    BY DEF LogInv, LogDisk, LogOnDisk, OnDisk
  <1>3. LogInOrder
    BY DEF LogInv, RingInv, LogInOrder
  <1>4. ExportGoesBack
    <2>1. PICK t, r : t = export.out /\ r = Reverse(t) /\ t \in Seq(Entries)
      BY DEF LogInv, ExportInv
    <2>2. PICK L : L = Len(t) /\ L \in Nat
      BY <2>1
    <2>3. r = [i \in 1..L |-> t[(L - i) + 1]]
      BY <2>1, <2>2 DEF Reverse
    <2>4. \A i, j \in 1..L : i < j => t[j].seq < t[i].seq /\ t[j].id < t[i].id
      BY <2>1, <2>2 DEF LogInv, ExportInv
    <2>5. ASSUME NEW i \in 1..L, NEW j \in 1..L, i < j PROVE r[i].id < r[j].id /\ r[i].seq < r[j].seq
      <3>1. PICK a, b : a = (L - i) + 1 /\ b = (L - j) + 1 /\ a \in 1..L /\ b \in 1..L /\ b < a
        BY <2>2, <2>5
      <3>2. r[i] = t[a] /\ r[j] = t[b]
        BY <2>3, <3>1
      <3> QED BY <2>4, <3>1, <3>2
    <2>6. DOMAIN r = 1..L
      BY <2>3
    <2> QED BY <2>1, <2>5, <2>6 DEF ExportGoesBack, Grows
  <1> QED BY <1>1, <1>2, <1>3, <1>4 DEF LogKeepsHistory

\* The ring, the files and the rotation stay within their bounds
\* (store.go:95-416).
THEOREM LogTypeCorrect == LogSpec => []LogTypeOK
  BY LogStarts, LogStep, LogMeans, PTL DEF LogSpec

\* The security log keeps its history: rotations, crashes in the middle of
\* them, failed writes and torn lines lose nothing that was written and not
\* removed, what is shown is in the order of the events, and exports go back in
\* time (store.go:143-193, 235-254, 358-416 and 473-564).
THEOREM LogHistoryKept == LogSpec => []LogKeepsHistory
  BY LogStarts, LogStep, LogMeans, PTL DEF LogSpec

-----------------------------------------------------------------------------
(* The samples of the telemetry history.                                   *)

Rates == [count : Nat, seconds : Int, real : Int]
Sample == [at : 1..MaxElapsed + 1, read : [Services -> Readings], size : 1..HistoryBytes,
           real : 0..MaxElapsed, blind : BOOLEAN, rate : [Services -> Rates]]

\* A list without elements is the empty one.
LEMMA NoneLeft ==
    ASSUME NEW X, NEW s \in Seq(X), Len(s) = 0
    PROVE  s = <<>>
  OBVIOUS

\* u is what is left of s from k on.
CutAt(u, s, k, X) ==
    /\ u \in Seq(X) /\ Len(u) = (Len(s) - k) + 1 /\ Len(u) \in Nat
    /\ \A i \in 1..Len(u) : u[i] = s[(k + i) - 1]

\* The end of a list, element by element.
LEMMA CutDoes ==
    ASSUME NEW X, NEW s \in Seq(X), NEW k \in 1..Len(s)
    PROVE  CutAt(SubSeq(s, k, Len(s)), s, k, X)
  BY DEF CutAt

\* A list of one element is that element appended to nothing.
LEMMA OnlyOne ==
    ASSUME NEW X, NEW u \in Seq(X), Len(u) = 1
    PROVE  u[1] \in X /\ u = Append(<<>>, u[1])
  OBVIOUS

\* Bounds, one by one.
LEMMA HistoryNumbers ==
    /\ HistoryCapacity \in Nat \ {0} /\ SampleInterval \in Nat \ {0} /\ HistoryBytes \in Nat \ {0}
    /\ MaxElapsed \in Nat /\ MaxServed \in Nat /\ MaxHistoryFaults \in Nat
  BY HistoryValues

\* What the fields of a sample are, one by one.
LEMMA SampleFields ==
    ASSUME NEW x \in Sample
    PROVE  /\ x.at \in Nat /\ x.at >= 1 /\ x.at <= MaxElapsed + 1
           /\ x.real \in Nat /\ x.real <= MaxElapsed
           /\ x.size \in Nat /\ x.size >= 1 /\ x.size <= HistoryBytes
           /\ x.read \in [Services -> Readings] /\ x.blind \in BOOLEAN
  <1>1. /\ x.at \in 1..MaxElapsed + 1 /\ x.real \in 0..MaxElapsed /\ x.size \in 1..HistoryBytes
        /\ x.read \in [Services -> Readings] /\ x.blind \in BOOLEAN
    BY DEF Sample
  <1> QED BY <1>1, HistoryNumbers

\* f are the running totals of the sizes in a list.
Weighs(f, list) ==
    /\ f \in [0..Len(list) -> Nat] /\ f[0] = 0
    /\ \A i \in 1..Len(list) : f[i] = f[i - 1] + list[i].size

\* retainedBytes is the running total of sampleBytes (history.go:339-376).
LEMMA BytesIs ==
    ASSUME NEW list \in Seq(Sample)
    PROVE  \E f : Weighs(f, list)
  <1>1. PICK N : N = Len(list) /\ N \in Nat
    OBVIOUS
  <1>2. PICK q : q = [i \in 1..N |-> list[i].size]
    OBVIOUS
  <1>3. \A i \in 1..N : q[i] = list[i].size /\ q[i] \in Nat
    BY <1>1, <1>2, SampleFields
  <1>4. PICK g : g = [i \in 1..N |-> [v \in Nat |-> v + q[i]]]
    OBVIOUS
  <1>5. Loop(N, Nat, 0, g)
    BY <1>1, <1>3, <1>4, SMTT(30) DEF Loop
  <1>6. PICK f : Arrives(f, N, Nat, 0, g)
    BY <1>5, LoopArrives
  <1>7. f \in [0..N -> Nat] /\ f[0] = 0 /\ \A i \in 1..N : f[i] = g[i][f[i - 1]]
    BY <1>6 DEF Arrives
  <1>8. ASSUME NEW i \in 1..N PROVE f[i] = f[i - 1] + list[i].size
    <2>1. i - 1 \in 0..N /\ f[i - 1] \in Nat
      BY <1>1, <1>7
    <2>2. g[i][f[i - 1]] = f[i - 1] + q[i]
      BY <1>4, <2>1
    <2> QED BY <1>3, <1>7, <2>2
  <1> QED BY <1>1, <1>7, <1>8 DEF Weighs

\* There are no other running totals.
LEMMA BytesAre ==
    ASSUME NEW list \in Seq(Sample), NEW f, Weighs(f, list)
    PROVE  Bytes(list) = f[Len(list)] /\ Bytes(list) \in Nat
  <1>1. PICK N : N = Len(list) /\ N \in Nat
    OBVIOUS
  <1> DEFINE Step(h, i) == IF i = 0 THEN 0 ELSE h[i - 1] + list[i].size
             Def(h) == h = [i \in 0..Len(list) |-> Step(h, i)]
             it == CHOOSE h : Def(h)
  <1>2. f \in [0..N -> Nat] /\ f[0] = 0 /\ \A i \in 1..N : f[i] = f[i - 1] + list[i].size
    BY <1>1 DEF Weighs
  <1>3. Def(f)
    <2>1. ASSUME NEW i \in 0..N PROVE f[i] = Step(f, i)
      <3>1. i = 0 \/ (i \in 1..N /\ i # 0)
        BY <1>1
      <3> QED BY <1>2, <3>1
    <2>2. f = [i \in 0..N |-> f[i]]
      BY <1>2
    <2>3. [i \in 0..N |-> f[i]] = [i \in 0..N |-> Step(f, i)]
      BY <2>1
    <2> HIDE DEF Step
    <2> QED BY <1>1, <2>2, <2>3
  <1>4. Def(it)
    <2> HIDE DEF Def
    <2> QED BY <1>3
  <1>5. Bytes(list) = it[N]
    BY <1>1 DEF Bytes
  <1> HIDE DEF it
  <1>6. it[N] = f[N]
    <2> DEFINE G == {i \in 0..N : it[i] = f[i]}
    <2>1. \A i \in 0..N : it[i] = Step(it, i) /\ f[i] = Step(f, i)
      <3> HIDE DEF Step
      <3> QED BY <1>1, <1>3, <1>4
    <2>2. 0 \in G
      <3>1. Step(it, 0) = Step(f, 0) /\ 0 \in 0..N
        BY <1>1
      <3> HIDE DEF Step
      <3> QED BY <2>1, <3>1
    <2>3. ASSUME NEW m \in 0..N - 1, m \in G PROVE m + 1 \in G
      <3>1. m + 1 \in 0..N /\ (m + 1) - 1 = m /\ it[m] = f[m]
        BY <1>1, <2>3
      <3>2. Step(it, m + 1) = Step(f, m + 1)
        BY <3>1
      <3> HIDE DEF Step
      <3> QED BY <2>1, <3>1, <3>2
    <2>4. \A m \in 0..N : m \in G
      <3> HIDE DEF G
      <3> QED BY <1>1, <2>2, <2>3, UptoInduction
    <2> QED BY <1>1, <2>4
  <1>7. f[N] \in Nat
    BY <1>1, <1>2
  <1> QED BY <1>1, <1>5, <1>6, <1>7

\* The bytes of a sample are added to those of the list, and an empty list has
\* none (history.go:339-376).
LEMMA BytesAdd ==
    ASSUME NEW s \in Seq(Sample), NEW x \in Sample, NEW u, u = Append(s, x)
    PROVE  Bytes(u) = Bytes(s) + x.size /\ Bytes(s) \in Nat
  <1>1. PICK f : Weighs(f, s)
    BY BytesIs
  <1>2. PICK N : N = Len(s) /\ N \in Nat
    OBVIOUS
  <1>3. Bytes(s) = f[N] /\ Bytes(s) \in Nat
    BY <1>1, <1>2, BytesAre
  <1>4. f \in [0..N -> Nat] /\ f[0] = 0 /\ \A i \in 1..N : f[i] = f[i - 1] + s[i].size
    BY <1>1, <1>2 DEF Weighs
  <1>5. u \in Seq(Sample) /\ Len(u) = N + 1 /\ u[N + 1] = x /\ \A i \in 1..N : u[i] = s[i]
    BY <1>2
  <1>6. PICK z : z = x.size /\ z \in Nat
    BY SampleFields
  <1>7. PICK h : h = [i \in 0..N + 1 |-> IF i = N + 1 THEN f[N] + z ELSE f[i]]
    OBVIOUS
  <1>8. h \in [0..N + 1 -> Nat] /\ h[0] = 0 /\ h[N + 1] = f[N] + z
    BY <1>2, <1>4, <1>6, <1>7, SMTT(30)
  <1>9. ASSUME NEW i \in 1..N + 1 PROVE h[i] = h[i - 1] + u[i].size
    <2>1. CASE i = N + 1
      <3>1. i - 1 = N /\ h[i - 1] = f[N]
        BY <1>2, <1>7, <2>1
      <3> QED BY <1>5, <1>6, <1>8, <2>1, <3>1
    <2>2. CASE i # N + 1
      <3>1. i \in 1..N /\ i - 1 \in 0..N /\ i - 1 # N + 1 /\ i \in 0..N + 1 /\ i - 1 \in 0..N + 1
        BY <1>2, <2>2
      <3>2. h[i] = f[i] /\ h[i - 1] = f[i - 1]
        BY <1>7, <2>2, <3>1
      <3> QED BY <1>4, <1>5, <3>1, <3>2
    <2> QED BY <2>1, <2>2
  <1>10. Weighs(h, u)
    BY <1>5, <1>8, <1>9 DEF Weighs
  <1>11. Bytes(u) = h[N + 1]
    BY <1>5, <1>10, BytesAre
  <1> QED BY <1>3, <1>6, <1>8, <1>11

\* An empty history holds no bytes.
LEMMA BytesNone == Bytes(<<>>) = 0
  <1>1. PICK s, f : s = <<>> /\ f = [i \in 0..0 |-> 0]
    OBVIOUS
  <1>2. s \in Seq(Sample) /\ Len(s) = 0
    BY <1>1
  <1>3. f \in [0..0 -> Nat] /\ f[0] = 0
    BY <1>1
  <1>4. Weighs(f, s)
    BY <1>2, <1>3 DEF Weighs
  <1>5. Bytes(s) = f[Len(s)]
    BY <1>2, <1>4, BytesAre
  <1> QED BY <1>1, <1>2, <1>3, <1>5

\* Dropping samples frees bytes (history.go:307-337).
LEMMA BytesOnly ==
    ASSUME NEW s \in Seq(Sample), NEW S
    PROVE  Bytes(Only(s, S)) <= Bytes(s) /\ Bytes(Only(s, S)) \in Nat /\ Bytes(s) \in Nat
  <1>1. PICK f : Filters(f, s, S, Sample) /\ Only(s, S) = f[Len(s)]
    BY OnlyIs
  <1>2. PICK w : Weighs(w, s)
    BY BytesIs
  <1>3. PICK N : N = Len(s) /\ N \in Nat
    OBVIOUS
  <1>4. /\ f \in [0..N -> Seq(Sample)] /\ f[0] = <<>>
        /\ \A i \in 1..N : f[i] = IF s[i] \in S THEN Append(f[i - 1], s[i]) ELSE f[i - 1]
    BY <1>1, <1>3 DEF Filters
  <1>5. w \in [0..N -> Nat] /\ w[0] = 0 /\ \A i \in 1..N : w[i] = w[i - 1] + s[i].size
    BY <1>2, <1>3 DEF Weighs
  <1>6. Bytes(s) = w[N] /\ Bytes(s) \in Nat
    BY <1>2, <1>3, BytesAre
  <1> DEFINE G == {n \in 0..N : Bytes(f[n]) \in Nat /\ Bytes(f[n]) <= w[n]}
  <1>7. 0 \in G
    BY <1>3, <1>4, <1>5, BytesNone
  <1>8. ASSUME NEW n \in 0..N - 1, n \in G PROVE n + 1 \in G
    <2>1. n + 1 \in 1..N /\ n \in 0..N /\ n + 1 \in 0..N /\ (n + 1) - 1 = n
      BY <1>3
    <2>2. PICK t, x : t = f[n] /\ t \in Seq(Sample) /\ x = s[n + 1] /\ x \in Sample
      BY <1>3, <1>4, <2>1
    <2>3. PICK u : u = Append(t, x)
      OBVIOUS
    <2>4. Bytes(u) = Bytes(t) + x.size
      BY <2>2, <2>3, BytesAdd
    <2>5. f[n + 1] = IF x \in S THEN u ELSE t
      BY <1>4, <2>1, <2>2, <2>3
    <2>6. w[n + 1] = w[n] + x.size /\ w[n] \in Nat
      BY <1>5, <2>1, <2>2
    <2>7. x.size \in Nat
      BY <2>2, SampleFields
    <2>8. Bytes(t) \in Nat /\ Bytes(t) <= w[n]
      BY <1>8, <2>2
    <2>9. f[n + 1] = u \/ f[n + 1] = t
      BY <2>5
    <2>10. Bytes(f[n + 1]) \in Nat /\ Bytes(f[n + 1]) <= w[n + 1]
      <3>1. CASE f[n + 1] = u
        BY <2>4, <2>6, <2>7, <2>8, <3>1
      <3>2. CASE f[n + 1] = t
        BY <2>6, <2>7, <2>8, <3>2
      <3> QED BY <2>9, <3>1, <3>2
    <2> QED BY <2>1, <2>10
  <1>9. \A n \in 0..N : n \in G
    <2> HIDE DEF G
    <2> QED BY <1>3, <1>7, <1>8, UptoInduction
  <1>10. Bytes(f[N]) \in Nat /\ Bytes(f[N]) <= w[N]
    BY <1>3, <1>9
  <1> QED BY <1>1, <1>3, <1>6, <1>10

\* u is the end of s and fits.
FitEnd(u, s) == EndOf(u, s, HistoryCapacity, Sample) /\ Bytes(u) <= HistoryBytes

\* appendPointLocked: the list keeps its end, with the new sample in it, within
\* its capacity and its bytes (history.go:339-376).
LEMMA AppendPointDoes ==
    ASSUME NEW v \in Seq(Sample), NEW x, NEW y \in Sample,
           y = [x EXCEPT !.size = IF @ > HistoryBytes THEN 1 ELSE @]
    PROVE  FitEnd(AppendPoint(v, x), Append(v, y))
  <1>1. PICK all, L : all = Append(v, y) /\ L = Len(all)
    OBVIOUS
  <1>2. all \in Seq(Sample) /\ L \in Nat /\ L >= 1 /\ all # <<>>
    BY <1>1
  <1> DEFINE From(k) == SubSeq(all, k, L)
             Begins(k) == Fits(From(k)) /\ \A j \in 1..k - 1 : ~Fits(From(j))
             k0 == CHOOSE k \in 1..L + 1 : Begins(k)
  <1>3. AppendPoint(v, x) = From(k0)
    BY <1>1 DEF AppendPoint
  <1>4. Fits(From(L))
    <2>1. PICK e, u : e = <<>> /\ u = From(L)
      OBVIOUS
    <2>2. e \in Seq(Sample)
      BY <2>1
    <2>3. CutAt(u, all, L, Sample)
      <3>1. L \in 1..Len(all) /\ u = SubSeq(all, L, Len(all))
        BY <1>1, <1>2, <2>1
      <3> QED BY <1>2, <3>1, CutDoes
    <2>4. u \in Seq(Sample) /\ Len(u) = 1
      BY <1>1, <1>2, <2>3 DEF CutAt
    <2>5. PICK z : z = u[1]
      OBVIOUS
    <2>6. z \in Sample /\ u = Append(e, z)
      BY <2>1, <2>4, <2>5, OnlyOne
    <2>7. Bytes(u) = Bytes(e) + z.size
      BY <2>2, <2>6, BytesAdd
    <2>8. Bytes(u) <= HistoryBytes
      BY <2>1, <2>6, <2>7, BytesNone, SampleFields
    <2>9. Len(u) <= HistoryCapacity
      BY <2>4, HistoryNumbers
    <2> QED BY <2>1, <2>8, <2>9 DEF Fits
  <1> HIDE DEF From
  <1>5. \E k \in 1..L + 1 : Begins(k)
    <2> DEFINE T == {k \in 1..L + 1 : Fits(From(k))}
    <2>1. T \in SUBSET Nat /\ L \in T
      BY <1>2, <1>4
    <2>2. PICK k \in T : \A j \in T : k <= j
      <3> HIDE DEF T
      <3> QED BY <2>1, LeastNat
    <2>3. \A j \in 1..k - 1 : j \in 1..L + 1 /\ ~(k <= j)
      BY <1>2, <2>2
    <2>4. k \in 1..L + 1 /\ Begins(k)
      BY <2>2, <2>3
    <2> QED BY <2>4
  <1>6. k0 \in 1..L + 1 /\ Begins(k0)
    <2> HIDE DEF Begins
    <2> QED BY <1>5
  <1>7. PICK k : k = k0
    OBVIOUS
  <1> HIDE DEF k0
  <1>8. k \in 1..L
    <2>1. k \in 1..L + 1 /\ \A j \in 1..k - 1 : ~Fits(From(j))
      BY <1>6, <1>7
    <2>2. k # L + 1
      <3>1. SUFFICES ASSUME k = L + 1 PROVE FALSE
        OBVIOUS
      <3>2. L \in 1..k - 1
        BY <1>2, <3>1
      <3> QED BY <1>4, <2>1, <3>2
    <2> QED BY <1>2, <2>1, <2>2
  <1>9. PICK u : u = From(k)
    OBVIOUS
  <1>10. Len(u) <= HistoryCapacity /\ Bytes(u) <= HistoryBytes
    BY <1>6, <1>7, <1>9 DEF Fits
  <1>11. /\ u \in Seq(Sample) /\ Len(u) = (L - k) + 1
         /\ \A i \in 1..Len(u) : u[i] = all[(k + i) - 1]
    <2>1. u = SubSeq(all, k, Len(all)) /\ k \in 1..Len(all)
      BY <1>1, <1>8, <1>9 DEF From
    <2>2. CutAt(u, all, k, Sample)
      BY <1>2, <2>1, CutDoes
    <2> QED BY <1>1, <2>2 DEF CutAt
  <1>12. PICK d : d = k - 1
    OBVIOUS
  <1>16. d \in Nat /\ L = d + Len(u) /\ \A i \in 1..Len(u) : (k + i) - 1 = d + i
    BY <1>2, <1>8, <1>11, <1>12
  <1>13. \E b \in Nat : Len(all) = b + Len(u) /\ \A i \in 1..Len(u) : u[i] = all[b + i]
    BY <1>1, <1>11, <1>16
  <1>14. u # <<>>
    BY <1>2, <1>8, <1>11
  <1>15. EndOf(u, all, HistoryCapacity, Sample)
    BY <1>10, <1>11, <1>13, <1>14 DEF EndOf
  <1> QED BY <1>1, <1>3, <1>7, <1>9, <1>10, <1>15 DEF FitEnd

\* A sample that was retained fits as it is.
LEMMA RetainedFits ==
    ASSUME NEW x \in Sample
    PROVE  x = [x EXCEPT !.size = IF @ > HistoryBytes THEN 1 ELSE @]
  <1>1. x.size <= HistoryBytes /\ x.size \in Nat /\ HistoryBytes \in Nat
    BY SampleFields, HistoryNumbers
  <1>2. ~(x.size > HistoryBytes)
    BY <1>1
  <1>3. [x EXCEPT !.size = IF @ > HistoryBytes THEN 1 ELSE @] = [x EXCEPT !.size = x.size]
    BY <1>2
  <1>4. [x EXCEPT !.size = x.size] = x
    BY DEF Sample
  <1> QED BY <1>3, <1>4

\* f is the loop of load over the samples it accepts.
Loads(f, past) ==
    /\ f \in [0..Len(past) -> Seq(Sample)] /\ f[0] = <<>>
    /\ \A i \in 1..Len(past) : f[i] = AppendPoint(f[i - 1], past[i])

\* load appends sample after sample (history.go:408-490).
LEMMA LoadedIs ==
    ASSUME NEW past \in Seq(Sample), past = NotAfter(historyFile, wall)
    PROVE  \E f : Loads(f, past) /\ Loaded = f[Len(past)]
  <1>1. PICK V, N, z : V = Seq(Sample) /\ N = Len(past) /\ z = <<>>
    OBVIOUS
  <1> DEFINE g == [i \in 1..N |-> [v \in V |-> AppendPoint(v, past[i])]]
  <1>2. N \in Nat /\ Loop(N, V, z, g)
    <2>1. ASSUME NEW i \in 1..N, NEW v \in V PROVE AppendPoint(v, past[i]) \in V
      <3>1. PICK x : x = past[i] /\ x \in Sample
        BY <1>1, <2>1
      <3>2. FitEnd(AppendPoint(v, x), Append(v, x))
        BY <1>1, <3>1, AppendPointDoes, RetainedFits
      <3> QED BY <1>1, <3>1, <3>2 DEF FitEnd, EndOf
    <2>2. N \in Nat /\ z \in V
      BY <1>1
    <2> QED BY <2>1, <2>2 DEF Loop
  <1>3. PICK f \in [0..N -> V] : f[0] = z /\ \A i \in 1..N : f[i] = g[i][f[i - 1]]
    <2> HIDE DEF g
    <2>1. PICK f : Arrives(f, N, V, z, g)
      BY <1>2, LoopArrives
    <2> QED BY <2>1 DEF Arrives
  <1>4. ASSUME NEW i \in 1..N
        PROVE  f[i] = AppendPoint(f[i - 1], past[i])
    <2>1. i - 1 \in 0..N
      BY <1>2
    <2>2. f[i - 1] \in V
      BY <1>3, <2>1
    <2> QED BY <1>3, <2>2
  <1>5. Loads(f, past)
    BY <1>1, <1>3, <1>4 DEF Loads
  <1> DEFINE Step(h, i) == IF i = 0 THEN <<>> ELSE AppendPoint(h[i - 1], past[i])
             Def(h) == h = [i \in 0..Len(past) |-> Step(h, i)]
             it == CHOOSE h : Def(h)
  <1>6. Def(f)
    <2>1. ASSUME NEW i \in 0..N PROVE f[i] = Step(f, i)
      <3>1. i = 0 \/ i \in 1..N
        BY <1>2
      <3> QED BY <1>1, <1>3, <1>4, <3>1
    <2>2. f = [i \in 0..N |-> f[i]]
      BY <1>3
    <2>3. [i \in 0..N |-> f[i]] = [i \in 0..N |-> Step(f, i)]
      BY <2>1
    <2> HIDE DEF Step
    <2> QED BY <1>1, <2>2, <2>3
  <1>7. Def(it)
    <2> HIDE DEF Def
    <2> QED BY <1>6
  <1>8. Loaded = it[N]
    BY <1>1 DEF Loaded
  <1> HIDE DEF it
  <1>9. it[N] = f[N]
    <2> DEFINE G == {i \in 0..N : it[i] = f[i]}
    <2>1. \A i \in 0..N : it[i] = Step(it, i) /\ f[i] = Step(f, i)
      <3> HIDE DEF Step
      <3> QED BY <1>1, <1>6, <1>7
    <2>2. 0 \in G
      <3>1. Step(it, 0) = Step(f, 0) /\ 0 \in 0..N
        BY <1>2
      <3> HIDE DEF Step
      <3> QED BY <2>1, <3>1
    <2>3. ASSUME NEW n \in 0..N - 1, n \in G PROVE n + 1 \in G
      <3>1. n + 1 \in 0..N /\ (n + 1) - 1 = n /\ n + 1 # 0
        BY <1>2
      <3>2. Step(it, n + 1) = Step(f, n + 1)
        BY <2>3, <3>1
      <3> HIDE DEF Step
      <3> QED BY <2>1, <3>1, <3>2
    <2> HIDE DEF G
    <2>4. \A n \in 0..N : n \in G
      BY <1>2, <2>2, <2>3, UptoInduction
    <2> QED BY <1>2, <2>4 DEF G
  <1> QED BY <1>1, <1>5, <1>8, <1>9

\* u is the end of the first n elements of s, and fits.
EndUpTo(u, s, n) ==
    /\ u \in Seq(Sample) /\ Len(u) <= HistoryCapacity /\ Bytes(u) <= HistoryBytes
    /\ n > 0 => Len(u) > 0
    /\ \E d \in Nat : n = d + Len(u) /\ \A i \in 1..Len(u) : u[i] = s[d + i]

\* A restart restores the newest samples of the file that are not from the
\* future (history.go:408-490).
LEMMA LoadedDoes ==
    ASSUME NEW past \in Seq(Sample), past = NotAfter(historyFile, wall)
    PROVE  FitEnd(Loaded, past)
  <1>1. PICK f : Loads(f, past) /\ Loaded = f[Len(past)]
    BY LoadedIs
  <1>2. PICK N : N = Len(past) /\ N \in Nat
    OBVIOUS
  <1>3. /\ f \in [0..N -> Seq(Sample)] /\ f[0] = <<>>
        /\ \A i \in 1..N : f[i] = AppendPoint(f[i - 1], past[i])
    BY <1>1, <1>2 DEF Loads
  <1> DEFINE G == {n \in 0..N : EndUpTo(f[n], past, n)}
  <1>4. 0 \in G
    <2>1. PICK u : u = f[0]
      OBVIOUS
    <2>2. u \in Seq(Sample) /\ Len(u) = 0 /\ u = <<>>
      BY <1>3, <2>1
    <2>3. Bytes(u) <= HistoryBytes
      BY <2>2, BytesNone, HistoryNumbers
    <2>4. Len(u) <= HistoryCapacity
      BY <2>2, HistoryNumbers
    <2>5. \E d \in Nat : 0 = d + Len(u) /\ \A i \in 1..Len(u) : u[i] = past[d + i]
      BY <2>2
    <2>6. EndUpTo(u, past, 0)
      BY <2>2, <2>3, <2>4, <2>5 DEF EndUpTo
    <2> QED BY <1>2, <2>1, <2>6
  <1>5. ASSUME NEW n \in 0..N - 1, n \in G PROVE n + 1 \in G
    <2>1. n + 1 \in 1..N /\ n \in 0..N /\ n + 1 \in 0..N /\ (n + 1) - 1 = n
      BY <1>2
    <2>2. PICK t, x, u : /\ t = f[n] /\ t \in Seq(Sample) /\ x = past[n + 1] /\ x \in Sample
                         /\ u = AppendPoint(t, x)
      BY <1>2, <1>3, <2>1
    <2>3. f[n + 1] = u
      BY <1>3, <2>1, <2>2
    <2>4. PICK s : s = Append(t, x)
      OBVIOUS
    <2>5. FitEnd(u, s)
      BY <2>2, <2>4, AppendPointDoes, RetainedFits
    <2>6. PICK m : m = Len(t) /\ m \in Nat
      BY <2>2
    <2>7. s \in Seq(Sample) /\ Len(s) = m + 1 /\ s[m + 1] = x /\ \A i \in 1..m : s[i] = t[i]
      BY <2>2, <2>4, <2>6
    <2>8. EndUpTo(t, past, n)
      BY <1>5, <2>2
    <2>9. PICK d \in Nat : n = d + m /\ \A i \in 1..m : t[i] = past[d + i]
      BY <2>6, <2>8 DEF EndUpTo
    <2>10. /\ u \in Seq(Sample) /\ Len(u) <= HistoryCapacity /\ Bytes(u) <= HistoryBytes
           /\ (s # <<>> => u # <<>>)
           /\ \E b \in Nat : Len(s) = b + Len(u) /\ \A i \in 1..Len(u) : u[i] = s[b + i]
      BY <2>5 DEF FitEnd, EndOf
    <2>11. PICK b \in Nat : Len(s) = b + Len(u) /\ \A i \in 1..Len(u) : u[i] = s[b + i]
      BY <2>10
    <2>12. PICK l : l = Len(u) /\ l \in Nat
      BY <2>10
    <2>13. l > 0
      BY <2>6, <2>7, <2>10, <2>12
    <2>14. \A i \in 1..l : u[i] = past[(d + b) + i]
      <3> SUFFICES ASSUME NEW i \in 1..l PROVE u[i] = past[(d + b) + i]
        OBVIOUS
      <3>1. PICK j : j = b + i /\ j \in 1..m + 1 /\ u[i] = s[j]
        BY <2>6, <2>7, <2>11, <2>12
      <3>2. d + j = (d + b) + i
        BY <2>6, <3>1
      <3>3. CASE j = m + 1
        <4>0. n = d + m /\ m \in Nat /\ n \in Nat
          BY <1>2, <2>6, <2>9
        <4>1. (d + b) + i = n + 1
          <5>1. d + j = n + 1
            BY <3>3, <4>0
          <5> QED BY <3>2, <5>1
        <4>2. u[i] = x
          BY <2>7, <3>1, <3>3
        <4> QED BY <2>2, <4>1, <4>2
      <3>4. CASE j \in 1..m
        BY <2>7, <2>9, <3>1, <3>2, <3>4
      <3> QED BY <2>6, <3>1, <3>3, <3>4
    <2>15. d + b \in Nat /\ n + 1 = (d + b) + l
      BY <2>6, <2>7, <2>9, <2>11, <2>12, SMTT(30)
    <2>16. EndUpTo(u, past, n + 1)
      BY <2>10, <2>12, <2>13, <2>14, <2>15 DEF EndUpTo
    <2> QED BY <2>1, <2>3, <2>16
  <1>6. N \in G
    <2> HIDE DEF G
    <2>1. \A n \in 0..N : n \in G
      BY <1>2, <1>4, <1>5, UptoInduction
    <2> QED BY <1>2, <2>1
  <1>7. PICK u : u = f[N] /\ EndUpTo(u, past, N)
    BY <1>6
  <1>8. past # <<>> => N > 0
    BY <1>2
  <1>9. Len(u) > 0 => u # <<>>
    OBVIOUS
  <1>10. EndOf(u, past, HistoryCapacity, Sample)
    BY <1>2, <1>7, <1>8, <1>9 DEF EndOf, EndUpTo
  <1> QED BY <1>1, <1>2, <1>7, <1>10 DEF FitEnd, EndUpTo

-----------------------------------------------------------------------------
(* What a list of samples says.                                            *)

\* The rate of one service in a sample is honest, as in HistoryIsHonest.
HonestRate(x, v) ==
    x.rate[v] # NoRate =>
       /\ x.read[v] # Unread
       /\ x.rate[v].count \in 0..x.read[v].requests
       /\ x.blind \/ x.rate[v].seconds = x.rate[v].real

\* The samples of a list are in order; the clock was never less ahead of the
\* time that has really passed than now, and no sample is of later than now.
Ordered(list) ==
    \A i, j \in 1..Len(list) : i < j => list[i].at < list[j].at /\ list[i].real < list[j].real
Dated(x, skew, now) == x.at - x.real >= skew /\ x.real <= now /\ \A v \in Services : HonestRate(x, v)
Truthful(list, skew, now) ==
    /\ list \in Seq(Sample) /\ Ordered(list)
    /\ \A i \in 1..Len(list) : Dated(list[i], skew, now)

\* Part of an honest list, in its order, is honest (history.go:307-337).
LEMMA HonestPart ==
    ASSUME NEW s, NEW skew, NEW now, Truthful(s, skew, now),
           NEW t \in Seq(Sample), NEW at \in [1..Len(t) -> 1..Len(s)],
           \A i \in 1..Len(t) : t[i] = s[at[i]],
           \A i, j \in 1..Len(t) : i < j => at[i] < at[j]
    PROVE  Truthful(t, skew, now)
  <1>1. ASSUME NEW i \in 1..Len(t) PROVE Dated(t[i], skew, now)
    BY DEF Truthful
  <1>2. ASSUME NEW i \in 1..Len(t), NEW j \in 1..Len(t), i < j
        PROVE  t[i].at < t[j].at /\ t[i].real < t[j].real
    <2>1. PICK a, b : a = at[i] /\ b = at[j] /\ a \in 1..Len(s) /\ b \in 1..Len(s) /\ a < b
      BY <1>2
    <2>2. s[a].at < s[b].at /\ s[a].real < s[b].real
      BY <2>1 DEF Truthful, Ordered
    <2> QED BY <2>1, <2>2
  <1> QED BY <1>1, <1>2 DEF Truthful, Ordered

\* The end of an honest list is honest and ends with the same sample.
LEMMA HonestEnd ==
    ASSUME NEW s, NEW skew, NEW now, Truthful(s, skew, now), NEW u, FitEnd(u, s)
    PROVE  Truthful(u, skew, now) /\ Fits(u) /\ (s # <<>> => u # <<>> /\ u[Len(u)] = s[Len(s)])
           /\ (s = <<>> => u = <<>>)
  <1>1. PICK d \in Nat : Len(s) = d + Len(u) /\ \A i \in 1..Len(u) : u[i] = s[d + i]
    BY DEF FitEnd, EndOf
  <1>2. u \in Seq(Sample) /\ s \in Seq(Sample) /\ Len(u) <= HistoryCapacity /\ Bytes(u) <= HistoryBytes
        /\ (s # <<>> => u # <<>>)
    BY DEF FitEnd, EndOf, Truthful
  <1>3. PICK l, n : l = Len(u) /\ n = Len(s) /\ l \in Nat /\ n \in Nat /\ n = d + l
    BY <1>1, <1>2
  <1>4. PICK at : at = [i \in 1..l |-> d + i]
    OBVIOUS
  <1>5. at \in [1..l -> 1..n]
    BY <1>3, <1>4
  <1>6. \A i, j \in 1..l : i < j => at[i] < at[j]
    BY <1>3, <1>4
  <1>7. \A i \in 1..l : u[i] = s[at[i]]
    BY <1>1, <1>3, <1>4
  <1>8. Truthful(u, skew, now)
    BY <1>2, <1>3, <1>5, <1>6, <1>7, HonestPart
  <1>9. ASSUME s # <<>> PROVE u # <<>> /\ u[Len(u)] = s[Len(s)]
    <2>1. u # <<>> /\ l \in 1..l
      BY <1>2, <1>3, <1>9
    <2> QED BY <1>1, <1>3, <2>1
  <1>10. ASSUME s = <<>> PROVE u = <<>>
    <2>1. n = 0
      BY <1>3, <1>10
    <2>2. l = 0
      BY <1>3, <2>1
    <2> QED BY <1>2, <1>3, <2>2, NoneLeft
  <1> QED BY <1>2, <1>8, <1>9, <1>10 DEF Fits

\* What is left after samples from the future were dropped is honest, fits and
\* is not from the future (history.go:307-337).
LEMMA NotAfterDoes ==
    ASSUME NEW s, NEW skew, NEW now, Truthful(s, skew, now), NEW t \in Nat
    PROVE  /\ Truthful(NotAfter(s, t), skew, now)
           /\ \A i \in 1..Len(NotAfter(s, t)) : NotAfter(s, t)[i].at <= t
           /\ Fits(s) => Fits(NotAfter(s, t))
  <1>1. PICK S, u : S = {x \in Range(s) : x.at <= t} /\ u = Only(s, S) /\ u = NotAfter(s, t)
    BY DEF NotAfter
  <1>2. s \in Seq(Sample)
    BY DEF Truthful
  <1>3. u \in Seq(Sample) /\ \E at : Embeds(u, s, S, Len(s), at)
    BY <1>1, <1>2, OnlyDoes
  <1>4. PICK at : Embeds(u, s, S, Len(s), at)
    BY <1>3
  <1>5. /\ at \in [1..Len(u) -> 1..Len(s)]
        /\ \A i \in 1..Len(u) : u[i] = s[at[i]] /\ u[i] \in S
        /\ \A i, j \in 1..Len(u) : i < j => at[i] < at[j]
    BY <1>4 DEF Embeds
  <1>6. Truthful(u, skew, now)
    BY <1>3, <1>5, HonestPart
  <1>7. \A i \in 1..Len(u) : u[i].at <= t
    BY <1>1, <1>5
  <1>8. ASSUME Fits(s) PROVE Fits(u)
    <2>1. Bytes(u) <= Bytes(s) /\ Bytes(u) \in Nat /\ Bytes(s) \in Nat
      BY <1>1, <1>2, BytesOnly
    <2>2. Len(u) <= Len(s)
      <3>0. PICK l, n : l = Len(u) /\ n = Len(s)
        OBVIOUS
      <3>1. l = Len(u) /\ n = Len(s) /\ l \in Nat /\ n \in Nat
        BY <1>2, <1>3, <3>0
      <3>2. at \in [1..l -> 1..n] /\ \A i, j \in 1..l : i < j => at[i] < at[j]
        BY <1>5, <3>1
      <3> DEFINE G == {i \in 0..l : i > 0 => at[i] >= i}
      <3>3. 0 \in G
        BY <3>1
      <3>4. ASSUME NEW i \in 0..l - 1, i \in G PROVE i + 1 \in G
        <4>1. i + 1 \in 1..l /\ i + 1 \in 0..l
          BY <3>1
        <4>2. at[i + 1] \in 1..n
          BY <3>2, <4>1
        <4>3. CASE i = 0
          BY <4>1, <4>2, <4>3
        <4>4. CASE i # 0
          <5>1. i \in 1..l /\ at[i] \in 1..n /\ at[i] < at[i + 1] /\ at[i] >= i
            BY <3>1, <3>2, <3>4, <4>1, <4>4
          <5>2. at[i + 1] >= i + 1
            BY <4>2, <5>1
          <5> QED BY <4>1, <5>2
        <4> QED BY <4>3, <4>4
      <3>5. \A i \in 0..l : i \in G
        <4> HIDE DEF G
        <4> QED BY <3>1, <3>3, <3>4, UptoInduction
      <3>6. l > 0 => at[l] >= l /\ at[l] \in 1..n
        BY <3>1, <3>2, <3>5
      <3> QED BY <3>1, <3>6
    <2>3. Len(u) \in Nat /\ Len(s) \in Nat
      BY <1>2, <1>3
    <2> QED BY <1>8, <2>1, <2>2, <2>3, HistoryNumbers DEF Fits
  <1> QED BY <1>1, <1>6, <1>7, <1>8

-----------------------------------------------------------------------------
(* The inductive invariant of the telemetry history.                       *)

HistoryClock ==
    /\ wall \in Nat /\ elapsed \in Nat /\ wall >= 1
    /\ elapsed <= MaxElapsed /\ wall <= elapsed + 1
HistoryCounters ==
    /\ counter \in [Services -> Readings] /\ historyFaults \in 0..MaxHistoryFaults
    /\ \A v \in Services : counter[v].inst <= historyFaults + 1
HistoryFlags == rateGapPending \in BOOLEAN /\ seeded \in BOOLEAN /\ blind \in BOOLEAN
HistoryLists == Truthful(samples, wall - elapsed, elapsed) /\ Fits(samples) /\ lastObserved = NewestTime(samples)
HistoryOnFile == Truthful(historyFile, wall - elapsed, elapsed)

\* The clock has not been set back since the newest sample, unless something
\* says so.
InStep(list, skew) == list # <<>> => list[Len(list)].at - list[Len(list)].real = skew
HistorySteps == ~blind /\ ~rateGapPending => InStep(samples, wall - elapsed)

HistoryInv == /\ HistoryClock /\ HistoryCounters /\ HistoryFlags
              /\ HistoryLists /\ HistoryOnFile /\ HistorySteps

\* Nothing has been sampled at first.
LEMMA HonestNone ==
    ASSUME NEW skew, NEW now
    PROVE  Truthful(<<>>, skew, now)
  BY DEF Truthful, Ordered

\* The history starts empty (history.go:158-167).
LEMMA HistoryStarts == HistoryInit => HistoryInv
  <1> SUFFICES ASSUME HistoryInit PROVE HistoryInv
    OBVIOUS
  <1>0. HistoryClock
    BY HistoryNumbers DEF HistoryInit, HistoryClock
  <1>1. HistoryFlags
    BY Zenon DEF HistoryInit, HistoryFlags
  <1>2. HistoryCounters
    <2>1. [inst |-> 1, requests |-> 0] \in Readings
      BY HistoryNumbers DEF Readings
    <2>2. counter = [v \in Services |-> [inst |-> 1, requests |-> 0]] /\ historyFaults = 0
      BY DEF HistoryInit
    <2>3. \A v \in Services : counter[v].inst = 1
      BY <2>2
    <2>4. counter \in [Services -> Readings]
      BY <2>1, <2>2
    <2>5. historyFaults \in 0..MaxHistoryFaults
      BY <2>2, HistoryNumbers
    <2> QED BY <2>2, <2>3, <2>4, <2>5 DEF HistoryCounters
  <1>3. samples = <<>> /\ historyFile = <<>> /\ lastObserved = ZeroTime
    BY DEF HistoryInit
  <1>4. HistoryLists
    <2>1. Len(samples) = 0 /\ Bytes(samples) = 0
      BY <1>3, BytesNone
    <2> QED BY <1>3, <2>1, HonestNone, HistoryNumbers DEF HistoryLists, Fits, NewestTime
  <1>5. HistoryOnFile
    BY <1>3, HonestNone DEF HistoryOnFile
  <1>6. HistorySteps
    BY <1>3 DEF HistorySteps, InStep
  <1> QED BY <1>0, <1>1, <1>2, <1>4, <1>5, <1>6 DEF HistoryInv

\* A list stays honest as time passes and the clock is set back.
LEMMA HonestLater ==
    ASSUME NEW s, NEW skew \in Int, NEW now \in Nat, Truthful(s, skew, now),
           NEW skew2 \in Int, NEW now2 \in Nat, skew2 <= skew, now <= now2
    PROVE  Truthful(s, skew2, now2)
  <1>1. s \in Seq(Sample) /\ Ordered(s)
    BY DEF Truthful
  <1>2. ASSUME NEW i \in 1..Len(s) PROVE Dated(s[i], skew2, now2)
    <2>1. PICK x : x = s[i] /\ x \in Sample
      BY <1>1
    <2>2. PICK a, r : a = x.at /\ r = x.real
      OBVIOUS
    <2>3. a \in Nat /\ r \in Nat
      BY <2>1, <2>2, SampleFields
    <2>4. Dated(x, skew, now)
      BY <2>1 DEF Truthful
    <2>5. a - r >= skew /\ r <= now
      BY <2>2, <2>4 DEF Dated
    <2>6. a - r >= skew2 /\ r <= now2
      BY <2>3, <2>5
    <2> QED BY <2>1, <2>2, <2>4, <2>6 DEF Dated
  <1> QED BY <1>1, <1>2 DEF Truthful

\* The newest sample of a list, if there is one.
LEMMA NewestIs ==
    ASSUME NEW s, NEW skew, NEW now, Truthful(s, skew, now), s # <<>>
    PROVE  /\ s[Len(s)] \in Sample /\ NewestTime(s) = s[Len(s)].at /\ NewestTime(s) # ZeroTime
           /\ Dated(s[Len(s)], skew, now)
           /\ \A i \in 1..Len(s) : s[i] = s[Len(s)] \/ s[i].at < s[Len(s)].at
  <1>1. s \in Seq(Sample) /\ Len(s) \in Nat /\ Len(s) # 0
    <2>1. s \in Seq(Sample)
      BY DEF Truthful
    <2> QED BY <2>1, NoneLeft
  <1>2. PICK n : n = Len(s) /\ n \in 1..Len(s)
    BY <1>1
  <1>3. s[n] \in Sample
    BY <1>1, <1>2
  <1>4. s[n].at >= 1 /\ s[n].at \in Nat
    BY <1>3, SampleFields
  <1>5. NewestTime(s) = s[n].at /\ NewestTime(s) # ZeroTime
    BY <1>2, <1>4 DEF NewestTime, ZeroTime
  <1>6. Dated(s[n], skew, now)
    BY <1>2 DEF Truthful
  <1>7. \A i \in 1..n : i < n \/ i = n
    BY <1>1, <1>2
  <1>8. \A i \in 1..n : s[i] = s[n] \/ s[i].at < s[n].at
    BY <1>2, <1>7 DEF Truthful, Ordered
  <1> QED BY <1>2, <1>3, <1>5, <1>6, <1>8

\* What a look at the clock leaves, and what it compares it with.
Looked(list, since) ==
    /\ Truthful(list, wall - elapsed, elapsed) /\ Fits(list) /\ since = NewestTime(list)
    /\ list # <<>> => NewestTime(list) <= wall

\* A look at the clock drops the samples from the future
\* (history.go:181-200 and 307-337).
LEMMA KeptDoes == HistoryInv => Looked(Kept, Since) /\ (~RolledBack => Kept = samples)
  <1> SUFFICES ASSUME HistoryInv PROVE Looked(Kept, Since) /\ (~RolledBack => Kept = samples)
    OBVIOUS
  <1>1. Truthful(samples, wall - elapsed, elapsed) /\ Fits(samples) /\ lastObserved = NewestTime(samples)
    BY DEF HistoryInv, HistoryLists
  <1>2. wall \in Nat
    BY DEF HistoryInv, HistoryClock
  <1>3. CASE RolledBack
    <2>1. PICK k : k = NotAfter(samples, wall)
      OBVIOUS
    <2>2. Kept = k /\ Since = NewestTime(k)
      BY <1>3, <2>1 DEF Kept, Since
    <2>3. Truthful(k, wall - elapsed, elapsed) /\ Fits(k) /\ \A i \in 1..Len(k) : k[i].at <= wall
      BY <1>1, <1>2, <2>1, NotAfterDoes
    <2>4. ASSUME k # <<>> PROVE NewestTime(k) <= wall
      <3>1. NewestTime(k) = k[Len(k)].at
        BY <2>4 DEF NewestTime
      <3>2. k \in Seq(Sample)
        BY <2>3 DEF Truthful
      <3>3. Len(k) \in 1..Len(k)
        BY <2>4, <3>2, NoneLeft
      <3> QED BY <2>3, <3>1, <3>3
    <2> QED BY <1>3, <2>2, <2>3, <2>4 DEF Looked
  <1>4. CASE ~RolledBack
    <2>1. Kept = samples /\ Since = lastObserved
      BY <1>4 DEF Kept, Since
    <2>2. ASSUME samples # <<>> PROVE NewestTime(samples) <= wall
      <3>1. NewestTime(samples) # ZeroTime /\ NewestTime(samples) = samples[Len(samples)].at
            /\ samples[Len(samples)] \in Sample
        BY <1>1, <2>2, NewestIs
      <3>2. ~(wall < lastObserved)
        BY <1>1, <1>4, <3>1 DEF RolledBack
      <3>3. NewestTime(samples) \in Nat
        BY <3>1, SampleFields
      <3> QED BY <1>1, <1>2, <3>2, <3>3
    <2> QED BY <1>1, <2>1, <2>2 DEF Looked
  <1> QED BY <1>3, <1>4

\* EdgeProxy's answer, or that it gave none, is a reading (server.go).
LEMMA ReadingIs ==
    ASSUME HistoryInv, NEW answers \in BOOLEAN
    PROVE  Reading(answers) \in [Services -> Readings]
  <1>1. Unread \in Readings
    BY HistoryNumbers DEF Unread, Readings
  <1>2. counter \in [Services -> Readings]
    BY DEF HistoryInv, HistoryCounters
  <1> QED BY <1>1, <1>2 DEF Reading

\* The rate of one counter in a new sample (history.go:205-293).
NewRate(read, v) ==
    IF Kept = <<>> \/ Gap THEN NoRate
    ELSE Rate([read |-> Kept[Len(Kept)].read[v], real |-> Kept[Len(Kept)].real], read[v],
              wall - Kept[Len(Kept)].at)

\* r is a rate that a sample with this reading may show.
FairRate(r, now) ==
    /\ r \in Rates
    /\ r # NoRate => now # Unread /\ r.count \in 0..now.requests /\ (blind \/ r.seconds = r.real)

\* A new rate is honest: it is over the time that really passed unless the
\* clock was set back without anything that shows it (history.go:205-293).
LEMMA NewRateHonest ==
    ASSUME HistoryInv, NEW read \in [Services -> Readings], NEW v \in Services, NEW r, r = NewRate(read, v)
    PROVE  FairRate(r, read[v])
  <1>1. CASE r = NoRate
    BY <1>1 DEF NoRate, Rates, FairRate
  <1>2. CASE r # NoRate
    <2>1. Kept # <<>> /\ ~Gap
      BY <1>2 DEF NewRate
    <2>2. ~RolledBack /\ ~rateGapPending
      BY <2>1 DEF Gap
    <2>3. Looked(Kept, Since) /\ Kept = samples
      BY <2>2, KeptDoes
    <2>4. PICK p : p = Kept[Len(Kept)]
      OBVIOUS
    <2>5. p \in Sample
      BY <2>1, <2>3, <2>4, NewestIs DEF Looked
    <2>6. PICK now, old : now = read[v] /\ old = p.read[v]
      OBVIOUS
    <2>7. now \in Readings /\ old \in Readings
      BY <2>5, <2>6, SampleFields
    <2>8. PICK a, e, c, d, b : a = p.at /\ e = p.real /\ c = now.requests /\ d = old.requests /\ b = wall - a
      OBVIOUS
    <2>9. a \in Nat /\ e \in Nat /\ c \in Nat /\ d \in Nat /\ wall \in Nat /\ elapsed \in Nat
      <3>1. a \in Nat /\ e \in Nat
        BY <2>5, <2>8, SampleFields
      <3>2. c \in Nat /\ d \in Nat
        BY <2>7, <2>8, HistoryNumbers DEF Readings
      <3> QED BY <3>1, <3>2 DEF HistoryInv, HistoryClock
    <2>10. r = Rate([read |-> old, real |-> e], now, b)
      BY <2>1, <2>4, <2>6, <2>8 DEF NewRate
    <2>11. /\ now.inst # 0 /\ c >= d
           /\ r = [count |-> c - d, seconds |-> b, real |-> elapsed - e]
      BY <1>2, <2>8, <2>10 DEF Rate
    <2>12. c - d \in Nat /\ c - d \in 0..c /\ b \in Int /\ elapsed - e \in Int
      BY <2>8, <2>9, <2>11
    <2>13. r \in Rates /\ r.count \in 0..now.requests
      BY <2>8, <2>11, <2>12 DEF Rates
    <2>14. now # Unread
      BY <2>11 DEF Unread
    <2>15. ASSUME ~blind PROVE r.seconds = r.real
      <3>1. a - e = wall - elapsed
        BY <2>1, <2>2, <2>3, <2>4, <2>8, <2>15 DEF HistoryInv, HistorySteps, InStep
      <3>2. b = elapsed - e
        BY <2>8, <2>9, <3>1
      <3> QED BY <2>11, <3>2
    <2> QED BY <2>6, <2>13, <2>14, <2>15 DEF FairRate
  <1> QED BY <1>1, <1>2

\* y is the new sample, as it is retained.
NewSample(y, read, size) ==
    /\ y \in Sample /\ y.at = wall /\ y.real = elapsed
    /\ Dated(y, wall - elapsed, elapsed)
    /\ y = [Point(read, size) EXCEPT !.size = IF @ > HistoryBytes THEN 1 ELSE @]

\* A new sample is dated by the clock and its rates are honest
\* (history.go:205-305).
LEMMA PointIs ==
    ASSUME HistoryInv, NEW read \in [Services -> Readings], NEW size \in Nat \ {0}
    PROVE  \E y : NewSample(y, read, size)
  <1>1. PICK R : R = [v \in Services |-> NewRate(read, v)]
    OBVIOUS
  <1>2. ASSUME NEW v \in Services PROVE FairRate(R[v], read[v])
    <2>1. PICK r : r = R[v]
      OBVIOUS
    <2>2. r = NewRate(read, v)
      BY <1>1, <2>1
    <2> QED BY <2>1, <2>2, NewRateHonest
  <1>3. R \in [Services -> Rates]
    BY <1>1, <1>2 DEF FairRate
  <1>4. Point(read, size) = [at |-> wall, read |-> read, size |-> size, real |-> elapsed, blind |-> blind, rate |-> R]
    <2>1. [v \in Services |->
                 IF Kept = <<>> \/ Gap THEN NoRate
                 ELSE LET prev == Kept[Len(Kept)]
                      IN  Rate([read |-> prev.read[v], real |-> prev.real], read[v], wall - prev.at)] = R
      BY <1>1 DEF NewRate
    <2> QED BY <2>1 DEF Point
  <1>5. PICK z : z = IF size > HistoryBytes THEN 1 ELSE size
    OBVIOUS
  <1>6. z \in 1..HistoryBytes
    BY <1>5, HistoryNumbers
  <1>7. PICK y : y = [at |-> wall, read |-> read, size |-> z, real |-> elapsed, blind |-> blind, rate |-> R]
    OBVIOUS
  <1>8. y = [Point(read, size) EXCEPT !.size = IF @ > HistoryBytes THEN 1 ELSE @]
    BY <1>4, <1>5, <1>7
  <1>9. wall \in 1..MaxElapsed + 1 /\ elapsed \in 0..MaxElapsed /\ wall \in Nat /\ elapsed \in Nat
    BY HistoryNumbers DEF HistoryInv, HistoryClock
  <1>10. blind \in BOOLEAN
    BY DEF HistoryInv, HistoryFlags
  <1>11. y \in Sample
    BY <1>3, <1>6, <1>7, <1>9, <1>10 DEF Sample
  <1>12. y.at = wall /\ y.real = elapsed /\ y.read = read /\ y.blind = blind /\ y.rate = R
    BY <1>7
  <1>13. \A v \in Services : HonestRate(y, v)
    BY <1>2, <1>12 DEF HonestRate, FairRate
  <1>14. y.at - y.real >= wall - elapsed /\ y.real <= elapsed
    BY <1>9, <1>12
  <1> QED BY <1>8, <1>11, <1>12, <1>13, <1>14 DEF NewSample, Dated

\* The list with the new sample at its end is honest: it is the newest by the
\* clock, hence by the time that has passed (history.go:181-305).
LEMMA SampledHonest ==
    ASSUME HistoryInv, ~TooEarly, NEW y \in Sample, y.at = wall, y.real = elapsed,
           Dated(y, wall - elapsed, elapsed)
    PROVE  Truthful(Append(Kept, y), wall - elapsed, elapsed)
  <1>1. Looked(Kept, Since)
    BY KeptDoes
  <1>2. PICK k, s : k = Kept /\ s = Append(k, y)
    OBVIOUS
  <1>3. Truthful(k, wall - elapsed, elapsed) /\ k \in Seq(Sample)
    BY <1>1, <1>2 DEF Looked, Truthful
  <1>4. PICK n : n = Len(k) /\ n \in Nat
    BY <1>3
  <1>5. s \in Seq(Sample) /\ Len(s) = n + 1 /\ s[n + 1] = y /\ \A i \in 1..n : s[i] = k[i]
    BY <1>2, <1>3, <1>4
  <1>6. wall \in Nat /\ elapsed \in Nat
    BY DEF HistoryInv, HistoryClock
  <1>7. ASSUME NEW i \in 1..n PROVE k[i].at < wall /\ k[i].real < elapsed
    <2>1. k # <<>>
      BY <1>4
    <2>2. PICK l : l = k[Len(k)]
      OBVIOUS
    <2>3. /\ l \in Sample /\ NewestTime(k) = l.at /\ NewestTime(k) # ZeroTime
          /\ k[i] = l \/ k[i].at < l.at
      BY <1>3, <1>4, <2>1, <2>2, NewestIs
    <2>4. NewestTime(k) <= wall /\ Since = NewestTime(k)
      BY <1>1, <1>2, <2>1 DEF Looked
    <2>5. wall # Since
      BY <2>3, <2>4 DEF TooEarly
    <2>6. PICK x : x = k[i] /\ x \in Sample
      BY <1>3, <1>4
    <2>7. PICK a, r, b : a = x.at /\ r = x.real /\ b = l.at
      OBVIOUS
    <2>8. a \in Nat /\ r \in Nat /\ b \in Nat
      BY <2>3, <2>6, <2>7, SampleFields
    <2>9. b <= wall /\ b # wall /\ a <= b
      BY <2>3, <2>4, <2>5, <2>6, <2>7, <2>8
    <2>10. a - r >= wall - elapsed
      BY <1>3, <1>4, <2>6, <2>7 DEF Truthful, Dated
    <2>11. a < wall /\ r < elapsed
      BY <1>6, <2>8, <2>9, <2>10
    <2> QED BY <2>6, <2>7, <2>11
  <1>8. \A i \in 1..n + 1 : i \in 1..n \/ i = n + 1
    BY <1>4
  <1>9. ASSUME NEW i \in 1..n + 1 PROVE Dated(s[i], wall - elapsed, elapsed)
    <2>1. CASE i = n + 1
      BY <1>5, <2>1
    <2>2. CASE i \in 1..n
      BY <1>3, <1>4, <1>5, <2>2 DEF Truthful
    <2> QED BY <1>8, <2>1, <2>2
  <1>10. ASSUME NEW i \in 1..n + 1, NEW j \in 1..n + 1, i < j
         PROVE  s[i].at < s[j].at /\ s[i].real < s[j].real
    <2>1. i \in 1..n
      BY <1>4, <1>10
    <2>2. CASE j = n + 1
      BY <1>5, <1>7, <2>1, <2>2
    <2>3. CASE j \in 1..n
      <3>1. k[i].at < k[j].at /\ k[i].real < k[j].real
        BY <1>3, <1>4, <1>10, <2>1, <2>3 DEF Truthful, Ordered
      <3> QED BY <1>5, <2>1, <2>3, <3>1
    <2> QED BY <1>8, <2>2, <2>3
  <1>11. Truthful(s, wall - elapsed, elapsed)
    BY <1>5, <1>9, <1>10 DEF Truthful, Ordered
  <1> QED BY <1>2, <1>11

\* observeAt keeps the invariant (history.go:181-305).
LEMMA ObserveStep ==
    ASSUME HistoryInv, NEW answers \in BOOLEAN, NEW size \in Nat \ {0}, ObserveAt(answers, size)
    PROVE  HistoryInv'
  <1>1. PICK read : read = Reading(answers) /\ read \in [Services -> Readings]
    BY ReadingIs
  <1>2. PICK y : NewSample(y, read, size)
    BY <1>1, PointIs
  <1>3. y \in Sample /\ y.at = wall /\ y.real = elapsed /\ Dated(y, wall - elapsed, elapsed)
    BY <1>2 DEF NewSample
  <1>4. ~TooEarly /\ samples' = AppendPoint(Kept, Point(read, size))
    BY <1>1 DEF ObserveAt
  <1>5. PICK s, u : s = Append(Kept, y) /\ u = samples'
    OBVIOUS
  <1>6. Kept \in Seq(Sample)
    BY KeptDoes DEF Looked, Truthful
  <1>7. FitEnd(u, s)
    <2>1. PICK x : x = Point(read, size)
      OBVIOUS
    <2>2. y = [x EXCEPT !.size = IF @ > HistoryBytes THEN 1 ELSE @]
      BY <1>2, <2>1 DEF NewSample
    <2> QED BY <1>3, <1>4, <1>5, <1>6, <2>1, <2>2, AppendPointDoes
  <1>8. Truthful(s, wall - elapsed, elapsed)
    BY <1>3, <1>4, <1>5, SampledHonest
  <1>9. s # <<>> /\ s[Len(s)] = y
    BY <1>3, <1>5, <1>6
  <1>10. Truthful(u, wall - elapsed, elapsed) /\ Fits(u) /\ u # <<>> /\ u[Len(u)] = y
    BY <1>7, <1>8, <1>9, HonestEnd
  <1>11. /\ lastObserved' = wall /\ rateGapPending' = FALSE /\ seeded' = TRUE /\ blind' = FALSE
         /\ wall' = wall /\ elapsed' = elapsed /\ counter' = counter
         /\ \/ historyFile' = samples' /\ historyFaults' = historyFaults
            \/ HistoryFault /\ historyFile' = historyFile
    BY DEF ObserveAt, Persist
  <1>12. HistoryClock'
    BY <1>11 DEF HistoryInv, HistoryClock
  <1>13. HistoryFlags'
    BY <1>11 DEF HistoryFlags
  <1>14. HistoryCounters'
    <2>1. historyFaults' = historyFaults \/ (historyFaults < MaxHistoryFaults /\ historyFaults' = historyFaults + 1)
      BY <1>11 DEF HistoryFault
    <2>2. historyFaults \in 0..MaxHistoryFaults
      BY DEF HistoryInv, HistoryCounters
    <2>3. historyFaults' \in 0..MaxHistoryFaults /\ historyFaults \in Nat /\ historyFaults' >= historyFaults
          /\ historyFaults' \in Nat
      BY <2>1, <2>2, HistoryNumbers
    <2>4. ASSUME NEW v \in Services PROVE counter'[v].inst <= historyFaults' + 1
      <3>1. counter[v].inst <= historyFaults + 1
        BY DEF HistoryInv, HistoryCounters
      <3>2. counter[v].inst \in Nat
        BY HistoryNumbers DEF HistoryInv, HistoryCounters, Readings
      <3> QED BY <1>11, <2>3, <3>1, <3>2
    <2>5. counter' \in [Services -> Readings]
      BY <1>11 DEF HistoryInv, HistoryCounters
    <2> QED BY <2>3, <2>4, <2>5 DEF HistoryCounters
  <1>15. HistoryLists'
    <2>1. NewestTime(u) = wall
      BY <1>3, <1>10 DEF NewestTime
    <2> QED BY <1>5, <1>10, <1>11, <2>1 DEF HistoryLists
  <1>16. HistoryOnFile'
    <2>1. historyFile' = u \/ historyFile' = historyFile
      BY <1>5, <1>11
    <2>2. Truthful(historyFile, wall - elapsed, elapsed)
      BY DEF HistoryInv, HistoryOnFile
    <2> QED BY <1>10, <1>11, <2>1, <2>2 DEF HistoryOnFile
  <1>17. HistorySteps'
    BY <1>3, <1>5, <1>10, <1>11 DEF HistorySteps, InStep
  <1> QED BY <1>12, <1>13, <1>14, <1>15, <1>16, <1>17 DEF HistoryInv

\* A sample that is too early is skipped, and the samples from the future are
\* dropped all the same (history.go:181-204).
LEMMA SkipStep ==
    ASSUME HistoryInv, SkipSample
    PROVE  HistoryInv'
  <1>1. Looked(Kept, Since) /\ (~RolledBack => Kept = samples)
    BY KeptDoes
  <1>2. PICK k, n : k = Kept /\ n = Since
    OBVIOUS
  <1>3. Truthful(k, wall - elapsed, elapsed) /\ Fits(k) /\ n = NewestTime(k)
    BY <1>1, <1>2 DEF Looked
  <1>4. /\ samples' = k /\ lastObserved' = n /\ rateGapPending' = Gap
        /\ seeded' = TRUE /\ blind' = (blind /\ ~RolledBack)
        /\ wall' = wall /\ elapsed' = elapsed /\ counter' = counter
        /\ historyFile' = historyFile /\ historyFaults' = historyFaults
    BY <1>2 DEF SkipSample
  <1>5. HistoryClock'
    BY <1>4 DEF HistoryInv, HistoryClock
  <1>6. HistoryCounters'
    BY <1>4 DEF HistoryInv, HistoryCounters
  <1>7. HistoryFlags'
    BY <1>4, Zenon DEF HistoryInv, HistoryFlags, Gap, RolledBack
  <1>8. HistoryLists'
    BY <1>3, <1>4 DEF HistoryLists
  <1>9. HistoryOnFile'
    BY <1>4 DEF HistoryInv, HistoryOnFile
  <1>10. HistorySteps'
    <2>1. SUFFICES ASSUME ~blind', ~rateGapPending' PROVE InStep(samples', wall' - elapsed')
      BY DEF HistorySteps, InStep
    <2>2. ~RolledBack /\ ~rateGapPending /\ ~blind
      BY <1>4, <2>1 DEF Gap
    <2>3. InStep(samples, wall - elapsed)
      BY <2>2 DEF HistoryInv, HistorySteps
    <2> QED BY <1>1, <1>2, <1>4, <2>2, <2>3
  <1> QED BY <1>5, <1>6, <1>7, <1>8, <1>9, <1>10 DEF HistoryInv

\* A service restarts with a new instance and its counter at zero.
LEMMA CounterRestarts ==
    ASSUME HistoryInv, HistoryFault, NEW v \in Services,
           counter' = [counter EXCEPT ![v] = [inst |-> @.inst + 1, requests |-> 0]]
    PROVE  HistoryCounters'
  <1>1. counter \in [Services -> Readings] /\ historyFaults \in 0..MaxHistoryFaults
        /\ \A w \in Services : counter[w].inst <= historyFaults + 1
    BY DEF HistoryInv, HistoryCounters
  <1>2. historyFaults' = historyFaults + 1 /\ historyFaults < MaxHistoryFaults
    BY DEF HistoryFault
  <1>3. historyFaults' \in 0..MaxHistoryFaults /\ historyFaults \in Nat
    BY <1>1, <1>2, HistoryNumbers
  <1>4. \A w \in Services : counter[w].inst \in Nat
    BY <1>1, HistoryNumbers DEF Readings
  <1>5. PICK c : c = [inst |-> counter[v].inst + 1, requests |-> 0]
    OBVIOUS
  <1>6. c.inst = counter[v].inst + 1 /\ c \in Readings
    <2>1. counter[v].inst + 1 \in 0..MaxHistoryFaults + 1
      BY <1>1, <1>2, <1>3, <1>4, HistoryNumbers
    <2> QED BY <1>5, <2>1, HistoryNumbers DEF Readings
  <1>7. counter' = [counter EXCEPT ![v] = c]
    BY <1>5
  <1>8. counter' \in [Services -> Readings]
    BY <1>1, <1>6, <1>7
  <1>9. ASSUME NEW w \in Services PROVE counter'[w].inst <= historyFaults' + 1
    <2>1. CASE w = v
      BY <1>1, <1>2, <1>3, <1>4, <1>6, <1>7, <2>1
    <2>2. CASE w # v
      BY <1>1, <1>2, <1>3, <1>4, <1>7, <2>2
    <2> QED BY <2>1, <2>2
  <1> QED BY <1>3, <1>8, <1>9 DEF HistoryCounters

\* A restart of SecurityEdge restores what the file has that is not from the
\* future; it knows that the clock is in step only if nothing was dropped and
\* the file is what the last process had (history.go:158-167 and 408-490).
LEMMA RestartStep ==
    ASSUME HistoryInv, RestartSecurity
    PROVE  HistoryInv'
  <1>1. PICK past, u : past = NotAfter(historyFile, wall) /\ u = Loaded
    OBVIOUS
  <1>2. wall \in Nat /\ Truthful(historyFile, wall - elapsed, elapsed)
    BY DEF HistoryInv, HistoryClock, HistoryOnFile
  <1>3. Truthful(past, wall - elapsed, elapsed) /\ past \in Seq(Sample)
    BY <1>1, <1>2, NotAfterDoes DEF Truthful
  <1>4. FitEnd(u, past)
    BY <1>1, <1>3, LoadedDoes
  <1>5. /\ Truthful(u, wall - elapsed, elapsed) /\ Fits(u)
        /\ (past # <<>> => u # <<>> /\ u[Len(u)] = past[Len(past)])
        /\ (past = <<>> => u = <<>>)
    BY <1>3, <1>4, HonestEnd
  <1>6. /\ HistoryFault /\ samples' = u /\ lastObserved' = NewestTime(u) /\ seeded' = FALSE
        /\ rateGapPending' = (past # historyFile)
        /\ blind' = ((blind \/ rateGapPending \/ samples # historyFile) /\ ~rateGapPending')
        /\ wall' = wall /\ historyFile' = historyFile /\ elapsed' = elapsed
        /\ counter' = [counter EXCEPT !["security"] = [inst |-> @.inst + 1, requests |-> 0]]
    BY <1>1 DEF RestartSecurity
  <1>7. HistoryClock'
    BY <1>6 DEF HistoryInv, HistoryClock
  <1>8. HistoryCounters'
    <2>1. "security" \in Services
      BY DEF Services
    <2> QED BY <1>6, <2>1, CounterRestarts
  <1>9. HistoryFlags'
    BY <1>6, Zenon DEF HistoryFlags
  <1>10. HistoryLists'
    BY <1>5, <1>6 DEF HistoryLists
  <1>11. HistoryOnFile'
    BY <1>2, <1>6 DEF HistoryOnFile
  <1>12. HistorySteps'
    <2>1. SUFFICES ASSUME ~blind', ~rateGapPending' PROVE InStep(samples', wall' - elapsed')
      BY DEF HistorySteps, InStep
    <2>2. past = historyFile /\ samples = historyFile /\ ~blind /\ ~rateGapPending
      BY <1>6, <2>1
    <2>3. InStep(past, wall - elapsed)
      BY <2>2 DEF HistoryInv, HistorySteps
    <2>4. InStep(u, wall - elapsed)
      BY <1>5, <2>3 DEF InStep
    <2> QED BY <1>6, <2>4
  <1> QED BY <1>7, <1>8, <1>9, <1>10, <1>11, <1>12 DEF HistoryInv

\* EdgeProxy restarts.
LEMMA RestartEdgeStep ==
    ASSUME HistoryInv, RestartEdge
    PROVE  HistoryInv'
  <1>1. /\ HistoryFault /\ counter' = [counter EXCEPT !["edge"] = [inst |-> @.inst + 1, requests |-> 0]]
        /\ wall' = wall /\ samples' = samples /\ lastObserved' = lastObserved
        /\ rateGapPending' = rateGapPending /\ historyFile' = historyFile /\ seeded' = seeded
        /\ elapsed' = elapsed /\ blind' = blind
    BY DEF RestartEdge
  <1>2. HistoryCounters'
    <2>1. "edge" \in Services
      BY DEF Services
    <2> QED BY <1>1, <2>1, CounterRestarts
  <1>3. HistoryClock'
    BY <1>1 DEF HistoryInv, HistoryClock
  <1>4. HistoryFlags'
    BY <1>1 DEF HistoryInv, HistoryFlags
  <1>5. HistoryLists'
    BY <1>1 DEF HistoryInv, HistoryLists
  <1>6. HistoryOnFile'
    BY <1>1 DEF HistoryInv, HistoryOnFile
  <1>7. HistorySteps'
    BY <1>1 DEF HistoryInv, HistorySteps
  <1> QED BY <1>2, <1>3, <1>4, <1>5, <1>6, <1>7 DEF HistoryInv

\* Time passes, for the clock as for the world.
LEMMA TimeStep ==
    ASSUME HistoryInv, TimePasses
    PROVE  HistoryInv'
  <1>1. /\ elapsed < MaxElapsed /\ elapsed' = elapsed + 1 /\ wall' = wall + 1
        /\ counter' = counter /\ samples' = samples /\ lastObserved' = lastObserved
        /\ rateGapPending' = rateGapPending /\ historyFile' = historyFile /\ seeded' = seeded
        /\ historyFaults' = historyFaults /\ blind' = blind
    BY DEF TimePasses
  <1>2. wall \in Nat /\ elapsed \in Nat /\ wall >= 1 /\ wall <= elapsed + 1
    BY DEF HistoryInv, HistoryClock
  <1>3. PICK k, e : k = wall - elapsed /\ e = elapsed + 1
    OBVIOUS
  <1>4. k \in Int /\ e \in Nat /\ elapsed <= e /\ k <= k /\ wall' - elapsed' = k /\ elapsed' = e
    BY <1>1, <1>2, <1>3
  <1>5. HistoryClock'
    BY <1>1, <1>2, HistoryNumbers DEF HistoryClock
  <1>6. HistoryCounters'
    BY <1>1 DEF HistoryInv, HistoryCounters
  <1>7. HistoryFlags'
    BY <1>1 DEF HistoryInv, HistoryFlags
  <1>8. Truthful(samples, k, elapsed) /\ Truthful(historyFile, k, elapsed)
    BY <1>3 DEF HistoryInv, HistoryLists, HistoryOnFile
  <1>9. Truthful(samples, k, e) /\ Truthful(historyFile, k, e)
    BY <1>2, <1>4, <1>8, HonestLater
  <1>10. HistoryLists'
    BY <1>1, <1>4, <1>9 DEF HistoryInv, HistoryLists
  <1>11. HistoryOnFile'
    BY <1>1, <1>4, <1>9 DEF HistoryOnFile
  <1>12. HistorySteps'
    <2>1. ~blind /\ ~rateGapPending => InStep(samples, k)
      BY <1>3 DEF HistoryInv, HistorySteps
    <2> QED BY <1>1, <1>4, <2>1 DEF HistorySteps
  <1> QED BY <1>5, <1>6, <1>7, <1>10, <1>11, <1>12 DEF HistoryInv

\* The clock is set back.
LEMMA SetBackStep ==
    ASSUME HistoryInv, NEW t \in 1..MaxElapsed, SetBack(t)
    PROVE  HistoryInv'
  <1>1. /\ t < wall /\ HistoryFault /\ wall' = t /\ blind' = TRUE
        /\ counter' = counter /\ samples' = samples /\ lastObserved' = lastObserved
        /\ rateGapPending' = rateGapPending /\ historyFile' = historyFile /\ seeded' = seeded
        /\ elapsed' = elapsed
    BY DEF SetBack
  <1>2. wall \in Nat /\ elapsed \in Nat /\ wall >= 1 /\ wall <= elapsed + 1 /\ elapsed <= MaxElapsed
    BY DEF HistoryInv, HistoryClock
  <1>3. PICK k, l : k = wall - elapsed /\ l = t - elapsed
    OBVIOUS
  <1>4. t \in Nat /\ t >= 1
    BY HistoryNumbers
  <1>5. k \in Int /\ l \in Int /\ l <= k /\ wall' - elapsed' = l /\ elapsed <= elapsed
    BY <1>1, <1>2, <1>3, <1>4
  <1>6. HistoryClock'
    BY <1>1, <1>2, <1>4 DEF HistoryClock
  <1>7. HistoryCounters'
    <2>1. historyFaults < MaxHistoryFaults /\ historyFaults' = historyFaults + 1
      BY <1>1 DEF HistoryFault
    <2>2. counter \in [Services -> Readings] /\ historyFaults \in 0..MaxHistoryFaults
          /\ \A w \in Services : counter[w].inst <= historyFaults + 1
      BY DEF HistoryInv, HistoryCounters
    <2>3. historyFaults' \in 0..MaxHistoryFaults /\ historyFaults \in Nat
      BY <2>1, <2>2, HistoryNumbers
    <2>4. ASSUME NEW w \in Services PROVE counter'[w].inst <= historyFaults' + 1
      <3>1. counter[w].inst \in Nat
        BY <2>2, HistoryNumbers DEF Readings
      <3> QED BY <1>1, <2>1, <2>2, <2>3, <3>1
    <2> QED BY <1>1, <2>2, <2>3, <2>4 DEF HistoryCounters
  <1>8. HistoryFlags'
    BY <1>1 DEF HistoryInv, HistoryFlags
  <1>9. Truthful(samples, k, elapsed) /\ Truthful(historyFile, k, elapsed)
    BY <1>3 DEF HistoryInv, HistoryLists, HistoryOnFile
  <1>10. Truthful(samples, l, elapsed) /\ Truthful(historyFile, l, elapsed)
    BY <1>2, <1>5, <1>9, HonestLater
  <1>11. HistoryLists'
    BY <1>1, <1>5, <1>10 DEF HistoryInv, HistoryLists
  <1>12. HistoryOnFile'
    BY <1>1, <1>5, <1>10 DEF HistoryOnFile
  <1>13. HistorySteps'
    BY <1>1 DEF HistorySteps
  <1> QED BY <1>6, <1>7, <1>8, <1>11, <1>12, <1>13 DEF HistoryInv

\* A service serves a request.
LEMMA ServeStep ==
    ASSUME HistoryInv, NEW v \in Services, Serve(v)
    PROVE  HistoryInv'
  <1>1. /\ counter[v].requests < MaxServed
        /\ counter' = [counter EXCEPT ![v].requests = @ + 1]
        /\ wall' = wall /\ samples' = samples /\ lastObserved' = lastObserved
        /\ rateGapPending' = rateGapPending /\ historyFile' = historyFile /\ seeded' = seeded
        /\ historyFaults' = historyFaults /\ elapsed' = elapsed /\ blind' = blind
    BY DEF Serve
  <1>2. HistoryCounters'
    <2>1. counter \in [Services -> Readings] /\ historyFaults \in 0..MaxHistoryFaults
          /\ \A w \in Services : counter[w].inst <= historyFaults + 1
      BY DEF HistoryInv, HistoryCounters
    <2>2. PICK c, n : c = counter[v] /\ n = [c EXCEPT !.requests = c.requests + 1]
      OBVIOUS
    <2>3. c \in Readings /\ c.requests < MaxServed
      BY <1>1, <2>1, <2>2
    <2>4. n \in Readings /\ n.inst = c.inst
      BY <2>2, <2>3, HistoryNumbers DEF Readings
    <2>5. counter' = [counter EXCEPT ![v] = n]
      BY <1>1, <2>2
    <2>6. counter' \in [Services -> Readings]
      BY <2>1, <2>4, <2>5
    <2>7. \A w \in Services : counter'[w].inst = counter[w].inst
      BY <2>1, <2>2, <2>4, <2>5
    <2> QED BY <1>1, <2>1, <2>6, <2>7 DEF HistoryCounters
  <1>3. HistoryClock'
    BY <1>1 DEF HistoryInv, HistoryClock
  <1>4. HistoryFlags'
    BY <1>1 DEF HistoryInv, HistoryFlags
  <1>5. HistoryLists'
    BY <1>1 DEF HistoryInv, HistoryLists
  <1>6. HistoryOnFile'
    BY <1>1 DEF HistoryInv, HistoryOnFile
  <1>7. HistorySteps'
    BY <1>1 DEF HistoryInv, HistorySteps
  <1> QED BY <1>2, <1>3, <1>4, <1>5, <1>6, <1>7 DEF HistoryInv

\* Every step of the sampler, of the services and of the clock keeps the
\* invariant.
LEMMA HistoryStep == HistoryInv /\ [HistoryNext]_historyVars => HistoryInv'
  <1> SUFFICES ASSUME HistoryInv, [HistoryNext]_historyVars PROVE HistoryInv'
    OBVIOUS
  <1>1. CASE ObserveAt(FALSE, 1)
    <2>1. 1 \in Nat \ {0} /\ FALSE \in BOOLEAN
      OBVIOUS
    <2> QED BY <1>1, <2>1, ObserveStep
  <1>2. ASSUME NEW size \in HistoryBytes..HistoryBytes + 1, ObserveAt(TRUE, size) PROVE HistoryInv'
    <2>1. size \in Nat \ {0}
      BY HistoryNumbers
    <2>2. TRUE \in BOOLEAN
      OBVIOUS
    <2> QED BY <1>2, <2>1, <2>2, ObserveStep
  <1>3. CASE SkipSample
    BY <1>3, SkipStep
  <1>4. CASE RestartSecurity
    BY <1>4, RestartStep
  <1>5. CASE RestartEdge
    BY <1>5, RestartEdgeStep
  <1>6. CASE TimePasses
    BY <1>6, TimeStep
  <1>7. ASSUME NEW t \in 1..MaxElapsed, SetBack(t) PROVE HistoryInv'
    BY <1>7, SetBackStep
  <1>8. ASSUME NEW v \in Services, Serve(v) PROVE HistoryInv'
    BY <1>8, ServeStep
  <1>9. CASE UNCHANGED historyVars
    BY <1>9 DEF historyVars, HistoryInv, HistoryClock, HistoryCounters, HistoryFlags,
                HistoryLists, HistoryOnFile, HistorySteps
  <1> QED BY <1>1, <1>2, <1>3, <1>4, <1>5, <1>6, <1>7, <1>8, <1>9 DEF HistoryNext

\* What the invariant says of the samples.
LEMMA HistoryMeans == HistoryInv => HistoryTypeOK /\ HistoryIsHonest
  <1> SUFFICES ASSUME HistoryInv PROVE HistoryTypeOK /\ HistoryIsHonest
    OBVIOUS
  <1>1. samples \in Seq(Sample) /\ Ordered(samples) /\ Fits(samples) /\ lastObserved = NewestTime(samples)
        /\ \A i \in 1..Len(samples) : Dated(samples[i], wall - elapsed, elapsed)
    BY DEF HistoryInv, HistoryLists, Truthful
  <1>2. \A i \in 1..Len(samples) : samples[i] \in Sample
    BY <1>1
  <1>3. wall \in 1..MaxElapsed + 1 /\ elapsed \in 0..MaxElapsed
    BY HistoryNumbers DEF HistoryInv, HistoryClock
  <1>4. counter \in [Services -> Readings]
    BY DEF HistoryInv, HistoryCounters
  <1>5. \A i \in 1..Len(samples) : samples[i].read \in [Services -> Readings]
    BY <1>2, SampleFields
  <1>6. lastObserved \in 0..MaxElapsed + 1
    <2>1. CASE samples = <<>>
      BY <1>1, <2>1, HistoryNumbers DEF NewestTime, ZeroTime
    <2>2. CASE samples # <<>>
      <3>1. Len(samples) \in 1..Len(samples)
        BY <1>1, <2>2, NoneLeft
      <3>2. samples[Len(samples)].at \in Nat /\ samples[Len(samples)].at <= MaxElapsed + 1
        BY <1>2, <3>1, SampleFields
      <3> QED BY <1>1, <2>2, <3>2, HistoryNumbers DEF NewestTime
    <2> QED BY <2>1, <2>2
  <1>7. {rateGapPending, seeded, blind} \subseteq BOOLEAN
    BY DEF HistoryInv, HistoryFlags
  <1>8. HistoryTypeOK
    BY <1>1, <1>3, <1>4, <1>5, <1>6, <1>7 DEF HistoryTypeOK, Fits
  <1>9. HistoryIsHonest
    <2>1. \A i, j \in 1..Len(samples) :
            i < j => samples[i].at < samples[j].at /\ samples[i].real < samples[j].real
      BY <1>1 DEF Ordered
    <2>2. \A i \in 1..Len(samples), v \in Services : HonestRate(samples[i], v)
      BY <1>1 DEF Dated
    <2> QED BY <2>1, <2>2 DEF HistoryIsHonest, HonestRate
  <1> QED BY <1>8, <1>9

\* The history stays within its capacity and its bytes (history.go:158-376).
THEOREM HistoryTypeCorrect == HistorySpec => []HistoryTypeOK
  BY HistoryStarts, HistoryStep, HistoryMeans, PTL DEF HistorySpec

\* The history is in the order in which it was sampled and every rate in it is
\* over the time that really passed, whatever is done to the clock, the
\* services, the file and the process, unless the clock was set back and the
\* process could not see it (history.go:181-376 and 408-490).
THEOREM HistoryStaysHonest == HistorySpec => []HistoryIsHonest
  BY HistoryStarts, HistoryStep, HistoryMeans, PTL DEF HistorySpec
=============================================================================
