--------------------------- MODULE GatewayProofs ----------------------------
(***************************************************************************)
(* What one call of the token buckets and of the bans does (see RateLimit) *)
(* for every rate, burst, limit and history, and what holds of             *)
(* SecurityEdge's request pipeline (see Gateway) for every number of       *)
(* goroutines, clients, routes and policies, every limit and every length  *)
(* of time.  The invariant has one part for each lock: the admission       *)
(* limiter, the tunnel registry, the token buckets and the bans.           *)
(***************************************************************************)
EXTENDS Gateway, SetSums

-----------------------------------------------------------------------------
(* The token buckets and the bans.                                         *)

\* The smaller and the larger of two numbers, as math.Min and the test of a
\* negative elapsed time in allowLocked find them.
LEMMA OfTwo ==
    ASSUME NEW a \in Int, NEW b \in Int
    PROVE  /\ Min({a, b}) = IF a <= b THEN a ELSE b
           /\ Max({a, b}) = IF a >= b THEN a ELSE b
  BY DEF Min, Max

\* The settings are positive (config.go:939-948).
LEMMA Settings ==
    /\ Unit \in Nat \ {0} /\ MaxBuckets \in Nat /\ MaxTracked \in Nat \ {0}
    /\ Threshold \in Nat \ {0} /\ Window \in Nat /\ IdleTTL \in Nat
    /\ \A k \in Keys : RateOf(k) \in Nat /\ BurstOf(k) \in Nat /\ BurstOf(k) >= Unit
  BY LimiterSettings DEF RateOf, BurstOf

\* A route and its clients have different buckets, which Allow relies on.
LEMMA KeysDiffer ==
    ASSUME NEW rt \in Routes, NEW c \in Clients
    PROVE  /\ GlobalKey(rt) \in Keys /\ ClientKey(rt, c) \in Keys
           /\ GlobalKey(rt) # ClientKey(rt, c)
  <1>1. Len(<<rt>>) = 1 /\ Len(<<rt, c>>) = 2
    OBVIOUS
  <1> QED BY <1>1 DEF GlobalKey, ClientKey, Keys

\* An assignment to a map changes one entry.
LEMMA WithDoes ==
    ASSUME NEW f, NEW x, NEW v
    PROVE  /\ DOMAIN With(f, x, v) = DOMAIN f \cup {x}
           /\ With(f, x, v)[x] = v
           /\ \A y \in DOMAIN f \ {x} : With(f, x, v)[y] = f[y]
  BY DEF With

-----------------------------------------------------------------------------
(* Limiter.                                                                *)

\* What a bucket b of key owes to the paid tokens that were taken from it and
\* to the time, turned back by back ticks: its tokens and those paid for are
\* no less than a full bucket and no more than what its rate adds to one.
Ledger(key, b, paid, back) ==
    /\ b \in [tokens : Nat, last : Nat]
    /\ b.tokens <= BurstOf(key)
    /\ BurstOf(key) <= Unit * paid + b.tokens
    /\ Unit * paid + b.tokens <= BurstOf(key) + RateOf(key) * (b.last + back)

\* The bucket that allowLocked works on.
Entry(bs, key, t) == IF key \in DOMAIN bs THEN bs[key] ELSE [tokens |-> BurstOf(key), last |-> t]

\* The time that a bucket used at t loses.
Back(b, t) == IF t < b.last THEN b.last - t ELSE 0

\* A bucket that is made at t is full, whatever was paid before for its key,
\* provided that the rate allows that much by t.
LEMMA FullBucket ==
    ASSUME NEW key \in Keys, NEW t \in Nat, NEW paid \in Nat, NEW back \in Nat,
           Unit * paid <= RateOf(key) * (t + back)
    PROVE  Ledger(key, [tokens |-> BurstOf(key), last |-> t], paid, back)
  <1> DEFINE B == BurstOf(key)
             P == Unit * paid
             R == RateOf(key) * (t + back)
  <1>1. B \in Nat /\ P \in Nat /\ R \in Nat
    BY Settings
  <1>2. P <= R
    OBVIOUS
  <1>3. B <= P + B /\ P + B <= B + R
    <2> HIDE DEF B, P, R
    <2> QED BY <1>1, <1>2
  <1> QED BY <1>1, <1>3 DEF Ledger

\* allowLocked refills a bucket by its rate, up to its burst.
LEMMA RefillKeeps ==
    ASSUME NEW key \in Keys, NEW b, NEW paid \in Nat, NEW back \in Nat, NEW t \in Nat,
           Ledger(key, b, paid, back)
    PROVE  /\ Refilled(b, key, t) \in Nat
           /\ Ledger(key, [tokens |-> Refilled(b, key, t), last |-> t], paid, back + Back(b, t))
  <1> DEFINE B == BurstOf(key)
             P == Unit * paid
             rate == RateOf(key)
             late == IF t - b.last >= 0 THEN t - b.last ELSE 0
             have == Refilled(b, key, t)
             R == rate * (b.last + back)
             More == rate * late
  <1>1. B \in Nat /\ P \in Nat /\ rate \in Nat /\ b.tokens \in Nat /\ b.last \in Nat /\ late \in Nat
    BY Settings DEF Ledger
  <1>2. /\ R \in Nat /\ More \in Nat
        /\ b.tokens <= B /\ B <= P + b.tokens /\ P + b.tokens <= B + R
    BY <1>1 DEF Ledger
  <1>3. have = IF b.tokens + More <= B THEN b.tokens + More ELSE B
    <2>1. Max({t - b.last, 0}) = late
      <3>1. t - b.last \in Int /\ 0 \in Int
        BY <1>1
      <3> QED BY <3>1, OfTwo
    <2>2. have = Min({b.tokens + More, B})
      BY <2>1 DEF Refilled
    <2>3. b.tokens + More \in Int /\ B \in Int
      BY <1>1, <1>2
    <2> HIDE DEF More, B, have
    <2> QED BY <2>2, <2>3, OfTwo
  <1>4. rate * (t + (back + Back(b, t))) = R + More
    <2>1. t + (back + Back(b, t)) = (b.last + back) + late
      BY <1>1 DEF Back
    <2>2. rate * ((b.last + back) + late) = rate * (b.last + back) + rate * late
      <3> HIDE DEF rate, late
      <3> QED BY <1>1
    <2> QED BY <2>1, <2>2
  <1>5. have \in Nat /\ have <= B /\ B <= P + have /\ P + have <= B + (R + More)
    <2> HIDE DEF B, P, R, More, have
    <2> QED BY <1>1, <1>2, <1>3
  <1> QED BY <1>4, <1>5 DEF Ledger

\* allowLocked takes a token from a bucket that has one.
LEMMA PaymentKeeps ==
    ASSUME NEW key \in Keys, NEW n \in Nat, NEW t \in Nat, NEW paid \in Nat, NEW back \in Nat,
           Ledger(key, [tokens |-> n, last |-> t], paid, back), n >= Unit
    PROVE  /\ Ledger(key, [tokens |-> n - Unit, last |-> t], paid + 1, back)
           /\ n - Unit < BurstOf(key)
  <1> DEFINE B == BurstOf(key)
             P == Unit * paid
             R == RateOf(key) * (t + back)
  <1>1. B \in Nat /\ P \in Nat /\ R \in Nat /\ Unit \in Nat \ {0}
    BY Settings
  <1>2. n <= B /\ B <= P + n /\ P + n <= B + R
    BY DEF Ledger
  <1>3. Unit * (paid + 1) = P + Unit
    BY <1>1
  <1>4. /\ n - Unit \in Nat /\ n - Unit <= B /\ n - Unit < B
        /\ B <= (P + Unit) + (n - Unit) /\ (P + Unit) + (n - Unit) <= B + R
    <2> HIDE DEF B, P, R
    <2> QED BY <1>1, <1>2
  <1> QED BY <1>3, <1>4 DEF Ledger

\* The table is bounded and holds buckets of routes and clients only.
SizeOK(bs) == /\ DOMAIN bs \subseteq Keys /\ IsFiniteSet(DOMAIN bs)
              /\ Cardinality(DOMAIN bs) <= MaxBuckets

\* The three outcomes of allowLocked; a new bucket is made only if there is
\* room for it.
LEMMA TakeDoes ==
    ASSUME NEW bs, SizeOK(bs), NEW key \in Keys, NEW t, NEW d, d = Take(bs, key, t),
           NEW have, have = Refilled(Entry(bs, key, t), key, t)
    PROVE  /\ SizeOK(d.buckets) /\ DOMAIN bs \subseteq DOMAIN d.buckets
           /\ \/ d.verdict = "bucket_capacity" /\ d.buckets = bs /\ key \notin DOMAIN bs
              \/ /\ d.verdict = "ok" /\ have >= Unit
                 /\ d.buckets = With(bs, key, [tokens |-> have - Unit, last |-> t])
              \/ /\ d.verdict = "rate_exceeded"
                 /\ d.buckets = With(bs, key, [tokens |-> have, last |-> t])
  <1>1. CASE NoRoom(bs, key)
    BY <1>1 DEF Take, NoRoom
  <1>2. CASE ~NoRoom(bs, key)
    <2>1. PICK b : /\ d.buckets = With(bs, key, b)
                   /\ \/ d.verdict = "ok" /\ have >= Unit /\ b = [tokens |-> have - Unit, last |-> t]
                      \/ d.verdict = "rate_exceeded" /\ b = [tokens |-> have, last |-> t]
      <3>1. d = [verdict |-> IF have >= Unit THEN "ok" ELSE "rate_exceeded",
                 buckets |-> With(bs, key, [tokens |-> IF have >= Unit THEN have - Unit ELSE have,
                                            last |-> t])]
        BY <1>2 DEF Take, Entry
      <3> QED BY <3>1
    <2>2. DOMAIN d.buckets = DOMAIN bs \cup {key}
      BY <2>1 DEF With
    <2>3. IsFiniteSet(DOMAIN bs \cup {key}) /\ Cardinality(DOMAIN bs) \in Nat
      BY FS_AddElement, FS_CardinalityType DEF SizeOK
    <2>4. Cardinality(DOMAIN bs \cup {key}) <= MaxBuckets
      <3>1. CASE key \in DOMAIN bs
        <4>1. DOMAIN bs \cup {key} = DOMAIN bs
          BY <3>1
        <4> QED BY <4>1 DEF SizeOK
      <3>2. CASE key \notin DOMAIN bs
        <4>1. Cardinality(DOMAIN bs \cup {key}) = Cardinality(DOMAIN bs) + 1
          BY <3>2, FS_AddElement DEF SizeOK
        <4>2. ~(Cardinality(DOMAIN bs) >= MaxBuckets)
          BY <1>2, <3>2 DEF NoRoom
        <4> QED BY <2>3, <4>1, <4>2, Settings
      <3> QED BY <3>1, <3>2
    <2>5. SizeOK(d.buckets)
      BY <2>2, <2>3, <2>4 DEF SizeOK
    <2> QED BY <2>1, <2>2, <2>5
  <1> QED BY <1>1, <1>2

\* The refund of Allow undoes the payment, since a bucket that has been paid
\* from is not full.
LEMMA RefundDoes ==
    ASSUME NEW bs, NEW rt \in Routes, NEW n \in Nat, NEW t,
           GlobalKey(rt) \in DOMAIN bs, bs[GlobalKey(rt)] = [tokens |-> n - Unit, last |-> t],
           n - Unit < BurstOf(GlobalKey(rt))
    PROVE  /\ DOMAIN Refund(bs, rt) = DOMAIN bs
           /\ Refund(bs, rt)[GlobalKey(rt)] = [tokens |-> n, last |-> t]
           /\ \A k \in DOMAIN bs \ {GlobalKey(rt)} : Refund(bs, rt)[k] = bs[k]
  <1> DEFINE g == GlobalKey(rt)
  <1>1. Refund(bs, rt) = [bs EXCEPT ![g] = [bs[g] EXCEPT !.tokens =
                                              IF @ < BurstOf(g) THEN @ + Unit ELSE @]]
    BY DEF Refund
  <1>2. [bs[g] EXCEPT !.tokens = IF @ < BurstOf(g) THEN @ + Unit ELSE @] = [tokens |-> n, last |-> t]
    <2>1. (n - Unit) + Unit = n
      BY Settings
    <2> QED BY <2>1
  <1> HIDE DEF g
  <1>3. Refund(bs, rt) = [bs EXCEPT ![g] = [tokens |-> n, last |-> t]]
    BY <1>1, <1>2
  <1> QED BY <1>3 DEF g

\* The buckets that Allow looks at, and what it finds in one of them.
Mine(rt, c) == {GlobalKey(rt), ClientKey(rt, c)}
Found(k, t) == Refilled(Entry(buckets, k, t), k, t)

\* What Allow may do to the bucket of key k: nothing, a refill, or, of both of
\* the buckets and only if it lets the request through, a payment.
AllowOne(d, k, rt, c, t) ==
    \/ k \in DOMAIN buckets /\ d.buckets[k] = buckets[k] /\ ~(d.verdict = "ok" /\ k \in Mine(rt, c))
    \/ k \in Mine(rt, c) /\ d.verdict # "ok" /\ d.buckets[k] = [tokens |-> Found(k, t), last |-> t]
    \/ /\ k \in Mine(rt, c) /\ d.verdict = "ok" /\ Found(k, t) >= Unit
       /\ d.buckets[k] = [tokens |-> Found(k, t) - Unit, last |-> t]

\* Allow pays from both buckets or from none.
LEMMA AllowDoes ==
    ASSUME SizeOK(buckets), NEW rt \in Routes, NEW c \in Clients, NEW t \in Nat,
           NEW d, d = Allow(rt, c, t),
           Found(GlobalKey(rt), t) \in Nat,
           Found(GlobalKey(rt), t) >= Unit =>
             Found(GlobalKey(rt), t) - Unit < BurstOf(GlobalKey(rt))
    PROVE  /\ SizeOK(d.buckets) /\ DOMAIN buckets \subseteq DOMAIN d.buckets
           /\ d.verdict = "ok" => Mine(rt, c) \subseteq DOMAIN d.buckets
           /\ \A k \in DOMAIN d.buckets : AllowOne(d, k, rt, c, t)
  <1> DEFINE g == GlobalKey(rt)
             ck == ClientKey(rt, c)
             dg == Take(buckets, g, t)
             gs == dg.buckets
             dk == Take(gs, ck, t)
             ks == dk.buckets
  <1>1. g \in Keys /\ ck \in Keys /\ g # ck
    BY KeysDiffer
  <1>2. /\ SizeOK(gs) /\ DOMAIN buckets \subseteq DOMAIN gs
        /\ \/ dg.verdict = "bucket_capacity" /\ gs = buckets /\ g \notin DOMAIN buckets
           \/ /\ dg.verdict = "ok" /\ Found(g, t) >= Unit
              /\ gs = With(buckets, g, [tokens |-> Found(g, t) - Unit, last |-> t])
           \/ /\ dg.verdict = "rate_exceeded"
              /\ gs = With(buckets, g, [tokens |-> Found(g, t), last |-> t])
    BY <1>1, TakeDoes DEF Found
  <1>3. d = IF dg.verdict # "ok" THEN [scope |-> "global", verdict |-> dg.verdict, buckets |-> gs]
            ELSE IF dk.verdict = "ok" THEN [scope |-> "none", verdict |-> "ok", buckets |-> ks]
            ELSE [scope |-> "client", verdict |-> dk.verdict, buckets |-> Refund(ks, rt)]
    BY DEF Allow
  <1> HIDE DEF dg, g, ck
  <1>4. CASE dg.verdict = "bucket_capacity"
    <2>1. d.verdict = "bucket_capacity" /\ d.buckets = buckets
      BY <1>2, <1>3, <1>4
    <2> QED BY <2>1 DEF AllowOne
  <1>5. CASE dg.verdict = "rate_exceeded"
    <2>1. /\ d.verdict = "rate_exceeded"
          /\ d.buckets = With(buckets, g, [tokens |-> Found(g, t), last |-> t]) /\ SizeOK(d.buckets)
      BY <1>2, <1>3, <1>5
    <2>2. /\ DOMAIN d.buckets = DOMAIN buckets \cup {g}
          /\ d.buckets[g] = [tokens |-> Found(g, t), last |-> t]
          /\ \A y \in DOMAIN buckets \ {g} : d.buckets[y] = buckets[y]
      BY <2>1 DEF With
    <2> QED BY <2>1, <2>2 DEF AllowOne, Mine, g
  <1>6. CASE dg.verdict = "ok"
    <2>1. /\ Found(g, t) >= Unit /\ DOMAIN gs = DOMAIN buckets \cup {g}
          /\ gs[g] = [tokens |-> Found(g, t) - Unit, last |-> t]
          /\ \A y \in DOMAIN buckets \ {g} : gs[y] = buckets[y]
      <3>1. gs = With(buckets, g, [tokens |-> Found(g, t) - Unit, last |-> t]) /\ Found(g, t) >= Unit
        BY <1>2, <1>6
      <3> HIDE DEF gs
      <3> QED BY <3>1 DEF With
    <2> HIDE DEF gs
    <2>2. Refilled(Entry(gs, ck, t), ck, t) = Found(ck, t)
      BY <1>1, <2>1 DEF Entry, Found
    <2>3. /\ SizeOK(ks) /\ DOMAIN gs \subseteq DOMAIN ks
          /\ \/ dk.verdict = "bucket_capacity" /\ ks = gs /\ ck \notin DOMAIN gs
             \/ /\ dk.verdict = "ok" /\ Found(ck, t) >= Unit
                /\ ks = With(gs, ck, [tokens |-> Found(ck, t) - Unit, last |-> t])
             \/ /\ dk.verdict = "rate_exceeded"
                /\ ks = With(gs, ck, [tokens |-> Found(ck, t), last |-> t])
      BY <1>1, <1>2, <2>2, TakeDoes
    <2> HIDE DEF dk
    <2>4. CASE dk.verdict = "ok"
      <3>1. d.verdict = "ok" /\ d.buckets = ks /\ Found(ck, t) >= Unit
        BY <1>3, <1>6, <2>3, <2>4
      <3>2. /\ DOMAIN ks = DOMAIN buckets \cup {g, ck}
            /\ ks[ck] = [tokens |-> Found(ck, t) - Unit, last |-> t]
            /\ ks[g] = [tokens |-> Found(g, t) - Unit, last |-> t]
            /\ \A y \in DOMAIN buckets \ {g, ck} : ks[y] = buckets[y]
        <4> HIDE DEF ks
        <4> QED BY <1>1, <2>1, <2>3, <2>4 DEF With
      <3> QED BY <2>1, <2>3, <3>1, <3>2 DEF AllowOne, Mine, g, ck
    <2>5. CASE dk.verdict # "ok"
      <3>1. d.verdict = dk.verdict /\ d.buckets = Refund(ks, rt)
        BY <1>3, <1>6, <2>5
      <3>2. /\ g \in DOMAIN ks /\ ks[g] = [tokens |-> Found(g, t) - Unit, last |-> t]
            /\ \A y \in DOMAIN ks \ {g} : \/ y = ck /\ ks[y] = [tokens |-> Found(ck, t), last |-> t]
                                          \/ y \in DOMAIN buckets /\ ks[y] = buckets[y]
        <4> HIDE DEF ks
        <4> QED BY <1>1, <2>1, <2>3, <2>5 DEF With
      <3>3. /\ DOMAIN Refund(ks, rt) = DOMAIN ks
            /\ Refund(ks, rt)[g] = [tokens |-> Found(g, t), last |-> t]
            /\ \A y \in DOMAIN ks \ {g} : Refund(ks, rt)[y] = ks[y]
        <4> HIDE DEF ks
        <4> QED BY <2>1, <3>2, RefundDoes DEF g
      <3> DEFINE rs == Refund(ks, rt)
      <3>4. /\ DOMAIN rs = DOMAIN ks /\ rs[g] = [tokens |-> Found(g, t), last |-> t]
            /\ \A y \in DOMAIN rs \ {g} : \/ y = ck /\ rs[y] = [tokens |-> Found(ck, t), last |-> t]
                                          \/ y \in DOMAIN buckets /\ rs[y] = buckets[y]
        <4> HIDE DEF ks
        <4> QED BY <3>2, <3>3
      <3> HIDE DEF rs, ks
      <3>5. SizeOK(rs) /\ DOMAIN buckets \subseteq DOMAIN rs
        BY <2>1, <2>3, <3>4 DEF SizeOK
      <3>6. d.verdict # "ok" /\ d.buckets = rs
        BY <2>5, <3>1 DEF rs
      <3> QED BY <3>4, <3>5, <3>6 DEF AllowOne, Mine, g, ck
    <2> QED BY <2>4, <2>5
  <1> QED BY <1>2, <1>4, <1>5, <1>6

\* The ghosts that follow the payments and the time a bucket loses.
PaidBy(d, k, rt, c, paid) == IF k \in Mine(rt, c) /\ d.verdict = "ok" THEN paid[k] + 1 ELSE paid[k]
LostBy(d, k, back) == back[k] + (IF k \in DOMAIN buckets /\ d.buckets[k].last < buckets[k].last
                                 THEN buckets[k].last - d.buckets[k].last ELSE 0)

\* Allow keeps the ledger of every bucket.
LEMMA AllowKeeps ==
    ASSUME SizeOK(buckets), NEW rt \in Routes, NEW c \in Clients, NEW t \in Nat,
           NEW paid \in [Keys -> Nat], NEW back \in [Keys -> Nat],
           \A k \in DOMAIN buckets : Ledger(k, buckets[k], paid[k], back[k]),
           \A k \in Mine(rt, c) : Ledger(k, Entry(buckets, k, t), paid[k], back[k]),
           NEW d, d = Allow(rt, c, t)
    PROVE  /\ SizeOK(d.buckets) /\ DOMAIN buckets \subseteq DOMAIN d.buckets
           /\ d.verdict = "ok" => Mine(rt, c) \subseteq DOMAIN d.buckets
           /\ \A k \in DOMAIN d.buckets :
                 /\ Ledger(k, d.buckets[k], PaidBy(d, k, rt, c, paid), LostBy(d, k, back))
                 /\ d.buckets[k].last = t \/ (k \in DOMAIN buckets /\ d.buckets[k] = buckets[k])
  <1>1. \A k \in Mine(rt, c) : k \in Keys
    BY KeysDiffer DEF Mine
  <1>2. ASSUME NEW k \in Mine(rt, c)
        PROVE  /\ Found(k, t) \in Nat
               /\ Ledger(k, [tokens |-> Found(k, t), last |-> t], paid[k],
                         back[k] + Back(Entry(buckets, k, t), t))
    <2>1. k \in Keys /\ paid[k] \in Nat /\ back[k] \in Nat
          /\ Ledger(k, Entry(buckets, k, t), paid[k], back[k])
      BY <1>1
    <2> QED BY <2>1, RefillKeeps DEF Found
  <1>3. ASSUME NEW k \in Mine(rt, c)
        PROVE  Back(Entry(buckets, k, t), t) \in Nat
    BY DEF Back, Entry, Ledger
  <1>4. ASSUME NEW k \in Mine(rt, c), Found(k, t) >= Unit
        PROVE  /\ Ledger(k, [tokens |-> Found(k, t) - Unit, last |-> t], paid[k] + 1,
                         back[k] + Back(Entry(buckets, k, t), t))
               /\ Found(k, t) - Unit < BurstOf(k)
    <2>1. k \in Keys /\ paid[k] \in Nat /\ back[k] + Back(Entry(buckets, k, t), t) \in Nat
      BY <1>1, <1>3
    <2> QED BY <1>2, <1>4, <2>1, PaymentKeeps
  <1>5. /\ SizeOK(d.buckets) /\ DOMAIN buckets \subseteq DOMAIN d.buckets
        /\ d.verdict = "ok" => Mine(rt, c) \subseteq DOMAIN d.buckets
        /\ \A k \in DOMAIN d.buckets : AllowOne(d, k, rt, c, t)
    <2>1. GlobalKey(rt) \in Mine(rt, c)
      BY DEF Mine
    <2> QED BY <1>2, <1>4, <2>1, AllowDoes
  <1>6. ASSUME NEW k \in DOMAIN d.buckets
        PROVE  /\ Ledger(k, d.buckets[k], PaidBy(d, k, rt, c, paid), LostBy(d, k, back))
               /\ d.buckets[k].last = t \/ (k \in DOMAIN buckets /\ d.buckets[k] = buckets[k])
    <2>1. CASE k \in DOMAIN buckets /\ d.buckets[k] = buckets[k] /\ ~(d.verdict = "ok" /\ k \in Mine(rt, c))
      <3>1. Ledger(k, buckets[k], paid[k], back[k]) /\ back[k] \in Nat /\ buckets[k].last \in Nat
        BY <2>1 DEF Ledger, SizeOK
      <3>2. PaidBy(d, k, rt, c, paid) = paid[k] /\ LostBy(d, k, back) = back[k]
        BY <2>1, <3>1 DEF PaidBy, LostBy
      <3> QED BY <2>1, <3>1, <3>2
    <2>2. ASSUME k \in Mine(rt, c), d.buckets[k].last = t
          PROVE  LostBy(d, k, back) = back[k] + Back(Entry(buckets, k, t), t)
      BY <2>2 DEF LostBy, Back, Entry
    <2>3. CASE k \in Mine(rt, c) /\ d.verdict # "ok" /\ d.buckets[k] = [tokens |-> Found(k, t), last |-> t]
      <3>1. PaidBy(d, k, rt, c, paid) = paid[k] /\ d.buckets[k].last = t
        BY <2>3 DEF PaidBy
      <3> QED BY <1>2, <2>2, <2>3, <3>1
    <2>4. CASE /\ k \in Mine(rt, c) /\ d.verdict = "ok" /\ Found(k, t) >= Unit
               /\ d.buckets[k] = [tokens |-> Found(k, t) - Unit, last |-> t]
      <3>1. PaidBy(d, k, rt, c, paid) = paid[k] + 1 /\ d.buckets[k].last = t
        BY <2>4 DEF PaidBy
      <3> QED BY <1>4, <2>2, <2>4, <3>1
    <2> QED BY <1>5, <2>1, <2>3, <2>4 DEF AllowOne
  <1> QED BY <1>5, <1>6

-----------------------------------------------------------------------------
(* BanManager.                                                             *)

BanOK(v) == v \in [times : Seq(Int), until : Int, seen : Int] /\ Len(v.times) < Threshold

\* The table of bans is bounded, and so is the history of each client.
TableOK(bs) == /\ DOMAIN bs \subseteq Clients /\ IsFiniteSet(DOMAIN bs)
               /\ Cardinality(DOMAIN bs) <= MaxTracked
               /\ \A c \in DOMAIN bs : BanOK(bs[c])

\* The loop of RecordViolation that forgets old violations shortens the list.
LEMMA RecentShortens ==
    ASSUME NEW times \in Seq(Int), NEW t \in Int
    PROVE  Recent(times, t) \in Seq(Int) /\ Len(Recent(times, t)) <= Len(times)
  <1> DEFINE L == Len(times)
             Turn(h, i) == IF i = 0 THEN <<>>
                           ELSE IF times[i] >= t - Window THEN Append(h[i - 1], times[i])
                           ELSE h[i - 1]
             Def(h) == h = [i \in 0..L |-> Turn(h, i)]
             Short(h, n) == \A i \in 0..n : h[i] \in Seq(Int) /\ h[i] = Turn(h, i) /\ Len(h[i]) <= i
             Good == {n \in 0..L : \E h : h = [i \in 0..n |-> h[i]] /\ Short(h, n)}
  <1>1. L \in Nat /\ \A i \in 1..L : times[i] \in Int
    OBVIOUS
  <1>2. 0 \in Good
    <2> DEFINE h == [i \in 0..0 |-> <<>>]
    <2>1. Short(h, 0) /\ h = [i \in 0..0 |-> h[i]]
      OBVIOUS
    <2> HIDE DEF h, Short
    <2> QED BY <1>1, <2>1
  <1>3. ASSUME NEW n \in 0..L - 1, n \in Good
        PROVE  n + 1 \in Good
    <2>1. PICK h : h = [i \in 0..n |-> h[i]] /\ Short(h, n)
      BY <1>3
    <2>2. n \in Nat /\ n + 1 \in 1..L /\ n + 1 \in 0..L /\ times[n + 1] \in Int
      BY <1>1
    <2>3. Turn(h, n + 1) \in Seq(Int) /\ Len(Turn(h, n + 1)) <= n + 1
      <3>0. (n + 1) - 1 = n /\ n + 1 # 0 /\ n \in 0..n
        BY <2>2
      <3>1. h[n] \in Seq(Int) /\ Len(h[n]) <= n
        <4> HIDE DEF Turn
        <4> QED BY <2>1, <3>0
      <3> QED BY <2>2, <3>0, <3>1
    <2> DEFINE g == [i \in 0..n + 1 |-> IF i = n + 1 THEN Turn(h, n + 1) ELSE h[i]]
    <2>4. \A i \in 0..n : g[i] = h[i]
      BY <2>2
    <2>5. ASSUME NEW i \in 0..n + 1
          PROVE  g[i] \in Seq(Int) /\ g[i] = Turn(g, i) /\ Len(g[i]) <= i
      <3>1. CASE i = n + 1
        <4>1. g[i] = Turn(h, n + 1)
          BY <3>1
        <4>2. Turn(g, i) = Turn(h, n + 1)
          BY <2>2, <2>4, <3>1
        <4> QED BY <2>3, <3>1, <4>1, <4>2
      <3>2. CASE i # n + 1
        <4>1. i \in 0..n /\ (i # 0 => i - 1 \in 0..n)
          BY <2>2, <3>2
        <4>2. g[i] = h[i] /\ h[i] \in Seq(Int) /\ h[i] = Turn(h, i) /\ Len(h[i]) <= i
          BY <2>1, <2>4, <4>1
        <4>3. Turn(g, i) = Turn(h, i)
          <5> HIDE DEF g
          <5> QED BY <2>4, <4>1
        <4> QED BY <4>2, <4>3
      <3> QED BY <3>1, <3>2
    <2>6. Short(g, n + 1) /\ g = [i \in 0..n + 1 |-> g[i]]
      <3>1. Short(g, n + 1)
        <4> HIDE DEF g
        <4> QED BY <2>5
      <3>2. g = [i \in 0..n + 1 |-> g[i]]
        OBVIOUS
      <3> QED BY <3>1, <3>2
    <2> HIDE DEF g, Short
    <2> QED BY <2>2, <2>6
  <1>4. L \in Good
    <2> HIDE DEF Good, L
    <2>1. \A n \in 0..L : n \in Good
      BY <1>1, <1>2, <1>3, UptoInduction
    <2> QED BY <1>1, <2>1
  <1>5. PICK g : g = [i \in 0..L |-> g[i]] /\ Short(g, L)
    BY <1>4
  <1>6. Def(g)
    <2>1. [i \in 0..L |-> g[i]] = [i \in 0..L |-> Turn(g, i)]
      BY <1>5
    <2> HIDE DEF Turn
    <2> QED BY <1>5, <2>1
  <1> DEFINE it == CHOOSE h : Def(h)
  <1>7. Def(it)
    <2> HIDE DEF Def
    <2> QED BY <1>6
  <1>8. Recent(times, t) = it[L]
    BY DEF Recent
  <1> HIDE DEF it
  <1>9. it[L] = g[L]
    <2> DEFINE Same == {i \in 0..L : it[i] = g[i]}
    <2>1. \A i \in 0..L : it[i] = Turn(it, i) /\ g[i] = Turn(g, i)
      BY <1>5, <1>7
    <2>2. 0 \in Same
      BY <1>1, <2>1
    <2>3. ASSUME NEW n \in 0..L - 1, n \in Same
          PROVE  n + 1 \in Same
      <3>1. n + 1 \in 0..L /\ (n + 1) - 1 = n /\ n + 1 # 0
        BY <1>1
      <3>2. Turn(it, n + 1) = Turn(g, n + 1)
        BY <2>3, <3>1
      <3> HIDE DEF Turn
      <3> QED BY <2>1, <3>1, <3>2
    <2> HIDE DEF Same
    <2>4. \A n \in 0..L : n \in Same
      BY <1>1, <2>2, <2>3, UptoInduction
    <2> QED BY <1>1, <2>4 DEF Same
  <1> QED BY <1>1, <1>5, <1>8, <1>9, SMTT(30)

\* Entries are removed from the table of bans, the others stay as they are.
LEMMA WithoutKeeps ==
    ASSUME NEW bs, TableOK(bs), NEW cs
    PROVE  /\ TableOK(Without(bs, cs)) /\ DOMAIN Without(bs, cs) = DOMAIN bs \ cs
           /\ \A c \in DOMAIN bs \ cs : Without(bs, cs)[c] = bs[c]
  <1>1. /\ DOMAIN Without(bs, cs) = DOMAIN bs \ cs
        /\ \A c \in DOMAIN bs \ cs : Without(bs, cs)[c] = bs[c]
    BY DEF Without, Restrict
  <1>2. IsFiniteSet(DOMAIN bs \ cs) /\ Cardinality(DOMAIN bs \ cs) <= Cardinality(DOMAIN bs)
        /\ Cardinality(DOMAIN bs \ cs) \in Nat /\ Cardinality(DOMAIN bs) \in Nat
    BY FS_Subset, FS_CardinalityType DEF TableOK
  <1>3. Cardinality(DOMAIN bs \ cs) <= MaxTracked
    BY <1>2, Settings DEF TableOK
  <1> QED BY <1>1, <1>2, <1>3 DEF TableOK

\* cleanupInactiveLocked keeps active bans, and the end of every ban.
LEMMA SweptKeeps ==
    ASSUME TableOK(bans), NEW t \in Int
    PROVE  /\ TableOK(Swept(t)) /\ DOMAIN Swept(t) \subseteq DOMAIN bans
           /\ \A c \in DOMAIN Swept(t) : Swept(t)[c].until = bans[c].until
           /\ \A c \in DOMAIN bans : t < bans[c].until => c \in DOMAIN Swept(t)
  <1> DEFINE pruned == [c \in DOMAIN bans |->
                          IF Banned(c, t) THEN bans[c] ELSE [bans[c] EXCEPT !.times = Recent(@, t)]]
             idle == {c \in DOMAIN bans : /\ ~Banned(c, t) /\ pruned[c].times = <<>>
                                          /\ t - bans[c].seen > Window}
  <1>1. CASE ~Due(t)
    BY <1>1 DEF Swept
  <1>2. CASE Due(t)
    <2>1. Swept(t) = Without(pruned, idle)
      BY <1>2 DEF Swept
    <2>2. ASSUME NEW c \in DOMAIN bans
          PROVE  BanOK(pruned[c]) /\ pruned[c].until = bans[c].until
      <3>1. BanOK(bans[c])
        BY DEF TableOK
      <3>2. /\ Recent(bans[c].times, t) \in Seq(Int)
            /\ Len(Recent(bans[c].times, t)) <= Len(bans[c].times)
        BY <3>1, RecentShortens DEF BanOK
      <3>3. Len(Recent(bans[c].times, t)) < Threshold
        BY <3>1, <3>2, Settings DEF BanOK
      <3> QED BY <3>1, <3>2, <3>3 DEF BanOK
    <2>3. DOMAIN pruned = DOMAIN bans
      OBVIOUS
    <2>4. \A c \in idle : ~(t < bans[c].until)
      BY DEF Banned
    <2> HIDE DEF pruned, idle
    <2>5. TableOK(pruned)
      BY <2>2, <2>3 DEF TableOK
    <2>6. /\ TableOK(Without(pruned, idle)) /\ DOMAIN Without(pruned, idle) = DOMAIN bans \ idle
          /\ \A c \in DOMAIN bans \ idle : Without(pruned, idle)[c] = pruned[c]
      BY <2>3, <2>5, WithoutKeeps
    <2> QED BY <2>1, <2>2, <2>4, <2>6
  <1> QED BY <1>1, <1>2

\* RecordViolation charges a client: the ban it had ends when it did, or the
\* length of a new ban after the violation.
LEMMA ChargedKeeps ==
    ASSUME NEW bs, TableOK(bs), NEW c, NEW d \in Int, NEW t \in Int
    PROVE  /\ BanOK(Charged(bs, c, d, t))
           /\ c \in DOMAIN bs => Charged(bs, c, d, t).until \in {bs[c].until, t + d}
  <1> DEFINE v == IF c \in DOMAIN bs THEN bs[c] ELSE [times |-> <<>>, until |-> Never, seen |-> t]
             times == Append(Recent(v.times, t), t)
  <1>1. BanOK(v)
    BY Settings DEF TableOK, BanOK, Never
  <1>2. times \in Seq(Int) /\ Len(times) \in Nat
    <2>1. v.times \in Seq(Int)
      BY <1>1 DEF BanOK
    <2> HIDE DEF v
    <2>2. Recent(v.times, t) \in Seq(Int)
      BY <2>1, RecentShortens
    <2> QED BY <2>2
  <1>3. Charged(bs, c, d, t) =
          IF Len(times) >= Threshold THEN [times |-> <<>>, until |-> t + d, seen |-> t]
          ELSE [v EXCEPT !.times = times, !.seen = t]
    BY DEF Charged
  <1>4. c \in DOMAIN bs => v.until = bs[c].until
    OBVIOUS
  <1> HIDE DEF v, times
  <1>5. CASE Len(times) >= Threshold
    BY <1>3, <1>5, Settings DEF BanOK
  <1>6. CASE ~(Len(times) >= Threshold)
    <2>1. Charged(bs, c, d, t) = [v EXCEPT !.times = times, !.seen = t]
      BY <1>3, <1>6
    <2>2. Len(times) < Threshold
      BY <1>2, <1>6, Settings
    <2> QED BY <1>1, <1>2, <1>4, <2>1, <2>2 DEF BanOK
  <1> QED BY <1>5, <1>6

\* A client is put into a table with room for it.
LEMMA AddKeeps ==
    ASSUME NEW bs, TableOK(bs), NEW c \in Clients, NEW v, BanOK(v),
           c \in DOMAIN bs \/ Cardinality(DOMAIN bs) < MaxTracked
    PROVE  TableOK(With(bs, c, v))
  <1>1. /\ DOMAIN With(bs, c, v) = DOMAIN bs \cup {c}
        /\ \A y \in DOMAIN bs \cup {c} : BanOK(With(bs, c, v)[y])
    BY DEF With, TableOK
  <1>2. IsFiniteSet(DOMAIN bs \cup {c}) /\ Cardinality(DOMAIN bs) \in Nat
    BY FS_AddElement, FS_CardinalityType DEF TableOK
  <1>3. Cardinality(DOMAIN bs \cup {c}) <= MaxTracked
    <2>1. CASE c \in DOMAIN bs
      <3>1. DOMAIN bs \cup {c} = DOMAIN bs
        BY <2>1
      <3> QED BY <3>1 DEF TableOK
    <2>2. CASE c \notin DOMAIN bs
      <3>1. Cardinality(DOMAIN bs \cup {c}) = Cardinality(DOMAIN bs) + 1
        BY <2>2, FS_AddElement DEF TableOK
      <3> QED BY <1>2, <2>2, <3>1, Settings
    <2> QED BY <2>1, <2>2
  <1> QED BY <1>1, <1>2, <1>3 DEF TableOK

\* RecordViolation keeps the table bounded, and evicts nobody whose ban is
\* not over: a client that is banned at t still is, until the end of that ban
\* or of the new one.
LEMMA RecordKeeps ==
    ASSUME TableOK(bans), NEW c \in Clients, NEW d \in Int, NEW t \in Int, RecordViolation(c, d, t)
    PROVE  /\ TableOK(bans')
           /\ \A b \in DOMAIN bans : t < bans[b].until =>
                 b \in DOMAIN bans' /\ bans'[b].until \in {bans[b].until, t + d}
  <1> DEFINE bs == Swept(t)
             full == c \notin DOMAIN bs /\ Cardinality(DOMAIN bs) >= MaxTracked
             Kept(ns) == \A b \in DOMAIN bs : t < bs[b].until =>
                            b \in DOMAIN ns /\ ns[b].until \in {bs[b].until, t + d}
  <1>1. TableOK(bs)
    BY SweptKeeps
  <1>2. Cardinality(DOMAIN bs) \in Nat /\ Cardinality(DOMAIN bs) <= MaxTracked /\ MaxTracked \in Nat
    BY <1>1, FS_CardinalityType, Settings DEF TableOK
  <1>3. \/ ~full /\ bans' = With(bs, c, Charged(bs, c, d, t))
        \/ full /\ bans' = bs
        \/ full /\ \E gone \in Evictable(bs, t) :
              LET old == Without(bs, {gone}) IN bans' = With(old, c, Charged(old, c, d, t))
    BY DEF RecordViolation
  <1>4. TableOK(bans') /\ Kept(bans')
    <2> HIDE DEF bs
    <2>1. CASE ~full /\ bans' = With(bs, c, Charged(bs, c, d, t))
      <3>1. /\ BanOK(Charged(bs, c, d, t))
            /\ c \in DOMAIN bs => Charged(bs, c, d, t).until \in {bs[c].until, t + d}
        BY <1>1, ChargedKeeps
      <3>2. c \in DOMAIN bs \/ Cardinality(DOMAIN bs) < MaxTracked
        BY <1>2, <2>1
      <3>3. TableOK(With(bs, c, Charged(bs, c, d, t)))
        BY <1>1, <3>1, <3>2, AddKeeps
      <3> QED BY <2>1, <3>1, <3>3 DEF With
    <2>2. CASE full /\ bans' = bs
      BY <1>1, <2>2
    <2>3. ASSUME NEW gone \in Evictable(bs, t), NEW old, old = Without(bs, {gone}), full,
                 bans' = With(old, c, Charged(old, c, d, t))
          PROVE  TableOK(bans') /\ Kept(bans')
      <3>1. gone \in DOMAIN bs /\ ~(t < bs[gone].until)
        BY <1>1 DEF Evictable, TableOK, BanOK
      <3>2. /\ TableOK(old) /\ DOMAIN old = DOMAIN bs \ {gone}
            /\ \A b \in DOMAIN bs \ {gone} : old[b] = bs[b]
        BY <1>1, <2>3, WithoutKeeps
      <3>3. BanOK(Charged(old, c, d, t))
        BY <3>2, ChargedKeeps
      <3>4. Cardinality(DOMAIN old) < MaxTracked
        <4>1. Cardinality(DOMAIN bs \ {gone}) = Cardinality(DOMAIN bs) - 1
          BY <1>1, <3>1, FS_RemoveElement DEF TableOK
        <4> QED BY <1>2, <3>2, <4>1
      <3>5. TableOK(bans')
        BY <2>3, <3>2, <3>3, <3>4, AddKeeps
      <3>6. Kept(bans')
        BY <2>3, <3>1, <3>2 DEF With
      <3> QED BY <3>5, <3>6
    <2> QED BY <1>3, <2>1, <2>2, <2>3
  <1> QED BY <1>4, SweptKeeps

\* IsBanned keeps bans that are not over, and what it leaves of a client it
\* finds not to be banned is a ban that is over.
LEMMA ObserveKeeps ==
    ASSUME TableOK(bans), NEW c, NEW t \in Int, ObserveBan(c, t)
    PROVE  /\ TableOK(bans')
           /\ \A b \in DOMAIN bans : t < bans[b].until =>
                 b \in DOMAIN bans' /\ bans'[b].until = bans[b].until
           /\ ~Banned(c, t) /\ c \in DOMAIN bans' => ~(t < bans'[c].until)
  <1>1. CASE c \notin DOMAIN bans
    BY <1>1 DEF ObserveBan
  <1>2. CASE c \in DOMAIN bans /\ Banned(c, t)
    <2>1. bans' = [bans EXCEPT ![c] = [bans[c] EXCEPT !.seen = t]]
      BY <1>2 DEF ObserveBan
    <2>2. DOMAIN bans' = DOMAIN bans /\ \A b \in DOMAIN bans \ {c} : bans'[b] = bans[b]
      BY <2>1
    <2>3. BanOK(bans'[c]) /\ bans'[c].until = bans[c].until
      BY <1>2, <2>1 DEF TableOK, BanOK
    <2>4. TableOK(bans')
      BY <2>2, <2>3 DEF TableOK
    <2> QED BY <1>2, <2>2, <2>3, <2>4
  <1>3. CASE c \in DOMAIN bans /\ ~Banned(c, t) /\ Served(bans[c], t)
    <2>1. bans' = Without(bans, {c})
      BY <1>3 DEF ObserveBan
    <2>2. /\ TableOK(bans') /\ DOMAIN bans' = DOMAIN bans \ {c}
          /\ \A b \in DOMAIN bans \ {c} : bans'[b] = bans[b]
      BY <2>1, WithoutKeeps
    <2> QED BY <1>3, <2>2 DEF Banned
  <1>4. CASE c \in DOMAIN bans /\ ~Banned(c, t) /\ ~Served(bans[c], t)
    BY <1>4 DEF ObserveBan, Banned
  <1> QED BY <1>1, <1>2, <1>3, <1>4

-----------------------------------------------------------------------------
(* The requests.                                                           *)

\* Types; and a time that is going to be used is not older than MaxStale.
RequestOK ==
    /\ policy \in PolicySets /\ now \in 0..MaxTime
    /\ at \in [Requests -> Places] /\ held \in [Requests -> BOOLEAN]
    /\ client \in [Requests -> Clients] /\ route \in [Requests -> Routes]
    /\ clock \in [Requests -> 0..MaxTime]
    /\ \A r \in Requests : at[r] \in Timed => clock[r] <= now /\ now - clock[r] <= MaxStale

\* The steps of one request, of Close, of the Admin API and the timers.
OwnStep(r) == \/ \E c \in Clients, rt \in Routes : Arrive(r, c, rt)
              \/ Progress(r) \/ Hijack(r) \/ TunnelEnds(r)
OtherStep == \/ \E r \in Requests : CloseConn(r)
             \/ BeginClose \/ EndClose \/ List \/ Cleanup \/ \E c \in Clients : Lifted(c)

\* Every step is one of a request, which moves it and leaves the clock alone,
\* or one of the others, which moves no request.
LEMMA StepKinds ==
    ASSUME [Next]_vars
    PROVE  \/ \E r \in Requests : /\ OwnStep(r) /\ UNCHANGED <<policy, now>>
                                  /\ \E p \in Places : Go(r, p)
           \/ OtherStep /\ UNCHANGED <<policy, now, at, request, clock, slots>>
           \/ Tick /\ UNCHANGED policy
           \/ UNCHANGED vars
  <1>1. ASSUME NEW r \in Requests, OwnStep(r)
        PROVE  \E p \in Places : Go(r, p)
    <2> USE DEF Places
    <2>1. CASE \E c \in Clients, rt \in Routes : Arrive(r, c, rt)
      BY <2>1 DEF Arrive
    <2>2. CASE Progress(r)
      BY <2>2 DEF Progress, ValidateShape, CheckBan, AfterBans, RateLimited, Examine, Violate,
                  Forwarded, Leave, Refuse
    <2>3. CASE Hijack(r) \/ TunnelEnds(r)
      BY <2>3 DEF Hijack, TunnelEnds, Refuse
    <2> QED BY <1>1, <2>1, <2>2, <2>3 DEF OwnStep
  <1>2. ASSUME OtherStep
        PROVE  UNCHANGED <<at, request, clock, slots>>
    BY <1>2 DEF OtherStep, CloseConn, BeginClose, EndClose, List, Cleanup, Lifted, Remove, Clear, Others
  <1>3. CASE UNCHANGED vars
    BY <1>3
  <1>4. CASE Next
    <2>1. UNCHANGED policy /\ Step
      BY <1>4 DEF Next
    <2>2. \/ (\E r \in Requests : OwnStep(r)) /\ UNCHANGED now
          \/ OtherStep /\ UNCHANGED now
          \/ Tick
      BY <2>1 DEF Step, OwnStep, OtherStep
    <2> QED BY <1>1, <1>2, <2>1, <2>2
  <1> QED BY <1>3, <1>4

\* A goroutine that moves reads the clock if it is going to need it.
LEMMA GoKeeps ==
    ASSUME RequestOK, NEW r \in Requests, NEW p \in Places, Go(r, p), UNCHANGED now
    PROVE  /\ at' \in [Requests -> Places] /\ clock' \in [Requests -> 0..MaxTime]
           /\ \A s \in Requests : at'[s] \in Timed => clock'[s] <= now' /\ now' - clock'[s] <= MaxStale
           /\ at'[r] = p /\ \A s \in Requests \ {r} : at'[s] = at[s] /\ clock'[s] = clock[s]
  <1>1. MaxTime \in Nat /\ MaxStale \in Nat /\ now \in 0..MaxTime
    BY GatewaySettings DEF RequestOK
  <1>2. at' = [at EXCEPT ![r] = p] /\ clock' = [clock EXCEPT ![r] = IF p \in Timed THEN now ELSE 0]
    BY DEF Go
  <1>3. at' \in [Requests -> Places] /\ clock' \in [Requests -> 0..MaxTime]
    BY <1>1, <1>2 DEF RequestOK
  <1>4. /\ at'[r] = p /\ clock'[r] = IF p \in Timed THEN now ELSE 0
        /\ \A s \in Requests \ {r} : at'[s] = at[s] /\ clock'[s] = clock[s]
    BY <1>2 DEF RequestOK
  <1>5. \A s \in Requests : at'[s] \in Timed => clock'[s] <= now' /\ now' - clock'[s] <= MaxStale
    BY <1>1, <1>4 DEF RequestOK
  <1> QED BY <1>3, <1>4, <1>5

\* A request is of a client and for a route as long as it is served.
LEMMA OwnRequest ==
    ASSUME RequestOK, NEW r \in Requests, OwnStep(r)
    PROVE  /\ held' \in [Requests -> BOOLEAN]
           /\ client' \in [Requests -> Clients] /\ route' \in [Requests -> Routes]
           /\ \A s \in Requests \ {r} : client'[s] = client[s] /\ route'[s] = route[s]
                                        /\ held'[s] = held[s]
           /\ UNCHANGED <<request, slots>> \/ Leave(r)
                 \/ \E c \in Clients, rt \in Routes : Arrive(r, c, rt)
  <1>1. NoClient \in Clients /\ NoRoute \in Routes
    BY FiniteTraffic DEF NoClient, NoRoute
  <1>2. CASE \E c \in Clients, rt \in Routes : Arrive(r, c, rt)
    <2>1. PICK c \in Clients, rt \in Routes : Arrive(r, c, rt)
      BY <1>2
    <2>2. client' = [client EXCEPT ![r] = c] /\ route' = [route EXCEPT ![r] = rt]
      BY <2>1 DEF Arrive
    <2>3. held' = held \/ held' = [held EXCEPT ![r] = TRUE]
      BY <2>1 DEF Arrive
    <2>4. held' \in [Requests -> BOOLEAN] /\ \A s \in Requests \ {r} : held'[s] = held[s]
      BY <2>3 DEF RequestOK
    <2> QED BY <1>2, <2>2, <2>4 DEF RequestOK
  <1>3. CASE Leave(r)
    BY <1>1, <1>3 DEF Leave, Reset, RequestOK
  <1>4. CASE UNCHANGED <<request, slots>>
    BY <1>4 DEF request, RequestOK
  <1>5. CASE Progress(r)
    BY <1>3, <1>4, <1>5 DEF Progress, ValidateShape, CheckBan, RateLimited, Examine, Violate, Forwarded
  <1>6. CASE Hijack(r) \/ TunnelEnds(r)
    BY <1>4, <1>6 DEF Hijack, TunnelEnds
  <1> QED BY <1>2, <1>5, <1>6 DEF OwnStep

\* The types and the age of the readings of the clock are preserved.
LEMMA RequestsPreserved == RequestOK /\ [Next]_vars => RequestOK'
  <1> SUFFICES ASSUME RequestOK, [Next]_vars
               PROVE  RequestOK'
    OBVIOUS
  <1>1. ASSUME NEW r \in Requests, OwnStep(r), UNCHANGED <<policy, now>>, \E p \in Places : Go(r, p)
        PROVE  RequestOK'
    <2>1. /\ at' \in [Requests -> Places] /\ clock' \in [Requests -> 0..MaxTime]
          /\ \A s \in Requests : at'[s] \in Timed => clock'[s] <= now' /\ now' - clock'[s] <= MaxStale
      BY <1>1, GoKeeps
    <2> QED BY <1>1, <2>1, OwnRequest DEF RequestOK
  <1>2. CASE UNCHANGED <<policy, now, at, request, clock>>
    BY <1>2 DEF RequestOK, request
  <1>3. CASE Tick /\ UNCHANGED policy
    <2>1. MaxTime \in Nat /\ MaxStale \in Nat
      BY GatewaySettings
    <2>2. now' = now + 1 /\ now < MaxTime /\ UNCHANGED <<at, request, clock>>
          /\ \A r \in Requests : at[r] \in Timed => now - clock[r] < MaxStale
      BY <1>3 DEF Tick, Others
    <2>3. \A r \in Requests : clock[r] \in 0..MaxTime
      BY DEF RequestOK
    <2>4. now' \in 0..MaxTime /\ \A r \in Requests : at[r] \in Timed =>
             clock[r] <= now' /\ now' - clock[r] <= MaxStale
      BY <2>1, <2>2, <2>3 DEF RequestOK
    <2> QED BY <1>3, <2>2, <2>4 DEF RequestOK, request
  <1> QED BY <1>1, <1>2, <1>3, StepKinds DEF vars

-----------------------------------------------------------------------------
(* Admission.                                                              *)

\* The counts are exact and within their limits; who waits for a request
\* holds no slot.
AdmissionInv ==
    /\ AdmissionExact
    /\ global <= MaxConcurrent /\ DOMAIN perClient \subseteq Clients
    /\ \A c \in DOMAIN perClient : perClient[c] <= MaxPerClient
    /\ \A r \in Requests : at[r] = "idle" => ~held[r]

Holders == {r \in Requests : held[r]}

\* Those who hold a slot are finitely many, so that their number is one.
LEMMA HoldersFinite ==
    /\ IsFiniteSet(Holders) /\ Cardinality(Holders) \in Nat
    /\ \A c : IsFiniteSet(Holding(c)) /\ Cardinality(Holding(c)) \in Nat
  BY FiniteTraffic, FS_Subset, FS_CardinalityType DEF Holders, Holding

\* A step that lets every slot be held by whom it was leaves the counts exact
\* when it leaves them alone.
LEMMA SlotsStay ==
    ASSUME AdmissionInv, UNCHANGED slots,
           \A r \in Requests : held'[r] <=> held[r],
           \A r \in Requests : held[r] => client'[r] = client[r],
           \A r \in Requests : at'[r] = "idle" => ~held'[r]
    PROVE  AdmissionInv'
  <1>1. Holders' = Holders
    BY DEF Holders
  <1>2. \A c \in Clients : Holding(c)' = Holding(c)
    BY DEF Holding
  <1>3. \A c \in Clients : Active(c)' = Active(c)
    BY DEF Active, slots
  <1> QED BY <1>1, <1>2, <1>3 DEF AdmissionInv, AdmissionExact, Holders, slots

\* Acquire takes a slot for a request that held none.
LEMMA AcquireKeeps ==
    ASSUME RequestOK, AdmissionInv, NEW r \in Requests, NEW c \in Clients, NEW rt \in Routes,
           Arrive(r, c, rt)
    PROVE  AdmissionInv'
  <1>1. ~held[r] /\ client' = [client EXCEPT ![r] = c]
    BY DEF Arrive, AdmissionInv
  <1>2. client'[r] = c /\ \A s \in Requests \ {r} : client'[s] = client[s]
    BY <1>1 DEF RequestOK
  <1>3. \A p \in Places : Go(r, p) => at'[r] = p /\ \A s \in Requests \ {r} : at'[s] = at[s]
    BY DEF Go, RequestOK
  <1>4. CASE UNCHANGED <<held, slots>> /\ (Go(r, "leave") \/ Go(r, "violate"))
    <2>1. \A s \in Requests : at'[s] = "idle" => ~held'[s]
      BY <1>3, <1>4 DEF Places, AdmissionInv
    <2> QED BY <1>1, <1>2, <1>4, <2>1, SlotsStay
  <1>5. CASE /\ global < MaxConcurrent /\ Active(c) < MaxPerClient
             /\ global' = global + 1 /\ perClient' = With(perClient, c, Active(c) + 1)
             /\ held' = [held EXCEPT ![r] = TRUE] /\ Go(r, "shape")
    <2>1. held'[r] /\ \A s \in Requests \ {r} : held'[s] = held[s]
      BY <1>5 DEF RequestOK
    <2>2. /\ Holders' = Holders \cup {r} /\ r \notin Holders
          /\ Holding(c)' = Holding(c) \cup {r} /\ r \notin Holding(c)
      BY <1>1, <1>2, <2>1 DEF Holders, Holding
    <2>3. \A d \in Clients \ {c} : Holding(d)' = Holding(d)
      BY <1>1, <1>2, <2>1 DEF Holding
    <2>4. /\ Cardinality(Holders \cup {r}) = Cardinality(Holders) + 1
          /\ Cardinality(Holding(c) \cup {r}) = Cardinality(Holding(c)) + 1
      BY <2>2, HoldersFinite, FS_AddElement
    <2>5. /\ DOMAIN perClient' = DOMAIN perClient \cup {c} /\ perClient'[c] = Active(c) + 1
          /\ \A d \in DOMAIN perClient \ {c} : perClient'[d] = perClient[d]
      BY <1>5 DEF With
    <2>6. global = Cardinality(Holders) /\ \A d \in Clients : Active(d) = Cardinality(Holding(d))
      BY DEF AdmissionInv, AdmissionExact, Holders
    <2>7. global' = Cardinality(Holders') /\ global' <= MaxConcurrent
      BY <1>5, <2>2, <2>4, <2>6, HoldersFinite, GatewaySettings
    <2>8. \A d \in Clients : Active(d)' = IF d = c THEN Active(c) + 1 ELSE Active(d)
      BY <2>5 DEF Active
    <2>9. \A d \in Clients : /\ Active(d)' = Cardinality(Holding(d)')
                             /\ d \in DOMAIN perClient' => Holding(d)' # {}
      BY <2>2, <2>3, <2>4, <2>5, <2>6, <2>8 DEF AdmissionInv, AdmissionExact
    <2>10. \A d \in DOMAIN perClient' : perClient'[d] <= MaxPerClient
      <3>1. Active(c) + 1 <= MaxPerClient
        BY <1>5, <2>6, HoldersFinite, GatewaySettings
      <3> QED BY <2>5, <3>1 DEF AdmissionInv
    <2>11. \A s \in Requests : at'[s] = "idle" => ~held'[s]
      BY <1>3, <1>5, <2>1 DEF Places, AdmissionInv
    <2> QED BY <2>5, <2>7, <2>9, <2>10, <2>11 DEF AdmissionInv, AdmissionExact, Holders
  <1> QED BY <1>4, <1>5 DEF Arrive

\* The deferred release returns the slot, if there is one.
LEMMA ReleaseKeeps ==
    ASSUME RequestOK, AdmissionInv, NEW r \in Requests, Leave(r)
    PROVE  AdmissionInv'
  <1>0. PICK c \in Clients : c = client[r]
    BY DEF RequestOK
  <1>1. /\ ~held'[r] /\ \A s \in Requests \ {r} : held'[s] = held[s] /\ client'[s] = client[s]
        /\ \A s \in Requests \ {r} : at'[s] = at[s]
    BY DEF Leave, Reset, RequestOK, Go
  <1>2. \A s \in Requests : at'[s] = "idle" => ~held'[s]
    BY <1>1 DEF AdmissionInv
  <1>3. CASE ~held[r]
    BY <1>1, <1>2, <1>3, SlotsStay DEF Leave
  <1>4. CASE held[r]
    <2>1. /\ global' = global - 1
          /\ perClient' = IF Active(c) = 1 THEN Without(perClient, {c})
                          ELSE [perClient EXCEPT ![c] = @ - 1]
      BY <1>0, <1>4 DEF Leave
    <2>3. /\ Holders' = Holders \ {r} /\ r \in Holders
          /\ Holding(c)' = Holding(c) \ {r} /\ r \in Holding(c)
      BY <1>0, <1>1, <1>4 DEF Holders, Holding
    <2>4. \A d \in Clients \ {c} : Holding(d)' = Holding(d)
      BY <1>0, <1>1 DEF Holding
    <2>5. /\ Cardinality(Holders \ {r}) = Cardinality(Holders) - 1
          /\ Cardinality(Holding(c) \ {r}) = Cardinality(Holding(c)) - 1
      BY <2>3, HoldersFinite, FS_RemoveElement
    <2>6. global = Cardinality(Holders) /\ \A d \in Clients : Active(d) = Cardinality(Holding(d))
      BY DEF AdmissionInv, AdmissionExact, Holders
    <2>7. Cardinality(Holding(c)) # 0 /\ c \in DOMAIN perClient /\ Active(c) = perClient[c]
      <3>1. Cardinality(Holding(c)) # 0
        BY <2>3, HoldersFinite, FS_EmptySet
      <3> QED BY <2>6, <3>1 DEF Active
    <2>8. global' = Cardinality(Holders') /\ global' <= MaxConcurrent
      BY <2>1, <2>3, <2>5, <2>6, HoldersFinite, GatewaySettings DEF AdmissionInv
    <2>9. CASE Active(c) = 1
      <3>1. /\ DOMAIN perClient' = DOMAIN perClient \ {c}
            /\ \A d \in DOMAIN perClient \ {c} : perClient'[d] = perClient[d]
        BY <2>1, <2>9 DEF Without, Restrict
      <3>2. \A d \in Clients : Active(d)' = IF d = c THEN 0 ELSE Active(d)
        BY <3>1 DEF Active
      <3>3. Cardinality(Holding(c)') = 0
        BY <2>3, <2>5, <2>6, <2>9
      <3>4. \A d \in Clients : /\ Active(d)' = Cardinality(Holding(d)')
                               /\ d \in DOMAIN perClient' => Holding(d)' # {}
        BY <2>4, <2>6, <3>1, <3>2, <3>3 DEF AdmissionInv, AdmissionExact
      <3> QED BY <1>2, <2>8, <3>1, <3>4 DEF AdmissionInv, AdmissionExact, Holders
    <2>10. CASE Active(c) # 1
      <3>1. /\ DOMAIN perClient' = DOMAIN perClient /\ perClient'[c] = perClient[c] - 1
            /\ \A d \in DOMAIN perClient \ {c} : perClient'[d] = perClient[d]
        BY <2>1, <2>7, <2>10
      <3>2. \A d \in Clients : Active(d)' = IF d = c THEN Active(c) - 1 ELSE Active(d)
        BY <2>7, <3>1 DEF Active
      <3>3. Cardinality(Holding(c)') = Active(c) - 1 /\ Cardinality(Holding(c)') # 0
        BY <2>3, <2>5, <2>6, <2>7, <2>10, HoldersFinite
      <3>4. Holding(c)' # {}
        BY <3>3, FS_EmptySet
      <3>5. \A d \in Clients : /\ Active(d)' = Cardinality(Holding(d)')
                               /\ d \in DOMAIN perClient' => Holding(d)' # {}
        BY <2>4, <2>6, <3>1, <3>2, <3>3, <3>4 DEF AdmissionInv, AdmissionExact
      <3>6. \A d \in DOMAIN perClient' : perClient'[d] <= MaxPerClient
        <4>1. perClient[c] \in Nat /\ perClient[c] <= MaxPerClient
          BY <2>6, <2>7, HoldersFinite DEF AdmissionInv
        <4>2. perClient[c] - 1 <= MaxPerClient
          BY <4>1, GatewaySettings
        <4> QED BY <3>1, <4>2 DEF AdmissionInv
      <3> QED BY <1>2, <2>8, <3>1, <3>5, <3>6 DEF AdmissionInv, AdmissionExact, Holders
    <2> QED BY <2>9, <2>10
  <1> QED BY <1>3, <1>4

\* Only Arrive and Leave touch the admission limiter.
LEMMA AdmissionPreserved == RequestOK /\ AdmissionInv /\ [Next]_vars => AdmissionInv'
  <1> SUFFICES ASSUME RequestOK, AdmissionInv, [Next]_vars
               PROVE  AdmissionInv'
    OBVIOUS
  <1>1. CASE UNCHANGED <<at, request, slots>>
    BY <1>1, SlotsStay DEF request, AdmissionInv
  <1>2. ASSUME NEW r \in Requests, OwnStep(r), UNCHANGED <<request, slots>>, ~Leave(r),
               \A c \in Clients, rt \in Routes : ~Arrive(r, c, rt)
        PROVE  AdmissionInv'
    <2>1. at'[r] # "idle" /\ \A s \in Requests \ {r} : at'[s] = at[s]
      BY <1>2 DEF OwnStep, Progress, ValidateShape, CheckBan, AfterBans, RateLimited, Examine, Violate,
                  Forwarded, Hijack, TunnelEnds, Refuse, Go, RequestOK
    <2> QED BY <1>2, <2>1, SlotsStay DEF request, AdmissionInv
  <1>3. ASSUME NEW r \in Requests, OwnStep(r)
        PROVE  AdmissionInv'
    BY <1>2, <1>3, OwnRequest, AcquireKeeps, ReleaseKeeps
  <1> QED BY <1>1, <1>3, StepKinds DEF vars, Tick, Others

-----------------------------------------------------------------------------
(* Tunnels.                                                                *)

TunnelInv ==
    /\ CloseKnowsAllTunnels
    /\ tunnels \subseteq Requests /\ doomed \subseteq Requests
    /\ closer \in {"no", "closing", "done"}
    /\ \A r \in tunnels : at[r] = "tunnel"

\* Registered tunnels are finitely many.
LEMMA TunnelsFinite ==
    ASSUME TunnelInv
    PROVE  IsFiniteSet(tunnels) /\ Cardinality(tunnels) \in Nat
           /\ Cardinality(tunnels) <= Cardinality(Requests) /\ Cardinality(Requests) \in Nat
  BY FiniteTraffic, FS_Subset, FS_CardinalityType DEF TunnelInv

\* unregisterHijackedConn counts a tunnel once, although the handler and Close
\* may both call it.
LEMMA UnregisterKeeps ==
    ASSUME TunnelInv, NEW r \in Requests, Unregister(r)
    PROVE  tunnels' = tunnels \ {r} /\ tunnelWG' = Cardinality(tunnels')
  <1>1. tunnelWG = Cardinality(tunnels) /\ tunnels' = tunnels \ {r}
    BY DEF TunnelInv, CloseKnowsAllTunnels, Unregister
  <1>2. CASE r \in tunnels
    <2>1. Cardinality(tunnels \ {r}) = Cardinality(tunnels) - 1
      BY <1>2, TunnelsFinite, FS_RemoveElement
    <2> QED BY <1>1, <1>2, <2>1 DEF Unregister
  <1>3. CASE r \notin tunnels
    <2>1. tunnels \ {r} = tunnels
      BY <1>3
    <2> QED BY <1>1, <1>3, <2>1 DEF Unregister
  <1> QED BY <1>2, <1>3

\* Hijack, the end of a tunnel and the steps of Close keep the registry; no
\* other step touches it.
LEMMA TunnelsPreserved == RequestOK /\ TunnelInv /\ [Next]_vars => TunnelInv'
  <1> SUFFICES ASSUME RequestOK, TunnelInv, [Next]_vars
               PROVE  TunnelInv'
    OBVIOUS
  <1>1. CASE UNCHANGED <<at, conns>>
    BY <1>1 DEF conns, TunnelInv, CloseKnowsAllTunnels
  <1>2. ASSUME NEW r \in Requests, OwnStep(r), UNCHANGED conns, at[r] # "tunnel",
               \E p \in Places : Go(r, p)
        PROVE  TunnelInv'
    <2>1. \A s \in Requests \ {r} : at'[s] = at[s]
      BY <1>2 DEF Go, RequestOK
    <2> QED BY <1>2, <2>1 DEF conns, TunnelInv, CloseKnowsAllTunnels
  <1>3. ASSUME NEW r \in Requests, Hijack(r)
        PROVE  TunnelInv'
    <2>1. /\ closer = "no" /\ at[r] = "forward" /\ tunnels' = tunnels \cup {r}
          /\ tunnelWG' = tunnelWG + 1 /\ UNCHANGED <<closer, doomed>>
      BY <1>3 DEF Hijack, Track
    <2>2. at'[r] = "tunnel" /\ \A s \in Requests \ {r} : at'[s] = at[s]
      BY <1>3 DEF Hijack, Go, RequestOK
    <2>3. Cardinality(tunnels \cup {r}) = Cardinality(tunnels) + 1
      BY <2>1, TunnelsFinite, FS_AddElement DEF TunnelInv
    <2> QED BY <2>1, <2>2, <2>3 DEF TunnelInv, CloseKnowsAllTunnels
  <1>4. ASSUME NEW r \in Requests, TunnelEnds(r)
        PROVE  TunnelInv'
    <2>1. Unregister(r) /\ UNCHANGED <<closer, doomed>>
      BY <1>4 DEF TunnelEnds
    <2>2. \A s \in Requests \ {r} : at'[s] = at[s]
      BY <1>4 DEF TunnelEnds, Refuse, Go, RequestOK
    <2> QED BY <2>1, <2>2, UnregisterKeeps DEF TunnelInv, CloseKnowsAllTunnels
  <1>5. ASSUME NEW r \in Requests, CloseConn(r)
        PROVE  TunnelInv'
    <2>1. Unregister(r) /\ doomed' = doomed \ {r} /\ UNCHANGED <<closer, at>>
      BY <1>5 DEF CloseConn
    <2> QED BY <2>1, UnregisterKeeps DEF TunnelInv, CloseKnowsAllTunnels
  <1>6. CASE BeginClose
    BY <1>6 DEF BeginClose, TunnelInv, CloseKnowsAllTunnels
  <1>7. CASE EndClose
    BY <1>7 DEF EndClose, TunnelInv, CloseKnowsAllTunnels
  <1>8. CASE List \/ Cleanup \/ \E c \in Clients : Lifted(c)
    BY <1>1, <1>8 DEF List, Cleanup, Lifted, Remove, Clear, Others
  <1>9. ASSUME NEW r \in Requests, OwnStep(r), \E p \in Places : Go(r, p)
        PROVE  TunnelInv'
    <2>1. CASE \E c \in Clients, rt \in Routes : Arrive(r, c, rt)
      BY <1>2, <1>9, <2>1 DEF Arrive
    <2>2. CASE Progress(r)
      <3>1. UNCHANGED conns /\ at[r] # "tunnel"
        BY <2>2 DEF Progress, ValidateShape, CheckBan, RateLimited, Examine, Violate, Forwarded, Leave
      <3> QED BY <1>2, <1>9, <3>1
    <2> QED BY <1>3, <1>4, <1>9, <2>1, <2>2 DEF OwnStep
  <1> QED BY <1>1, <1>5, <1>6, <1>7, <1>8, <1>9, StepKinds DEF OtherStep, vars, Tick, Others

-----------------------------------------------------------------------------
(* The token buckets.                                                      *)

\* What has been paid for a key that has no bucket: a bucket that is made for
\* it, with a reading of the clock that is not too old, may be full.
Settled(k) == spent[k] = 0 \/ Unit * spent[k] <= RateOf(k) * ((now - MaxStale) + rewound[k])

LimiterInv ==
    /\ SizeOK(buckets)
    /\ spent \in [Keys -> Nat] /\ rewound \in [Keys -> Nat]
    /\ \A k \in DOMAIN buckets : Ledger(k, buckets[k], spent[k], rewound[k]) /\ buckets[k].last <= now
    /\ \A k \in Keys \ DOMAIN buckets : Settled(k)

\* More time allows more tokens.
LEMMA RateGrows ==
    ASSUME NEW rate \in Nat, NEW a \in Int, NEW b \in Int, a <= b
    PROVE  rate * a <= rate * b
  <1>1. PICK d \in Nat : b = a + d
    <2>1. b - a \in Nat /\ b = a + (b - a)
      OBVIOUS
    <2> QED BY <2>1
  <1>2. rate * (a + d) = rate * a + rate * d /\ rate * d \in Nat /\ rate * a \in Int
    OBVIOUS
  <1> QED BY <1>1, <1>2

\* What is settled stays so as time goes by.
LEMMA SettledUntil ==
    ASSUME LimiterInv, NEW k \in Keys, Settled(k), now \in Int, NEW t \in Int, t >= now - MaxStale,
           t + rewound[k] >= 0
    PROVE  Unit * spent[k] <= RateOf(k) * (t + rewound[k])
  <1>1. /\ RateOf(k) \in Nat /\ Unit \in Nat /\ spent[k] \in Nat /\ rewound[k] \in Nat
        /\ MaxStale \in Nat
    BY Settings, GatewaySettings DEF LimiterInv
  <1>2. CASE spent[k] = 0
    <2>1. t + rewound[k] \in Nat
      BY <1>1
    <2>2. RateOf(k) * (t + rewound[k]) \in Nat
      BY <1>1, <2>1
    <2>3. Unit * spent[k] = 0
      BY <1>1, <1>2
    <2> QED BY <2>2, <2>3
  <1>3. CASE Unit * spent[k] <= RateOf(k) * ((now - MaxStale) + rewound[k])
    <2> DEFINE a == (now - MaxStale) + rewound[k]
               b == t + rewound[k]
    <2>1. a \in Int /\ b \in Int /\ a <= b
      BY <1>1
    <2> HIDE DEF a, b
    <2>2. RateOf(k) * a <= RateOf(k) * b /\ RateOf(k) * a \in Int /\ RateOf(k) * b \in Int
      BY <1>1, <2>1, RateGrows
    <2>3. Unit * spent[k] <= RateOf(k) * a /\ Unit * spent[k] \in Int
      BY <1>1, <1>3 DEF a
    <2>4. Unit * spent[k] <= RateOf(k) * b
      BY <2>2, <2>3
    <2> QED BY <2>4 DEF b
  <1> QED BY <1>2, <1>3 DEF Settled

\* Allow keeps the ledgers: the time it works with is late, but not too late.
LEMMA RateLimitedKeeps ==
    ASSUME RequestOK, LimiterInv, NEW r \in Requests, RateLimited(r), UNCHANGED now
    PROVE  LimiterInv'
  <1>1. CASE UNCHANGED <<buckets, ghosts>>
    BY <1>1 DEF LimiterInv, Settled, ghosts
  <1>2. CASE PolicyOf(r).limited
    <2> DEFINE rt == route[r]
               c == client[r]
               t == clock[r]
               d == Allow(rt, c, t)
    <2>1. buckets' = d.buckets /\ Account(r, d)
      BY <1>2 DEF RateLimited
    <2>2. /\ rt \in Routes /\ c \in Clients /\ t \in Nat /\ now \in Nat
          /\ t <= now /\ t >= now - MaxStale /\ MaxStale \in Nat
      BY GatewaySettings DEF RateLimited, RequestOK, Timed
    <2>3. Account(r, d) <=>
            /\ spent' = [k \in Keys |-> PaidBy(d, k, rt, c, spent)]
            /\ rewound' = [k \in Keys |-> LostBy(d, k, rewound)]
      BY DEF Account, PaidBy, LostBy, Mine
    <2> HIDE DEF rt, c, t, d
    <2>4. Mine(rt, c) \subseteq Keys
      BY <2>2, KeysDiffer DEF Mine
    <2>5. \A k \in DOMAIN buckets : k \in Keys /\ Ledger(k, buckets[k], spent[k], rewound[k])
      BY DEF LimiterInv, SizeOK
    <2>6. ASSUME NEW k \in Mine(rt, c)
          PROVE  Ledger(k, Entry(buckets, k, t), spent[k], rewound[k])
      <3>1. k \in Keys /\ spent[k] \in Nat /\ rewound[k] \in Nat
        BY <2>4 DEF LimiterInv
      <3>2. CASE k \in DOMAIN buckets
        BY <2>5, <3>2 DEF Entry
      <3>3. CASE k \notin DOMAIN buckets
        <4>1. Unit * spent[k] <= RateOf(k) * (t + rewound[k])
          <5>1. Settled(k) /\ t + rewound[k] >= 0
            BY <2>2, <3>1, <3>3 DEF LimiterInv
          <5> QED BY <2>2, <3>1, <5>1, SettledUntil
        <4> QED BY <2>2, <3>1, <3>3, <4>1, FullBucket DEF Entry
      <3> QED BY <3>2, <3>3
    <2>7. spent \in [Keys -> Nat] /\ rewound \in [Keys -> Nat] /\ SizeOK(buckets)
      BY DEF LimiterInv
    <2>8. /\ SizeOK(d.buckets) /\ DOMAIN buckets \subseteq DOMAIN d.buckets
          /\ d.verdict = "ok" => Mine(rt, c) \subseteq DOMAIN d.buckets
          /\ \A k \in DOMAIN d.buckets :
                /\ Ledger(k, d.buckets[k], PaidBy(d, k, rt, c, spent), LostBy(d, k, rewound))
                /\ d.buckets[k].last = t \/ (k \in DOMAIN buckets /\ d.buckets[k] = buckets[k])
      <3>1. d = Allow(rt, c, t)
        BY DEF d
      <3> QED BY <2>2, <2>5, <2>6, <2>7, <3>1, AllowKeeps
    <2>9. ASSUME NEW k \in Keys
          PROVE  /\ spent'[k] = PaidBy(d, k, rt, c, spent) /\ spent'[k] \in Nat
                 /\ rewound'[k] = LostBy(d, k, rewound) /\ rewound'[k] \in Nat
      <3>1. spent'[k] = PaidBy(d, k, rt, c, spent) /\ rewound'[k] = LostBy(d, k, rewound)
        BY <2>1, <2>3
      <3>2. PaidBy(d, k, rt, c, spent) \in Nat
        BY <2>7 DEF PaidBy
      <3>3. k \in DOMAIN buckets => d.buckets[k].last \in Nat /\ buckets[k].last \in Nat
        BY <2>5, <2>8 DEF Ledger
      <3>4. LostBy(d, k, rewound) \in Nat
        BY <2>7, <3>3 DEF LostBy
      <3> QED BY <3>1, <3>2, <3>4
    <2>10. spent' \in [Keys -> Nat] /\ rewound' \in [Keys -> Nat]
      <3>1. spent' = [k \in Keys |-> spent'[k]] /\ rewound' = [k \in Keys |-> rewound'[k]]
        BY <2>1, <2>3
      <3> QED BY <2>9, <3>1
    <2>11. ASSUME NEW k \in DOMAIN buckets'
           PROVE  Ledger(k, buckets'[k], spent'[k], rewound'[k]) /\ buckets'[k].last <= now'
      <3>1. k \in Keys
        BY <2>1, <2>8 DEF SizeOK
      <3> QED BY <2>1, <2>2, <2>8, <2>9, <3>1 DEF LimiterInv
    <2>12. ASSUME NEW k \in Keys \ DOMAIN buckets'
           PROVE  Settled(k)'
      <3>1. k \notin DOMAIN buckets /\ ~(k \in Mine(rt, c) /\ d.verdict = "ok")
        BY <2>1, <2>8
      <3>2. spent'[k] = spent[k] /\ rewound'[k] = rewound[k]
        BY <2>7, <2>9, <3>1 DEF PaidBy, LostBy
      <3> QED BY <3>1, <3>2 DEF LimiterInv, Settled
    <2> QED BY <2>1, <2>8, <2>10, <2>11, <2>12 DEF LimiterInv
  <1> QED BY <1>1, <1>2 DEF RateLimited

\* cleanup drops a bucket only after it has been full for so long that a late
\* reading of the clock cannot make a new one full too early.
LEMMA CleanupKeeps ==
    ASSUME RequestOK, LimiterInv, Cleanup, UNCHANGED now
    PROVE  LimiterInv'
  <1> DEFINE K == {k \in DOMAIN buckets : now - buckets[k].last <= IdleTTL}
  <1>1. /\ DOMAIN buckets' = K /\ \A k \in K : buckets'[k] = buckets[k]
        /\ UNCHANGED <<spent, rewound>>
    BY DEF Cleanup, DropIdle, Restrict, Others, ghosts
  <1>2. now \in Nat /\ MaxStale \in Nat /\ IdleTTL \in Nat
    BY GatewaySettings, Settings DEF RequestOK
  <1>3. K \subseteq DOMAIN buckets
    OBVIOUS
  <1>4. SizeOK(buckets')
    <2>1. IsFiniteSet(K) /\ Cardinality(K) <= Cardinality(DOMAIN buckets) /\ Cardinality(K) \in Nat
          /\ Cardinality(DOMAIN buckets) \in Nat
      BY <1>3, FS_Subset, FS_CardinalityType DEF LimiterInv, SizeOK
    <2> QED BY <1>1, <1>3, <2>1, Settings DEF LimiterInv, SizeOK
  <1>5. ASSUME NEW k \in DOMAIN buckets, k \notin K
        PROVE  Settled(k)
    <2> DEFINE rate == RateOf(k)
               B == BurstOf(k)
               P == Unit * spent[k]
               b == buckets[k]
               x == (now - MaxStale) + rewound[k]
               y == b.last + rewound[k]
    <2>1. k \in Keys /\ Ledger(k, b, spent[k], rewound[k])
      BY DEF LimiterInv, SizeOK
    <2>2. /\ rate \in Nat /\ B \in Nat /\ P \in Nat /\ b.last \in Nat /\ b.tokens \in Nat
          /\ rewound[k] \in Nat
      BY <2>1, Settings DEF LimiterInv, Ledger
    <2>3. P + b.tokens <= B + rate * y
      BY <2>1 DEF Ledger
    <2>4. ~(now - b.last <= IdleTTL)
      BY <1>5
    <2>5. rate * ((IdleTTL + 1) - MaxStale) >= B
      <3>1. Unit * Burst = Burst * Unit /\ Unit * GlobalBurst = GlobalBurst * Unit
        BY LimiterSettings
      <3>2. \/ rate = Rate /\ B = Unit * Burst
            \/ rate = GlobalRate /\ B = Unit * GlobalBurst
        BY DEF RateOf, BurstOf
      <3>3. /\ Rate * ((IdleTTL + 1) - MaxStale) >= Burst * Unit
            /\ GlobalRate * ((IdleTTL + 1) - MaxStale) >= GlobalBurst * Unit
        BY StaleReadingsAreShort
      <3> HIDE DEF rate, B
      <3>4. CASE rate = Rate /\ B = Unit * Burst
        BY <3>1, <3>3, <3>4, Zenon
      <3>5. CASE rate = GlobalRate /\ B = Unit * GlobalBurst
        BY <3>1, <3>3, <3>5, Zenon
      <3> QED BY <3>2, <3>4, <3>5
    <2>6. y + ((IdleTTL + 1) - MaxStale) <= x /\ x \in Int /\ y \in Int
      BY <1>2, <2>2, <2>4
    <2> DEFINE i == (IdleTTL + 1) - MaxStale
    <2>7. i \in Int
      BY <1>2
    <2> HIDE DEF x, y, i, rate, B, P, b
    <2>8. rate * (y + i) <= rate * x /\ rate * (y + i) = rate * y + rate * i
      <3>1. y + i \in Int /\ x \in Int /\ y + i <= x
        BY <2>6, <2>7 DEF i
      <3> QED BY <2>2, <2>6, <2>7, <3>1, RateGrows
    <2>9. rate * x \in Int /\ rate * y \in Int /\ rate * i \in Int
      BY <2>2, <2>6, <2>7
    <2>10. rate * i >= B
      BY <2>5 DEF i
    <2>11. P <= rate * x
      BY <2>2, <2>3, <2>8, <2>9, <2>10
    <2> QED BY <2>11 DEF Settled, P, rate, x
  <1>6. ASSUME NEW k \in Keys \ K
        PROVE  Settled(k)'
    <2>1. Settled(k)
      BY <1>5 DEF LimiterInv
    <2> QED BY <1>1, <2>1 DEF Settled
  <1> HIDE DEF K
  <1> QED BY <1>1, <1>3, <1>4, <1>6 DEF LimiterInv

\* Time goes by: nothing that was settled is unsettled.
LEMMA TickKeeps ==
    ASSUME RequestOK, LimiterInv, Tick
    PROVE  LimiterInv'
  <1>1. now' = now + 1 /\ UNCHANGED <<buckets, spent, rewound>> /\ now \in Nat /\ MaxStale \in Nat
    BY GatewaySettings DEF Tick, Others, ghosts, limiterVars, RequestOK
  <1>2. ASSUME NEW k \in Keys \ DOMAIN buckets
        PROVE  Settled(k)'
    <2>1. spent[k] \in Nat /\ rewound[k] \in Nat /\ Settled(k)
      BY DEF LimiterInv
    <2>2. CASE spent[k] = 0
      BY <1>1, <2>2 DEF Settled
    <2>3. CASE spent[k] # 0
      <3> DEFINE a == (now - MaxStale) + rewound[k]
                 b == (now' - MaxStale) + rewound[k]
      <3>1. RateOf(k) \in Nat /\ a \in Int /\ b \in Int /\ a <= b /\ Unit \in Nat
        BY <1>1, <2>1, Settings
      <3>2. Unit * spent[k] <= RateOf(k) * a
        BY <2>1, <2>3 DEF Settled
      <3> HIDE DEF a, b
      <3>3. RateOf(k) * a <= RateOf(k) * b /\ RateOf(k) * a \in Int /\ RateOf(k) * b \in Int
        BY <3>1, RateGrows
      <3>4. Unit * spent[k] <= RateOf(k) * b
        BY <2>1, <3>1, <3>2, <3>3
      <3> QED BY <1>1, <3>4 DEF Settled, b
    <2> QED BY <2>2, <2>3
  <1>3. \A k \in DOMAIN buckets : buckets[k].last \in Nat
    BY DEF LimiterInv, Ledger
  <1>4. \A k \in DOMAIN buckets : buckets[k].last <= now'
    BY <1>1, <1>3 DEF LimiterInv
  <1> QED BY <1>1, <1>2, <1>4 DEF LimiterInv

\* Only Allow, cleanup and the time change the buckets.
LEMMA LimiterPreserved == RequestOK /\ LimiterInv /\ [Next]_vars => LimiterInv'
  <1> SUFFICES ASSUME RequestOK, LimiterInv, [Next]_vars
               PROVE  LimiterInv'
    OBVIOUS
  <1>1. CASE UNCHANGED <<buckets, ghosts, now>>
    BY <1>1 DEF LimiterInv, Settled, ghosts
  <1>2. ASSUME NEW r \in Requests, OwnStep(r), UNCHANGED now
        PROVE  LimiterInv'
    <2>1. CASE RateLimited(r)
      BY <1>2, <2>1, RateLimitedKeeps
    <2>2. CASE ~RateLimited(r)
      BY <1>1, <1>2, <2>2 DEF OwnStep, Arrive, Progress, ValidateShape, CheckBan, Examine, Violate,
                              Forwarded, Leave, Hijack, TunnelEnds, limiterVars
    <2> QED BY <2>1, <2>2
  <1>3. ASSUME OtherStep, UNCHANGED now
        PROVE  LimiterInv'
    <2>1. CASE Cleanup
      BY <1>3, <2>1, CleanupKeeps
    <2>2. CASE ~Cleanup
      BY <1>1, <1>3, <2>2 DEF OtherStep, CloseConn, BeginClose, EndClose, List, Lifted, Remove, Clear,
                              Others, limiterVars
    <2> QED BY <2>1, <2>2
  <1> QED BY <1>1, <1>2, <1>3, TickKeeps, StepKinds DEF vars, limiterVars

\* The ledgers of the buckets bound what they have let through.
LEMMA LedgersBound ==
    ASSUME RequestOK, LimiterInv
    PROVE  AdmittedWithinRate /\ RefusedRequestsCostNothing
  <1>1. ASSUME NEW k \in Keys
        PROVE  Unit * spent[k] <= BurstOf(k) + RateOf(k) * (now + rewound[k])
    <2>1. /\ RateOf(k) \in Nat /\ BurstOf(k) \in Nat /\ Unit \in Nat /\ now \in Nat
          /\ spent[k] \in Nat /\ rewound[k] \in Nat /\ MaxStale \in Nat
      BY Settings, GatewaySettings DEF RequestOK, LimiterInv
    <2>2. RateOf(k) * (now + rewound[k]) \in Nat /\ Unit * spent[k] \in Nat
      BY <2>1
    <2>3. CASE k \in DOMAIN buckets
      <3> DEFINE a == buckets[k].last + rewound[k]
                 b == now + rewound[k]
      <3>1. Ledger(k, buckets[k], spent[k], rewound[k]) /\ buckets[k].last <= now
        BY <2>3 DEF LimiterInv
      <3>2. buckets[k].tokens \in Nat /\ buckets[k].last \in Nat
        BY <3>1 DEF Ledger
      <3>3. Unit * spent[k] + buckets[k].tokens <= BurstOf(k) + RateOf(k) * a
        BY <3>1 DEF Ledger
      <3>4. a \in Int /\ b \in Int /\ a <= b
        BY <2>1, <3>1, <3>2
      <3> HIDE DEF a, b
      <3>5. RateOf(k) * a <= RateOf(k) * b /\ RateOf(k) * a \in Int /\ RateOf(k) * b \in Int
        BY <2>1, <3>4, RateGrows
      <3>6. Unit * spent[k] <= BurstOf(k) + RateOf(k) * b
        BY <2>1, <2>2, <3>2, <3>3, <3>5
      <3> QED BY <3>6 DEF b
    <2>4. CASE k \notin DOMAIN buckets
      <3>1. Settled(k) /\ now >= now - MaxStale /\ now + rewound[k] >= 0
        BY <2>1, <2>4 DEF LimiterInv
      <3>2. Unit * spent[k] <= RateOf(k) * (now + rewound[k])
        BY <2>1, <3>1, SettledUntil
      <3> QED BY <2>1, <2>2, <3>2
    <2> QED BY <2>3, <2>4
  <1>2. ASSUME NEW k \in DOMAIN buckets
        PROVE  BurstOf(k) - buckets[k].tokens <= Unit * spent[k]
    <2>1. k \in Keys /\ Ledger(k, buckets[k], spent[k], rewound[k])
      BY DEF LimiterInv, SizeOK
    <2>2. BurstOf(k) \in Nat /\ buckets[k].tokens \in Nat /\ Unit * spent[k] \in Nat
      BY <2>1, Settings DEF Ledger, LimiterInv
    <2> QED BY <2>1, <2>2 DEF Ledger
  <1> QED BY <1>1, <1>2 DEF AdmittedWithinRate, RefusedRequestsCostNothing

-----------------------------------------------------------------------------
(* The bans.                                                               *)

\* Only IsBanned, RecordViolation, List, Remove and Clear change the bans.
LEMMA BanSteps ==
    ASSUME [Next]_vars
    PROVE  \/ UNCHANGED bans
           \/ \E r \in Requests : CheckBan(r) /\ UNCHANGED now
           \/ \E r \in Requests : Violate(r) /\ UNCHANGED now
           \/ List /\ UNCHANGED now
           \/ (\E c \in Clients : Lifted(c)) /\ UNCHANGED now
  <1>1. ASSUME NEW r \in Requests, OwnStep(r), ~CheckBan(r), ~Violate(r)
        PROVE  UNCHANGED bans
    BY <1>1 DEF OwnStep, Arrive, Progress, ValidateShape, RateLimited, Examine, Forwarded, Leave,
                Hijack, TunnelEnds, limiterVars
  <1>2. ASSUME OtherStep, ~List, \A c \in Clients : ~Lifted(c)
        PROVE  UNCHANGED bans
    BY <1>2 DEF OtherStep, CloseConn, BeginClose, EndClose, Cleanup, limiterVars
  <1>3. ASSUME Tick \/ UNCHANGED vars
        PROVE  UNCHANGED bans
    BY <1>3 DEF Tick, vars, limiterVars
  <1> QED BY <1>1, <1>2, <1>3, StepKinds

\* What BansAreKept says of one step.
BansKept == \A c \in Clients :
               Banned(c, now) /\ now' < bans[c].until => Banned(c, now)' \/ Lifted(c)

\* The table stays bounded, and no ban that is not over is lost: the time of
\* the goroutine that looks at it or evicts is not later than now, and a new
\* ban that replaces it lasts longer than the goroutine may have waited.
LEMMA BansPreserved ==
    ASSUME RequestOK, TableOK(bans), [Next]_vars
    PROVE  TableOK(bans)' /\ BansKept
  <1>0. now \in Int
    BY GatewaySettings DEF RequestOK
  <1>1. \A c \in DOMAIN bans : bans[c].until \in Int
    BY DEF TableOK, BanOK
  <1>2. CASE UNCHANGED bans
    BY <1>2 DEF BansKept, Banned, TableOK
  <1>3. ASSUME NEW r \in Requests, CheckBan(r), UNCHANGED now
        PROVE  TableOK(bans)' /\ BansKept
    <2>1. CASE ObserveBan(client[r], clock[r])
      <3>1. clock[r] \in Int /\ clock[r] <= now
        BY <1>3, GatewaySettings DEF CheckBan, RequestOK, Timed
      <3>2. /\ TableOK(bans')
            /\ \A b \in DOMAIN bans : clock[r] < bans[b].until =>
                 b \in DOMAIN bans' /\ bans'[b].until = bans[b].until
        BY <2>1, <3>1, ObserveKeeps
      <3>3. BansKept
        BY <1>0, <1>1, <1>3, <3>1, <3>2 DEF BansKept, Banned
      <3> QED BY <3>2, <3>3 DEF TableOK
    <2> QED BY <1>2, <1>3, <2>1 DEF CheckBan
  <1>4. ASSUME NEW r \in Requests, Violate(r), UNCHANGED now
        PROVE  TableOK(bans)' /\ BansKept
    <2>1. CASE Bans(route[r]) /\ RecordViolation(client[r], PolicyOf(r).banFor, clock[r])
      <3> DEFINE d == PolicyOf(r).banFor
      <3>1. clock[r] \in Int /\ clock[r] <= now /\ now - clock[r] <= MaxStale /\ client[r] \in Clients
        BY <1>4, GatewaySettings DEF Violate, RequestOK, Timed
      <3>2. d \in Int /\ d > MaxStale /\ MaxStale \in Int
        <4>1. policy \in PolicySets /\ route[r] \in Routes
          BY DEF RequestOK
        <4>2. policy[route[r]] \in Policy
          BY <4>1, PoliciesAreBound
        <4> QED BY <2>1, <4>1, <4>2, StaleReadingsAreShort, GatewaySettings DEF Policy, PolicyOf, Bans
      <3> HIDE DEF d
      <3>3. /\ TableOK(bans')
            /\ \A b \in DOMAIN bans : clock[r] < bans[b].until =>
                 b \in DOMAIN bans' /\ bans'[b].until \in {bans[b].until, clock[r] + d}
        <4>1. RecordViolation(client[r], d, clock[r])
          BY <2>1 DEF d
        <4> QED BY <3>1, <3>2, <4>1, RecordKeeps
      <3>4. clock[r] + d > now
        BY <1>0, <3>1, <3>2
      <3>5. BansKept
        BY <1>0, <1>1, <1>4, <3>1, <3>2, <3>3, <3>4 DEF BansKept, Banned
      <3> QED BY <3>3, <3>5 DEF TableOK
    <2> QED BY <1>2, <1>4, <2>1 DEF Violate
  <1>5. CASE List /\ UNCHANGED now
    <2> DEFINE over == {c \in DOMAIN bans : Served(bans[c], now)}
    <2>1. bans' = Without(bans, over)
      BY <1>5 DEF List, ListBans
    <2>2. \A c \in over : ~(now < bans[c].until)
      BY <1>0, <1>1 DEF Served
    <2> HIDE DEF over
    <2>3. /\ TableOK(Without(bans, over)) /\ DOMAIN Without(bans, over) = DOMAIN bans \ over
          /\ \A c \in DOMAIN bans \ over : Without(bans, over)[c] = bans[c]
      BY WithoutKeeps
    <2>4. BansKept
      BY <1>5, <2>1, <2>2, <2>3 DEF BansKept, Banned
    <2> QED BY <2>1, <2>3, <2>4 DEF TableOK
  <1>6. ASSUME NEW c \in Clients, Remove(c), UNCHANGED now
        PROVE  TableOK(bans)' /\ BansKept
    <2>1. bans' = Without(bans, {c})
      BY <1>6 DEF Remove, Unban
    <2>2. /\ TableOK(bans') /\ DOMAIN bans' = DOMAIN bans \ {c}
          /\ \A b \in DOMAIN bans \ {c} : bans'[b] = bans[b]
      BY <2>1, WithoutKeeps
    <2>3. BansKept
      BY <1>6, <2>2 DEF BansKept, Banned, Lifted
    <2> QED BY <2>2, <2>3 DEF TableOK
  <1>7. CASE Clear /\ UNCHANGED now
    <2>1. bans' = Without(bans, DOMAIN bans)
      BY <1>7 DEF Clear, Unban
    <2>2. TableOK(bans')
      BY <2>1, WithoutKeeps
    <2>3. BansKept
      BY <1>7 DEF BansKept, Lifted
    <2> QED BY <2>2, <2>3 DEF TableOK
  <1> QED BY <1>2, <1>3, <1>4, <1>5, <1>6, <1>7, BanSteps DEF Lifted

\* A request passes the check of the bans only when its client is not banned
\* then, or allowlisted.
LEMMA BannedStop ==
    ASSUME RequestOK, TableOK(bans), BannedAreNotForwarded, [Next]_vars
    PROVE  BannedAreNotForwarded'
  <1> DEFINE Past == {"limit", "examine", "forward", "tunnel"}
  <1>1. CASE UNCHANGED vars
    BY <1>1 DEF vars, request, BannedAreNotForwarded, Allowlisted, PolicyOf
  <1>2. CASE Next
    <2>0. UNCHANGED policy
      BY <1>2 DEF Next
    <2>1. ASSUME NEW s \in Requests, hadBan'[s]
          PROVE  /\ at[s] = "idle" \/ hadBan[s]
                 /\ client'[s] \in DOMAIN bans' /\ now' < bans'[client'[s]].until
      BY <1>2, <2>1 DEF Next
    <2>2. ASSUME NEW s \in Requests, at'[s] = at[s], client'[s] = client[s], route'[s] = route[s],
                 hadBan'[s], at'[s] \in Past
          PROVE  Allowlisted(s)'
      BY <2>0, <2>1, <2>2 DEF BannedAreNotForwarded, Allowlisted, PolicyOf
    <2>3. ASSUME NEW r \in Requests, OwnStep(r), UNCHANGED now, hadBan'[r], at'[r] \in Past
          PROVE  Allowlisted(r)'
      <3>1. \A p \in Places : Go(r, p) => at'[r] = p
        BY DEF Go, RequestOK
      <3>2. UNCHANGED request => (Allowlisted(r)' <=> Allowlisted(r))
        BY <2>0 DEF request, Allowlisted, PolicyOf
      <3>3. CASE CheckBan(r)
        <4>1. UNCHANGED request /\ at[r] = "ban"
          BY <3>3 DEF CheckBan
        <4>2. CASE ~Allowlisted(r)
          <5>1. ObserveBan(client[r], clock[r]) /\ ~Banned(client[r], clock[r])
            BY <2>3, <3>1, <3>3, <4>2 DEF CheckBan, Places
          <5>2. clock[r] \in Int /\ clock[r] <= now /\ now \in Int
            BY <4>1, GatewaySettings DEF RequestOK, Timed
          <5>3. /\ TableOK(bans')
                /\ client[r] \in DOMAIN bans' => ~(clock[r] < bans'[client[r]].until)
            BY <5>1, <5>2, ObserveKeeps
          <5>4. client[r] \in DOMAIN bans' /\ now < bans'[client[r]].until
            BY <2>1, <2>3, <4>1 DEF request
          <5>5. bans'[client[r]].until \in Int
            BY <5>3, <5>4 DEF TableOK, BanOK
          <5> QED BY <5>2, <5>3, <5>4, <5>5
        <4> QED BY <3>2, <4>1, <4>2
      <3>4. CASE ~CheckBan(r)
        <4>1. UNCHANGED request /\ at[r] \in Past
          BY <2>3, <3>1, <3>4 DEF OwnStep, Arrive, Progress, ValidateShape, RateLimited, Examine, Violate,
                  Forwarded, Leave, Hijack, TunnelEnds, Refuse, Places
        <4>2. Allowlisted(r)
          BY <2>1, <2>3, <4>1 DEF BannedAreNotForwarded
        <4> QED BY <3>2, <4>1, <4>2
      <3> QED BY <3>3, <3>4
    <2>4. ASSUME NEW r \in Requests, OwnStep(r), UNCHANGED now, \E p \in Places : Go(r, p)
          PROVE  BannedAreNotForwarded'
      <3>1. \A s \in Requests \ {r} : at'[s] = at[s] /\ client'[s] = client[s] /\ route'[s] = route[s]
        BY <2>4, GoKeeps, OwnRequest
      <3> QED BY <2>2, <2>3, <2>4, <3>1 DEF BannedAreNotForwarded
    <2>5. CASE UNCHANGED <<at, request>>
      BY <2>2, <2>5 DEF BannedAreNotForwarded, request
    <2> QED BY <2>4, <2>5, StepKinds DEF vars, Tick, Others
  <1> QED BY <1>1, <1>2

-----------------------------------------------------------------------------
GatewayInv == /\ RequestOK /\ AdmissionInv /\ TunnelInv /\ LimiterInv
              /\ TableOK(bans) /\ BannedAreNotForwarded

\* A new handler has no requests, tunnels, buckets or bans.
LEMMA InitGateway == Init => GatewayInv
  <1> SUFFICES ASSUME Init PROVE GatewayInv
    OBVIOUS
  <1>1. NoClient \in Clients /\ NoRoute \in Routes
    BY FiniteTraffic DEF NoClient, NoRoute
  <1>2. RequestOK
    BY <1>1, GatewaySettings DEF Init, RequestOK, Places, Timed
  <1>3. Cardinality({}) = 0 /\ IsFiniteSet({}) /\ DOMAIN <<>> = {}
    BY FS_EmptySet
  <1>4. AdmissionInv
    <2>1. {r \in Requests : held[r]} = {} /\ \A c \in Clients : Holding(c) = {}
      BY DEF Init, Holding
    <2>2. global = 0 /\ DOMAIN perClient = {} /\ \A c \in Clients : Active(c) = 0
      BY <1>3 DEF Init, Active
    <2>3. \A r \in Requests : ~held[r]
      BY DEF Init
    <2>4. AdmissionExact
      BY <1>3, <2>1, <2>2 DEF AdmissionExact
    <2>5. global <= MaxConcurrent
      BY <2>2, GatewaySettings
    <2> QED BY <2>2, <2>3, <2>4, <2>5 DEF AdmissionInv
  <1>5. TunnelInv
    BY <1>3 DEF Init, TunnelInv, CloseKnowsAllTunnels
  <1>6. DOMAIN buckets = {} /\ DOMAIN bans = {}
    BY <1>3 DEF Init, LimiterInit
  <1>7. LimiterInv
    <2>1. SizeOK(buckets)
      BY <1>3, <1>6, Settings DEF SizeOK
    <2>2. /\ spent \in [Keys -> Nat] /\ rewound \in [Keys -> Nat]
          /\ \A k \in Keys : Settled(k)
      BY DEF Init, Settled
    <2> QED BY <1>6, <2>1, <2>2 DEF LimiterInv
  <1>8. TableOK(bans)
    BY <1>3, <1>6, Settings DEF TableOK
  <1>9. BannedAreNotForwarded
    BY DEF Init, BannedAreNotForwarded
  <1> QED BY <1>2, <1>4, <1>5, <1>7, <1>8, <1>9 DEF GatewayInv

\* Every step preserves the invariant and keeps the bans.
LEMMA GatewayStep == GatewayInv /\ [Next]_vars => GatewayInv' /\ [BansKept]_vars
  <1> SUFFICES ASSUME GatewayInv, [Next]_vars
               PROVE  GatewayInv' /\ BansKept
    OBVIOUS
  <1> USE DEF GatewayInv
  <1>1. RequestOK' /\ AdmissionInv' /\ TunnelInv' /\ LimiterInv'
    BY RequestsPreserved, AdmissionPreserved, TunnelsPreserved, LimiterPreserved
  <1>2. TableOK(bans)' /\ BansKept
    BY BansPreserved
  <1>3. BannedAreNotForwarded'
    BY BannedStop
  <1> QED BY <1>1, <1>2, <1>3

\* The invariant holds in every reachable state of the pipeline.
THEOREM GatewayInvariant == Spec => []GatewayInv
  BY InitGateway, GatewayStep, PTL DEF Spec

\* However many clients there are and whatever they do, the tables of the
\* token buckets and of the bans, the lists of violations and the slots of the
\* admission limiter stay within their limits (ratelimit/limiter.go:74 and 191).
THEOREM TablesStayBounded == Spec => []GatewayTypeOK
  <1>1. ASSUME GatewayInv
        PROVE  GatewayTypeOK
    <2> USE <1>1 DEF GatewayInv
    <2>1. global \in 0..MaxConcurrent
      BY HoldersFinite, GatewaySettings DEF AdmissionInv, AdmissionExact, Holders
    <2>2. ASSUME NEW c \in DOMAIN perClient
          PROVE  perClient[c] \in 1..MaxPerClient
      <3>1. c \in Clients /\ perClient[c] = Cardinality(Holding(c)) /\ Holding(c) # {}
        BY DEF AdmissionInv, AdmissionExact, Active
      <3>2. Cardinality(Holding(c)) # 0 /\ Cardinality(Holding(c)) \in Nat
        BY <3>1, HoldersFinite, FS_EmptySet
      <3> QED BY <3>1, <3>2, GatewaySettings DEF AdmissionInv
    <2>3. ASSUME NEW k \in DOMAIN buckets
          PROVE  buckets[k].tokens \in 0..BurstOf(k) /\ buckets[k].last \in 0..MaxTime
      <3>1. k \in Keys /\ Ledger(k, buckets[k], spent[k], rewound[k]) /\ buckets[k].last <= now
        BY DEF LimiterInv, SizeOK
      <3>2. BurstOf(k) \in Nat /\ MaxTime \in Nat /\ now \in 0..MaxTime
        BY <3>1, Settings, GatewaySettings DEF RequestOK
      <3> QED BY <3>1, <3>2 DEF Ledger
    <2>4. tunnelWG \in 0..Cardinality(Requests)
      BY TunnelsFinite DEF TunnelInv, CloseKnowsAllTunnels
    <2>5. DOMAIN bans \subseteq Clients /\ Cardinality(DOMAIN bans) <= MaxTracked
          /\ \A c \in DOMAIN bans : Len(bans[c].times) < Threshold
      BY DEF TableOK, BanOK
    <2> QED BY <2>1, <2>2, <2>3, <2>4, <2>5
            DEF GatewayTypeOK, RequestOK, AdmissionInv, LimiterInv, SizeOK, TunnelInv
  <1> QED BY <1>1, GatewayInvariant, PTL

\* Every path through ServeHTTP returns the slot it took, once
\* (admission/limiter.go:30-43).
THEOREM SlotsAreExact == Spec => []AdmissionExact
  <1>1. GatewayInv => AdmissionExact
    BY DEF GatewayInv, AdmissionInv
  <1> QED BY <1>1, GatewayInvariant, PTL

\* A token bucket lets no more requests through than its burst and its rate
\* allow, but for the time turned back by late readings of the clock, although
\* idle buckets are dropped and made anew (ratelimit/limiter.go:71-136).
THEOREM RatesAreKept == Spec => []AdmittedWithinRate
  <1>1. GatewayInv => AdmittedWithinRate
    BY LedgersBound DEF GatewayInv
  <1> QED BY <1>1, GatewayInvariant, PTL

\* Allow takes a token of the route only for a request that it lets through
\* (ratelimit/limiter.go:61-65).
THEOREM RefusalsAreFree == Spec => []RefusedRequestsCostNothing
  <1>1. GatewayInv => RefusedRequestsCostNothing
    BY LedgersBound DEF GatewayInv
  <1> QED BY <1>1, GatewayInvariant, PTL

\* ServeHTTP forwards no request of a client that was banned all the time
\* since it arrived, unless the route allowlists it (gateway/handler.go:273-281).
THEOREM BannedAreStopped == Spec => []BannedAreNotForwarded
  <1>1. GatewayInv => BannedAreNotForwarded
    BY DEF GatewayInv
  <1> QED BY <1>1, GatewayInvariant, PTL

\* Handler.Close knows every tunnel there is, and its wait group counts them
\* (gateway/handler.go:122-140).
THEOREM CloseMissesNone == Spec => []CloseKnowsAllTunnels
  <1>1. GatewayInv => CloseKnowsAllTunnels
    BY DEF GatewayInv, TunnelInv
  <1> QED BY <1>1, GatewayInvariant, PTL

\* A ban that has not run out goes away by order of the Admin API only: no
\* eviction, cleanup or late look at the clock ends it (ratelimit/limiter.go:160-319).
THEOREM BansArePreserved == Spec => BansAreKept
  <1>1. Init => GatewayInv
    BY InitGateway
  <1>2. GatewayInv /\ [Next]_vars => GatewayInv' /\ [BansKept]_vars
    BY GatewayStep
  <1>3. Spec => [][BansKept]_vars
    BY <1>1, <1>2, PTL DEF Spec
  <1> QED BY <1>3 DEF BansAreKept, BansKept
====
