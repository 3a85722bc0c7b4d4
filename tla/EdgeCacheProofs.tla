-------------------------- MODULE EdgeCacheProofs --------------------------
(***************************************************************************)
(* KeyLocker (keylock.go) is correct for every set of requests, keys and   *)
(* objects, and so is the request path of EdgeCache that uses it, for      *)
(* every set of resources and every cache size.                            *)
(***************************************************************************)
EXTENDS EdgeCache, SetSums, SequenceTheorems

-----------------------------------------------------------------------------
(* KeyLocker (keylock.go): the parts of its inductive invariant.           *)

\* A request outside Lock refers to nothing.
IdleClean == \A r \in Requests : pc[r] = "idle" => key[r] = NoKey /\ lk[r] = Nil

\* A request inside Lock has the object that the map holds for its key.
BusyLinked == \A r \in Requests : pc[r] # "idle" => /\ key[r] \in Keys
                                                    /\ lk[r] \in Objects
                                                    /\ locks[key[r]] = lk[r]

\* No object serves two keys.
OneKeyEach == \A k1, k2 \in Keys : locks[k1] # Nil /\ locks[k1] = locks[k2] => k1 = k2

\* The mutex of an object is held by the request that thinks so.
HolderAgrees == \A o \in Objects, r \in Requests :
                    holder[o] = r <=> pc[r] = "holding" /\ lk[r] = o

LockInv == TypeOK /\ IdleClean /\ BusyLinked /\ OneKeyEach /\ HolderAgrees /\ RefsExact

-----------------------------------------------------------------------------
LEMMA UsersFinite == ASSUME NEW o PROVE IsFiniteSet(Users(o))
  BY RequestsFinite, FS_Subset DEF Users

\* The invariant holds when the process starts.
LEMMA LockInit == Init => LockInv
  BY Nulls DEF Init, LockInv, TypeOK, IdleClean, BusyLinked, OneKeyEach, HolderAgrees, RefsExact

\* The lookup under k.mu (keylock.go:20-27) preserves the invariant: a new
\* object has no user, and a known one gains exactly the caller.
LEMMA RegisterInv ==
    ASSUME LockInv, NEW r \in Requests, NEW k \in Keys, NEW o \in Objects, Register(r, k, o)
    PROVE  LockInv'
<1> USE Nulls DEF LockInv, Register
<1> DEFINE U(x) == {s \in Requests : lk'[s] = x}   \* Users after the step
<1> HIDE DEF U
<1>1. TypeOK'
  BY DEF TypeOK
<1>2. IdleClean' /\ BusyLinked'
  BY DEF TypeOK, IdleClean, BusyLinked, Fresh
<1>3. OneKeyEach'
  BY DEF TypeOK, OneKeyEach, Fresh
<1>4. HolderAgrees'
  BY DEF TypeOK, HolderAgrees, IdleClean
<1>5. RefsExact'
  <2> SUFFICES ASSUME NEW j \in Keys, locks'[j] # Nil
               PROVE  refs'[locks'[j]] = Cardinality(U(locks'[j])) /\ U(locks'[j]) # {}
    BY DEF RefsExact, Users, U
  <2>1. r \notin Users(o) /\ U(o) = Users(o) \cup {r}
    BY DEF TypeOK, IdleClean, Users, U
  <2>2. CASE j = k /\ locks[k] = Nil
    <3>1. Users(o) = {}
      BY <2>2 DEF Fresh, Users
    <3>2. U(o) = {r}
      BY <2>1, <3>1
    <3>3. Cardinality(U(o)) = 1 /\ U(o) # {}
      BY <3>2, FS_Singleton
    <3>4. locks'[j] = o /\ refs'[o] = 1
      BY <2>2 DEF TypeOK
    <3> QED
      BY <3>3, <3>4
  <2>3. CASE j = k /\ locks[k] # Nil
    <3>1. Cardinality(Users(o) \cup {r}) = Cardinality(Users(o)) + 1
      BY <2>1, UsersFinite, FS_AddElement
    <3>2. refs[o] = Cardinality(Users(o))
      BY <2>3 DEF RefsExact
    <3> QED
      BY <2>1, <2>3, <3>1, <3>2 DEF TypeOK
  <2>4. CASE j # k
    <3>1. locks'[j] = locks[j] /\ locks[j] # o
      BY <2>4 DEF TypeOK, OneKeyEach, Fresh
    <3>2. U(locks[j]) = Users(locks[j])
      BY <3>1 DEF TypeOK, IdleClean, Users, U
    <3>3. refs'[locks[j]] = refs[locks[j]]
      BY <3>1 DEF TypeOK
    <3> QED
      BY <3>1, <3>2, <3>3 DEF RefsExact
  <2> QED
    BY <2>2, <2>3, <2>4
<1> QED
  BY <1>1, <1>2, <1>3, <1>4, <1>5

\* lk.mu.Lock() preserves the invariant.
LEMMA AcquireInv ==
    ASSUME LockInv, NEW r \in Requests, Acquire(r)
    PROVE  LockInv'
<1> USE Nulls DEF LockInv, Acquire
<1>1. TypeOK' /\ IdleClean' /\ BusyLinked' /\ OneKeyEach'
  BY DEF TypeOK, IdleClean, BusyLinked, OneKeyEach
<1>2. HolderAgrees'
  BY DEF TypeOK, HolderAgrees, BusyLinked
<1>3. RefsExact'
  BY DEF RefsExact, Users
<1> QED
  BY <1>1, <1>2, <1>3

\* lk.mu.Unlock() preserves the invariant.
LEMMA UnlockInv ==
    ASSUME LockInv, NEW r \in Requests, Unlock(r)
    PROVE  LockInv'
<1> USE Nulls DEF LockInv, Unlock
<1>1. TypeOK' /\ IdleClean' /\ BusyLinked' /\ OneKeyEach'
  BY DEF TypeOK, IdleClean, BusyLinked, OneKeyEach
<1>2. HolderAgrees'
  BY DEF TypeOK, HolderAgrees, BusyLinked
<1>3. RefsExact'
  BY DEF RefsExact, Users
<1> QED
  BY <1>1, <1>2, <1>3

\* Dropping the reference (keylock.go:33-38) preserves the invariant: the
\* entry goes exactly when the caller was the last user.
LEMMA UnregisterInv ==
    ASSUME LockInv, NEW r \in Requests, Unregister(r)
    PROVE  LockInv'
<1> USE Nulls DEF LockInv, Unregister
<1> DEFINE o == lk[r]
           k == key[r]
           U(x) == {s \in Requests : lk'[s] = x}   \* Users after the step
<1> HIDE DEF U
<1>1. o \in Objects /\ k \in Keys /\ locks[k] = o
  BY DEF BusyLinked
<1>2. /\ refs[o] = Cardinality(Users(o))
      /\ r \in Users(o)
      /\ U(o) = Users(o) \ {r}
  BY <1>1 DEF RefsExact, Users, U, TypeOK
<1>3. Cardinality(Users(o) \ {r}) = refs[o] - 1
  BY <1>2, UsersFinite, FS_RemoveElement
<1>4. IsFiniteSet(Users(o) \ {r})
  BY UsersFinite, FS_Subset
<1>5. refs[o] = 1 <=> U(o) = {}
  <2>1. refs[o] \in Nat
    BY <1>1 DEF TypeOK
  <2>2. Cardinality(U(o)) = 0 <=> U(o) = {}
    BY <1>2, <1>4, FS_EmptySet
  <2> QED
    BY <1>2, <1>3, <2>1, <2>2
<1>6. refs[o] \in Nat \ {0}
  BY <1>1, <1>2, UsersFinite, FS_EmptySet DEF TypeOK
<1>7. TypeOK'
  BY <1>1, <1>6 DEF TypeOK
<1>8. IdleClean' /\ OneKeyEach'
  BY DEF TypeOK, IdleClean, OneKeyEach
<1>9. BusyLinked'
  <2> SUFFICES ASSUME NEW s \in Requests, pc'[s] # "idle"
               PROVE  key'[s] \in Keys /\ lk'[s] \in Objects /\ locks'[key'[s]] = lk'[s]
    BY DEF BusyLinked
  <2>1. s # r /\ pc[s] # "idle" /\ key'[s] = key[s] /\ lk'[s] = lk[s]
    BY DEF TypeOK
  <2>2. key[s] \in Keys /\ lk[s] \in Objects /\ locks[key[s]] = lk[s]
    BY <2>1 DEF BusyLinked
  <2>3. refs[o] = 1 => lk[s] # o
    BY <1>5, <2>1 DEF U
  <2> QED
    BY <1>1, <2>1, <2>2, <2>3 DEF TypeOK
<1>10. HolderAgrees'
  BY <1>1 DEF TypeOK, HolderAgrees
<1>11. RefsExact'
  <2> SUFFICES ASSUME NEW j \in Keys, locks'[j] # Nil
               PROVE  refs'[locks'[j]] = Cardinality(U(locks'[j])) /\ U(locks'[j]) # {}
    BY DEF RefsExact, Users, U
  <2>1. locks'[j] = locks[j]
    BY DEF TypeOK
  <2>2. CASE locks[j] = o
    <3>1. j = k /\ refs[o] # 1
      BY <1>1, <2>1, <2>2 DEF OneKeyEach, TypeOK
    <3>2. refs'[o] = refs[o] - 1
      BY <1>1 DEF TypeOK
    <3> QED
      BY <1>2, <1>3, <1>5, <2>1, <2>2, <3>1, <3>2
  <2>3. CASE locks[j] # o
    <3>1. U(locks[j]) = Users(locks[j])
      BY <2>1, <2>3 DEF Users, U, TypeOK
    <3>2. refs'[locks[j]] = refs[locks[j]]
      BY <2>1, <2>3, <1>1 DEF TypeOK
    <3> QED
      BY <2>1, <3>1, <3>2 DEF RefsExact
  <2> QED
    BY <2>2, <2>3
<1> QED
  BY <1>7, <1>8, <1>9, <1>10, <1>11

\* One step of any goroutine, or a step of something else, preserves it.
LEMMA LockStep == LockInv /\ [Next]_vars => LockInv'
<1> SUFFICES ASSUME LockInv, [Next]_vars PROVE LockInv'
  OBVIOUS
<1>1. CASE UNCHANGED vars
  BY <1>1 DEF vars, LockInv, TypeOK, IdleClean, BusyLinked, OneKeyEach, HolderAgrees,
              RefsExact, Users
<1>2. CASE Next
  BY <1>2, RegisterInv, AcquireInv, UnlockInv, UnregisterInv DEF Next
<1> QED
  BY <1>1, <1>2

\* LockInv is an invariant of KeyLocker.
THEOREM LockInvariant == Spec => []LockInv
  BY LockInit, LockStep, PTL DEF Spec

\* The types of the map, the reference counts and the callers' locals.
THEOREM TypeCorrect == Spec => []TypeOK
  BY LockInvariant, PTL DEF LockInv

\* No entry of k.locks leaks and none is deleted under a user, and its refs
\* field counts its users.
THEOREM RefsCorrect == Spec => []RefsExact
  BY LockInvariant, PTL DEF LockInv

\* Two requests never hold the fill lock of one key together: they would
\* hold the mutex of one object.
LEMMA InvExcludes == LockInv => MutualExclusion
  BY DEF LockInv, BusyLinked, HolderAgrees, MutualExclusion, TypeOK

\* At most one request holds the lock of a key (KeyLocker.Lock).
THEOREM Exclusion == Spec => []MutualExclusion
  BY LockInvariant, InvExcludes, PTL

-----------------------------------------------------------------------------
(* KeyLocker implements FillLock.                                          *)

\* An idle map is a lock nobody asked for.
LEMMA AbsInit == Init => Abs!LockInit
  BY DEF Init, Abs!LockInit, Wants, Owner

\* The owner of a key is the request that holds it.
LEMMA OwnerHolds ==
    ASSUME LockInv, NEW r \in Requests, NEW k \in Keys, Owner[k] = r
    PROVE  pc[r] = "holding" /\ key[r] = k
  BY Nulls DEF LockInv, Owner, HolderAgrees, BusyLinked, OneKeyEach, TypeOK

\* The lookup under k.mu is Ask.
LEMMA RegisterAsks ==
    ASSUME LockInv, NEW r \in Requests, NEW k \in Keys, NEW o \in Objects, Register(r, k, o)
    PROVE  Abs!Ask(r, k)
<1> USE Nulls DEF LockInv, Register
<1>1. Wants[r] = NoKey /\ Abs!OwnsNothing(r)
  BY OwnerHolds DEF Wants, Abs!OwnsNothing
<1>2. Wants' = [Wants EXCEPT ![r] = k]
  BY DEF Wants, TypeOK
<1>3. locks[k] = Nil => holder[o] = NoRequest
  BY DEF Fresh, HolderAgrees, TypeOK
<1>4. Owner' = Owner
  BY <1>3 DEF Owner, TypeOK
<1> QED
  BY <1>1, <1>2, <1>4 DEF Abs!Ask

\* lk.mu.Lock() is Grant.
LEMMA AcquireGrants ==
    ASSUME LockInv, NEW r \in Requests, Acquire(r)
    PROVE  key[r] \in Keys /\ Abs!Grant(r, key[r])
<1> USE Nulls DEF LockInv, Acquire
<1>1. key[r] \in Keys /\ lk[r] \in Objects /\ locks[key[r]] = lk[r]
  BY DEF BusyLinked
<1>2. Wants[r] = key[r] /\ Owner[key[r]] = NoRequest
  BY <1>1 DEF Wants, Owner
<1>3. Wants' = [Wants EXCEPT ![r] = NoKey]
  BY DEF Wants, TypeOK
<1>4. Owner' = [Owner EXCEPT ![key[r]] = r]
  BY <1>1 DEF Owner, TypeOK, OneKeyEach
<1> QED
  BY <1>1, <1>2, <1>3, <1>4 DEF Abs!Grant

\* lk.mu.Unlock() is Return.
LEMMA UnlockReturns ==
    ASSUME LockInv, NEW r \in Requests, Unlock(r)
    PROVE  key[r] \in Keys /\ Abs!Return(r, key[r])
<1> USE Nulls DEF LockInv, Unlock
<1>1. key[r] \in Keys /\ lk[r] \in Objects /\ locks[key[r]] = lk[r] /\ holder[lk[r]] = r
  BY DEF BusyLinked, HolderAgrees
<1>2. Owner[key[r]] = r
  BY <1>1 DEF Owner
<1>3. Wants' = Wants
  BY DEF Wants, TypeOK
<1>4. Owner' = [Owner EXCEPT ![key[r]] = NoRequest]
  BY <1>1 DEF Owner, TypeOK, OneKeyEach
<1> QED
  BY <1>1, <1>2, <1>3, <1>4 DEF Abs!Return

\* Dropping the reference is not observable.
LEMMA UnregisterStutters ==
    ASSUME LockInv, NEW r \in Requests, Unregister(r)
    PROVE  UNCHANGED Abs!lockVars
<1> USE Nulls DEF LockInv, Unregister
<1>1. key[r] \in Keys /\ lk[r] \in Objects /\ locks[key[r]] = lk[r]
  BY DEF BusyLinked
<1>2. ASSUME refs[lk[r]] = 1
      PROVE  holder[lk[r]] = NoRequest
  <2>1. Cardinality(Users(lk[r])) = 1
    BY <1>1, <1>2 DEF RefsExact
  <2>2. PICK u : Users(lk[r]) = {u}
    BY <2>1, UsersFinite, FS_Singleton
  <2>3. \A s \in Requests : lk[s] = lk[r] => s = r
    BY <2>2 DEF Users
  <2> QED
    BY <1>1, <2>3 DEF HolderAgrees, TypeOK
<1>3. Wants' = Wants
  BY DEF Wants, TypeOK
<1>4. Owner' = Owner
  BY <1>1, <1>2 DEF Owner, TypeOK
<1> QED
  BY <1>3, <1>4 DEF Abs!lockVars

\* Every step of KeyLocker is a step of FillLock or leaves it alone.
LEMMA AbsStep == LockInv /\ [Next]_vars => [Abs!LockNext]_(Abs!lockVars)
<1> SUFFICES ASSUME LockInv, [Next]_vars PROVE [Abs!LockNext]_(Abs!lockVars)
  OBVIOUS
<1>1. CASE UNCHANGED vars
  BY <1>1 DEF vars, Abs!lockVars, Wants, Owner
<1>2. ASSUME NEW r \in Requests, NEW k \in Keys, NEW o \in Objects, Register(r, k, o)
      PROVE  Abs!LockNext
  BY <1>2, RegisterAsks DEF Abs!LockNext
<1>3. ASSUME NEW r \in Requests, Acquire(r)
      PROVE  Abs!LockNext
  BY <1>3, AcquireGrants DEF Abs!LockNext
<1>4. ASSUME NEW r \in Requests, Unlock(r)
      PROVE  Abs!LockNext
  BY <1>4, UnlockReturns DEF Abs!LockNext
<1>5. ASSUME NEW r \in Requests, Unregister(r)
      PROVE  UNCHANGED Abs!lockVars
  BY <1>5, UnregisterStutters
<1> QED
  BY <1>1, <1>2, <1>3, <1>4, <1>5 DEF Next

\* KeyLocker implements the keyed lock FillLock: its map, its objects and
\* their reference counts cannot be seen from outside.
THEOREM Refinement == Spec => AbsSpec
  BY AbsInit, AbsStep, LockInvariant, PTL DEF Spec, AbsSpec, Abs!LockSpec

-----------------------------------------------------------------------------
(* The request path.                                                       *)

\* Where a request is in handleRoute tells where it is in Lock: it holds the
\* lock of its own key exactly while it looks again, fetches and stores.
LockFollows(r) ==
    /\ at[r] \in {"idle", "lookup", "lock"} => pc[r] = "idle"
    /\ at[r] = "lock" => Stores(r)
    /\ at[r] = "lookup" => kind[r] = "get"
    /\ at[r] = "waiting" => pc[r] = "waiting" /\ key[r] = want[r] /\ Stores(r)
    /\ at[r] = "recheck" => pc[r] = "holding" /\ key[r] = want[r] /\ Stores(r)
    /\ at[r] \in {"fetch", "response"} =>
          \/ Stores(r) /\ pc[r] = "holding" /\ key[r] = want[r]
          \/ ~Stores(r) /\ pc[r] = "idle"
    /\ at[r] = "return" => pc[r] \in {"idle", "holding"}
    /\ at[r] = "returned" => pc[r] = "unlocked"

ControlTypeOK == /\ at \in [Requests -> Stages]
                 /\ kind \in [Requests -> Kinds \cup {"none"}]
                 /\ want \in [Requests -> Keys \cup {NoKey}]
                 /\ \A r \in Requests : at[r] # "idle" /\ at[r] # "returned" => want[r] \in Keys

FillInv == LockInv /\ ControlTypeOK /\ \A r \in Requests : LockFollows(r)

\* A step that leaves a request's place, mode, key and lock alone.
Untouched(s) == /\ at'[s] = at[s] /\ kind'[s] = kind[s] /\ want'[s] = want[s]
                /\ pc'[s] = pc[s] /\ key'[s] = key[s]

LEMMA UntouchedFollows ==
    ASSUME NEW s, LockFollows(s), Untouched(s)
    PROVE  LockFollows(s)'
  BY DEF LockFollows, Untouched, Stores

\* What every step of request r does to the places of the requests.
Sound(r) == /\ ControlTypeOK'
            /\ LockFollows(r)'
            /\ [Next]_vars
            /\ \A s \in Requests \ {r} : Untouched(s)

-----------------------------------------------------------------------------
(* One lemma for each step of handleRoute and fetchAndServe.               *)

LEMMA ArriveSound ==
    ASSUME FillInv, NEW r \in Requests, NEW kd \in Kinds, NEW k \in Keys, Arrive(r, kd, k)
    PROVE  Sound(r)
  BY DEF FillInv, LockInv, TypeOK, ControlTypeOK, Arrive, Go, Sound, Untouched, LockFollows, Stores,
         Kinds, Stages, vars

LEMMA FirstLookupSound ==
    ASSUME FillInv, NEW r \in Requests, NEW allowed \in BOOLEAN, FirstLookup(r, allowed)
    PROVE  Sound(r)
  BY DEF FillInv, LockInv, TypeOK, ControlTypeOK, FirstLookup, Consult, Leave, Go, Sound, Untouched,
         LockFollows, Stores, Stages, vars

LEMMA SecondLookupSound ==
    ASSUME FillInv, NEW r \in Requests, NEW allowed \in BOOLEAN, SecondLookup(r, allowed)
    PROVE  Sound(r)
  BY DEF FillInv, LockInv, TypeOK, ControlTypeOK, SecondLookup, Consult, Leave, Go, Sound, Untouched,
         LockFollows, Stores, Stages, vars

LEMMA TakeLockSound ==
    ASSUME FillInv, NEW r \in Requests, NEW o \in Objects, TakeLock(r, o)
    PROVE  Sound(r)
<1>1. Next /\ want[r] \in Keys
  BY DEF FillInv, ControlTypeOK, TakeLock, Next
<1> QED
  BY <1>1 DEF FillInv, LockInv, TypeOK, ControlTypeOK, TakeLock, Register, Go, Sound, Untouched,
              LockFollows, Stores, Stages

LEMMA LockTakenSound ==
    ASSUME FillInv, NEW r \in Requests, LockTaken(r)
    PROVE  Sound(r)
<1>1. Next
  BY DEF LockTaken, Next
<1> QED
  BY <1>1 DEF FillInv, LockInv, TypeOK, ControlTypeOK, LockTaken, Acquire, Go, Sound, Untouched,
              LockFollows, Stores, Stages

LEMMA FetchSound ==
    ASSUME FillInv, NEW r \in Requests, NEW status \in Statuses, NEW done \in BOOLEAN,
           FetchAnswered(r, status) \/ FetchFailed(r, done)
    PROVE  Sound(r)
  BY DEF FillInv, LockInv, TypeOK, ControlTypeOK, FetchAnswered, FetchFailed, ServeStale, Leave, Go,
         Sound, Untouched, LockFollows, Stores, Stages, vars

LEMMA AnswerSound ==
    ASSUME FillInv, NEW r \in Requests, NEW keep \in BOOLEAN,
           ClientGone(r) \/ HideFailure(r) \/ AnswerUnsafe(r) \/ Answer(r, keep)
    PROVE  Sound(r)
  BY DEF FillInv, LockInv, TypeOK, ControlTypeOK, ClientGone, HideFailure, AnswerUnsafe, Answer,
         Passes, ServeStale, Leave, Go, Sound, Untouched, LockFollows, Stores, Stages, vars

LEMMA ReturnSound ==
    ASSUME FillInv, NEW r \in Requests, Return(r)
    PROVE  Sound(r)
<1> USE DEF FillInv, LockInv, TypeOK, ControlTypeOK, Return, Go, Sound, Untouched, LockFollows,
            Stores, Stages
<1>1. CASE pc[r] = "holding"
  <2>1. Next
    BY <1>1 DEF Next
  <2> QED
    BY <1>1, <2>1 DEF Unlock
<1>2. CASE pc[r] # "holding"
  BY <1>2 DEF vars
<1> QED
  BY <1>1, <1>2

LEMMA FinishSound ==
    ASSUME FillInv, NEW r \in Requests, Finish(r)
    PROVE  Sound(r)
<1>1. Next
  BY DEF Finish, Next
<1> QED
  BY <1>1 DEF FillInv, LockInv, TypeOK, ControlTypeOK, Finish, Unregister, Go, Sound, Untouched,
              LockFollows, Stores, Stages

-----------------------------------------------------------------------------
\* The invariant holds at startup.
LEMMA FillInit == EdgeInit => FillInv
  BY LockInit DEF EdgeInit, Init, FillInv, ControlTypeOK, LockFollows, Stages

\* Every step of the route's cache is a step of its KeyLocker or none, and
\* preserves the invariant.
LEMMA FillStep == FillInv /\ [EdgeNext]_allVars => FillInv' /\ [Next]_vars
<1> SUFFICES ASSUME FillInv, [EdgeNext]_allVars PROVE FillInv' /\ [Next]_vars
  OBVIOUS
<1>1. ASSUME NEW r \in Requests, Sound(r)
      PROVE  FillInv' /\ [Next]_vars
  <2>1. \A s \in Requests : LockFollows(s)'
    BY <1>1, UntouchedFollows DEF FillInv, Sound
  <2>2. LockInv'
    BY <1>1, LockStep DEF FillInv, Sound
  <2> QED
    BY <1>1, <2>1, <2>2 DEF FillInv, Sound
<1>2. ASSUME UNCHANGED <<vars, at, kind, want>>
      PROVE  FillInv' /\ [Next]_vars
  <2>1. LockInv'
    BY <1>2, LockStep DEF FillInv, vars
  <2> QED
    BY <1>2, <2>1 DEF FillInv, ControlTypeOK, LockFollows, Stores, vars
<1>3. ASSUME NEW r \in Requests, Progress(r)
      PROVE  Sound(r)
  <2>1. CASE \E allowed \in BOOLEAN : FirstLookup(r, allowed) \/ SecondLookup(r, allowed)
    BY <2>1, FirstLookupSound, SecondLookupSound
  <2>2. CASE (\E o \in Objects : TakeLock(r, o)) \/ LockTaken(r)
    BY <2>2, TakeLockSound, LockTakenSound
  <2>3. CASE (\E status \in Statuses : FetchAnswered(r, status))
                \/ (\E done \in BOOLEAN : FetchFailed(r, done))
    <3>1. "ok" \in Statuses /\ TRUE \in BOOLEAN
      BY DEF Statuses
    <3> QED
      BY <2>3, <3>1, FetchSound
  <2>4. CASE \/ ClientGone(r) \/ HideFailure(r) \/ AnswerUnsafe(r)
             \/ \E keep \in BOOLEAN : Answer(r, keep)
    BY <2>4, AnswerSound
  <2>5. CASE Return(r) \/ Finish(r)
    BY <2>5, ReturnSound, FinishSound
  <2> QED
    BY <1>3, <2>1, <2>2, <2>3, <2>4, <2>5 DEF Progress
<1>4. CASE UNCHANGED allVars
  BY <1>2, <1>4 DEF allVars, reqVars
<1>5. CASE \E r \in Requests, kd \in Kinds, k \in Keys : Arrive(r, kd, k)
  BY <1>1, <1>5, ArriveSound
<1>6. CASE \E r \in Requests : Progress(r)
  BY <1>1, <1>3, <1>6
<1>7. CASE \E U \in SUBSET Uris : PurgeCache(U)
  BY <1>2, <1>7 DEF PurgeCache, reqVars
<1>8. CASE TimePasses
  BY <1>2, <1>8 DEF TimePasses, reqVars
<1> QED
  BY <1>4, <1>5, <1>6, <1>7, <1>8 DEF EdgeNext

\* The invariant of the request path.
THEOREM FillInvariant == EdgeSpec => []FillInv
  BY FillInit, FillStep, PTL DEF EdgeSpec

\* The requests of a route use its KeyLocker as its callers must: what is
\* proved of Spec holds of the route.
THEOREM RouteUsesLock == EdgeSpec => Spec
<1>1. EdgeInit => Init
  BY DEF EdgeInit
<1> QED
  BY <1>1, FillStep, FillInvariant, PTL DEF EdgeSpec, Spec

\* Fills of one key never overlap: they hold its lock (handler.go:404-405).
LEMMA FillsApart == FillInv => SingleFill
  <1>1. FillInv => MutualExclusion
    BY InvExcludes DEF FillInv
  <1> QED BY <1>1 DEF FillInv, LockFollows, SingleFill, MutualExclusion

\* A popular key that expires costs the origin one request: fills of one key
\* never overlap, whatever purges, failures and cancellations happen.
THEOREM OneFillPerKey == EdgeSpec => []SingleFill
  BY FillsApart, FillInvariant, PTL

\* The route's lock behaves like FillLock under its real callers.
THEOREM RouteRefinesFillLock == EdgeSpec => AbsSpec
  BY RouteUsesLock, Refinement, PTL

\* The route never leaks a keyLock and never deletes one in use.
THEOREM RouteRefsExact == EdgeSpec => []RefsExact
  BY RouteUsesLock, RefsCorrect, PTL

-----------------------------------------------------------------------------
(* The list of the cache: its size, and what a removal leaves of it.  The  *)
(* recursions of SizeOf and Keep are followed from the front of the list,  *)
(* by induction over the index (UptoInduction).                            *)

\* f holds the running totals of the sizes of s.
Adds(f, s) == /\ f \in [0..Len(s) -> Int] /\ f[0] = 0
              /\ \A i \in 1..Len(s) : f[i] = f[i - 1] + s[i].size

\* SizeOf is what any running total of the sizes arrives at: c.bytes after one
\* c.bytes += size for each item (cache.go:101).
LEMMA SizeIs ==
    ASSUME NEW s \in Seq(Item), NEW f, Adds(f, s)
    PROVE  SizeOf(s) = f[Len(s)]
  <1> DEFINE N == Len(s)
             Def(h) == h = [i \in 0..N |-> IF i = 0 THEN 0 ELSE h[i - 1] + s[i].size]
             it == CHOOSE h : Def(h)
  <1>0. N \in Nat
    OBVIOUS
  <1>1. Def(f)
    <2>1. ASSUME NEW i \in 0..N PROVE f[i] = IF i = 0 THEN 0 ELSE f[i - 1] + s[i].size
      <3>1. i = 0 \/ i \in 1..N
        BY <1>0
      <3> QED BY <3>1 DEF Adds
    <2>2. f = [i \in 0..N |-> f[i]]
      BY DEF Adds
    <2> QED BY <2>1, <2>2
  <1>2. Def(it)
    <2> HIDE DEF Def
    <2> QED BY <1>1
  <1> DEFINE G == {n \in 0..N : it[n] = f[n]}
  <1>3. 0 \in G
    BY <1>0, <1>2, SMTT(30) DEF Adds
  <1>4. ASSUME NEW n \in 0..N - 1, n \in G PROVE n + 1 \in G
    <2>1. n + 1 \in 0..N /\ n + 1 \in 1..N /\ n + 1 # 0 /\ (n + 1) - 1 = n
      BY <1>0
    <2>2. it[n + 1] = it[n] + s[n + 1].size
      <3> HIDE DEF it
      <3> QED BY <1>2, <2>1
    <2>3. f[n + 1] = f[n] + s[n + 1].size
      BY <2>1 DEF Adds
    <2> HIDE DEF it
    <2> QED BY <1>4, <2>1, <2>2, <2>3
  <1>5. N \in G
    <2> HIDE DEF G
    <2>1. \A n \in 0..N : n \in G
      BY <1>0, <1>3, <1>4, UptoInduction
    <2> QED BY <1>0, <2>1
  <1>6. SizeOf(s) = it[N]
    BY DEF SizeOf
  <1> HIDE DEF it
  <1> QED BY <1>5, <1>6

\* Every list has such a running total (cache.go:101).
LEMMA SizeExists ==
    ASSUME NEW s \in Seq(Item)
    PROVE  \E f : Adds(f, s)
  <1>1. PICK V, N, z : V = Int /\ N = Len(s) /\ z = 0
    OBVIOUS
  <1> DEFINE g == [i \in 1..N |-> [v \in V |-> v + s[i].size]]
  <1>2. N \in Nat /\ z \in V /\ g \in [1..N -> [V -> V]]
    <2>1. \A i \in 1..N : s[i] \in Item
      BY <1>1
    <2>2. \A x \in Item : x.size \in Int
      BY DEF Item
    <2> QED BY <1>1, <2>1, <2>2
  <1>3. PICK f \in [0..N -> V] : f[0] = z /\ \A i \in 1..N : f[i] = g[i][f[i - 1]]
    <2> HIDE DEF g
    <2> QED BY <1>2, Recursion, SMTT(30)
  <1>4. ASSUME NEW i \in 1..N PROVE f[i] = f[i - 1] + s[i].size
    <2>1. i - 1 \in 0..N
      BY <1>2
    <2>2. f[i - 1] \in V
      BY <1>3, <2>1
    <2> QED BY <1>3, <2>2
  <1> QED BY <1>1, <1>3, <1>4 DEF Adds

\* The size of a list is that of its first items and that of the others, which
\* removeOldest takes off c.bytes (cache.go:212).
LEMMA SizeSplits ==
    ASSUME NEW s \in Seq(Item), NEW n \in 0..Len(s)
    PROVE  /\ SizeOf(SubSeq(s, 1, n)) + SizeOf(SubSeq(s, n + 1, Len(s))) = SizeOf(s)
           /\ SizeOf(s) \in Nat
           /\ SizeOf(SubSeq(s, 1, n)) \in Nat
  <1> DEFINE N == Len(s)
             a == SubSeq(s, 1, n)
             b == SubSeq(s, n + 1, N)
  <1>1. PICK f : Adds(f, s)
    BY SizeExists
  <1>2. /\ N \in Nat /\ n \in Nat /\ n <= N
        /\ \A i \in 0..N : f[i] \in Int
        /\ f[0] = 0 /\ \A i \in 1..N : f[i] = f[i - 1] + s[i].size
    BY <1>1 DEF Adds
  <1>3. /\ a \in Seq(Item) /\ Len(a) = n /\ \A i \in 1..n : a[i] = s[i]
        /\ b \in Seq(Item) /\ Len(b) = N - n /\ \A i \in 1..N - n : b[i] = s[n + i]
    BY <1>2
  <1> HIDE DEF a, b
  <1>4. SizeOf(s) = f[N]
    BY <1>1, SizeIs
  <1>5. SizeOf(a) = f[n]
    <2> DEFINE g == [i \in 0..n |-> f[i]]
    <2>1. g \in [0..n -> Int] /\ g[0] = 0
      BY <1>2
    <2>2. ASSUME NEW i \in 1..n PROVE g[i] = g[i - 1] + a[i].size
      <3>1. i \in 1..N /\ i \in 0..n /\ i - 1 \in 0..n
        BY <1>2
      <3> QED BY <1>2, <1>3, <3>1
    <2>3. Adds(g, a)
      <3> HIDE DEF g
      <3> QED BY <1>3, <2>1, <2>2 DEF Adds
    <2>4. SizeOf(a) = g[n]
      <3> HIDE DEF g
      <3> QED BY <1>3, <2>3, SizeIs
    <2> QED BY <1>2, <2>4
  <1>6. SizeOf(b) = f[N] - f[n]
    <2> DEFINE g == [i \in 0..N - n |-> f[n + i] - f[n]]
    <2>1. g \in [0..N - n -> Int] /\ g[0] = 0
      BY <1>2
    <2>2. ASSUME NEW i \in 1..N - n PROVE g[i] = g[i - 1] + b[i].size
      <3>1. n + i \in 1..N /\ i \in 0..N - n /\ i - 1 \in 0..N - n /\ (n + i) - 1 = n + (i - 1)
        BY <1>2
      <3>2. f[n + i] = f[n + (i - 1)] + b[i].size
        BY <1>2, <1>3, <3>1
      <3>3. b[i].size \in Int /\ f[n] \in Int /\ f[n + i] \in Int /\ f[n + (i - 1)] \in Int
        <4>1. b[i] \in Item
          BY <1>3
        <4>2. b[i].size \in Int
          BY <4>1 DEF Item
        <4>3. n + (i - 1) \in 0..N /\ n + i \in 0..N /\ n \in 0..N
          BY <1>2, <3>1
        <4> QED BY <1>2, <4>2, <4>3
      <3> QED BY <3>1, <3>2, <3>3
    <2>3. Adds(g, b)
      <3> HIDE DEF g
      <3> QED BY <1>3, <2>1, <2>2 DEF Adds
    <2>4. SizeOf(b) = g[N - n]
      <3> HIDE DEF g
      <3> QED BY <1>3, <2>3, SizeIs
    <2> QED BY <1>2, <2>4
  <1>7. \A i \in 0..N : f[i] \in Nat
    <2> DEFINE G == {i \in 0..N : f[i] \in Nat}
    <2>1. 0 \in G
      BY <1>2
    <2>2. ASSUME NEW i \in 0..N - 1, i \in G PROVE i + 1 \in G
      <3>1. i + 1 \in 1..N /\ (i + 1) - 1 = i /\ s[i + 1] \in Item
        BY <1>2
      <3>2. s[i + 1].size \in Nat
        BY <3>1 DEF Item
      <3>3. f[i + 1] = f[i] + s[i + 1].size
        BY <1>2, <3>1
      <3> QED BY <2>2, <3>1, <3>2, <3>3
    <2>3. \A i \in 0..N : i \in G
      <3> HIDE DEF G
      <3> QED BY <1>2, <2>1, <2>2, UptoInduction
    <2> QED BY <2>3
  <1> QED BY <1>2, <1>4, <1>5, <1>6, <1>7 DEF a, b

\* The size of a list is never negative: c.bytes cannot fall below zero.
LEMMA SizeIsNat == ASSUME NEW s \in Seq(Item) PROVE SizeOf(s) \in Nat
  <1>1. 0 \in 0..Len(s)
    OBVIOUS
  <1> QED BY <1>1, SizeSplits

\* The size of a list of one item is the size of the item (cache.go:101).
LEMMA SizeOfOne ==
    ASSUME NEW x \in Item
    PROVE  SizeOf(<<x>>) = x.size
  <1> DEFINE g == [i \in 0..1 |-> IF i = 0 THEN 0 ELSE x.size]
  <1>1. x.size \in Int
    BY DEF Item
  <1>2. Adds(g, <<x>>)
    BY <1>1 DEF Adds
  <1>3. <<x>> \in Seq(Item) /\ Len(<<x>>) = 1
    OBVIOUS
  <1>4. SizeOf(<<x>>) = g[1]
    <2> HIDE DEF g
    <2> QED BY <1>2, <1>3, SizeIs
  <1> QED BY <1>4

\* An empty list takes no bytes (New, Clear: cache.go:55, cache.go:191).
LEMMA SizeOfNone == SizeOf(<<>>) = 0
  <1> DEFINE g == [i \in 0..0 |-> 0]
  <1>1. Adds(g, <<>>)
    BY DEF Adds
  <1>2. <<>> \in Seq(Item) /\ Len(<<>>) = 0
    OBVIOUS
  <1>3. SizeOf(<<>>) = g[0]
    <2> HIDE DEF g
    <2> QED BY <1>1, <1>2, SizeIs
  <1> QED BY <1>3

\* An item at the back of a list adds its size to it.
LEMMA SizeAppends ==
    ASSUME NEW s \in Seq(Item), NEW x \in Item
    PROVE  SizeOf(Append(s, x)) = SizeOf(s) + x.size
  <1> DEFINE t == Append(s, x)
             N == Len(s)
  <1>1. t \in Seq(Item) /\ N \in 0..Len(t) /\ N \in Nat
    OBVIOUS
  <1>2. SubSeq(t, 1, N) = s
    <2>1. SubSeq(t, 1, N) \in Seq(Item) /\ Len(SubSeq(t, 1, N)) = N
      BY <1>1
    <2>2. \A i \in 1..N : SubSeq(t, 1, N)[i] = s[i]
      BY <1>1
    <2> QED BY <2>1, <2>2, SeqEqual
  <1>4. SubSeq(t, N + 1, Len(t)) = <<x>>
    <2> DEFINE u == SubSeq(t, N + 1, Len(t))
    <2>1. u \in Seq(Item) /\ Len(u) = 1 /\ u[1] = x
      BY <1>1
    <2>2. <<x>> \in Seq(Item) /\ Len(<<x>>) = 1 /\ \A i \in 1..1 : u[i] = <<x>>[i]
      BY <2>1
    <2> HIDE DEF u
    <2>3. u = <<x>>
      BY <2>1, <2>2, SeqEqual
    <2> QED BY <2>3 DEF u
  <1>3. SizeOf(SubSeq(t, 1, N)) + SizeOf(SubSeq(t, N + 1, Len(t))) = SizeOf(t)
    <2> HIDE DEF t, N
    <2> QED BY <1>1, SizeSplits
  <1> QED BY <1>2, <1>3, <1>4, SizeOfOne

\* An item pushed to the front adds its size (cache.go:99-101).
LEMMA SizePushes ==
    ASSUME NEW s \in Seq(Item), NEW x \in Item
    PROVE  SizeOf(<<x>> \o s) = x.size + SizeOf(s)
  <1> DEFINE t == <<x>> \o s
  <1>1. t \in Seq(Item) /\ 1 \in 0..Len(t)
    OBVIOUS
  <1>2. SubSeq(t, 1, 1) = <<x>>
    <2> DEFINE u == SubSeq(t, 1, 1)
    <2>1. u \in Seq(Item) /\ Len(u) = 1 /\ u[1] = x
      BY <1>1
    <2>2. <<x>> \in Seq(Item) /\ Len(<<x>>) = 1 /\ \A i \in 1..1 : u[i] = <<x>>[i]
      BY <2>1
    <2> HIDE DEF u
    <2>3. u = <<x>>
      BY <2>1, <2>2, SeqEqual
    <2> QED BY <2>3 DEF u
  <1>4. SubSeq(t, 1 + 1, Len(t)) = s
    <2> DEFINE u == SubSeq(t, 1 + 1, Len(t))
    <2>1. u \in Seq(Item) /\ Len(u) = Len(s) /\ \A i \in 1..Len(s) : u[i] = s[i]
      BY <1>1
    <2> HIDE DEF u
    <2>2. u = s
      BY <2>1, SeqEqual
    <2> QED BY <2>2 DEF u
  <1>3. SizeOf(SubSeq(t, 1, 1)) + SizeOf(SubSeq(t, 1 + 1, Len(t))) = SizeOf(t)
    <2> HIDE DEF t
    <2> QED BY <1>1, SizeSplits
  <1> QED BY <1>2, <1>3, <1>4, SizeOfOne

\* f holds what is kept of the first items of the list, index by index.
Keeps(f, K) ==
    /\ f \in [0..Len(ll) -> Seq(Item)] /\ f[0] = <<>>
    /\ \A i \in 1..Len(ll) :
          f[i] = IF ll[i].key \in K THEN Append(f[i - 1], ll[i]) ELSE f[i - 1]

\* Keep is what going through the list item by item arrives at, as the loops of
\* Purge and PurgeRequest do (cache.go:125, cache.go:150).
LEMMA KeepIs ==
    ASSUME ll \in Seq(Item), NEW K
    PROVE  \E f : Keeps(f, K) /\ Keep(K) = f[Len(ll)]
  <1>1. PICK V, N, z : V = Seq(Item) /\ N = Len(ll) /\ z = <<>>
    OBVIOUS
  <1> DEFINE g == [i \in 1..N |-> [v \in V |-> IF ll[i].key \in K THEN Append(v, ll[i]) ELSE v]]
  <1>2. N \in Nat /\ z \in V /\ g \in [1..N -> [V -> V]]
    <2>1. \A i \in 1..N : ll[i] \in Item
      BY <1>1
    <2>2. \A v \in V, x \in Item : Append(v, x) \in V
      BY <1>1
    <2>3. N \in Nat /\ z \in V
      BY <1>1
    <2> QED BY <2>1, <2>2, <2>3
  <1>3. PICK f \in [0..N -> V] : f[0] = z /\ \A i \in 1..N : f[i] = g[i][f[i - 1]]
    <2> HIDE DEF g
    <2> QED BY <1>2, Recursion, SMTT(30)
  <1>4. ASSUME NEW i \in 1..N
        PROVE  f[i] = IF ll[i].key \in K THEN Append(f[i - 1], ll[i]) ELSE f[i - 1]
    <2>1. i - 1 \in 0..N
      BY <1>2
    <2>2. f[i - 1] \in V
      BY <1>3, <2>1
    <2> QED BY <1>3, <2>2
  <1>5. Keeps(f, K)
    BY <1>1, <1>3, <1>4 DEF Keeps
  <1> DEFINE Step(h, i) == IF i = 0 THEN <<>>
                           ELSE IF ll[i].key \in K THEN Append(h[i - 1], ll[i])
                           ELSE h[i - 1]
             Def(h) == h = [i \in 0..Len(ll) |-> Step(h, i)]
             it == CHOOSE h : Def(h)
  <1>6. Def(f)
    <2>1. ASSUME NEW i \in 0..N PROVE f[i] = Step(f, i)
      <3>1. i = 0 \/ i \in 1..N
        BY <1>2
      <3> QED BY <1>1, <1>3, <1>4, <3>1
    <2>2. f = [i \in 0..N |-> f[i]]
      BY <1>3
    <2>3. [i \in 0..N |-> f[i]] = [i \in 0..N |-> Step(f, i)]
      BY <2>1
    <2> HIDE DEF Step
    <2> QED BY <1>1, <2>2, <2>3
  <1>7. Def(it)
    <2> HIDE DEF Def
    <2> QED BY <1>6
  <1>8. Keep(K) = it[N]
    BY <1>1 DEF Keep
  <1> HIDE DEF it
  <1>9. it[N] = f[N]
    <2> DEFINE G == {i \in 0..N : it[i] = f[i]}
    <2>1. \A i \in 0..N : it[i] = Step(it, i) /\ f[i] = Step(f, i)
      BY <1>1, <1>6, <1>7
    <2>2. 0 \in G
      BY <1>2, <2>1
    <2>3. ASSUME NEW n \in 0..N - 1, n \in G PROVE n + 1 \in G
      <3>1. n + 1 \in 0..N /\ (n + 1) - 1 = n /\ n + 1 # 0
        BY <1>2
      <3>2. Step(it, n + 1) = Step(f, n + 1)
        BY <2>3, <3>1
      <3> HIDE DEF Step
      <3> QED BY <2>1, <3>1, <3>2
    <2> HIDE DEF G
    <2>4. \A n \in 0..N : n \in G
      BY <1>2, <2>2, <2>3, UptoInduction
    <2> QED BY <1>2, <2>4 DEF G
  <1> QED BY <1>1, <1>5, <1>8, <1>9

\* No two items of s have the same key.
Distinct(s) == \A i, j \in 1..Len(s) : s[i].key = s[j].key => i = j

\* What a removal leaves are items of the list, each once (cache.go:208-212).
LEMMA KeepDoes ==
    ASSUME ll \in Seq(Item), Distinct(ll), NEW K
    PROVE  /\ Keep(K) \in Seq(Item)
           /\ \A j \in 1..Len(Keep(K)) : \E i \in 1..Len(ll) : Keep(K)[j] = ll[i] /\ ll[i].key \in K
           /\ Distinct(Keep(K))
  <1>1. PICK f : Keeps(f, K) /\ Keep(K) = f[Len(ll)]
    BY KeepIs
  <1> DEFINE N == Len(ll)
             From(s, n) == \A j \in 1..Len(s) : \E i \in 1..n : s[j] = ll[i] /\ ll[i].key \in K
             G == {n \in 0..N : From(f[n], n) /\ Distinct(f[n])}
  <1>2. N \in Nat /\ \A n \in 0..N : f[n] \in Seq(Item)
    BY <1>1 DEF Keeps
  <1>3. 0 \in G
    <2>1. f[0] = <<>> /\ Len(f[0]) = 0
      BY <1>1 DEF Keeps
    <2> QED BY <1>2, <2>1 DEF Distinct
  <1>4. ASSUME NEW n \in 0..N - 1, n \in G PROVE n + 1 \in G
    <2>1. /\ n \in 0..N /\ n + 1 \in 1..N /\ n + 1 \in 0..N /\ (n + 1) - 1 = n
          /\ From(f[n], n) /\ Distinct(f[n])
      <3> HIDE DEF From
      <3>1. n \in 0..N /\ n + 1 \in 1..N /\ n + 1 \in 0..N /\ (n + 1) - 1 = n
        BY <1>2
      <3> QED BY <1>4, <3>1
    <2>2. f[n + 1] = IF ll[n + 1].key \in K THEN Append(f[n], ll[n + 1]) ELSE f[n]
      BY <1>1, <2>1 DEF Keeps
    <2>3. PICK s : s = f[n] /\ s \in Seq(Item)
      BY <1>2, <2>1
    <2>4. PICK x : x = ll[n + 1] /\ x \in Item
      BY <2>1
    <2>5. CASE x.key \in K
      <3>1. f[n + 1] = Append(s, x)
        BY <2>2, <2>3, <2>4, <2>5
      <3>2. /\ Len(Append(s, x)) = Len(s) + 1 /\ Len(s) \in Nat
            /\ \A j \in 1..Len(s) : Append(s, x)[j] = s[j]
            /\ Append(s, x)[Len(s) + 1] = x
        BY <2>3, <2>4
      <3>3. From(Append(s, x), n + 1)
        <4> SUFFICES ASSUME NEW j \in 1..Len(Append(s, x))
                     PROVE  \E i \in 1..n + 1 : Append(s, x)[j] = ll[i] /\ ll[i].key \in K
          OBVIOUS
        <4>1. CASE j = Len(s) + 1
          BY <2>1, <2>4, <2>5, <3>2, <4>1
        <4>2. CASE j \in 1..Len(s)
          <5>1. PICK i \in 1..n : s[j] = ll[i] /\ ll[i].key \in K
            BY <2>1, <2>3, <4>2
          <5> QED BY <2>1, <3>2, <4>2, <5>1
        <4> QED BY <3>2, <4>1, <4>2
      <3>4. Distinct(Append(s, x))
        <4>1. \A j \in 1..Len(s) : s[j].key # x.key
          <5> SUFFICES ASSUME NEW j \in 1..Len(s), s[j].key = x.key PROVE FALSE
            OBVIOUS
          <5>1. PICK i \in 1..n : s[j] = ll[i]
            BY <2>1, <2>3
          <5>2. i \in 1..N /\ i # n + 1
            BY <1>2, <2>1
          <5> QED BY <2>1, <2>4, <5>1, <5>2 DEF Distinct
        <4>2. Distinct(s)
          BY <2>1, <2>3
        <4> SUFFICES ASSUME NEW i \in 1..Len(s) + 1, NEW j \in 1..Len(s) + 1,
                            Append(s, x)[i].key = Append(s, x)[j].key
                     PROVE  i = j
          BY <3>2 DEF Distinct
        <4>3. (i \in 1..Len(s) \/ i = Len(s) + 1) /\ (j \in 1..Len(s) \/ j = Len(s) + 1)
          BY <3>2
        <4> QED BY <3>2, <4>1, <4>2, <4>3 DEF Distinct
      <3> HIDE DEF From
      <3> QED BY <2>1, <3>1, <3>3, <3>4
    <2>6. CASE x.key \notin K
      <3>1. f[n + 1] = f[n]
        BY <2>2, <2>4, <2>6
      <3>2. From(f[n], n + 1)
        BY <2>1
      <3> HIDE DEF From
      <3> QED BY <2>1, <3>1, <3>2
    <2> QED BY <2>5, <2>6
  <1>5. N \in G
    <2> HIDE DEF G
    <2>1. \A n \in 0..N : n \in G
      BY <1>2, <1>3, <1>4, UptoInduction
    <2> QED BY <1>2, <2>1
  <1> QED BY <1>1, <1>2, <1>5

\* What a removal leaves and what it takes make up the list: removeElement
\* takes the bytes of exactly what it removes (cache.go:211-212).
LEMMA KeepSplits ==
    ASSUME ll \in Seq(Item), NEW K
    PROVE  /\ Len(Keep(K)) + Len(Keep(Held \ K)) = Len(ll)
           /\ SizeOf(Keep(K)) + SizeOf(Keep(Held \ K)) = SizeOf(ll)
  <1>1. PICK f : Keeps(f, K) /\ Keep(K) = f[Len(ll)]
    BY KeepIs
  <1>2. PICK h : Keeps(h, Held \ K) /\ Keep(Held \ K) = h[Len(ll)]
    BY KeepIs
  <1>3. PICK a : Adds(a, ll)
    BY SizeExists
  <1> DEFINE N == Len(ll)
             Total(s, t, n) == Len(s) + Len(t) = n /\ SizeOf(s) + SizeOf(t) = a[n]
             G == {n \in 0..N : Total(f[n], h[n], n)}
  <1>4. N \in Nat /\ \A n \in 0..N : f[n] \in Seq(Item) /\ h[n] \in Seq(Item) /\ a[n] \in Int
    BY <1>1, <1>2, <1>3, SMTT(30) DEF Keeps, Adds
  <1>5. 0 \in G
    <2>1. f[0] = <<>> /\ h[0] = <<>> /\ a[0] = 0
      BY <1>1, <1>2, <1>3 DEF Keeps, Adds
    <2>2. Len(<<>>) = 0 /\ SizeOf(<<>>) = 0
      BY SizeOfNone
    <2>3. Total(f[0], h[0], 0)
      BY <2>1, <2>2
    <2> HIDE DEF Total
    <2> QED BY <1>4, <2>3
  <1>6. ASSUME NEW n \in 0..N - 1, n \in G PROVE n + 1 \in G
    <2>1. n \in 0..N /\ n + 1 \in 1..N /\ n + 1 \in 0..N /\ (n + 1) - 1 = n
      BY <1>4
    <2>2. PICK x : x = ll[n + 1] /\ x \in Item /\ x.key \in Held /\ x.size \in Nat
      <3>1. ll[n + 1] \in Item /\ ll[n + 1].key \in Held
        BY <2>1 DEF Held
      <3> QED BY <3>1 DEF Item
    <2>3. PICK s, t : s = f[n] /\ t = h[n] /\ s \in Seq(Item) /\ t \in Seq(Item)
      BY <1>4, <2>1
    <2>4. a[n + 1] = a[n] + x.size /\ a[n] \in Int
      BY <1>3, <1>4, <2>1, <2>2 DEF Adds
    <2>5. Total(s, t, n)
      <3> HIDE DEF Total
      <3> QED BY <1>6, <2>3
    <2>6. /\ SizeOf(s) \in Int /\ SizeOf(t) \in Int
          /\ SizeOf(Append(s, x)) = SizeOf(s) + x.size /\ SizeOf(Append(t, x)) = SizeOf(t) + x.size
      <3>1. SizeOf(s) \in Nat /\ SizeOf(t) \in Nat
        BY <2>3, SizeIsNat
      <3>2. SizeOf(Append(s, x)) = SizeOf(s) + x.size
        BY <2>2, <2>3, SizeAppends
      <3>3. SizeOf(Append(t, x)) = SizeOf(t) + x.size
        BY <2>2, <2>3, SizeAppends
      <3> QED BY <3>1, <3>2, <3>3
    <2>7. /\ Len(Append(s, x)) = Len(s) + 1 /\ Len(Append(t, x)) = Len(t) + 1
          /\ Len(s) \in Nat /\ Len(t) \in Nat
      BY <2>2, <2>3
    <2>8. \/ f[n + 1] = Append(s, x) /\ h[n + 1] = t
          \/ f[n + 1] = s /\ h[n + 1] = Append(t, x)
      BY <1>1, <1>2, <2>1, <2>2, <2>3 DEF Keeps
    <2>9. Total(Append(s, x), t, n + 1) /\ Total(s, Append(t, x), n + 1)
      BY <2>2, <2>4, <2>5, <2>6, <2>7, SMTT(30)
    <2> HIDE DEF Total
    <2> QED BY <2>1, <2>8, <2>9
  <1>7. N \in G
    <2> HIDE DEF G
    <2>1. \A n \in 0..N : n \in G
      BY <1>4, <1>5, <1>6, UptoInduction
    <2> QED BY <1>4, <2>1
  <1>8. SizeOf(ll) = a[N]
    BY <1>3, SizeIs
  <1> QED BY <1>1, <1>2, <1>7, <1>8

\* A key has one element in the list: c.items[key] (cache.go:68).
LEMMA KeepOne ==
    ASSUME ll \in Seq(Item), Distinct(ll), NEW m \in 1..Len(ll)
    PROVE  Keep({ll[m].key}) = <<ll[m]>>
  <1> DEFINE K == {ll[m].key}
             N == Len(ll)
  <1>1. PICK f : Keeps(f, K) /\ Keep(K) = f[Len(ll)]
    BY KeepIs
  <1> DEFINE G == {n \in 0..N : f[n] = IF n < m THEN <<>> ELSE <<ll[m]>>}
  <1>2. N \in Nat /\ m \in 1..N
    OBVIOUS
  <1>3. 0 \in G
    BY <1>1, <1>2 DEF Keeps
  <1>4. ASSUME NEW n \in 0..N - 1, n \in G PROVE n + 1 \in G
    <2>1. n \in 0..N /\ n + 1 \in 1..N /\ n + 1 \in 0..N /\ (n + 1) - 1 = n
      BY <1>2
    <2>2. f[n + 1] = IF ll[n + 1].key \in K THEN Append(f[n], ll[n + 1]) ELSE f[n]
      BY <1>1, <2>1 DEF Keeps
    <2>3. ll[n + 1].key \in K <=> n + 1 = m
      BY <2>1 DEF Distinct
    <2>4. f[n] = IF n < m THEN <<>> ELSE <<ll[m]>>
      BY <1>4
    <2>5. CASE n + 1 = m
      <3>0. n < m /\ ll[n + 1] = ll[m]
        BY <1>2, <2>5
      <3>1. f[n + 1] = Append(<<>>, ll[m])
        <4>1. f[n] = <<>> /\ f[n + 1] = Append(f[n], ll[n + 1])
          BY <2>2, <2>3, <2>4, <2>5, <3>0
        <4> QED BY <3>0, <4>1
      <3>2. Append(<<>>, ll[m]) = <<ll[m]>>
        OBVIOUS
      <3> QED BY <2>1, <2>5, <3>1, <3>2
    <2>6. CASE n + 1 # m
      <3>1. f[n + 1] = f[n]
        BY <2>2, <2>3, <2>6
      <3> QED BY <1>2, <2>1, <2>4, <2>6, <3>1
    <2> QED BY <2>5, <2>6
  <1>5. N \in G
    <2> HIDE DEF G
    <2>1. \A n \in 0..N : n \in G
      BY <1>2, <1>3, <1>4, UptoInduction
    <2> QED BY <1>2, <2>1
  <1> QED BY <1>1, <1>2, <1>5

-----------------------------------------------------------------------------
(* What each method of the cache does to the list and to the byte counter. *)

\* What the cache promises of a list l and a byte counter b.
Bounded(l, b) == /\ l \in Seq(Item) /\ Distinct(l)
                 /\ b = SizeOf(l) /\ b <= MaxBytes /\ Len(l) <= MaxEntries

\* These facts are the bounds that Set promises (cache.go:86-88).
LEMMA BoundsAre ==
    ASSUME Bounded(ll, bytes)
    PROVE  CacheBounds
  <1>1. DOMAIN ll = 1..Len(ll)
    BY DEF Bounded
  <1> QED BY <1>1 DEF Bounded, CacheBounds, Distinct

\* x is an item of the list, whatever its age.
Old(x) == \E i \in 1..Len(ll) : x.key = ll[i].key /\ x.entry = ll[i].entry /\ x.size = ll[i].size

\* removeElement, called by Get, Purge, PurgeRequest and Clear, keeps the bounds
\* and leaves nothing of the keys it was called for (cache.go:208-216).
LEMMA DropKeeps ==
    ASSUME Bounded(ll, bytes), NEW K, DropItems(K)
    PROVE  /\ Bounded(ll', bytes')
           /\ \A j \in 1..Len(ll') : ll'[j].key \notin K /\ Old(ll'[j])
  <1>1. ll \in Seq(Item) /\ Distinct(ll)
    BY DEF Bounded
  <1>2. PICK M, O : M = Held \ K /\ O = Keep(K)
    OBVIOUS
  <1>3. PICK L : L = Keep(M)
    OBVIOUS
  <1>4. /\ L \in Seq(Item) /\ Distinct(L)
        /\ \A j \in 1..Len(L) : \E i \in 1..Len(ll) : L[j] = ll[i] /\ ll[i].key \in M
    BY <1>1, <1>3, KeepDoes
  <1>5. O \in Seq(Item)
    BY <1>1, <1>2, KeepDoes
  <1>6. Len(O) + Len(L) = Len(ll) /\ SizeOf(O) + SizeOf(L) = SizeOf(ll)
    BY <1>1, <1>2, <1>3, KeepSplits
  <1>7. SizeOf(O) \in Nat /\ SizeOf(L) \in Nat /\ Len(O) \in Nat /\ Len(L) \in Nat
    BY <1>4, <1>5, SizeIsNat
  <1>8. ll' = L /\ bytes' = bytes - SizeOf(O)
    BY <1>2, <1>3 DEF DropItems
  <1>9. SizeOf(L) = bytes' /\ bytes' <= MaxBytes /\ Len(L) <= MaxEntries
    BY <1>6, <1>7, <1>8, CacheLimits DEF Bounded
  <1>10. Bounded(L, bytes')
    BY <1>4, <1>9 DEF Bounded
  <1> QED BY <1>2, <1>4, <1>8, <1>10 DEF Old

\* An item at the front of those of the other keys: MoveToFront in Get and
\* PushFront in Set (cache.go:77, cache.go:96-101).
LEMMA FrontKeeps ==
    ASSUME ll \in Seq(Item), Distinct(ll), NEW x \in Item
    PROVE  LET P == <<x>> \o Keep(Held \ {x.key}) IN
           /\ P \in Seq(Item) /\ Distinct(P)
           /\ SizeOf(P) = (SizeOf(ll) - SizeOf(Keep({x.key}))) + x.size
           /\ SizeOf(Keep({x.key})) \in Nat
           /\ Len(P) = (Len(ll) - Len(Keep({x.key}))) + 1
           /\ \A j \in 1..Len(P) : \/ P[j] = x
                                   \/ P[j].key # x.key /\ Old(P[j])
  <1>1. PICK M, k : M = Held \ {k} /\ k = x.key
    OBVIOUS
  <1>2. PICK L, O : L = Keep(M) /\ O = Keep({k})
    OBVIOUS
  <1>3. /\ L \in Seq(Item) /\ Distinct(L)
        /\ \A j \in 1..Len(L) : \E i \in 1..Len(ll) : L[j] = ll[i] /\ ll[i].key \in M
    BY <1>2, KeepDoes
  <1>4. O \in Seq(Item)
    BY <1>2, KeepDoes
  <1>5. Len(O) + Len(L) = Len(ll) /\ SizeOf(O) + SizeOf(L) = SizeOf(ll)
    BY <1>1, <1>2, KeepSplits
  <1>6. /\ SizeOf(O) \in Nat /\ SizeOf(L) \in Nat /\ Len(O) \in Nat /\ Len(L) \in Nat
        /\ SizeOf(ll) \in Nat /\ x.size \in Nat
    <2>1. x.size \in Nat
      BY DEF Item
    <2> QED BY <1>3, <1>4, <2>1, SizeIsNat
  <1> DEFINE P == <<x>> \o L
  <1>7. /\ P \in Seq(Item) /\ Len(P) = Len(L) + 1 /\ P[1] = x
        /\ \A j \in 1..Len(L) : P[j + 1] = L[j]
    BY <1>3
  <1>8. SizeOf(P) = x.size + SizeOf(L)
    BY <1>3, SizePushes
  <1> HIDE DEF P
  <1>9. \A j \in 1..Len(P) : j = 1 \/ (j - 1 \in 1..Len(L) /\ P[j] = L[j - 1])
    <2> SUFFICES ASSUME NEW j \in 1..Len(P), j # 1
                 PROVE  j - 1 \in 1..Len(L) /\ P[j] = L[j - 1]
      OBVIOUS
    <2>1. j - 1 \in 1..Len(L) /\ (j - 1) + 1 = j
      BY <1>6, <1>7
    <2> QED BY <1>7, <2>1
  <1>10. \A j \in 1..Len(L) : L[j].key # k /\ Old(L[j])
    BY <1>1, <1>3 DEF Old
  <1>11. Distinct(P)
    <2> SUFFICES ASSUME NEW i \in 1..Len(P), NEW j \in 1..Len(P), P[i].key = P[j].key
                 PROVE  i = j
      BY DEF Distinct
    <2>1. CASE i = 1
      BY <1>1, <1>7, <1>9, <1>10, <2>1
    <2>2. CASE j = 1
      BY <1>1, <1>7, <1>9, <1>10, <2>2
    <2>3. CASE i # 1 /\ j # 1
      <3>1. i - 1 \in 1..Len(L) /\ j - 1 \in 1..Len(L) /\ L[i - 1].key = L[j - 1].key
        BY <1>9, <2>3
      <3>2. i - 1 = j - 1
        BY <1>3, <3>1 DEF Distinct
      <3> QED BY <3>2
    <2> QED BY <2>1, <2>2, <2>3
  <1>12. \A j \in 1..Len(P) : P[j] = x \/ (P[j].key # x.key /\ Old(P[j]))
    BY <1>1, <1>7, <1>9, <1>10
  <1>13. SizeOf(P) = (SizeOf(ll) - SizeOf(O)) + x.size /\ Len(P) = (Len(ll) - Len(O)) + 1
    BY <1>5, <1>6, <1>7, <1>8
  <1> QED BY <1>1, <1>2, <1>6, <1>7, <1>11, <1>12, <1>13 DEF P

\* The item that Get finds is in the list under the key it was asked for
\* (cache.go:68-72).
LEMMA ItemFound ==
    ASSUME ll \in Seq(Item), NEW k, Cached(k)
    PROVE  \E i \in 1..Len(ll) : ItemOf(k) = ll[i] /\ ll[i].key = k
  <1>1. DOMAIN ll = 1..Len(ll)
    OBVIOUS
  <1>2. PICK c : c = CHOOSE i \in DOMAIN ll : ll[i].key = k
    OBVIOUS
  <1>3. c \in DOMAIN ll /\ ll[c].key = k
    BY <1>2 DEF Cached
  <1> QED BY <1>1, <1>2, <1>3 DEF ItemOf

\* Get keeps the bounds: it moves what it finds to the front, or removes it when
\* it is past StaleUntil (cache.go:73-77).
LEMMA GetKeeps ==
    ASSUME Bounded(ll, bytes), NEW k, Get(k)
    PROVE  Bounded(ll', bytes') /\ \A j \in 1..Len(ll') : Old(ll'[j])
  <1>0. ll \in Seq(Item) /\ Distinct(ll)
    BY DEF Bounded
  <1>1. CASE ~Cached(k)
    <2>1. ll' = ll /\ bytes' = bytes
      BY <1>1 DEF Get, cacheVars
    <2> QED BY <2>1 DEF Bounded, Old
  <1>2. CASE Cached(k) /\ ItemOf(k).life = "expired"
    <2>1. DropItems({k})
      BY <1>2 DEF Get
    <2> QED BY <2>1, DropKeeps
  <1>3. CASE Cached(k) /\ ItemOf(k).life # "expired"
    <2>1. PICK m \in 1..Len(ll) : ItemOf(k) = ll[m] /\ ll[m].key = k
      BY <1>0, <1>3, ItemFound
    <2>2. PICK x : x = ll[m] /\ x \in Item /\ x.key = k
      BY <1>0, <2>1
    <2>3. ll' = <<x>> \o Keep(Held \ {x.key}) /\ bytes' = bytes
      BY <1>3, <2>1, <2>2 DEF Get
    <2>4. Keep({x.key}) = <<x>>
      BY <1>0, <2>2, KeepOne
    <2>5. SizeOf(<<x>>) = x.size /\ Len(<<x>>) = 1 /\ x.size \in Nat
      BY <2>2, SizeOfOne DEF Item
    <2>6. PICK P : P = <<x>> \o Keep(Held \ {x.key})
      OBVIOUS
    <2>7. /\ P \in Seq(Item) /\ Distinct(P)
          /\ SizeOf(P) = (SizeOf(ll) - SizeOf(Keep({x.key}))) + x.size
          /\ Len(P) = (Len(ll) - Len(Keep({x.key}))) + 1
          /\ \A j \in 1..Len(P) : P[j] = x \/ (P[j].key # x.key /\ Old(P[j]))
      BY <1>0, <2>2, <2>6, FrontKeeps
    <2>8. SizeOf(ll) \in Nat /\ Len(ll) \in Nat
      BY <1>0, SizeIsNat
    <2>9. SizeOf(P) = SizeOf(ll) /\ Len(P) = Len(ll)
      <3>1. PICK O : O = Keep({x.key})
        OBVIOUS
      <3>2. SizeOf(O) = x.size /\ Len(O) = 1
        BY <2>4, <2>5, <3>1
      <3>3. SizeOf(P) = (SizeOf(ll) - SizeOf(O)) + x.size /\ Len(P) = (Len(ll) - Len(O)) + 1
        BY <2>7, <3>1
      <3> QED BY <2>5, <2>8, <3>2, <3>3
    <2>10. Bounded(P, bytes)
      BY <2>7, <2>9 DEF Bounded
    <2>11. Old(x)
      BY <2>2 DEF Old
    <2> QED BY <2>3, <2>6, <2>7, <2>10, <2>11
  <1> QED BY <1>1, <1>2, <1>3

\* Set keeps the bounds: it puts the new item in front and evicts from the back
\* until both hold again (cache.go:96-105).
LEMMA SetKeeps ==
    ASSUME Bounded(ll, bytes), NEW k \in Keys, NEW e \in Entry, NEW size \in Nat, Set(k, e, size)
    PROVE  /\ Bounded(ll', bytes')
           /\ \/ \A j \in 1..Len(ll') : Old(ll'[j])
              \/ /\ size <= MaxBytes
                 /\ \A j \in 1..Len(ll') :
                       \/ ll'[j] = [key |-> k, entry |-> e, life |-> "fresh", size |-> size]
                       \/ ll'[j].key # k /\ Old(ll'[j])
  <1>0. ll \in Seq(Item) /\ Distinct(ll) /\ bytes = SizeOf(ll) /\ SizeOf(ll) \in Nat
    BY SizeIsNat DEF Bounded
  <1>1. CASE size <= 0 \/ size > MaxBytes
    <2>1. ll' = ll /\ bytes' = bytes
      BY <1>1 DEF Set, cacheVars
    <2> QED BY <2>1 DEF Bounded, Old
  <1>2. CASE ~(size <= 0 \/ size > MaxBytes)
    <2>0. PushFront(k, e, size, MaxBytes) /\ size <= MaxBytes /\ MaxBytes \in Nat /\ MaxEntries \in Nat
          /\ MaxEntries # 0
      BY <1>2, CacheLimits DEF Set
    <2>1. PICK x : x = [key |-> k, entry |-> e, life |-> "fresh", size |-> size]
      OBVIOUS
    <2>2. x \in Item /\ x.key = k /\ x.size = size
      BY <2>1 DEF Item
    <2>3. PICK P : P = <<x>> \o Keep(Held \ {x.key})
      OBVIOUS
    <2>4. /\ P \in Seq(Item) /\ Distinct(P)
          /\ SizeOf(P) = (SizeOf(ll) - SizeOf(Keep({x.key}))) + x.size
          /\ \A j \in 1..Len(P) : P[j] = x \/ (P[j].key # x.key /\ Old(P[j]))
          /\ SizeOf(Keep({x.key})) \in Nat
      BY <1>0, <2>2, <2>3, FrontKeeps
    <2> DEFINE left(n) == SizeOf(P) - SizeOf(SubSeq(P, n + 1, Len(P)))
               T == {n \in 0..Len(P) : n <= MaxEntries /\ left(n) <= MaxBytes}
    <2>5. \A n \in 0..Len(P) : left(n) = SizeOf(SubSeq(P, 1, n)) /\ SizeOf(SubSeq(P, 1, n)) \in Nat
      <3> SUFFICES ASSUME NEW n \in 0..Len(P)
                   PROVE  left(n) = SizeOf(SubSeq(P, 1, n)) /\ SizeOf(SubSeq(P, 1, n)) \in Nat
        OBVIOUS
      <3>1. /\ SizeOf(SubSeq(P, 1, n)) + SizeOf(SubSeq(P, n + 1, Len(P))) = SizeOf(P)
            /\ SizeOf(P) \in Nat /\ SizeOf(SubSeq(P, 1, n)) \in Nat
        BY <2>4, SizeSplits
      <3>2. SizeOf(SubSeq(P, n + 1, Len(P))) \in Nat
        <4>1. SubSeq(P, n + 1, Len(P)) \in Seq(Item)
          BY <2>4
        <4> QED BY <4>1, SizeIsNat
      <3> QED BY <3>1, <3>2
    <2>6. /\ ll' = SubSeq(P, 1, Max(T))
          /\ bytes' = left(Max(T))
      <3>1. (bytes - SizeOf(Keep({k}))) + size = SizeOf(P)
        BY <1>0, <2>2, <2>4
      <3> QED BY <2>0, <2>1, <2>2, <2>3, <3>1 DEF PushFront
    <2>7. Len(P) \in Nat /\ T \in SUBSET (0..Len(P)) /\ T # {}
      <3>1. Len(P) \in Nat /\ 0 \in 0..Len(P)
        BY <2>4
      <3>2. SubSeq(P, 1, 0) = <<>>
        BY <2>4, SubSeqEmpty
      <3>3. left(0) = 0
        BY <2>5, <3>1, <3>2, SizeOfNone
      <3> HIDE DEF left
      <3>4. 0 \in T
        BY <2>0, <3>1, <3>3
      <3> QED BY <3>1, <3>4
    <2>8. PICK m : m = Max(T)
      OBVIOUS
    <2>9. m \in T
      <3>1. PICK N, S : N = Len(P) /\ S = T
        OBVIOUS
      <3> HIDE DEF T
      <3>2. Max(S) \in S
        BY <2>7, <3>1, MaxUpto
      <3> QED BY <2>8, <3>1, <3>2
    <2>10. m \in 0..Len(P) /\ m <= MaxEntries /\ left(m) <= MaxBytes
      BY <2>9
    <2>11. ll' = SubSeq(P, 1, m) /\ bytes' = left(m)
      BY <2>6, <2>8
    <2>12. left(m) = SizeOf(SubSeq(P, 1, m))
      BY <2>5, <2>10
    <2> HIDE DEF left, T
    <2>13. PICK L : L = SubSeq(P, 1, m)
      OBVIOUS
    <2>14. L \in Seq(Item) /\ Len(L) = m /\ \A j \in 1..m : L[j] = P[j] /\ j \in 1..Len(P)
      BY <2>4, <2>10, <2>13
    <2>15. Distinct(L)
      BY <2>4, <2>10, <2>14 DEF Distinct
    <2>16. Bounded(L, bytes')
      BY <2>10, <2>11, <2>12, <2>13, <2>14, <2>15 DEF Bounded
    <2>17. \A j \in 1..Len(L) : L[j] = x \/ (L[j].key # k /\ Old(L[j]))
      BY <2>2, <2>4, <2>14
    <2> QED BY <2>0, <2>1, <2>11, <2>13, <2>16, <2>17
  <1> QED BY <1>1, <1>2

\* Lists that agree in every size have the same size: the age of an entry does
\* not count (Entry.Size, cache.go:89).
LEMMA SizeSame ==
    ASSUME NEW s \in Seq(Item), NEW t \in Seq(Item), Len(t) = Len(s),
           \A i \in 1..Len(s) : t[i].size = s[i].size
    PROVE  SizeOf(t) = SizeOf(s)
  <1>1. PICK f : Adds(f, s)
    BY SizeExists
  <1>2. Adds(f, t)
    BY <1>1 DEF Adds
  <1>3. SizeOf(s) = f[Len(s)]
    BY <1>1, SizeIs
  <1>4. SizeOf(t) = f[Len(t)]
    BY <1>2, SizeIs
  <1> QED BY <1>3, <1>4

\* Time changes the life of an item and nothing else (cache.go:73, cache.go:79).
LEMMA AgeKeeps ==
    ASSUME Bounded(ll, bytes), Age
    PROVE  Bounded(ll', bytes') /\ \A j \in 1..Len(ll') : Old(ll'[j])
  <1>1. ll \in Seq(Item) /\ Distinct(ll) /\ DOMAIN ll = 1..Len(ll) /\ Len(ll) \in Nat
    BY DEF Bounded
  <1>2. PICK i \in 1..Len(ll), next \in {"stale", "expired"} :
            ll' = [ll EXCEPT ![i].life = next] /\ bytes' = bytes
    BY <1>1 DEF Age
  <1>3. PICK L : L = ll'
    OBVIOUS
  <1>4. PICK y : y = [ll[i] EXCEPT !.life = next]
    OBVIOUS
  <1>5. ll[i] \in Item
    BY <1>1
  <1>6. y \in Item /\ y.key = ll[i].key /\ y.entry = ll[i].entry /\ y.size = ll[i].size
    BY <1>4, <1>5 DEF Item
  <1>7. L = [ll EXCEPT ![i] = y]
    BY <1>2, <1>3, <1>4
  <1>8. L \in Seq(Item) /\ Len(L) = Len(ll)
        /\ \A j \in 1..Len(ll) : L[j] = IF j = i THEN y ELSE ll[j]
    BY <1>1, <1>6, <1>7
  <1>9. \A j \in 1..Len(ll) : L[j].key = ll[j].key /\ L[j].entry = ll[j].entry /\ L[j].size = ll[j].size
    BY <1>6, <1>8
  <1>10. Distinct(L)
    BY <1>1, <1>8, <1>9 DEF Distinct
  <1>11. SizeOf(L) = SizeOf(ll)
    BY <1>1, <1>8, <1>9, SizeSame
  <1>12. Bounded(L, bytes)
    BY <1>8, <1>10, <1>11 DEF Bounded
  <1>13. \A j \in 1..Len(L) : Old(L[j])
    BY <1>8, <1>9 DEF Old
  <1> QED BY <1>2, <1>3, <1>12, <1>13

-----------------------------------------------------------------------------
(* What the requests of a route leave in its cache.  The inductive         *)
(* invariant is PathInv: what is fine about an item is said against the    *)
(* ghosts barred and acked, and what a fill is about to store against      *)
(* stored, which only the holder of the key's lock can change.             *)

\* The types of the state of the request path.
PathTypeOK ==
    /\ stale \in [Requests -> Entry \cup {NoEntry}]
    /\ body \in [Requests -> [ver : Versions, status : Statuses \cup {"none"}]]
    /\ served \in [Requests -> [from : {"none", "HIT", "STALE", "ORIGIN", "502", "gone"},
                                ver : Versions]]
    /\ origin \in [Uris -> Versions]
    /\ barred \in [Requests -> Versions \cup {NoVersion}]
    /\ stored \in [Keys -> Versions]
    /\ acked \in [Uris -> Versions]

\* Item x beside the keys w that requests want, the versions b that are barred
\* to them and the versions a that were acknowledged: it was stored late if an
\* acknowledged version is newer, and it is nothing that a request waiting for
\* the lock saw purged.
ItemFine(x, w, b, a) ==
    /\ x.size = EntrySize[x.entry.ver]
    /\ x.entry.ver < a[UriOf[x.key]] => x.entry.late
    /\ \A r \in Requests : x.key = w[r] => x.entry.ver # b[r]

ItemsOK == \A i \in 1..Len(ll) : ItemFine(ll[i], want, barred, acked)

\* The stale candidate of a request is none of those that a purge took away,
\* and what a fill is about to store is as new as what its key had.
RequestOK(r) ==
    /\ at[r] \in {"idle", "lookup", "recheck", "return", "returned"} => stale[r] = NoEntry
    /\ at[r] \in {"idle", "lookup", "returned"} => barred[r] = NoVersion
    /\ at[r] # "return" => served[r].from # "STALE"
    /\ at[r] \in {"fetch", "response"} /\ stale[r] # NoEntry => stale[r].ver # barred[r]
    /\ served[r].from = "STALE" => served[r].ver # barred[r]
    /\ at[r] = "response" => body[r].ver <= origin[UriOf[want[r]]]
    /\ at[r] = "response" /\ Stores(r) => stored[want[r]] <= body[r].ver

\* The cache never held a version the origin did not have.
StoredOK == \A k \in Keys : stored[k] <= origin[UriOf[k]]

PathData == /\ PathTypeOK /\ Bounded(ll, bytes) /\ ItemsOK /\ StoredOK
            /\ \A r \in Requests : RequestOK(r)

PathInv == FillInv /\ PathData

\* The fields of an item of the list (cache.go:99).
LEMMA ItemFields ==
    ASSUME NEW x \in Item
    PROVE  /\ x.key \in Keys /\ x.entry \in Entry /\ x.entry.ver \in Versions
           /\ x.entry.ver # NoVersion /\ UriOf[x.key] \in Uris
  <1>1. x.key \in Keys /\ x.entry \in Entry
    BY DEF Item
  <1>2. x.entry.ver \in Versions
    BY <1>1 DEF Entry
  <1> QED BY <1>1, <1>2, Bounds, UriOfKeys DEF Versions, NoVersion

\* An item that a method of the cache leaves in the list is as fine as before,
\* when no version was acknowledged or barred meanwhile.
LEMMA ItemsStay ==
    ASSUME PathInv, Bounded(ll', bytes'), \A j \in 1..Len(ll') : Old(ll'[j]), acked' = acked,
           \A r \in Requests : \/ barred'[r] = NoVersion
                               \/ want'[r] = want[r] /\ barred'[r] = barred[r]
    PROVE  ItemsOK'
  <1> SUFFICES ASSUME NEW j \in 1..Len(ll')
               PROVE  ItemFine(ll'[j], want', barred', acked')
    BY DEF ItemsOK
  <1>1. PICK x : x = ll'[j]
    OBVIOUS
  <1>2. PICK i \in 1..Len(ll) : x.key = ll[i].key /\ x.entry = ll[i].entry /\ x.size = ll[i].size
    BY <1>1 DEF Old
  <1>3. PICK y : y = ll[i] /\ y \in Item /\ ItemFine(y, want, barred, acked)
    BY DEF PathInv, PathData, Bounded, ItemsOK
  <1>4. y.entry.ver # NoVersion
    BY <1>3, ItemFields
  <1>5. ItemFine(x, want', barred', acked')
    BY <1>2, <1>3, <1>4 DEF ItemFine
  <1> QED BY <1>1, <1>5

\* A purge of the URIs in U removes all it bars and all that the version it
\* acknowledges makes old (PurgeRequest, cache.go:142-144).
LEMMA ItemsPurged ==
    ASSUME PathInv, NEW U \in SUBSET Uris, PurgeUris(U), want' = want,
           \A u \in Uris \ U : acked'[u] = acked[u]
    PROVE  Bounded(ll', bytes') /\ ItemsOK'
  <1>1. PICK K : K = {k \in Keys : UriOf[k] \in U}
    OBVIOUS
  <1>2. DropItems(K)
    BY <1>1 DEF PurgeUris
  <1>3. Bounded(ll', bytes') /\ \A j \in 1..Len(ll') : ll'[j].key \notin K /\ Old(ll'[j])
    BY <1>2, DropKeeps DEF PathInv, PathData
  <1> SUFFICES ASSUME NEW j \in 1..Len(ll')
               PROVE  ItemFine(ll'[j], want', barred', acked')
    BY <1>3 DEF ItemsOK
  <1>4. PICK x : x = ll'[j] /\ x.key \notin K
    BY <1>3
  <1>5. PICK i \in 1..Len(ll) : x.key = ll[i].key /\ x.entry = ll[i].entry /\ x.size = ll[i].size
    BY <1>3, <1>4 DEF Old
  <1>6. PICK y : y = ll[i] /\ y \in Item /\ ItemFine(y, want, barred, acked)
    BY DEF PathInv, PathData, Bounded, ItemsOK
  <1>7. y.key \in Keys /\ UriOf[y.key] \in Uris /\ UriOf[y.key] \notin U
    BY <1>1, <1>4, <1>5, <1>6, ItemFields
  <1>8. \A r \in Requests : want[r] = y.key => barred'[r] = barred[r]
    BY <1>7 DEF PurgeUris, Bar, UriWanted
  <1>9. ItemFine(x, want', barred', acked')
    BY <1>5, <1>6, <1>7, <1>8 DEF ItemFine
  <1> QED BY <1>4, <1>9

\* What a request keeps while others run: its own fields, a resource that only
\* gets newer, and a key that nobody else fills meanwhile.
Left(s) ==
    /\ at'[s] = at[s] /\ kind'[s] = kind[s] /\ want'[s] = want[s]
    /\ stale'[s] = stale[s] /\ body'[s] = body[s] /\ served'[s] = served[s]
    /\ \/ barred'[s] = barred[s] \/ barred'[s] = NoVersion
       \/ at[s] \in {"lock", "waiting"}
    /\ at[s] = "response" => /\ origin[UriOf[want[s]]] <= origin'[UriOf[want[s]]]
                             /\ Stores(s) => stored'[want[s]] = stored[want[s]]

\* A request that a step does not touch stays in order: the other goroutines of
\* handleRoute, the purges and the clock do not disturb it.
LEMMA LeftOK ==
    ASSUME PathInv, PathTypeOK', NEW s \in Requests, Left(s)
    PROVE  RequestOK(s)'
  <1>1. /\ RequestOK(s) /\ at[s] \in Stages
        /\ at[s] = "response" => want[s] \in Keys
    BY DEF PathInv, PathData, FillInv, ControlTypeOK
  <1>2. at[s] = "response" => /\ body[s].ver \in Int /\ origin[UriOf[want[s]]] \in Int
                              /\ origin'[UriOf[want[s]]] \in Int
    <2> SUFFICES ASSUME at[s] = "response"
                 PROVE  /\ body[s].ver \in Int /\ origin[UriOf[want[s]]] \in Int
                        /\ origin'[UriOf[want[s]]] \in Int
      OBVIOUS
    <2>1. UriOf[want[s]] \in Uris
      BY <1>1, UriOfKeys
    <2>2. body[s].ver \in Versions /\ origin[UriOf[want[s]]] \in Versions
          /\ origin'[UriOf[want[s]]] \in Versions
      BY <2>1 DEF PathInv, PathData, PathTypeOK
    <2> QED BY <2>2, Bounds DEF Versions
  <1>3. stale[s] # NoEntry => stale[s].ver # NoVersion
    <2>1. stale[s] # NoEntry => stale[s].ver \in Versions
      BY DEF PathInv, PathData, PathTypeOK, Entry
    <2> QED BY <2>1, Bounds DEF Versions, NoVersion
  <1>4. served[s].ver # NoVersion
    <2>1. served[s].ver \in Versions
      BY DEF PathInv, PathData, PathTypeOK
    <2> QED BY <2>1, Bounds DEF Versions, NoVersion
  <1> QED BY <1>1, <1>2, <1>3, <1>4 DEF RequestOK, Left, Stores

\* A step of handleRoute is sound when it keeps the types, the cache and its own
\* request in order and leaves the other requests alone.
LEMMA RequestStep ==
    ASSUME PathInv, NEW r \in Requests, PathTypeOK', Bounded(ll', bytes'), ItemsOK', StoredOK',
           RequestOK(r)', \A s \in Requests \ {r} : Left(s)
    PROVE  PathData'
  <1>1. \A s \in Requests : RequestOK(s)'
    BY LeftOK
  <1> QED BY <1>1 DEF PathData

\* A step of handleRoute that leaves the cache and the versions alone, while a
\* resource may change at the origin and what was barred to r be forgotten.
LEMMA GrowStep ==
    ASSUME PathInv, NEW r \in Requests, PathTypeOK', RequestOK(r)',
           UNCHANGED <<ll, bytes, acked, stored>>,
           \A u \in Uris : origin[u] <= origin'[u],
           \A s \in Requests \ {r} :
              /\ at'[s] = at[s] /\ kind'[s] = kind[s] /\ want'[s] = want[s]
              /\ stale'[s] = stale[s] /\ body'[s] = body[s] /\ served'[s] = served[s]
              /\ barred'[s] = barred[s],
           barred'[r] = NoVersion \/ (want'[r] = want[r] /\ barred'[r] = barred[r])
    PROVE  PathData'
  <1>1. Bounded(ll', bytes') /\ \A j \in 1..Len(ll') : Old(ll'[j])
    BY DEF PathInv, PathData, Bounded, Old
  <1>2. ItemsOK'
    BY <1>1, ItemsStay
  <1>3. StoredOK'
    <2> SUFFICES ASSUME NEW k \in Keys PROVE stored'[k] <= origin'[UriOf[k]]
      BY DEF StoredOK
    <2>1. UriOf[k] \in Uris
      BY UriOfKeys
    <2>2. stored[k] \in Versions /\ origin[UriOf[k]] \in Versions /\ origin'[UriOf[k]] \in Versions
          /\ stored[k] <= origin[UriOf[k]]
      BY <2>1 DEF PathInv, PathData, PathTypeOK, StoredOK
    <2> QED BY <2>1, <2>2, Bounds DEF Versions
  <1>4. \A s \in Requests \ {r} : Left(s)
    <2> SUFFICES ASSUME NEW s \in Requests \ {r}, at[s] = "response"
                 PROVE  origin[UriOf[want[s]]] <= origin'[UriOf[want[s]]]
      BY DEF Left
    <2>1. want[s] \in Keys
      BY DEF PathInv, FillInv, ControlTypeOK
    <2> QED BY <2>1, UriOfKeys
  <1> QED BY <1>1, <1>2, <1>3, <1>4, RequestStep

\* The same when nothing changes at the origin.
LEMMA QuietStep ==
    ASSUME PathInv, NEW r \in Requests, PathTypeOK', RequestOK(r)',
           UNCHANGED <<ll, bytes, acked, stored, origin>>,
           \A s \in Requests \ {r} :
              /\ at'[s] = at[s] /\ kind'[s] = kind[s] /\ want'[s] = want[s]
              /\ stale'[s] = stale[s] /\ body'[s] = body[s] /\ served'[s] = served[s]
              /\ barred'[s] = barred[s],
           barred'[r] = NoVersion \/ (want'[r] = want[r] /\ barred'[r] = barred[r])
    PROVE  PathData'
  <1>1. \A u \in Uris : origin[u] <= origin'[u]
    <2> SUFFICES ASSUME NEW u \in Uris PROVE origin[u] <= origin'[u]
      OBVIOUS
    <2>1. origin[u] \in Versions
      BY DEF PathInv, PathData, PathTypeOK
    <2> QED BY <2>1, Bounds DEF Versions
  <1> QED BY <1>1, GrowStep

\* The requests that a lookup does not touch (handler.go:390, handler.go:413).
LEMMA OthersKept ==
    ASSUME PathInv, UNCHANGED <<kind, want, origin, barred, stored>>, NEW r \in Requests,
           \A s \in Requests \ {r} : /\ at'[s] = at[s] /\ stale'[s] = stale[s]
                                      /\ body'[s] = body[s] /\ served'[s] = served[s]
    PROVE  \A s \in Requests \ {r} : Left(s)
  <1> SUFFICES ASSUME NEW s \in Requests \ {r}, at[s] = "response"
               PROVE  origin[UriOf[want[s]]] <= origin'[UriOf[want[s]]]
    BY DEF Left
  <1>1. want[s] \in Keys
    BY DEF PathInv, FillInv, ControlTypeOK
  <1>2. origin[UriOf[want[s]]] \in Versions
    BY <1>1, UriOfKeys DEF PathInv, PathData, PathTypeOK
  <1> QED BY <1>2, Bounds DEF Versions

-----------------------------------------------------------------------------
(* One lemma for each step.                                                *)

\* A request that arrives has nothing barred to it and no stale candidate
\* (handler.go:381-388).
LEMMA ArriveData ==
    ASSUME PathInv, NEW r \in Requests, NEW kd \in Kinds, NEW k \in Keys, Arrive(r, kd, k)
    PROVE  PathData'
  <1> USE DEF Arrive, Go, cacheVars, ghosts
  <1>1. PathTypeOK'
    BY DEF PathInv, PathData, PathTypeOK
  <1>2. RequestOK(r) /\ at[r] = "idle" /\ at \in [Requests -> Stages]
    BY DEF PathInv, PathData, FillInv, ControlTypeOK
  <1>3. RequestOK(r)'
    BY <1>2 DEF RequestOK, Kinds
  <1>4. barred[r] = NoVersion
    BY <1>2 DEF RequestOK
  <1> QED BY <1>1, <1>3, <1>4, QuietStep DEF PathInv, FillInv, ControlTypeOK

\* Asking for the lock changes nothing else (handler.go:404).
LEMMA TakeLockData ==
    ASSUME PathInv, NEW r \in Requests, NEW o \in Objects, TakeLock(r, o)
    PROVE  PathData'
  <1> USE DEF TakeLock, Go, cacheVars, ghosts
  <1>1. PathTypeOK'
    BY DEF PathInv, PathData, PathTypeOK
  <1>2. RequestOK(r) /\ at[r] = "lock" /\ at \in [Requests -> Stages]
    BY DEF PathInv, PathData, FillInv, ControlTypeOK
  <1>3. RequestOK(r)'
    BY <1>2 DEF RequestOK
  <1> QED BY <1>1, <1>2, <1>3, QuietStep

\* The holder of the lock forgets the candidate it had before (handler.go:410).
LEMMA LockTakenData ==
    ASSUME PathInv, NEW r \in Requests, LockTaken(r)
    PROVE  PathData'
  <1> USE DEF LockTaken, Go, cacheVars, ghosts
  <1>1. PathTypeOK'
    BY DEF PathInv, PathData, PathTypeOK
  <1>2. RequestOK(r) /\ at[r] = "waiting" /\ at \in [Requests -> Stages]
        /\ stale \in [Requests -> Entry \cup {NoEntry}]
    BY DEF PathInv, PathData, PathTypeOK, FillInv, ControlTypeOK
  <1>3. RequestOK(r)'
    BY <1>2 DEF RequestOK
  <1> QED BY <1>1, <1>2, <1>3, QuietStep

\* The handler returns and the request is forgotten (handler.go:405).
LEMMA ReturnData ==
    ASSUME PathInv, NEW r \in Requests, Return(r)
    PROVE  PathData'
  <1> USE DEF Return, Go, cacheVars
  <1>1. PathTypeOK'
    <2>1. 0 \in Versions
      BY Bounds DEF Versions
    <2> QED BY <2>1 DEF PathInv, PathData, PathTypeOK, Nothing
  <1>2. /\ RequestOK(r) /\ at[r] = "return" /\ at \in [Requests -> Stages]
        /\ kind \in [Requests -> Kinds \cup {"none"}] /\ want \in [Requests -> Keys \cup {NoKey}]
        /\ served \in [Requests -> [from : {"none", "HIT", "STALE", "ORIGIN", "502", "gone"},
                                    ver : Versions]]
        /\ barred \in [Requests -> Versions \cup {NoVersion}]
    BY DEF PathInv, PathData, PathTypeOK, FillInv, ControlTypeOK
  <1>3. RequestOK(r)'
    BY <1>2 DEF RequestOK, Nothing
  <1>4. at'[r] \in {"idle", "returned"} /\ \A s \in Requests \ {r} : at'[s] = at[s]
    BY <1>2
  <1> QED BY <1>1, <1>2, <1>3, <1>4, QuietStep

\* The second half of the unlock touches the keyed lock only (keylock.go).
LEMMA FinishData ==
    ASSUME PathInv, NEW r \in Requests, Finish(r)
    PROVE  PathData'
  <1> USE DEF Finish, Go, cacheVars, ghosts
  <1>1. PathTypeOK'
    BY DEF PathInv, PathData, PathTypeOK
  <1>2. RequestOK(r) /\ at[r] = "returned" /\ at \in [Requests -> Stages]
    BY DEF PathInv, PathData, FillInv, ControlTypeOK
  <1>3. RequestOK(r)'
    BY <1>2 DEF RequestOK
  <1> QED BY <1>1, <1>2, <1>3, QuietStep

\* Request r is answered and in order, and nobody else is touched.
Answered(r) ==
    /\ RequestOK(r)'
    /\ stale' \in [Requests -> Entry \cup {NoEntry}]
    /\ body' \in [Requests -> [ver : Versions, status : Statuses \cup {"none"}]]
    /\ served' \in [Requests -> [from : {"none", "HIT", "STALE", "ORIGIN", "502", "gone"},
                                 ver : Versions]]
    /\ \A s \in Requests \ {r} : /\ at'[s] = at[s] /\ stale'[s] = stale[s]
                                 /\ body'[s] = body[s] /\ served'[s] = served[s]

USE DEF Answered

\* A request that leaves is answered, with stale content only when it was not
\* barred (handler.go:627-632, handler.go:668-673).
LEMMA LeaveOK ==
    ASSUME PathInv, NEW r \in Requests, NEW ver \in Versions, at[r] \notin {"return", "returned"},
           NEW from \in {"HIT", "STALE", "ORIGIN", "502", "gone"}, Leave(r, from, ver),
           barred' \in [Requests -> Versions \cup {NoVersion}],
           from = "STALE" => barred'[r] # ver
    PROVE  Answered(r)
  <1>1. PathTypeOK /\ at \in [Requests -> Stages]
    BY DEF PathInv, PathData, FillInv, ControlTypeOK
  <1>2. 0 \in Versions
    BY Bounds DEF Versions
  <1>3. /\ stale' \in [Requests -> Entry \cup {NoEntry}] /\ stale'[r] = NoEntry
        /\ body' \in [Requests -> [ver : Versions, status : Statuses \cup {"none"}]]
        /\ at'[r] = "return"
    BY <1>1, <1>2 DEF Leave, Go, PathTypeOK, NoBody
  <1>4. /\ served' \in [Requests -> [from : {"none", "HIT", "STALE", "ORIGIN", "502", "gone"},
                                     ver : Versions]]
        /\ served'[r].from = from /\ served'[r].ver = ver
    <2>1. served[r] \in [from : {"none", "HIT", "STALE", "ORIGIN", "502", "gone"}, ver : Versions]
      BY <1>1 DEF PathTypeOK
    <2> QED BY <1>1, <2>1 DEF Leave, PathTypeOK
  <1>5. RequestOK(r)'
    BY <1>3, <1>4 DEF RequestOK
  <1> QED BY <1>1, <1>3, <1>4, <1>5 DEF Leave, Go, PathTypeOK

\* A cancelled request serves and stores nothing (handler.go:615-625).
LEMMA ClientGoneData ==
    ASSUME PathInv, NEW r \in Requests, ClientGone(r)
    PROVE  PathData'
  <1>1. 0 \in Versions
    BY Bounds DEF Versions
  <1>2. /\ Leave(r, "gone", 0) /\ UNCHANGED <<ll, bytes, kind, want, origin, barred, stored, acked>>
        /\ at[r] \in {"fetch", "response"}
    BY DEF ClientGone, cacheVars, ghosts
  <1>3. PathTypeOK
    BY DEF PathInv, PathData
  <1>4. barred' \in [Requests -> Versions \cup {NoVersion}]
    BY <1>2, <1>3 DEF PathTypeOK
  <1>5. Answered(r)
    BY <1>1, <1>2, <1>4, LeaveOK
  <1>6. PathTypeOK'
    BY <1>2, <1>3, <1>5 DEF PathTypeOK
  <1> QED BY <1>2, <1>5, <1>6, QuietStep

\* A stale candidate is an entry of the cache (handler.go:400, handler.go:423).
LEMMA StaleVersion ==
    ASSUME PathInv, NEW r \in Requests, stale[r] # NoEntry
    PROVE  stale[r].ver \in Versions
  BY DEF PathInv, PathData, PathTypeOK, Entry

\* Stale content that hides a 502, 503 or 504 was not purged before
\* (handler.go:668-674).
LEMMA HideFailureData ==
    ASSUME PathInv, NEW r \in Requests, HideFailure(r)
    PROVE  PathData'
  <1>1. PICK v : v = stale[r].ver
    OBVIOUS
  <1>2. /\ Leave(r, "STALE", v) /\ UNCHANGED <<ll, bytes, kind, want, origin, barred, stored, acked>>
        /\ at[r] = "response" /\ stale[r] # NoEntry
    BY <1>1 DEF HideFailure, ServeStale, cacheVars, ghosts
  <1>3. PathTypeOK /\ RequestOK(r)
    BY DEF PathInv, PathData
  <1>4. barred' \in [Requests -> Versions \cup {NoVersion}] /\ v \in Versions /\ barred'[r] # v
    BY <1>1, <1>2, <1>3, StaleVersion DEF PathTypeOK, RequestOK
  <1>5. Answered(r)
    BY <1>2, <1>4, LeaveOK
  <1>6. PathTypeOK'
    BY <1>2, <1>3, <1>5 DEF PathTypeOK
  <1> QED BY <1>2, <1>5, <1>6, QuietStep

\* The resources of the origin only get newer.
LEMMA MutatesGrows ==
    ASSUME PathInv, NEW r \in Requests, NEW done \in BOOLEAN, at[r] = "fetch", Mutates(r, done)
    PROVE  origin' \in [Uris -> Versions] /\ \A u \in Uris : origin[u] <= origin'[u]
  <1>1. want[r] \in Keys /\ origin \in [Uris -> Versions]
    BY DEF PathInv, PathData, PathTypeOK, FillInv, ControlTypeOK
  <1>2. UriWanted(r) \in Uris /\ \A u \in Uris : origin[u] \in Nat /\ origin[u] <= MaxVersion
    BY <1>1, UriOfKeys, Bounds DEF UriWanted, Versions
  <1>3. CASE origin' = origin
    BY <1>1, <1>2, <1>3
  <1>4. CASE /\ origin[UriWanted(r)] < MaxVersion
             /\ origin' = [origin EXCEPT ![UriWanted(r)] = @ + 1]
    <2>1. PICK u \in Uris : u = UriWanted(r)
      BY <1>2
    <2>2. origin[u] + 1 \in Versions
      BY <1>2, <1>4, <2>1, Bounds DEF Versions
    <2> QED BY <1>1, <1>2, <1>4, <2>1, <2>2
  <1> QED BY <1>3, <1>4 DEF Mutates

\* What the origin answers is as new as what was ever stored for the key
\* (handler.go:448-572).
LEMMA FetchAnsweredData ==
    ASSUME PathInv, NEW r \in Requests, NEW status \in Statuses, FetchAnswered(r, status)
    PROVE  PathData'
  <1>1. PICK done \in BOOLEAN : done = (kind[r] = "unsafe" /\ status = "ok")
    OBVIOUS
  <1>2. /\ at[r] = "fetch" /\ Mutates(r, done) /\ Go(r, "response")
        /\ body' = [body EXCEPT ![r] = [ver |-> origin'[UriOf[want[r]]], status |-> status]]
        /\ UNCHANGED <<ll, bytes, kind, want, stale, served, barred, stored, acked>>
    BY <1>1 DEF FetchAnswered, UriWanted, cacheVars, ghosts
  <1>3. origin' \in [Uris -> Versions] /\ \A u \in Uris : origin[u] <= origin'[u]
    BY <1>2, MutatesGrows
  <1>4. PathTypeOK /\ RequestOK(r) /\ at \in [Requests -> Stages] /\ want[r] \in Keys /\ StoredOK
    BY <1>2 DEF PathInv, PathData, FillInv, ControlTypeOK
  <1>5. PICK v : v = origin'[UriOf[want[r]]] /\ v \in Versions
    BY <1>3, <1>4, UriOfKeys
  <1>6. PathTypeOK'
    BY <1>2, <1>3, <1>4, <1>5 DEF PathTypeOK
  <1>7. at'[r] = "response" /\ body'[r].ver = v /\ body'[r].ver <= origin'[UriOf[want[r]]]
        /\ stored[want[r]] <= v
    <2>1. at'[r] = "response" /\ body'[r].ver = v
      BY <1>2, <1>4, <1>5 DEF Go, PathTypeOK
    <2>2. UriOf[want[r]] \in Uris /\ stored[want[r]] \in Versions /\ stored[want[r]] <= origin[UriOf[want[r]]]
          /\ origin[UriOf[want[r]]] \in Versions
      BY <1>4, UriOfKeys DEF PathTypeOK, StoredOK
    <2>3. origin[UriOf[want[r]]] <= v
      BY <1>3, <1>5, <2>2
    <2> QED BY <1>5, <2>1, <2>2, <2>3, Bounds DEF Versions
  <1>8. RequestOK(r)'
    BY <1>2, <1>4, <1>7 DEF RequestOK, Stores
  <1> QED BY <1>2, <1>3, <1>4, <1>6, <1>8, GrowStep DEF Go, PathTypeOK

\* Stale content that hides an error was not purged before (handler.go:626-648).
LEMMA FetchFailedData ==
    ASSUME PathInv, NEW r \in Requests, NEW done \in BOOLEAN, FetchFailed(r, done)
    PROVE  PathData'
  <1>1. /\ at[r] = "fetch" /\ Mutates(r, done)
        /\ UNCHANGED <<ll, bytes, kind, want, barred, stored, acked>>
    BY DEF FetchFailed, cacheVars, ghosts
  <1>2. origin' \in [Uris -> Versions] /\ \A u \in Uris : origin[u] <= origin'[u]
    BY <1>1, MutatesGrows
  <1>3. PathTypeOK /\ RequestOK(r) /\ 0 \in Versions
    BY Bounds DEF PathInv, PathData, Versions
  <1>4. PICK from \in {"HIT", "STALE", "ORIGIN", "502", "gone"}, v \in Versions :
            Leave(r, from, v) /\ (from = "STALE" => barred'[r] # v)
    <2>1. CASE stale[r] # NoEntry
      <3>1. Leave(r, "STALE", stale[r].ver) /\ stale[r].ver \in Versions
        BY <2>1, StaleVersion DEF FetchFailed, ServeStale
      <3>2. stale[r].ver # barred'[r]
        BY <1>1, <1>3, <2>1 DEF RequestOK
      <3> QED BY <3>1, <3>2
    <2>2. CASE stale[r] = NoEntry
      BY <1>3, <2>2 DEF FetchFailed
    <2> QED BY <2>1, <2>2
  <1>5. barred' \in [Requests -> Versions \cup {NoVersion}]
    BY <1>1, <1>3 DEF PathTypeOK
  <1>6. Answered(r)
    BY <1>1, <1>4, <1>5, LeaveOK
  <1>7. PathTypeOK'
    BY <1>1, <1>2, <1>3, <1>6 DEF PathTypeOK
  <1> QED BY <1>1, <1>2, <1>6, <1>7, GrowStep

-----------------------------------------------------------------------------
\* A lookup serves a fresh item, or keeps a stale one that no purge took away
\* (handler.go:390-401, handler.go:413-424).
LEMMA ConsultData ==
    ASSUME PathInv, NEW r \in Requests, NEW allowed \in BOOLEAN, NEW next \in {"lock", "fetch"},
           at[r] \in {"lookup", "recheck"}, Consult(r, allowed, next)
    PROVE  PathData'
  <1>1. /\ Get(want[r]) /\ UNCHANGED <<kind, want, origin, barred, stored, acked>>
        /\ Bounded(ll, bytes) /\ PathTypeOK /\ RequestOK(r) /\ at \in [Requests -> Stages]
    BY DEF Consult, ghosts, PathInv, PathData, FillInv, ControlTypeOK
  <1>2. Bounded(ll', bytes') /\ \A j \in 1..Len(ll') : Old(ll'[j])
    BY <1>1, GetKeeps
  <1>3. ItemsOK'
    BY <1>1, <1>2, ItemsStay
  <1>4. StoredOK'
    BY <1>1 DEF PathInv, PathData, StoredOK
  <1>5. ASSUME Found(want[r]) # "none"
        PROVE  /\ ItemOf(want[r]).entry \in Entry /\ ItemOf(want[r]).entry.ver \in Versions
               /\ ItemOf(want[r]).entry.ver # barred[r]
    <2>1. Cached(want[r]) /\ ll \in Seq(Item)
      BY <1>1, <1>5 DEF Found, Bounded
    <2>2. PICK i \in 1..Len(ll) : ItemOf(want[r]) = ll[i] /\ ll[i].key = want[r]
      BY <2>1, ItemFound
    <2>3. PICK x : x = ll[i] /\ x \in Item /\ ItemFine(x, want, barred, acked)
      BY <2>1 DEF PathInv, PathData, ItemsOK
    <2>4. x.entry.ver # barred[r] /\ x.entry \in Entry /\ x.entry.ver \in Versions
      BY <2>2, <2>3, ItemFields DEF ItemFine
    <2> QED BY <2>2, <2>3, <2>4
  <1>6. CASE Found(want[r]) = "fresh" /\ allowed
    <2>1. PICK v \in Versions : Leave(r, "HIT", v)
      BY <1>5, <1>6 DEF Consult
    <2>2. barred' \in [Requests -> Versions \cup {NoVersion}]
      BY <1>1 DEF PathTypeOK
    <2>3. Answered(r)
      BY <2>1, <2>2, LeaveOK
    <2>4. PathTypeOK'
      BY <1>1, <2>3 DEF PathTypeOK
    <2>5. \A s \in Requests \ {r} : Left(s)
      BY <1>1, <2>3, OthersKept
    <2> QED BY <1>2, <1>3, <1>4, <2>3, <2>4, <2>5, RequestStep
  <1>7. CASE ~(Found(want[r]) = "fresh" /\ allowed)
    <2>1. /\ at' = [at EXCEPT ![r] = next] /\ body' = body /\ served' = served
          /\ \/ stale' = stale
             \/ Found(want[r]) # "none" /\ stale' = [stale EXCEPT ![r] = ItemOf(want[r]).entry]
      BY <1>7 DEF Consult, Go
    <2>2. /\ stale' \in [Requests -> Entry \cup {NoEntry}]
          /\ stale'[r] # NoEntry => stale'[r].ver # barred[r]
          /\ \A s \in Requests \ {r} : stale'[s] = stale[s]
      <3>1. stale[r] = NoEntry /\ stale \in [Requests -> Entry \cup {NoEntry}]
        BY <1>1 DEF RequestOK, PathTypeOK
      <3> QED BY <1>5, <2>1, <3>1
    <2>3. PathTypeOK'
      BY <1>1, <2>1, <2>2 DEF PathTypeOK
    <2>4. RequestOK(r)'
      BY <1>1, <2>1, <2>2 DEF RequestOK
    <2>5. \A s \in Requests \ {r} : /\ at'[s] = at[s] /\ stale'[s] = stale[s]
                                    /\ body'[s] = body[s] /\ served'[s] = served[s]
      BY <1>1, <2>1, <2>2
    <2>6. \A s \in Requests \ {r} : Left(s)
      BY <1>1, <2>5, OthersKept
    <2> QED BY <1>2, <1>3, <1>4, <2>3, <2>4, <2>6, RequestStep
  <1> QED BY <1>6, <1>7

\* The lookup before the lock (handler.go:389-402).
LEMMA FirstLookupData ==
    ASSUME PathInv, NEW r \in Requests, NEW allowed \in BOOLEAN, FirstLookup(r, allowed)
    PROVE  PathData'
  BY ConsultData DEF FirstLookup

\* The lookup under the lock (handler.go:411-425).
LEMMA SecondLookupData ==
    ASSUME PathInv, NEW r \in Requests, NEW allowed \in BOOLEAN, SecondLookup(r, allowed)
    PROVE  PathData'
  <1>1. CASE Lookups(r)
    BY <1>1, ConsultData DEF SecondLookup
  <1>2. CASE ~Lookups(r)
    <2>1. /\ at[r] = "recheck" /\ at' = [at EXCEPT ![r] = "fetch"]
          /\ UNCHANGED <<ll, bytes, kind, want, stale, body, served, origin, barred, stored, acked>>
      BY <1>2 DEF SecondLookup, Go, cacheVars, ghosts
    <2>2. PathTypeOK'
      BY <2>1 DEF PathInv, PathData, PathTypeOK
    <2>3. RequestOK(r) /\ at \in [Requests -> Stages]
      BY DEF PathInv, PathData, FillInv, ControlTypeOK
    <2>4. RequestOK(r)'
      BY <2>1, <2>3 DEF RequestOK
    <2> QED BY <2>1, <2>2, <2>3, <2>4, QuietStep
  <1> QED BY <1>1, <1>2

-----------------------------------------------------------------------------
\* A purge bars to the requests that wait for the lock what they found before.
LEMMA PurgeBars ==
    ASSUME PathInv, NEW U, PurgeUris(U)
    PROVE  /\ barred' \in [Requests -> Versions \cup {NoVersion}]
           /\ \A s \in Requests : barred'[s] = barred[s] \/ at[s] \in {"lock", "waiting"}
  <1>1. barred \in [Requests -> Versions \cup {NoVersion}]
    BY DEF PathInv, PathData, PathTypeOK
  <1>2. \A s \in Requests : stale[s] # NoEntry => stale[s].ver \in Versions
    BY StaleVersion
  <1> QED BY <1>1, <1>2 DEF PurgeUris, Bar

\* A purge of the admin API, under no fill lock (Handler.PurgeCache).
LEMMA PurgeCacheData ==
    ASSUME PathInv, NEW U \in SUBSET Uris, PurgeCache(U)
    PROVE  PathData'
  <1>1. PurgeUris(U) /\ UNCHANGED <<at, kind, want, stale, body, served, origin, stored, acked>>
    BY DEF PurgeCache, reqVars
  <1>2. Bounded(ll', bytes') /\ ItemsOK'
    BY <1>1, ItemsPurged
  <1>3. /\ barred' \in [Requests -> Versions \cup {NoVersion}]
        /\ \A s \in Requests : barred'[s] = barred[s] \/ at[s] \in {"lock", "waiting"}
    BY <1>1, PurgeBars
  <1>4. PathTypeOK'
    BY <1>1, <1>3 DEF PathInv, PathData, PathTypeOK
  <1>5. StoredOK'
    BY <1>1 DEF PathInv, PathData, StoredOK
  <1>6. ASSUME NEW s \in Requests PROVE Left(s)
    <2> SUFFICES ASSUME at[s] = "response"
                 PROVE  origin[UriOf[want[s]]] <= origin'[UriOf[want[s]]]
      BY <1>1, <1>3 DEF Left
    <2>1. want[s] \in Keys
      BY DEF PathInv, FillInv, ControlTypeOK
    <2>2. origin[UriOf[want[s]]] \in Versions
      BY <2>1, UriOfKeys DEF PathInv, PathData, PathTypeOK
    <2> QED BY <1>1, <2>2, Bounds DEF Versions
  <1>7. \A s \in Requests : RequestOK(s)'
    BY <1>4, <1>6, LeftOK
  <1> QED BY <1>2, <1>4, <1>5, <1>7 DEF PathData

\* The clock (cache.go:73, cache.go:79).
LEMMA TimePassesData ==
    ASSUME PathInv, TimePasses
    PROVE  PathData'
  <1>1. Age /\ UNCHANGED <<at, kind, want, stale, body, served, origin, barred, stored, acked>>
    BY DEF TimePasses, reqVars, ghosts
  <1>2. Bounded(ll', bytes') /\ \A j \in 1..Len(ll') : Old(ll'[j])
    BY <1>1, AgeKeeps DEF PathInv, PathData
  <1>3. ItemsOK'
    BY <1>1, <1>2, ItemsStay
  <1>4. PathTypeOK'
    BY <1>1 DEF PathInv, PathData, PathTypeOK
  <1>5. StoredOK'
    BY <1>1 DEF PathInv, PathData, StoredOK
  <1>6. \A s \in Requests : RequestOK(s)'
    BY <1>1 DEF PathInv, PathData, RequestOK, Stores
  <1> QED BY <1>2, <1>3, <1>4, <1>5, <1>6 DEF PathData

\* The newer of two versions of a resource is a version of it.
LEMMA NewerVersion ==
    ASSUME NEW a \in Versions, NEW b \in Versions
    PROVE  Max({a, b}) \in Versions
  <1>1. PICK T : T = {a, b}
    OBVIOUS
  <1>2. T \in SUBSET (0..MaxVersion) /\ T # {} /\ MaxVersion \in Nat
    BY <1>1, Bounds DEF Versions
  <1>3. Max(T) \in T
    BY <1>2, MaxUpto
  <1> QED BY <1>1, <1>3

\* The answer to an unsafe request leaves nothing in the cache that it makes old
\* (handler.go:680).
LEMMA AnswerUnsafeData ==
    ASSUME PathInv, NEW r \in Requests, AnswerUnsafe(r)
    PROVE  PathData'
  <1>1. PICK v : v = body[r].ver /\ v \in Versions
    BY DEF PathInv, PathData, PathTypeOK
  <1>2. /\ Leave(r, "ORIGIN", v) /\ at[r] = "response" /\ UNCHANGED <<kind, want, origin, stored>>
        /\ PathTypeOK /\ want[r] \in Keys /\ UriWanted(r) \in Uris
    BY <1>1, UriOfKeys DEF AnswerUnsafe, Passes, PathInv, PathData, FillInv, ControlTypeOK, UriWanted
  <1>3. /\ Bounded(ll', bytes') /\ ItemsOK' /\ acked' \in [Uris -> Versions]
        /\ barred' \in [Requests -> Versions \cup {NoVersion}]
        /\ \A s \in Requests : barred'[s] = barred[s] \/ at[s] \in {"lock", "waiting"}
    <2>1. CASE body[r].status = "ok"
      <3>1. PICK u \in Uris : u = UriWanted(r)
        BY <1>2
      <3>2. PurgeUris({u}) /\ acked' = [acked EXCEPT ![u] = Max({acked[u], v})]
        BY <1>1, <2>1, <3>1 DEF AnswerUnsafe
      <3>3. acked \in [Uris -> Versions] /\ acked[u] \in Versions
        BY <1>2, <3>1 DEF PathTypeOK
      <3>4. Max({acked[u], v}) \in Versions
        BY <1>1, <3>3, NewerVersion
      <3>5. acked' \in [Uris -> Versions] /\ \A w \in Uris \ {u} : acked'[w] = acked[w]
        BY <3>2, <3>3, <3>4
      <3>6. Bounded(ll', bytes') /\ ItemsOK'
        <4>1. {u} \in SUBSET Uris
          OBVIOUS
        <4> QED BY <1>2, <3>2, <3>5, <4>1, ItemsPurged
      <3> QED BY <3>2, <3>5, <3>6, PurgeBars
    <2>2. CASE body[r].status # "ok"
      <3>1. UNCHANGED <<ll, bytes, barred, acked>>
        BY <2>2 DEF AnswerUnsafe, cacheVars
      <3>2. Bounded(ll', bytes') /\ \A j \in 1..Len(ll') : Old(ll'[j])
        BY <3>1 DEF PathInv, PathData, Bounded, Old
      <3>3. ItemsOK'
        BY <1>2, <3>1, <3>2, ItemsStay
      <3> QED BY <1>2, <3>1, <3>2, <3>3 DEF PathTypeOK
    <2> QED BY <2>1, <2>2
  <1>4. Answered(r)
    BY <1>1, <1>2, <1>3, LeaveOK
  <1>5. PathTypeOK'
    BY <1>2, <1>3, <1>4 DEF PathTypeOK
  <1>6. StoredOK'
    BY <1>2 DEF PathInv, PathData, StoredOK
  <1>7. \A s \in Requests \ {r} : Left(s)
    <2> SUFFICES ASSUME NEW s \in Requests \ {r}, at[s] = "response"
                 PROVE  origin[UriOf[want[s]]] <= origin'[UriOf[want[s]]]
      BY <1>2, <1>3, <1>4 DEF Left
    <2>1. want[s] \in Keys
      BY DEF PathInv, FillInv, ControlTypeOK
    <2>2. origin[UriOf[want[s]]] \in Versions
      BY <1>2, <2>1, UriOfKeys DEF PathTypeOK
    <2> QED BY <1>2, <2>2, Bounds DEF Versions
  <1> QED BY <1>3, <1>4, <1>5, <1>6, <1>7, RequestStep

\* rt.cache.Set (handler.go:727): the new item is what its own request fetched
\* under the lock, so that it is public and as new as any before it.
LEMMA StoreKeeps ==
    ASSUME PathInv, NEW r \in Requests, at[r] = "response", Stores(r), StoreEntry(r),
           UNCHANGED <<want, origin, acked>>
    PROVE  /\ Bounded(ll', bytes') /\ ItemsOK' /\ StoredOK'
           /\ stored' \in [Keys -> Versions]
           /\ \A k \in Keys : stored'[k] >= stored[k] /\ (k # want[r] => stored'[k] = stored[k])
           /\ barred' \in [Requests -> Versions \cup {NoVersion}]
           /\ \A s \in Requests : barred'[s] = barred[s] \/ barred'[s] = NoVersion
  <1>1. PICK k, v : k = want[r] /\ v = body[r].ver /\ k \in Keys /\ v \in Versions /\ v # NoVersion
    <2>1. want[r] \in Keys /\ body[r].ver \in Versions
      BY DEF PathInv, PathData, PathTypeOK, FillInv, ControlTypeOK
    <2> QED BY <2>1, Bounds DEF Versions, NoVersion
  <1>2. PICK lt \in BOOLEAN : lt = (v < acked[UriOf[k]])
    <2>1. PICK a : a = acked[UriOf[k]]
      OBVIOUS
    <2>2. (v < a) \in BOOLEAN
      <3>1. a \in Int /\ v \in Int
        BY <1>1, <2>1, UriOfKeys, Bounds DEF PathInv, PathData, PathTypeOK, Versions
      <3> QED BY <3>1
    <2> QED BY <2>1, <2>2
  <1>3. PICK e : e = [ver |-> v, late |-> lt]
    OBVIOUS
  <1>4. e \in Entry
    BY <1>1, <1>2, <1>3 DEF Entry
  <1>5. EntrySize[v] \in Nat
    BY <1>1, Bounds DEF Versions
  <1>6. /\ Set(k, e, EntrySize[v])
        /\ stored' = IF EntrySize[v] <= MaxBytes THEN [stored EXCEPT ![k] = v] ELSE stored
        /\ barred' = [s \in Requests |->
                        IF want[s] = k /\ barred[s] = v THEN NoVersion ELSE barred[s]]
    <2>1. [ver |-> v, late |-> v < acked[UriOf[k]]] = e
      BY <1>2, <1>3
    <2> QED BY <1>1, <2>1 DEF StoreEntry
  <1>7. PathTypeOK /\ RequestOK(r) /\ StoredOK /\ Bounded(ll, bytes)
    BY DEF PathInv, PathData
  <1>8. /\ barred' \in [Requests -> Versions \cup {NoVersion}]
        /\ \A s \in Requests : barred'[s] = barred[s] \/ barred'[s] = NoVersion
    BY <1>6, <1>7 DEF PathTypeOK
  <1>9. /\ stored' \in [Keys -> Versions]
        /\ stored'[k] = v \/ stored'[k] = stored[k]
        /\ \A j \in Keys : j # k => stored'[j] = stored[j]
    BY <1>1, <1>6, <1>7 DEF PathTypeOK
  <1>10. v <= origin[UriOf[k]] /\ stored[k] <= v
    BY <1>1, <1>7 DEF RequestOK
  <1>11. StoredOK' /\ \A j \in Keys : stored'[j] >= stored[j]
    <2> SUFFICES ASSUME NEW j \in Keys
                 PROVE  stored'[j] <= origin'[UriOf[j]] /\ stored'[j] >= stored[j]
      BY DEF StoredOK
    <2>1. stored[j] \in Int /\ v \in Int
      BY <1>1, <1>7, Bounds DEF PathTypeOK, Versions
    <2>2. stored[j] <= origin[UriOf[j]]
      BY <1>7 DEF StoredOK
    <2> QED BY <1>9, <1>10, <2>1, <2>2
  <1>12. PICK x : x = [key |-> k, entry |-> e, life |-> "fresh", size |-> EntrySize[v]]
    OBVIOUS
  <1>13. Bounded(ll', bytes')
    BY <1>1, <1>4, <1>5, <1>6, <1>7, SetKeeps
  <1>14. \/ \A j \in 1..Len(ll') : Old(ll'[j])
         \/ \A j \in 1..Len(ll') : ll'[j] = x \/ (ll'[j].key # k /\ Old(ll'[j]))
    BY <1>1, <1>4, <1>5, <1>6, <1>7, <1>12, SetKeeps
  <1>15. ItemFine(x, want', barred', acked')
    <2>1. x.key = k /\ x.entry = e /\ x.size = EntrySize[v] /\ e.ver = v
          /\ e.late = (v < acked[UriOf[k]])
      BY <1>2, <1>3, <1>12
    <2>2. \A s \in Requests : k = want[s] => v # barred'[s]
      BY <1>1, <1>6
    <2> QED BY <2>1, <2>2 DEF ItemFine
  <1>16. ItemsOK'
    <2>1. CASE \A j \in 1..Len(ll') : Old(ll'[j])
      BY <1>8, <1>13, <2>1, ItemsStay
    <2>2. CASE \A j \in 1..Len(ll') : ll'[j] = x \/ (ll'[j].key # k /\ Old(ll'[j]))
      <3> SUFFICES ASSUME NEW j \in 1..Len(ll'), ll'[j] # x
                   PROVE  ItemFine(ll'[j], want', barred', acked')
        BY <1>15 DEF ItemsOK
      <3>1. PICK y : y = ll'[j] /\ Old(y)
        BY <2>2
      <3>2. PICK i \in 1..Len(ll) : y.key = ll[i].key /\ y.entry = ll[i].entry /\ y.size = ll[i].size
        BY <3>1 DEF Old
      <3>3. PICK z : z = ll[i] /\ z \in Item /\ ItemFine(z, want, barred, acked)
        BY DEF PathInv, PathData, Bounded, ItemsOK
      <3>4. z.entry.ver # NoVersion
        BY <3>3, ItemFields
      <3>5. ItemFine(y, want', barred', acked')
        BY <1>8, <3>2, <3>3, <3>4 DEF ItemFine
      <3> QED BY <3>1, <3>5
    <2> QED BY <1>14, <2>1, <2>2
  <1> QED BY <1>1, <1>8, <1>9, <1>11, <1>13, <1>16

\* The end of fetchAndServe, with or without a store (handler.go:696-731).
LEMMA AnswerData ==
    ASSUME PathInv, NEW r \in Requests, NEW keep \in BOOLEAN, Answer(r, keep)
    PROVE  PathData' /\ \A k \in Keys : stored'[k] >= stored[k]
  <1>1. PICK v : v = body[r].ver /\ v \in Versions
    BY DEF PathInv, PathData, PathTypeOK
  <1>2. /\ Leave(r, "ORIGIN", v) /\ at[r] = "response" /\ UNCHANGED <<kind, want, origin, acked>>
        /\ PathTypeOK /\ want[r] \in Keys
    BY <1>1 DEF Answer, Passes, PathInv, PathData, FillInv, ControlTypeOK
  <1>3. /\ Bounded(ll', bytes') /\ ItemsOK' /\ StoredOK' /\ stored' \in [Keys -> Versions]
        /\ barred' \in [Requests -> Versions \cup {NoVersion}]
        /\ \A k \in Keys : stored'[k] >= stored[k] /\ (k # want[r] => stored'[k] = stored[k])
        /\ \A s \in Requests : barred'[s] = barred[s] \/ barred'[s] = NoVersion
        /\ Stores(r) \/ stored' = stored
    <2>1. CASE keep
      <3>1. Stores(r) /\ StoreEntry(r)
        BY <2>1 DEF Answer
      <3> QED BY <1>2, <3>1, StoreKeeps
    <2>2. CASE ~keep
      <3>1. UNCHANGED <<ll, bytes, barred, stored>>
        BY <2>2 DEF Answer, cacheVars
      <3>2. Bounded(ll', bytes') /\ \A j \in 1..Len(ll') : Old(ll'[j])
        BY <3>1 DEF PathInv, PathData, Bounded, Old
      <3>3. ItemsOK'
        BY <1>2, <3>1, <3>2, ItemsStay
      <3>4. StoredOK' /\ \A k \in Keys : stored[k] \in Int
        BY <1>2, <3>1, Bounds DEF PathInv, PathData, StoredOK, PathTypeOK, Versions
      <3> QED BY <1>2, <3>1, <3>2, <3>3, <3>4 DEF PathTypeOK
    <2> QED BY <2>1, <2>2
  <1>4. Answered(r)
    BY <1>1, <1>2, <1>3, LeaveOK
  <1>5. PathTypeOK'
    BY <1>2, <1>3, <1>4 DEF PathTypeOK
  <1>6. \A s \in Requests \ {r} : Left(s)
    <2> SUFFICES ASSUME NEW s \in Requests \ {r}, at[s] = "response"
                 PROVE  /\ origin[UriOf[want[s]]] <= origin'[UriOf[want[s]]]
                        /\ Stores(s) => stored'[want[s]] = stored[want[s]]
      BY <1>2, <1>3, <1>4 DEF Left
    <2>1. want[s] \in Keys
      BY DEF PathInv, FillInv, ControlTypeOK
    <2>2. origin[UriOf[want[s]]] \in Versions
      BY <1>2, <2>1, UriOfKeys DEF PathTypeOK
    <2>3. origin[UriOf[want[s]]] <= origin'[UriOf[want[s]]]
      BY <1>2, <2>2, Bounds DEF Versions
    <2>4. SingleFill
      BY FillsApart DEF PathInv
    <2>5. Stores(s) => stored'[want[s]] = stored[want[s]]
      BY <1>2, <1>3, <2>1, <2>4 DEF SingleFill
    <2> QED BY <2>3, <2>5
  <1> QED BY <1>3, <1>4, <1>5, <1>6, RequestStep

-----------------------------------------------------------------------------
\* The invariant holds of an empty cache.
LEMMA PathInit == EdgeInit => PathInv
  <1> SUFFICES ASSUME EdgeInit PROVE PathInv
    OBVIOUS
  <1>1. FillInv
    BY FillInit
  <1>2. 0 \in Versions /\ NoVersion # 0
    BY Bounds DEF Versions, NoVersion
  <1>3. PathTypeOK
    BY <1>2 DEF EdgeInit, PathTypeOK, NoBody, Nothing
  <1>4. ll = <<>> /\ bytes = 0
    BY DEF EdgeInit, CacheInit
  <1>5. Bounded(ll, bytes) /\ ItemsOK
    <2>1. ll \in Seq(Item) /\ Len(ll) = 0
      BY <1>4
    <2>2. SizeOf(ll) = 0
      BY <1>4, SizeOfNone
    <2>3. Distinct(ll) /\ ItemsOK
      BY <2>1 DEF Distinct, ItemsOK
    <2> QED BY <1>4, <2>1, <2>2, <2>3, CacheLimits DEF Bounded
  <1>6. StoredOK
    BY UriOfKeys DEF EdgeInit, StoredOK
  <1>7. \A r \in Requests : RequestOK(r)
    BY DEF EdgeInit, RequestOK, Nothing
  <1> QED BY <1>1, <1>3, <1>5, <1>6, <1>7 DEF PathInv, PathData

\* Every step of the route preserves it, and stores nothing older than before.
LEMMA PathStep ==
    PathInv /\ [EdgeNext]_allVars => PathInv' /\ [\A k \in Keys : stored'[k] >= stored[k]]_allVars
  <1> SUFFICES ASSUME PathInv, [EdgeNext]_allVars
               PROVE  PathInv' /\ [\A k \in Keys : stored'[k] >= stored[k]]_allVars
    OBVIOUS
  <1>1. FillInv'
    BY FillStep DEF PathInv
  <1>2. \A k \in Keys : stored[k] >= stored[k]
    <2>1. \A k \in Keys : stored[k] \in Versions
      BY DEF PathInv, PathData, PathTypeOK
    <2> QED BY <2>1, Bounds DEF Versions
  <1> DEFINE Grown == \A k \in Keys : stored'[k] >= stored[k]
  <1>3. ASSUME stored' = stored PROVE Grown
    BY <1>2, <1>3
  <1>4. CASE UNCHANGED allVars
    <2>1. PathData'
      <3>1. UNCHANGED <<at, kind, want, stale, body, served, origin, barred, stored, acked, ll, bytes>>
        BY <1>4 DEF allVars, reqVars, ghosts, cacheVars
      <3> QED BY <3>1 DEF PathInv, PathData, PathTypeOK, Bounded, ItemsOK, StoredOK, RequestOK, Stores
    <2> QED BY <1>1, <1>4, <2>1 DEF PathInv
  <1>5. CASE \E r \in Requests, kd \in Kinds, k \in Keys : Arrive(r, kd, k)
    BY <1>1, <1>3, <1>5, ArriveData DEF PathInv, Arrive, ghosts
  <1>6. ASSUME NEW r \in Requests, Progress(r)
        PROVE  PathData' /\ Grown
    <2>1. CASE \E allowed \in BOOLEAN : FirstLookup(r, allowed) \/ SecondLookup(r, allowed)
      <3>1. PathData'
        BY <2>1, FirstLookupData, SecondLookupData
      <3>2. stored' = stored
        BY <2>1 DEF FirstLookup, SecondLookup, Consult, ghosts
      <3> QED BY <1>3, <3>1, <3>2
    <2>2. CASE \E o \in Objects : TakeLock(r, o)
      BY <1>3, <2>2, TakeLockData DEF TakeLock, ghosts
    <2>3. CASE LockTaken(r)
      BY <1>3, <2>3, LockTakenData DEF LockTaken, ghosts
    <2>4. CASE \E status \in Statuses : FetchAnswered(r, status)
      BY <1>3, <2>4, FetchAnsweredData DEF FetchAnswered, ghosts
    <2>5. CASE \E done \in BOOLEAN : FetchFailed(r, done)
      BY <1>3, <2>5, FetchFailedData DEF FetchFailed, ghosts
    <2>6. CASE ClientGone(r)
      BY <1>3, <2>6, ClientGoneData DEF ClientGone, ghosts
    <2>7. CASE HideFailure(r)
      BY <1>3, <2>7, HideFailureData DEF HideFailure, ghosts
    <2>8. CASE AnswerUnsafe(r)
      BY <1>3, <2>8, AnswerUnsafeData DEF AnswerUnsafe
    <2>9. CASE \E keep \in BOOLEAN : Answer(r, keep)
      BY <2>9, AnswerData
    <2>10. CASE Return(r)
      BY <1>3, <2>10, ReturnData DEF Return
    <2>11. CASE Finish(r)
      BY <1>3, <2>11, FinishData DEF Finish, ghosts
    <2> QED BY <1>6, <2>1, <2>2, <2>3, <2>4, <2>5, <2>6, <2>7, <2>8, <2>9, <2>10, <2>11 DEF Progress
  <1>7. CASE \E r \in Requests : Progress(r)
    BY <1>1, <1>6, <1>7 DEF PathInv
  <1>8. CASE \E U \in SUBSET Uris : PurgeCache(U)
    BY <1>1, <1>3, <1>8, PurgeCacheData DEF PathInv, PurgeCache
  <1>9. CASE TimePasses
    BY <1>1, <1>3, <1>9, TimePassesData DEF PathInv, TimePasses, ghosts
  <1> QED BY <1>4, <1>5, <1>7, <1>8, <1>9 DEF EdgeNext

\* The invariant of the cached request path.
THEOREM PathInvariant == EdgeSpec => []PathInv
  BY PathInit, PathStep, PTL DEF EdgeSpec

\* The state of the request path and of the cache is always of its type.
THEOREM RouteTypes == EdgeSpec => []EdgeTypeOK
  <1>1. PathInv => EdgeTypeOK
    <2> SUFFICES ASSUME PathInv PROVE EdgeTypeOK
      OBVIOUS
    <2>1. TypeOK /\ ControlTypeOK /\ PathTypeOK /\ ll \in Seq(Item) /\ ItemsOK
      BY DEF PathInv, PathData, FillInv, LockInv, Bounded
    <2>2. \A i \in DOMAIN ll : ll[i].size = EntrySize[ll[i].entry.ver]
      BY <2>1 DEF ItemsOK, ItemFine
    <2> QED BY <2>1, <2>2 DEF EdgeTypeOK, ControlTypeOK, PathTypeOK
  <1> QED BY <1>1, PathInvariant, PTL

\* The cache never holds more entries or bytes than it may, and its counter is
\* exact.
THEOREM CacheStaysBounded == EdgeSpec => []CacheBounds
  <1>1. PathInv => CacheBounds
    BY BoundsAre DEF PathInv, PathData
  <1> QED BY <1>1, PathInvariant, PTL

\* What was cached when an unsafe request was answered is gone.
THEOREM WritesInvalidate == EdgeSpec => []OnlyRacingFillsSurvive
  <1>1. PathInv => OnlyRacingFillsSurvive
    <2> SUFFICES ASSUME PathInv PROVE OnlyRacingFillsSurvive
      OBVIOUS
    <2>1. ll \in Seq(Item) /\ ItemsOK
      BY DEF PathInv, PathData, Bounded
    <2> QED BY <2>1 DEF ItemsOK, ItemFine, OnlyRacingFillsSurvive
  <1> QED BY <1>1, PathInvariant, PTL

\* No request serves stale content that was purged while it waited.
THEOREM PurgedIsNotServed == EdgeSpec => []NoPurgedStale
  <1>1. PathInv => NoPurgedStale
    BY DEF PathInv, PathData, RequestOK, NoPurgedStale
  <1> QED BY <1>1, PathInvariant, PTL

\* A fill never replaces what a newer fill of its key stored.
THEOREM FillsGoForward == EdgeSpec => StoredVersionsGrow
  BY PathStep, PathInvariant, PTL DEF EdgeSpec, StoredVersionsGrow
=============================================================================
