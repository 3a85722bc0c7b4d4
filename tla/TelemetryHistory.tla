-------------------------- MODULE TelemetryHistory --------------------------
(***************************************************************************)
(* SecurityEdge's telemetry history (internal/admin/history.go and the     *)
(* sampler of server.go).  One goroutine samples the counters of both      *)
(* services against the wall clock; a rate is the difference of a counter  *)
(* over the time since the sample before.  The wall clock can be set back, *)
(* each service can restart, EdgeProxy can be out of reach, the samples    *)
(* are persisted and restored.  The counters are the request counters; the *)
(* rejection counter and the per-route counters follow the same rule.      *)
(* A sample is whole: it is taken at the time its tick carries.            *)
(***************************************************************************)
EXTENDS Integers, Sequences, SequencesExt, Lists

CONSTANTS HistoryCapacity,    \* capacity, in samples
          SampleInterval,     \* sample_interval
          HistoryBytes,       \* maxTelemetryHistoryRetainedBytes
          MaxElapsed,         \* bound on the time that passes
          MaxServed,          \* bound on the requests of a service
          MaxHistoryFaults    \* bound on clock changes, restarts, failed writes

ASSUME HistoryValues == /\ {HistoryCapacity, SampleInterval, HistoryBytes} \subseteq Nat \ {0}
                        /\ {MaxElapsed, MaxServed, MaxHistoryFaults} \subseteq Nat

Services == {"security", "edge"}
Unread == [inst |-> 0, requests |-> 0]              \* EdgeProxy.Available = FALSE
NoRate == [count |-> 0, seconds |-> 0, real |-> 0]  \* RequestRateAvailable = FALSE
ZeroTime == 0

VARIABLES
    wall,             \* the wall clock
    counter,          \* the services' counters and instance_started_at
    samples, lastObserved, rateGapPending,
    historyFile,      \* the persisted samples
    seeded,           \* the sampler has taken its first sample
    historyFaults,
    elapsed,          \* ghost: the time that has really passed
    blind             \* ghost: the clock was set back and no look at it since
                      \* the last sample has shown it, or what showed it is lost

historyVars == <<wall, counter, samples, lastObserved, rateGapPending, historyFile,
                 seeded, historyFaults, elapsed, blind>>

Readings == [inst : 0..MaxHistoryFaults + 1, requests : 0..MaxServed]

\* sampleBytes and retainedBytes: a sample takes one unit, the routes of an
\* EdgeProxy that answered the rest.
Bytes(list) ==
    LET upto[i \in 0..Len(list)] == IF i = 0 THEN 0 ELSE upto[i - 1] + list[i].size
    IN  upto[Len(list)]

HistoryTypeOK ==
    /\ wall \in 1..MaxElapsed + 1 /\ elapsed \in 0..MaxElapsed
    /\ counter \in [Services -> Readings]
    /\ Len(samples) <= HistoryCapacity /\ Bytes(samples) <= HistoryBytes
    /\ \A i \in 1..Len(samples) : samples[i].read \in [Services -> Readings]
    /\ lastObserved \in 0..MaxElapsed + 1
    /\ {rateGapPending, seeded, blind} \subseteq BOOLEAN

HistoryInit ==
    /\ wall = 1 /\ elapsed = 0 /\ blind = FALSE
    /\ counter = [v \in Services |-> [inst |-> 1, requests |-> 0]]
    /\ samples = <<>> /\ lastObserved = ZeroTime /\ rateGapPending = FALSE
    /\ historyFile = <<>> /\ seeded = FALSE /\ historyFaults = 0

HistoryFault == historyFaults < MaxHistoryFaults /\ historyFaults' = historyFaults + 1

-----------------------------------------------------------------------------
(* observeAt.                                                              *)

\* appendPointLocked: a sample that is too large loses its routes; the oldest
\* samples make room.
Fits(list) == Len(list) <= HistoryCapacity /\ Bytes(list) <= HistoryBytes
AppendPoint(list, x) ==
    LET all  == Append(list, [x EXCEPT !.size = IF @ > HistoryBytes THEN 1 ELSE @])
        From(k) == SubSeq(all, k, Len(all))
    IN  From(CHOOSE k \in 1..Len(all) + 1 : Fits(From(k)) /\ \A j \in 1..k - 1 : ~Fits(From(j)))

NewestTime(list) == IF list = <<>> THEN ZeroTime ELSE list[Len(list)].at
NotAfter(list, t) == Only(list, {x \in Range(list) : x.at <= t})

\* A look at the clock finds it behind the newest sample.
RolledBack == lastObserved # ZeroTime /\ wall < lastObserved

\* discardSamplesAfterLocked.
Kept == IF RolledBack THEN NotAfter(samples, wall) ELSE samples

\* The rate of one counter against the previous sample.
Rate(prev, now, seconds) ==
    IF now.inst # 0 /\ now.inst = prev.read.inst /\ now.requests >= prev.read.requests /\ seconds > 0
    THEN [count |-> now.requests - prev.read.requests, seconds |-> seconds, real |-> elapsed - prev.real]
    ELSE NoRate

\* Mutant: a discontinuity of the clock leaves no gap.
NoGap == FALSE
\* rateGapPending, or the rollback seen just now.
Gap == rateGapPending \/ RolledBack

Point(read, size) ==
    [at |-> wall, read |-> read, size |-> size, real |-> elapsed, blind |-> blind,
     rate |-> [v \in Services |->
                 IF Kept = <<>> \/ Gap THEN NoRate
                 ELSE LET prev == Kept[Len(Kept)]
                      IN  Rate([read |-> prev.read[v], real |-> prev.real], read[v], wall - prev.at)]]

\* EdgeProxy's metrics endpoint answers or does not.
Reading(answers) == [v \in Services |-> IF v = "edge" /\ ~answers THEN Unread ELSE counter[v]]

\* What observeAt compares the clock with.
Since == IF RolledBack THEN NewestTime(Kept) ELSE lastObserved

\* The sample is too close to the one before it; only the first one of a
\* process respects the interval.
TooEarly == Since # ZeroTime /\ (wall = Since \/ (~seeded /\ wall - Since < SampleInterval))

\* persistLocked replaces the file as ConfigFiles' Save does, or fails.
Persist(list) == \/ historyFile' = list /\ UNCHANGED historyFaults
                 \/ HistoryFault /\ UNCHANGED historyFile

\* sampleTelemetry: the seed and every tick after it.  The new samples are
\* persisted.
ObserveAt(answers, size) ==
    /\ ~TooEarly
    /\ samples' = AppendPoint(Kept, Point(Reading(answers), size))
    /\ lastObserved' = wall /\ rateGapPending' = FALSE
    /\ seeded' = TRUE /\ blind' = FALSE
    /\ Persist(samples')
    /\ UNCHANGED <<wall, counter, elapsed>>

SkipSample ==
    /\ TooEarly
    /\ samples' = Kept /\ lastObserved' = Since /\ rateGapPending' = Gap
    /\ seeded' = TRUE /\ blind' = (blind /\ ~RolledBack)
    /\ UNCHANGED <<wall, counter, historyFile, historyFaults, elapsed>>

-----------------------------------------------------------------------------
(* Restart and load.                                                       *)

\* load ignores samples from the future and leaves a gap for them.
Loaded ==
    LET past == NotAfter(historyFile, wall)
        upto[i \in 0..Len(past)] == IF i = 0 THEN <<>> ELSE AppendPoint(upto[i - 1], past[i])
    IN  upto[Len(past)]

RestartSecurity ==
    /\ HistoryFault
    /\ counter' = [counter EXCEPT !["security"] = [inst |-> @.inst + 1, requests |-> 0]]
    /\ samples' = Loaded /\ lastObserved' = NewestTime(Loaded) /\ seeded' = FALSE
    /\ rateGapPending' = (NotAfter(historyFile, wall) # historyFile)
    /\ blind' = ((blind \/ rateGapPending \/ samples # historyFile) /\ ~rateGapPending')
    /\ UNCHANGED <<wall, historyFile, elapsed>>

RestartEdge ==
    /\ HistoryFault
    /\ counter' = [counter EXCEPT !["edge"] = [inst |-> @.inst + 1, requests |-> 0]]
    /\ UNCHANGED <<wall, samples, lastObserved, rateGapPending, historyFile, seeded, elapsed, blind>>

-----------------------------------------------------------------------------
(* The environment.                                                        *)

TimePasses ==
    /\ elapsed < MaxElapsed
    /\ elapsed' = elapsed + 1 /\ wall' = wall + 1
    /\ UNCHANGED <<counter, samples, lastObserved, rateGapPending, historyFile, seeded, historyFaults, blind>>

SetBack(t) ==
    /\ t < wall /\ HistoryFault
    /\ wall' = t /\ blind' = TRUE
    /\ UNCHANGED <<counter, samples, lastObserved, rateGapPending, historyFile, seeded, elapsed>>

Serve(v) ==
    /\ counter[v].requests < MaxServed
    /\ counter' = [counter EXCEPT ![v].requests = @ + 1]
    /\ UNCHANGED <<wall, samples, lastObserved, rateGapPending, historyFile, seeded, historyFaults, elapsed, blind>>

HistoryNext ==
    \/ ObserveAt(FALSE, 1)
    \/ \E size \in HistoryBytes..HistoryBytes + 1 : ObserveAt(TRUE, size)
    \/ SkipSample \/ RestartSecurity \/ RestartEdge
    \/ TimePasses \/ \E t \in 1..MaxElapsed : SetBack(t)
    \/ \E v \in Services : Serve(v)

HistorySpec == HistoryInit /\ [][HistoryNext]_historyVars

-----------------------------------------------------------------------------
\* The history is in the order in which its samples were taken, and every rate
\* in it is honest: it counts the requests of one instance, over the time that
\* really passed.  The exception is a clock that was set back without ever
\* being seen behind the newest sample, or seen so only by a process whose gap
\* or samples a restart lost (history.go:181-337 and 457-485).
HistoryIsHonest ==
    /\ \A i, j \in 1..Len(samples) :
          i < j => samples[i].at < samples[j].at /\ samples[i].real < samples[j].real
    /\ \A i \in 1..Len(samples), v \in Services :
          LET x == samples[i]
          IN  x.rate[v] # NoRate =>
                 /\ x.read[v] # Unread
                 /\ x.rate[v].count \in 0..x.read[v].requests
                 /\ x.blind \/ x.rate[v].seconds = x.rate[v].real
=============================================================================
