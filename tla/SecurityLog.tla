----------------------------- MODULE SecurityLog -----------------------------
(***************************************************************************)
(* SecurityEdge's security log (internal/securitylog/store.go): a ring of  *)
(* recent entries, an NDJSON file that is rotated through numbered         *)
(* backups, and what is restored from both after a crash.                  *)
(*                                                                         *)
(* An entry is its number in the history and the sequence number it was    *)
(* given; a file is the sequence of its lines, and an absent file is       *)
(* empty.  File 0 is the active one.  A line cut off by a crash or a full  *)
(* disk is Torn; logEnds says whether the last line has its newline.  s.mu *)
(* is held throughout a rotation, which only a crash can interrupt.        *)
(***************************************************************************)
EXTENDS Integers, Sequences, SequencesExt, Lists

CONSTANTS LogCapacity,   \* entries of the ring
          FileLines,     \* max_file_bytes
          MaxBackups,    \* max_backups
          BatchSize,     \* exportBatchSize
          MaxLogged,     \* bound on entries
          MaxLogFaults   \* bound on crashes, failed writes and renames

ASSUME LogBounds == /\ {LogCapacity, FileLines, BatchSize} \subseteq Nat \ {0}
                    /\ {MaxBackups, MaxLogged, MaxLogFaults} \subseteq Nat

VARIABLES
    logRing, logNext,     \* entries and nextSeq
    logFiles, logEnds,    \* the files, and whether the active one ends a line
    logOpen, logBytes,    \* s.file # nil and fileBytes
    logUp,                \* the process runs
    logRot,               \* the rotation: the slot to fill next, or NoRotation
    export,               \* an export under way
    logCount, logFaults,  \* entries and faults so far
    logTorn,              \* ghost: a write of this process was cut off
    logWritten            \* ghost: entries that were written and not removed

logVars == <<logRing, logNext, logFiles, logEnds, logOpen, logBytes, logUp, logRot,
             export, logCount, logFaults, logTorn, logWritten>>

Torn == [id |-> 0, seq |-> 0]
Entries == [id : 1..MaxLogged, seq : 1..MaxLogged]
NoRotation == MaxBackups + 2
NoExport == [on |-> FALSE, max |-> 0, before |-> 0, out |-> <<>>]

LogTypeOK ==
    /\ logRing \in Seq(Entries) /\ Len(logRing) <= LogCapacity
    /\ logNext \in 1..(MaxLogged + 1)
    /\ logFiles \in [0..MaxBackups -> Seq(Entries \cup {Torn})]
    /\ {logEnds, logOpen, logUp, logTorn} \subseteq BOOLEAN
    /\ logBytes \in 0..(FileLines + MaxLogFaults) /\ logRot \in 0..NoRotation

LogInit ==
    /\ logRing = <<>> /\ logNext = 1
    /\ logFiles = [k \in 0..MaxBackups |-> <<>>] /\ logEnds = TRUE
    /\ logOpen = TRUE /\ logBytes = 0 /\ logUp = TRUE /\ logRot = NoRotation
    /\ export = NoExport
    /\ logCount = 0 /\ logFaults = 0 /\ logTorn = FALSE /\ logWritten = {}

LogFault == logFaults < MaxLogFaults /\ logFaults' = logFaults + 1
NoLogFault == UNCHANGED logFaults

Numbers(lines) == {lines[i].id : i \in DOMAIN lines} \ {0}
Newest(s, n) == SubSeq(s, Len(s) - Min({n, Len(s)}) + 1, Len(s))

-----------------------------------------------------------------------------
(* Append, writeFileLocked and rotateLocked.                               *)

\* The line behind a torn one without a newline is part of the torn line.
Written(e, active) == IF logEnds THEN Append(active, e) ELSE active

\* The write of e to the active file, whose lines are active.
Write(e, active, bytes) ==
    /\ logOpen' = TRUE
    /\ \/ /\ NoLogFault
          /\ logFiles' = [logFiles EXCEPT ![0] = Written(e, active)]
          /\ logEnds' = TRUE /\ logTorn' = FALSE /\ logBytes' = bytes + 1
          /\ logWritten' = IF logTorn THEN logWritten ELSE logWritten \cup {e.id}
       \/ /\ LogFault                       \* a part of the line, or nothing
          /\ \/ /\ logFiles' = [logFiles EXCEPT ![0] = Written(Torn, active)]
                /\ logEnds' = FALSE /\ logTorn' = TRUE
             \/ /\ logFiles' = [logFiles EXCEPT ![0] = active]
                /\ UNCHANGED <<logEnds, logTorn>>
          /\ logBytes' = bytes
          /\ UNCHANGED logWritten

LogAppend ==
    /\ logUp /\ logRot = NoRotation /\ logCount < MaxLogged
    /\ LET e == [id |-> logCount + 1, seq |-> logNext]
       IN  /\ logRing' = Newest(Append(logRing, e), LogCapacity)
           /\ logNext' = logNext + 1 /\ logCount' = logCount + 1
           /\ \/ /\ ~logOpen
                 /\ UNCHANGED <<logFiles, logEnds, logOpen, logBytes, logRot, logFaults, logTorn, logWritten>>
              \/ /\ logOpen /\ logBytes < FileLines
                 /\ Write(e, logFiles[0], logBytes)
                 /\ UNCHANGED logRot
              \/ /\ logOpen /\ logBytes >= FileLines   \* rotateLocked closes the file
                 /\ logOpen' = FALSE /\ logRot' = MaxBackups + 1
                 /\ UNCHANGED <<logFiles, logEnds, logBytes, logFaults, logTorn, logWritten>>
    /\ UNCHANGED <<logUp, export>>

Rotating == logUp /\ logRot # NoRotation

\* A new active file begins when the old one has been removed or renamed.
Renewed(now) == /\ logEnds' = (logEnds \/ now)
                /\ logTorn' = (logTorn /\ ~now)

\* The oldest file is removed.
RotateRemove ==
    /\ Rotating /\ logRot = MaxBackups + 1
    /\ logFiles' = [logFiles EXCEPT ![MaxBackups] = <<>>]
    /\ logWritten' = logWritten \ Numbers(logFiles[MaxBackups])
    /\ logRot' = MaxBackups
    /\ Renewed(MaxBackups = 0)
    /\ UNCHANGED <<logRing, logNext, logOpen, logBytes, logUp, export, logCount, logFaults>>

\* replaceRename(k - 1, k): slot k is empty by now.
Shifted(k) == [logFiles EXCEPT ![k] = logFiles[k - 1], ![k - 1] = <<>>]

RotateShift ==
    /\ Rotating /\ logRot \in 1..MaxBackups
    /\ logFiles' = Shifted(logRot)
    /\ logRot' = logRot - 1
    /\ Renewed(logRot = 1)
    /\ UNCHANGED <<logRing, logNext, logOpen, logBytes, logUp, export, logCount, logFaults, logWritten>>

\* A new file is opened and the entry is written.
RotateOpen ==
    /\ Rotating /\ logRot = 0
    /\ logRot' = NoRotation
    /\ Write(logRing[Len(logRing)], <<>>, 0)
    /\ UNCHANGED <<logRing, logNext, logUp, export, logCount>>

\* A step fails: reopenAppendLocked, and the entry stays out of the file.
RotateFails ==
    /\ Rotating /\ LogFault
    /\ logRot' = NoRotation
    /\ \/ logOpen' = TRUE /\ logBytes' = Len(logFiles[0])
       \/ UNCHANGED <<logOpen, logBytes>>
    /\ UNCHANGED <<logRing, logNext, logFiles, logEnds, logUp, export, logCount, logTorn, logWritten>>

-----------------------------------------------------------------------------
(* Clear, Export.                                                          *)

\* The active file is truncated and rewound, unless it is not open or that
\* fails; sequence numbers go on.
LogClear ==
    /\ logUp /\ logRot = NoRotation
    /\ logRing' = <<>>
    /\ LET rest == [k \in 0..MaxBackups |-> <<>>]
       IN  \/ /\ logOpen /\ NoLogFault
              /\ logFiles' = rest
              /\ logBytes' = 0 /\ logEnds' = TRUE /\ logTorn' = FALSE
           \/ /\ IF logOpen THEN LogFault ELSE NoLogFault
              /\ logFiles' = [rest EXCEPT ![0] = logFiles[0]]
              /\ UNCHANGED <<logBytes, logEnds, logTorn>>
    /\ logWritten' = {}
    /\ UNCHANGED <<logNext, logOpen, logUp, logRot, export, logCount>>

ExportBegin ==
    /\ logUp /\ logRot = NoRotation /\ ~export.on /\ logRing # <<>>
    /\ export' = [on |-> TRUE, max |-> logRing[Len(logRing)].seq, before |-> 0, out |-> <<>>]
    /\ UNCHANGED <<logRing, logNext, logFiles, logEnds, logOpen, logBytes, logUp, logRot,
                   logCount, logFaults, logTorn, logWritten>>

InExport == {e \in Entries : e.seq <= export.max /\ (export.before = 0 \/ e.seq < export.before)}

\* A page is copied under the lock and written out without it.
ExportBatch ==
    /\ logUp /\ logRot = NoRotation /\ export.on
    /\ LET found == Only(Reverse(logRing), InExport)
           page  == SubSeq(found, 1, Min({BatchSize, Len(found)}))
           out   == export.out \o page
       IN  export' = IF Len(page) < BatchSize \/ Len(out) >= LogCapacity
                     THEN [NoExport EXCEPT !.out = out]
                     ELSE [export EXCEPT !.out = out, !.before = page[Len(page)].seq]
    /\ UNCHANGED <<logRing, logNext, logFiles, logEnds, logOpen, logBytes, logUp, logRot,
                   logCount, logFaults, logTorn, logWritten>>

-----------------------------------------------------------------------------
(* Close, a crash, and NewWithConfig.                                      *)

\* The process ends, by Close or by a crash, which may cut off a write.
LogStop ==
    /\ logUp /\ LogFault
    /\ logUp' = FALSE /\ logOpen' = FALSE /\ logRot' = NoRotation
    /\ \/ UNCHANGED <<logFiles, logEnds>>
       \/ logOpen /\ logFiles' = [logFiles EXCEPT ![0] = Written(Torn, @)] /\ logEnds' = FALSE
    /\ logRing' = <<>> /\ logTorn' = FALSE /\ export' = NoExport
    /\ UNCHANGED <<logNext, logBytes, logCount, logWritten>>

\* restorePersistentEntries: the whole lines from the oldest file to the
\* active one.
Lines ==
    LET from[k \in 0..(MaxBackups + 1)] ==
            IF k = 0 THEN <<>> ELSE from[k - 1] \o Only(logFiles[MaxBackups + 1 - k], Entries)
    IN  from[MaxBackups + 1]
\* A sequence number that does not grow is replaced: highestSequence.
Highest(lines) ==
    LET upto[i \in 0..Len(lines)] ==
            IF i = 0 THEN 0
            ELSE IF lines[i].seq > upto[i - 1] THEN lines[i].seq ELSE upto[i - 1] + 1
    IN  upto
Renumbered(lines) == [i \in 1..Len(lines) |-> [lines[i] EXCEPT !.seq = Highest(lines)[i]]]

\* Mutant: a torn last line stays without its newline.
LeftTorn(ends) == ends
\* ensureTrailingNewlineLocked.
Terminated(ends) == TRUE

LogStart ==
    /\ ~logUp
    /\ logUp' = TRUE /\ logOpen' = TRUE /\ logBytes' = Len(logFiles[0])
    /\ logRing' = Newest(Renumbered(Lines), LogCapacity)
    /\ logNext' = Highest(Lines)[Len(Lines)] + 1
    /\ logEnds' = Terminated(logEnds)
    /\ UNCHANGED <<logFiles, logRot, export, logCount, logFaults, logTorn, logWritten>>

LogNext ==
    \/ LogAppend \/ RotateRemove \/ RotateShift \/ RotateOpen \/ RotateFails
    \/ LogClear \/ ExportBegin \/ ExportBatch \/ LogStop \/ LogStart

LogSpec == LogInit /\ [][LogNext]_logVars

-----------------------------------------------------------------------------
Grows(s) == \A i, j \in DOMAIN s : i < j => s[i].id < s[j].id /\ s[i].seq < s[j].seq

\* What was written stays on disk until rotation or Clear removes it, except
\* for an entry behind a line that a failed write of the same process cut off.
LogOnDisk == logWritten \subseteq UNION {Numbers(logFiles[k]) : k \in 0..MaxBackups}

\* What is shown is in the order of the events.
LogInOrder == Grows(logRing)

\* An export goes back in time and never returns to what it has passed.
ExportGoesBack == Grows(Reverse(export.out))

\* The history survives rotation, crashes in the middle of it, torn lines and
\* concurrent exports (store.go:143-193, 235-254, 358-416 and 473-564).
LogKeepsHistory == LogOnDisk /\ LogInOrder /\ ExportGoesBack
=============================================================================
