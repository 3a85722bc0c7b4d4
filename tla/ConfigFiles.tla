----------------------------- MODULE ConfigFiles -----------------------------
(***************************************************************************)
(* How a configuration is saved and loaded: Save and LoadFile of           *)
(* internal/config/persist.go of EdgeProxy, and the same code in           *)
(* SecurityEdge's internal/config (persist.go and config.go).  A file is   *)
(* its content.  The process that owns the file saves and loads it under   *)
(* its configuration lock; another process, one started with -validate on  *)
(* the same file, loads it at any time.  An operator edits it, and sets    *)
(* the clock, at any time, during a Save too.  The process can crash       *)
(* between any two file operations.  A write is whole: temporary files and *)
(* backups are synced before they count.                                   *)
(***************************************************************************)
EXTENDS Integers, Sequences, SequencesExt

CONSTANTS Contents,        \* configurations that load
          FirstContent,
          Garbled,         \* content that does not parse or validate
          Absent,          \* no such file
          KeepBackups,     \* maxConfigBackups
          MaxSaves,        \* bound on saves
          MaxFileFaults    \* bound on crashes, failed operations, edits and clocks set back

ASSUME FileValues == /\ FirstContent \in Contents /\ Garbled \notin Contents
                     /\ Absent \notin Contents \cup {Garbled}
                     /\ KeepBackups \in Nat \ {0} /\ {MaxSaves, MaxFileFaults} \subseteq Nat

VARIABLES
    windows,      \* runtime.GOOS = "windows"
    live,         \* the file under its own name
    staging,      \* the file with .bak behind its name
    backups,      \* the timestamped copies, in the order of their names
    place,        \* how many of them have an older name than one made now
    saver,        \* Save: where it is, the new content, whether a file existed
    running,      \* the owner runs
    restoring,    \* the processes that found the file missing and have read staging
    savesDone, fileFaults,
    due,          \* ghost: the contents a restart may find
    previous,     \* ghost: what the last Save replaced, or Absent
    fileRaces     \* ghost: the races met since the last Save that made a copy

fileVars == <<windows, live, staging, backups, place, saver, running, restoring, savesDone,
              fileFaults, due, previous, fileRaces>>

(***************************************************************************)
(* "restore": a process renames the staged file over one that has appeared *)
(*        under the file's own name since it found none;                   *)
(* "edit": the file is edited after Save has copied it and before the new  *)
(*        one takes its name, so the edit is replaced without a backup;    *)
(* "clock": the clock was set back behind the names of all backups, and    *)
(*        trimming removes the copy just made.                             *)
(***************************************************************************)
FileRaces == {"restore", "edit", "clock"}

NoSave == [at |-> "idle", new |-> Absent, exists |-> FALSE]

FilesTypeOK ==
    /\ {live, staging} \subseteq Contents \cup {Garbled, Absent}
    /\ backups \in Seq(Contents \cup {Garbled}) /\ Len(backups) <= KeepBackups
    /\ place \in 0..Len(backups)
    /\ saver.at \in {"idle", "temp", "replace", "finish"}
    /\ due \subseteq Contents \cup {Garbled} /\ fileRaces \subseteq FileRaces

FilesInit ==
    /\ windows \in BOOLEAN
    /\ live = FirstContent /\ staging = Absent /\ backups = <<>> /\ place = 0
    /\ saver = NoSave /\ running = TRUE /\ restoring = {}
    /\ savesDone = 0 /\ fileFaults = 0
    /\ due = {FirstContent} /\ previous = Absent /\ fileRaces = {}

FileFault == fileFaults < MaxFileFaults /\ fileFaults' = fileFaults + 1

\* What LoadFile reads.
FoundFile == IF live # Absent THEN live ELSE staging

Unsaving == running /\ saver = NoSave /\ "owner" \notin restoring

-----------------------------------------------------------------------------
(* Save.                                                                   *)

\* Mutant: backups are never removed.
KeepAll(all) == all
\* trimConfigBackups sorts the names: the copies with the highest stay.
Trimmed(all) == SubSeq(all, Len(all) - Min({KeepBackups, Len(all)}) + 1, Len(all))

\* copyFile: the copy's name says when it was made.
Copied == InsertAt(backups, place + 1, live)

\* Every copy is older than the new one, or there is room for it.
CopyIsKept == place > 0 \/ Len(backups) < KeepBackups

\* The existing file is copied, and old copies are removed.
SaveBegin(c) ==
    /\ Unsaving /\ savesDone < MaxSaves /\ savesDone' = savesDone + 1
    /\ saver' = [at |-> "temp", new |-> c, exists |-> live # Absent]
    /\ due' = {FoundFile, c} /\ previous' = Absent
    /\ IF live = Absent THEN UNCHANGED <<backups, place, fileRaces>>
       ELSE /\ backups' = Trimmed(Copied)
            /\ place' = place + 1 - (Len(Copied) - Len(backups'))
            /\ fileRaces' = IF CopyIsKept THEN {} ELSE {"clock"}
    /\ UNCHANGED <<windows, live, staging, running, restoring, fileFaults>>

\* Mutant: the old file is removed to make room for the new one.
StagedByRemoval == Absent
\* What staging holds once the existing file has been renamed.
Staged == live

\* The temporary file is complete; where a file cannot be renamed over
\* another one, the existing file is staged.
SaveStage ==
    /\ running /\ saver.at = "temp"
    /\ saver' = [saver EXCEPT !.at = "replace"]
    /\ IF windows /\ saver.exists THEN live' = Absent /\ staging' = Staged
       ELSE UNCHANGED <<live, staging>>
    /\ UNCHANGED <<windows, backups, place, running, restoring, savesDone, fileFaults, due, previous, fileRaces>>

SaveReplace ==
    /\ running /\ saver.at = "replace"
    /\ saver' = [saver EXCEPT !.at = "finish"]
    /\ live' = saver.new
    /\ due' = {saver.new} /\ previous' = FoundFile
    /\ UNCHANGED <<windows, staging, backups, place, running, restoring, savesDone, fileFaults, fileRaces>>

\* The staged file is removed, if that works, and Save returns.
SaveFinish ==
    /\ running /\ saver.at = "finish"
    /\ saver' = NoSave
    /\ \/ staging' = (IF windows THEN Absent ELSE staging) /\ UNCHANGED fileFaults
       \/ windows /\ FileFault /\ UNCHANGED staging
    /\ UNCHANGED <<windows, live, backups, place, running, restoring, savesDone, due, previous, fileRaces>>

\* The temporary file cannot be written, the existing file cannot be staged
\* (an older staged file is gone by then), or the new one cannot be named: the
\* staged file is named back, if that works.  Save returns an error.
SaveFails ==
    /\ running /\ saver.at \in {"temp", "replace"} /\ FileFault
    /\ saver' = NoSave
    /\ \/ UNCHANGED <<live, staging>> /\ due' = {FoundFile}
       \/ /\ windows /\ saver.exists
          /\ saver.at = "temp" /\ staging' = Absent /\ UNCHANGED live
          /\ due' = {FoundFile}
       \/ /\ windows /\ saver.exists
          /\ saver.at = "replace" /\ staging # Absent
          /\ live' = staging /\ staging' = Absent
          /\ due' = {staging}
    /\ UNCHANGED <<windows, backups, place, running, restoring, savesDone, previous, fileRaces>>

-----------------------------------------------------------------------------
(* LoadFile, by the owner at its start and under its lock from then on, or *)
(* by another process.                                                     *)

\* The staged file takes the place of a missing one only when it loads.
Restores(c) == c \in Contents

\* The owner loads the file, or finds nothing that loads.
LoadConfig ==
    /\ saver = NoSave /\ "owner" \notin restoring
    /\ live # Absent \/ ~Restores(staging)
    /\ running' = (running \/ live \in Contents)
    /\ due' = IF live \in Contents THEN {live} ELSE due
    /\ UNCHANGED <<windows, live, staging, backups, place, saver, restoring, savesDone, fileFaults, previous, fileRaces>>

\* The file is missing, and the staged one is read and loads ...
FindStaged(p) ==
    /\ p \notin restoring /\ (p = "owner" => saver = NoSave)
    /\ live = Absent /\ Restores(staging)
    /\ restoring' = restoring \cup {p}
    /\ UNCHANGED <<windows, live, staging, backups, place, saver, running, savesDone, fileFaults, due, previous, fileRaces>>

\* ... and it is renamed, if it is still there, over whatever is there by now.
RestoreStaged(p) ==
    /\ p \in restoring
    /\ restoring' = restoring \ {p}
    /\ IF staging = Absent THEN UNCHANGED <<live, staging, running, due, fileRaces>>
       ELSE /\ live' = staging /\ staging' = Absent
            /\ running' = (running \/ p = "owner")
            /\ due' = IF p = "owner" THEN {staging} ELSE due
            /\ fileRaces' = IF live = Absent THEN fileRaces ELSE fileRaces \cup {"restore"}
    /\ UNCHANGED <<windows, backups, place, saver, savesDone, fileFaults, previous>>

-----------------------------------------------------------------------------
(* The environment.                                                        *)

CrashOwner ==
    /\ running /\ FileFault
    /\ running' = FALSE /\ saver' = NoSave /\ restoring' = restoring \ {"owner"}
    /\ UNCHANGED <<windows, live, staging, backups, place, savesDone, due, previous, fileRaces>>

\* An editor takes no lock.
EditConfig(c) ==
    /\ FileFault /\ live # c
    /\ live' = c
    /\ IF saver.at \in {"temp", "replace"}
       THEN due' = {c, saver.new} /\ fileRaces' = fileRaces \cup {"edit"}
       ELSE due' = {c} /\ UNCHANGED fileRaces
    /\ UNCHANGED <<windows, staging, backups, place, saver, running, restoring, savesDone, previous>>

\* The clock passes the times in the names of backups, or is set back.
MoveClock(n) ==
    /\ n # place /\ place' = n
    /\ IF n < place THEN FileFault ELSE UNCHANGED fileFaults
    /\ UNCHANGED <<windows, live, staging, backups, saver, running, restoring, savesDone, due, previous, fileRaces>>

FilesNext ==
    \/ \E c \in Contents : SaveBegin(c)
    \/ SaveStage \/ SaveReplace \/ SaveFinish \/ SaveFails
    \/ LoadConfig \/ CrashOwner
    \/ \E p \in {"owner", "other"} : FindStaged(p) \/ RestoreStaged(p)
    \/ \E c \in Contents \cup {Garbled} : EditConfig(c)
    \/ \E n \in 0..Len(backups) : MoveClock(n)

FilesSpec == FilesInit /\ [][FilesNext]_fileVars

-----------------------------------------------------------------------------
\* Whatever is interrupted and whatever fails, a restart finds the
\* configuration that was last saved or edited, or, while a Save was under
\* way, either the old or the new one; only a process that restores a staged
\* file over one that appeared meanwhile takes a Save or an edit back.  And
\* the document a Save replaced is among the backups, as the comment at
\* persist.go:106 says, with that exception and two more: an edit between the
\* copy (persist.go:136) and the rename (persist.go:166-172) is replaced and
\* in no backup, and after the clock was set back behind all names trimming
\* (persist.go:193) removes the copy just made (persist.go:56-75, 108-197).
ConfigSurvives ==
    /\ "restore" \notin fileRaces => FoundFile \in due
    /\ fileRaces = {} /\ previous # Absent => previous \in ToSet(backups)
=============================================================================
