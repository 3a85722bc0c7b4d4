-------------------------- MODULE EdgeControlProofs --------------------------
(***************************************************************************)
(* Proofs about EdgeProxy's configuration control plane, for every set of  *)
(* configurations, files and environments and every number of edits,       *)
(* faults and revisions.                                                   *)
(***************************************************************************)
EXTENDS EdgeControl, TLAPS

TxRecords == [who : Holders \cup {None}, stage : Stages, file : Configs \cup {None},
              next : AllConfigs \cup {None}, base : Configs \cup {None},
              handler : {"none", "old", "this"}, rev : Nat, oldPath : Paths \cup {None},
              digest : Configs \cup {Bad, None}, restart : BOOLEAN, torn : BOOLEAN]

WatchRecords == [at : {"idle", "load", "set", "inTx", "undo", "after"},
                 digest : Environments \cup {None}, previous : Environments \cup {None},
                 installed : BOOLEAN, undo : BOOLEAN]

Numbered == {"restart", "send", "hot", "commit"}
\* The watcher's transaction on the file that the environment names now.
Switching == tx.who = "env" /\ tx.oldPath = None /\ procEnv.path # path
Loaded == {"target", "apply", "number", "restart", "send", "hot", "commit", "done"}

\* The locals of a transaction are set where they are read.
TxOK ==
    /\ tx \in TxRecords
    /\ tx.who = None => tx = NoTx
    /\ tx.stage = "free" => tx = NoTx
    /\ tx.who # None => tx.file \in Configs \/ (tx.who = "file" /\ tx.stage \in {"read", "failed"})
    /\ tx.who = "api" => tx.base \in Configs
    /\ tx.stage = "read" => tx.who = "file"
    /\ tx.stage = "target" => Switching
    /\ Switching => tx.stage \in {"load", "target", "failed"}
    /\ tx.oldPath # None => tx.stage # "load"
    /\ tx.stage \in Loaded => tx.next \in AllConfigs
    /\ tx.who = "file" => tx.digest # None
    /\ tx.oldPath # None => tx.who = "env" /\ tx.digest # None
    /\ tx.stage \in {"restart", "send"} => tx.restart
    /\ tx.stage \in {"hot", "commit"} => ~tx.restart

\* And those of the watcher; it is inside a transaction of its own exactly
\* while it waits for one.
WatchOK ==
    /\ watch \in WatchRecords
    /\ watch.at # "idle" => watch.digest # None
    /\ ~ManagedMuFree => watch.previous # None
    /\ watch.at = "inTx" <=> tx.who = "env"
    /\ tx.who = "file" => watch.at = "idle"

\* A transaction that has counted its revision has counted the newest one.
RevisionInv ==
    /\ revision + Owed <= MaxRevision
    /\ tx.stage \in Numbered => tx.rev = revision

\* What is hot-applied, and what recovery goes back to, has been bound.
BoundInv ==
    /\ bound = {} => /\ loop \in {"start", "exit"} /\ ~fallback /\ cfg = current
                     /\ tx = NoTx /\ handler = "none" /\ watch.at = "idle"
    /\ bound # {} => current.listen \in bound
    /\ loop = "bound" => cfg.listen \in bound
    /\ tx.stage \in {"number", "hot", "commit"} /\ ~tx.restart => tx.next.listen \in bound
    /\ FallbackWasBound

Committed == tx.stage \in {"send", "done"}
Known(p) == persisted = file[p] \/ rejected

\* Which digest the watcher will hold when the transaction ends, and what the
\* manager has then.
FileInv ==
    /\ tx.who # None /\ Committed => persisted = tx.file
    /\ "edit" \notin races =>
        /\ tx.who = None /\ file[path] = lastDigest => Known(path)
        /\ tx.who = "api" => file[path] = tx.file /\ (Committed \/ persisted = tx.base)
        /\ tx.who \in {"reload", "env"} /\ tx.oldPath = None /\ file[path] = lastDigest
             => /\ Committed \/ Known(path)
                /\ Switching \/ tx.file = file[path]
        /\ tx.who = "file" /\ file[path] = tx.digest
             => tx.stage \in {"read", "failed"} \/ tx.file = tx.digest
        /\ Switching /\ tx.stage # "failed" => tx.file = file[procEnv.path]
        /\ tx.oldPath # None => /\ lastDigest = tx.file
                                /\ file[tx.oldPath] = tx.digest => Committed \/ Known(tx.oldPath)

\* What the run loop will serve once it has taken every restart requested.
Will == IF restartCh # None THEN restartCh ELSE IF loop = "serve" THEN running ELSE cfg
\* The environment of the transaction, once it is committed.
TxEnv == IF tx.who = "env" THEN procEnv ELSE EnvInForce
Recovering == loop \in {"restoreEnv", "restoreFile", "exit"}

ServeInv ==
    /\ loop = "serve" => handler = "this"
    /\ loop \in {"bound", "serve"} => open
    /\ Committed /\ "torn" \notin races => ~tx.torn
    /\ races = {} /\ ~Recovering /\ tx.stage \notin {"send", "commit", "done"}
         => Will = Overlay(persisted, EnvInForce)
    /\ races \subseteq {"torn"} /\ ~Recovering =>
        /\ loop = "bound" => running = cfg
        /\ tx.stage \in {"commit", "done"} => Will = tx.next
        /\ tx.stage \in Loaded /\ ~tx.torn => tx.next = Overlay(tx.file, TxEnv)
        /\ tx.stage \in {"number", "hot", "commit"} /\ ~tx.restart
             => loop = "serve" /\ restartCh = None /\ tx.handler = "this"

ControlInv == TypeOK /\ TxOK /\ WatchOK /\ RevisionInv /\ BoundInv /\ FileInv /\ ServeInv

\* A step of the program that is running.
Step == \/ Edit \/ BeginReload \/ TxStep \/ WatchStep \/ LoopStep \/ Stop
        \/ \E c \in Configs : BeginUpdate(c)

\* The override of the environment yields a configuration (config.go).
LEMMA OverlayIsConfig == \A c \in AllConfigs, e \in Environments : Overlay(c, e) \in AllConfigs
BY ControlValues DEF Overlay, AllConfigs

USE DEF disk, manager, server, ghosts, status, NoTx, Resting, Holders, Stages, FileRead, Source, AppliedRace,
        Reloadable, Managed, Room, Owed, One, Race, UnvalidatedEnv, Ticking, Fault, NoFault,
        InHandler, ApiUp, ManagedMuFree, Switching

\* No step takes a revision number back: Attach applies the newest one and a
\* hot commit its own, which is the newest (manager.go:104, manager.go:343).
LEMMA RevisionsForward ==
  ASSUME ControlInv, Step PROVE revision' >= revision /\ applied' >= applied
<1> USE ControlValues, ControlBounds DEF CountsOK, RevisionInv, Numbered
<1>0. CountsOK /\ RevisionInv
  BY DEF ControlInv, TypeOK
<1>1. CASE \E p \in Paths, c \in Configs \cup {Bad} : EditFile(p, c)
  BY <1>0, <1>1 DEF EditFile
<1>2. CASE \E e \in Environments : EditEnv(e) BY <1>0, <1>2 DEF EditEnv
<1>3. CASE \E c \in Configs : BeginUpdate(c) BY <1>0, <1>3 DEF BeginUpdate
<1>4. CASE BeginReload \/ Load \/ UpdateDone \/ UpdateRollback \/ ReloadEnds
  BY <1>0, <1>4 DEF BeginReload, Load, UpdateDone, UpdateRollback, Restored, ReloadEnds
<1>5. CASE Apply \/ Number \/ ApplyFails \/ ScheduleRestart \/ SendRestart
           \/ HotReload \/ HotCommit
  BY <1>0, <1>5 DEF Apply, Number, ApplyFails, ScheduleRestart, SendRestart, Sent,
     HotReload, HotCommit, OwnRevision
<1>6. CASE FileTick \/ ReadFile \/ FileEnds
  BY <1>0, <1>6 DEF FileTick, ReadFile, FileEnds
<1>7. CASE EnvTick \/ EnvSet \/ EnvReread \/ EnvSwitch \/ EnvRefused \/ EnvTarget
           \/ EnvDone \/ EnvFailed \/ EnvUndo \/ EnvAfter
  BY <1>0, <1>7 DEF EnvTick, EnvSet, EnvReread, EnvSwitch, EnvRefused, EnvTarget,
     EnvDone, EnvFailed, EnvUndo, EnvAfter
<1>8. CASE StartOk \/ StartFails \/ Attach \/ TakeRestart \/ Stop \/ Drained
           \/ DrainTimeout \/ FoldRestart
  BY <1>0, <1>8 DEF StartOk, StartFails, Attach, AttachedScheduled, TakeRestart, Stop,
     Drained, DrainTimeout, FoldRestart
<1>9. CASE RestoreEnv \/ RestoreFile
  BY <1>0, <1>9 DEF RestoreEnv, RestoreFile, Recovered
<1> QED
  BY <1>1, <1>2, <1>3, <1>4, <1>5, <1>6, <1>7, <1>8, <1>9 DEF Step, Edit, TxStep,
     WatchStep, LoopStep

\* Every step leaves each file a configuration or rejected content, and the
\* paths, the digest and the environments ones that exist: a failed change of
\* EDGEPROXY_CONFIG goes back to a path and a digest it saved (manager.go:470).
LEMMA FilesKept ==
  ASSUME ControlInv, Step PROVE FilesOK'
<1> USE ControlValues, ControlBounds DEF FilesOK, ConfigsOK, TxOK, TxRecords, WatchOK,
     WatchRecords
<1>0. FilesOK /\ ConfigsOK /\ TxOK /\ WatchOK
  BY DEF ControlInv, TypeOK
<1>1. CASE \E p \in Paths, c \in Configs \cup {Bad} : EditFile(p, c)
  BY <1>0, <1>1 DEF EditFile
<1>2. CASE \E e \in Environments : EditEnv(e) BY <1>0, <1>2 DEF EditEnv
<1>3. CASE \E c \in Configs : BeginUpdate(c) BY <1>0, <1>3 DEF BeginUpdate
<1>4. CASE BeginReload BY <1>0, <1>4 DEF BeginReload
<1>5. CASE Load BY <1>0, <1>5 DEF Load
<1>6. CASE UpdateDone BY <1>0, <1>6 DEF UpdateDone
<1>7. CASE UpdateRollback BY <1>0, <1>7 DEF UpdateRollback, Restored
<1>8. CASE ReloadEnds BY <1>0, <1>8 DEF ReloadEnds
<1>9. CASE Apply BY <1>0, <1>9 DEF Apply
<1>10. CASE Number BY <1>0, <1>10 DEF Number
<1>11. CASE ApplyFails BY <1>0, <1>11 DEF ApplyFails
<1>12. CASE ScheduleRestart BY <1>0, <1>12 DEF ScheduleRestart
<1>13. CASE SendRestart BY <1>0, <1>13 DEF SendRestart, Sent
<1>14. CASE HotReload BY <1>0, <1>14 DEF HotReload
<1>15. CASE HotCommit BY <1>0, <1>15 DEF HotCommit, OwnRevision
<1>16. CASE FileTick BY <1>0, <1>16 DEF FileTick
<1>17. CASE ReadFile BY <1>0, <1>17 DEF ReadFile
<1>18. CASE FileEnds BY <1>0, <1>18 DEF FileEnds
<1>19. CASE EnvTick BY <1>0, <1>19 DEF EnvTick
<1>20. CASE EnvSet BY <1>0, <1>20 DEF EnvSet
<1>21. CASE EnvReread BY <1>0, <1>21 DEF EnvReread
<1>22. CASE EnvSwitch BY <1>0, <1>22 DEF EnvSwitch
<1>23. CASE EnvRefused BY <1>0, <1>23 DEF EnvRefused
<1>24. CASE EnvTarget BY <1>0, <1>24 DEF EnvTarget
<1>25. CASE EnvDone BY <1>0, <1>25 DEF EnvDone
<1>26. CASE EnvFailed BY <1>0, <1>26 DEF EnvFailed
<1>27. CASE EnvUndo BY <1>0, <1>27 DEF EnvUndo
<1>28. CASE EnvAfter BY <1>0, <1>28 DEF EnvAfter
<1>29. CASE StartOk BY <1>0, <1>29 DEF StartOk
<1>30. CASE StartFails BY <1>0, <1>30 DEF StartFails
<1>31. CASE Attach BY <1>0, <1>31 DEF Attach, AttachedScheduled
<1>32. CASE TakeRestart BY <1>0, <1>32 DEF TakeRestart
<1>33. CASE Stop BY <1>0, <1>33 DEF Stop
<1>34. CASE Drained BY <1>0, <1>34 DEF Drained
<1>35. CASE DrainTimeout BY <1>0, <1>35 DEF DrainTimeout
<1>36. CASE FoldRestart BY <1>0, <1>36 DEF FoldRestart
<1>37. CASE RestoreEnv BY <1>0, <1>37 DEF RestoreEnv
<1>38. CASE RestoreFile BY <1>0, <1>38 DEF RestoreFile, Recovered
<1> QED
  BY <1>1, <1>2, <1>3, <1>4, <1>5, <1>6, <1>7, <1>8, <1>9, <1>10, <1>11, <1>12, <1>13,
     <1>14, <1>15, <1>16, <1>17, <1>18, <1>19, <1>20, <1>21, <1>22, <1>23, <1>24, <1>25,
     <1>26, <1>27, <1>28, <1>29, <1>30, <1>31, <1>32, <1>33, <1>34, <1>35, <1>36, <1>37,
     <1>38 DEF Step, Edit, TxStep, WatchStep, LoopStep

\* What a step hands to a handler, to the restart channel or to the run loop is
\* a configuration (manager.go:305, run.go:109).
LEMMA ConfigsKept ==
  ASSUME ControlInv, Step PROVE ConfigsOK'
<1> USE ControlValues, ControlBounds DEF FilesOK, ConfigsOK, TxOK, TxRecords, Loaded,
     AllConfigs
<1>0. FilesOK /\ ConfigsOK /\ TxOK
  BY DEF ControlInv, TypeOK
<1>1. CASE \E p \in Paths, c \in Configs \cup {Bad} : EditFile(p, c)
  BY <1>0, <1>1 DEF EditFile
<1>2. CASE \E e \in Environments : EditEnv(e) BY <1>0, <1>2 DEF EditEnv
<1>3. CASE \E c \in Configs : BeginUpdate(c) BY <1>0, <1>3 DEF BeginUpdate
<1>4. CASE BeginReload BY <1>0, <1>4, OverlayIsConfig DEF BeginReload
<1>5. CASE Load BY <1>0, <1>5, OverlayIsConfig DEF Load
<1>6. CASE UpdateDone BY <1>0, <1>6 DEF UpdateDone
<1>7. CASE UpdateRollback BY <1>0, <1>7 DEF UpdateRollback, Restored
<1>8. CASE ReloadEnds BY <1>0, <1>8 DEF ReloadEnds
<1>9. CASE Apply BY <1>0, <1>9 DEF Apply
<1>10. CASE Number BY <1>0, <1>10 DEF Number
<1>11. CASE ApplyFails BY <1>0, <1>11 DEF ApplyFails
<1>12. CASE ScheduleRestart BY <1>0, <1>12 DEF ScheduleRestart
<1>13. CASE SendRestart BY <1>0, <1>13 DEF SendRestart, Sent
<1>14. CASE HotReload BY <1>0, <1>14 DEF HotReload
<1>15. CASE HotCommit BY <1>0, <1>15 DEF HotCommit, OwnRevision
<1>16. CASE FileTick BY <1>0, <1>16, OverlayIsConfig DEF FileTick
<1>17. CASE ReadFile BY <1>0, <1>17 DEF ReadFile
<1>18. CASE FileEnds BY <1>0, <1>18 DEF FileEnds
<1>19. CASE EnvTick BY <1>0, <1>19 DEF EnvTick
<1>20. CASE EnvSet BY <1>0, <1>20 DEF EnvSet
<1>21. CASE EnvReread BY <1>0, <1>21, OverlayIsConfig DEF EnvReread
<1>22. CASE EnvSwitch BY <1>0, <1>22, OverlayIsConfig DEF EnvSwitch
<1>23. CASE EnvRefused BY <1>0, <1>23 DEF EnvRefused
<1>24. CASE EnvTarget BY <1>0, <1>24 DEF EnvTarget
<1>25. CASE EnvDone BY <1>0, <1>25 DEF EnvDone
<1>26. CASE EnvFailed BY <1>0, <1>26 DEF EnvFailed
<1>27. CASE EnvUndo BY <1>0, <1>27 DEF EnvUndo
<1>28. CASE EnvAfter BY <1>0, <1>28 DEF EnvAfter
<1>29. CASE StartOk BY <1>0, <1>29 DEF StartOk
<1>30. CASE StartFails BY <1>0, <1>30 DEF StartFails
<1>31. CASE Attach BY <1>0, <1>31 DEF Attach, AttachedScheduled
<1>32. CASE TakeRestart BY <1>0, <1>32 DEF TakeRestart
<1>33. CASE Stop BY <1>0, <1>33 DEF Stop
<1>34. CASE Drained BY <1>0, <1>34 DEF Drained
<1>35. CASE DrainTimeout BY <1>0, <1>35 DEF DrainTimeout
<1>36. CASE FoldRestart BY <1>0, <1>36 DEF FoldRestart
<1>37. CASE RestoreEnv BY <1>0, <1>37 DEF RestoreEnv
<1>38. CASE RestoreFile BY <1>0, <1>38 DEF RestoreFile, Recovered
<1> QED
  BY <1>1, <1>2, <1>3, <1>4, <1>5, <1>6, <1>7, <1>8, <1>9, <1>10, <1>11, <1>12, <1>13,
     <1>14, <1>15, <1>16, <1>17, <1>18, <1>19, <1>20, <1>21, <1>22, <1>23, <1>24, <1>25,
     <1>26, <1>27, <1>28, <1>29, <1>30, <1>31, <1>32, <1>33, <1>34, <1>35, <1>36, <1>37,
     <1>38 DEF Step, Edit, TxStep, WatchStep, LoopStep

\* The goroutines stay at the places they have in the code.
LEMMA PlacesKept ==
  ASSUME ControlInv, Step PROVE PlacesOK'
<1> USE ControlValues, ControlBounds DEF PlacesOK, TxOK, TxRecords, WatchOK,
     WatchRecords, Races
<1>0. PlacesOK /\ TxOK /\ WatchOK
  BY DEF ControlInv, TypeOK
<1>1. CASE \E p \in Paths, c \in Configs \cup {Bad} : EditFile(p, c)
  BY <1>0, <1>1 DEF EditFile
<1>2. CASE \E e \in Environments : EditEnv(e) BY <1>0, <1>2 DEF EditEnv
<1>3. CASE \E c \in Configs : BeginUpdate(c) BY <1>0, <1>3 DEF BeginUpdate
<1>4. CASE BeginReload BY <1>0, <1>4 DEF BeginReload
<1>5. CASE Load BY <1>0, <1>5 DEF Load
<1>6. CASE UpdateDone BY <1>0, <1>6 DEF UpdateDone
<1>7. CASE UpdateRollback BY <1>0, <1>7 DEF UpdateRollback, Restored
<1>8. CASE ReloadEnds BY <1>0, <1>8 DEF ReloadEnds
<1>9. CASE Apply BY <1>0, <1>9 DEF Apply
<1>10. CASE Number BY <1>0, <1>10 DEF Number
<1>11. CASE ApplyFails BY <1>0, <1>11 DEF ApplyFails
<1>12. CASE ScheduleRestart BY <1>0, <1>12 DEF ScheduleRestart
<1>13. CASE SendRestart BY <1>0, <1>13 DEF SendRestart, Sent
<1>14. CASE HotReload BY <1>0, <1>14 DEF HotReload
<1>15. CASE HotCommit BY <1>0, <1>15 DEF HotCommit, OwnRevision
<1>16. CASE FileTick BY <1>0, <1>16 DEF FileTick
<1>17. CASE ReadFile BY <1>0, <1>17 DEF ReadFile
<1>18. CASE FileEnds BY <1>0, <1>18 DEF FileEnds
<1>19. CASE EnvTick BY <1>0, <1>19 DEF EnvTick
<1>20. CASE EnvSet BY <1>0, <1>20 DEF EnvSet
<1>21. CASE EnvReread BY <1>0, <1>21 DEF EnvReread
<1>22. CASE EnvSwitch BY <1>0, <1>22 DEF EnvSwitch
<1>23. CASE EnvRefused BY <1>0, <1>23 DEF EnvRefused
<1>24. CASE EnvTarget BY <1>0, <1>24 DEF EnvTarget
<1>25. CASE EnvDone BY <1>0, <1>25 DEF EnvDone
<1>26. CASE EnvFailed BY <1>0, <1>26 DEF EnvFailed
<1>27. CASE EnvUndo BY <1>0, <1>27 DEF EnvUndo
<1>28. CASE EnvAfter BY <1>0, <1>28 DEF EnvAfter
<1>29. CASE StartOk BY <1>0, <1>29 DEF StartOk
<1>30. CASE StartFails BY <1>0, <1>30 DEF StartFails
<1>31. CASE Attach BY <1>0, <1>31 DEF Attach, AttachedScheduled
<1>32. CASE TakeRestart BY <1>0, <1>32 DEF TakeRestart
<1>33. CASE Stop BY <1>0, <1>33 DEF Stop
<1>34. CASE Drained BY <1>0, <1>34 DEF Drained
<1>35. CASE DrainTimeout BY <1>0, <1>35 DEF DrainTimeout
<1>36. CASE FoldRestart BY <1>0, <1>36 DEF FoldRestart
<1>37. CASE RestoreEnv BY <1>0, <1>37 DEF RestoreEnv
<1>38. CASE RestoreFile BY <1>0, <1>38 DEF RestoreFile, Recovered
<1> QED
  BY <1>1, <1>2, <1>3, <1>4, <1>5, <1>6, <1>7, <1>8, <1>9, <1>10, <1>11, <1>12, <1>13,
     <1>14, <1>15, <1>16, <1>17, <1>18, <1>19, <1>20, <1>21, <1>22, <1>23, <1>24, <1>25,
     <1>26, <1>27, <1>28, <1>29, <1>30, <1>31, <1>32, <1>33, <1>34, <1>35, <1>36, <1>37,
     <1>38 DEF Step, Edit, TxStep, WatchStep, LoopStep

\* A transaction counts its revision below the bound and applies no revision
\* that was not counted (manager.go:104, manager.go:343).
LEMMA CountsKept ==
  ASSUME ControlInv, Step PROVE CountsOK'
<1> USE ControlValues, ControlBounds DEF CountsOK, RevisionInv, Numbered
<1>0. CountsOK /\ RevisionInv
  BY DEF ControlInv, TypeOK
<1>1. CASE \E p \in Paths, c \in Configs \cup {Bad} : EditFile(p, c)
  BY <1>0, <1>1 DEF EditFile
<1>2. CASE \E e \in Environments : EditEnv(e) BY <1>0, <1>2 DEF EditEnv
<1>3. CASE \E c \in Configs : BeginUpdate(c) BY <1>0, <1>3 DEF BeginUpdate
<1>4. CASE BeginReload \/ Load \/ UpdateDone \/ UpdateRollback \/ ReloadEnds
  BY <1>0, <1>4 DEF BeginReload, Load, UpdateDone, UpdateRollback, Restored, ReloadEnds
<1>5. CASE Apply \/ Number \/ ApplyFails \/ ScheduleRestart \/ SendRestart
           \/ HotReload \/ HotCommit
  BY <1>0, <1>5 DEF Apply, Number, ApplyFails, ScheduleRestart, SendRestart, Sent,
     HotReload, HotCommit, OwnRevision
<1>6. CASE FileTick \/ ReadFile \/ FileEnds
  BY <1>0, <1>6 DEF FileTick, ReadFile, FileEnds
<1>7. CASE EnvTick \/ EnvSet \/ EnvReread \/ EnvSwitch \/ EnvRefused \/ EnvTarget
           \/ EnvDone \/ EnvFailed \/ EnvUndo \/ EnvAfter
  BY <1>0, <1>7 DEF EnvTick, EnvSet, EnvReread, EnvSwitch, EnvRefused, EnvTarget,
     EnvDone, EnvFailed, EnvUndo, EnvAfter
<1>8. CASE StartOk \/ StartFails \/ Attach \/ TakeRestart \/ Stop \/ Drained
           \/ DrainTimeout \/ FoldRestart
  BY <1>0, <1>8 DEF StartOk, StartFails, Attach, AttachedScheduled, TakeRestart, Stop,
     Drained, DrainTimeout, FoldRestart
<1>9. CASE RestoreEnv \/ RestoreFile
  BY <1>0, <1>9 DEF RestoreEnv, RestoreFile, Recovered
<1> QED
  BY <1>1, <1>2, <1>3, <1>4, <1>5, <1>6, <1>7, <1>8, <1>9 DEF Step, Edit, TxStep,
     WatchStep, LoopStep

\* The status flags stay truth values (manager.go:32).
LEMMA FlagsKept ==
  ASSUME ControlInv, Step PROVE FlagsOK'
<1> USE ControlValues, ControlBounds DEF FlagsOK, TxOK, TxRecords
<1>0. FlagsOK /\ TxOK
  BY DEF ControlInv, TypeOK
<1>1. CASE \E p \in Paths, c \in Configs \cup {Bad} : EditFile(p, c)
  BY <1>0, <1>1 DEF EditFile
<1>2. CASE \E e \in Environments : EditEnv(e) BY <1>0, <1>2 DEF EditEnv
<1>3. CASE \E c \in Configs : BeginUpdate(c) BY <1>0, <1>3 DEF BeginUpdate
<1>4. CASE BeginReload \/ Load \/ UpdateDone \/ UpdateRollback \/ ReloadEnds
  BY <1>0, <1>4 DEF BeginReload, Load, UpdateDone, UpdateRollback, Restored, ReloadEnds
<1>5. CASE Apply \/ Number \/ ApplyFails \/ ScheduleRestart \/ SendRestart
           \/ HotReload \/ HotCommit
  BY <1>0, <1>5 DEF Apply, Number, ApplyFails, ScheduleRestart, SendRestart, Sent,
     HotReload, HotCommit, OwnRevision
<1>6. CASE FileTick \/ ReadFile \/ FileEnds
  BY <1>0, <1>6 DEF FileTick, ReadFile, FileEnds
<1>7. CASE EnvTick \/ EnvSet \/ EnvReread \/ EnvSwitch \/ EnvRefused \/ EnvTarget
           \/ EnvDone \/ EnvFailed \/ EnvUndo \/ EnvAfter
  BY <1>0, <1>7 DEF EnvTick, EnvSet, EnvReread, EnvSwitch, EnvRefused, EnvTarget,
     EnvDone, EnvFailed, EnvUndo, EnvAfter
<1>8. CASE StartOk \/ StartFails \/ Attach \/ TakeRestart \/ Stop \/ Drained
           \/ DrainTimeout \/ FoldRestart
  BY <1>0, <1>8 DEF StartOk, StartFails, Attach, AttachedScheduled, TakeRestart, Stop,
     Drained, DrainTimeout, FoldRestart
<1>9. CASE RestoreEnv \/ RestoreFile
  BY <1>0, <1>9 DEF RestoreEnv, RestoreFile, Recovered
<1> QED
  BY <1>1, <1>2, <1>3, <1>4, <1>5, <1>6, <1>7, <1>8, <1>9 DEF Step, Edit, TxStep,
     WatchStep, LoopStep

\* The locals of apply and its callers are set before a later step of the same
\* transaction reads them, Attach and a new generation in between included
\* (manager.go:291).
LEMMA TxKept ==
  ASSUME ControlInv, Step PROVE TxOK'
<1> USE ControlValues, ControlBounds DEF FilesOK, ConfigsOK, PlacesOK, CountsOK, TxOK,
     TxRecords, Loaded
<1>0. FilesOK /\ ConfigsOK /\ PlacesOK /\ CountsOK /\ TxOK
  BY DEF ControlInv, TypeOK
<1>a. watch.at = "inTx" <=> tx.who = "env"
  BY DEF ControlInv, WatchOK
<1>1. CASE \E p \in Paths, c \in Configs \cup {Bad} : EditFile(p, c)
  BY <1>0, <1>1 DEF EditFile
<1>2. CASE \E e \in Environments : EditEnv(e) BY <1>0, <1>2 DEF EditEnv
<1>3. CASE \E c \in Configs : BeginUpdate(c)
  <2>1. PICK c \in Configs : BeginUpdate(c)
    BY <1>3
  <2>2. tx' \in TxRecords
    BY <1>0, <2>1 DEF BeginUpdate
  <2> QED
    BY <1>0, <2>1, <2>2 DEF BeginUpdate
<1>4. CASE BeginReload BY <1>0, <1>4, OverlayIsConfig, ZenonT(60) DEF BeginReload
<1>5. CASE Load
  <2>1. tx.who # None /\ tx.stage # "free" /\ tx.file \in Configs
    BY <1>0, <1>5 DEF Load
  <2>2. CASE file[Source] = Bad
    BY <1>0, <1>5, <2>1, <2>2 DEF Load
  <2>3. CASE file[Source] # Bad
    <3>1. Source \in Paths /\ file[Source] \in Configs /\ file[Source] \in AllConfigs
      BY <1>0, <2>3, SMT DEF Source
    <3>2. PICK n \in AllConfigs, t \in BOOLEAN :
             tx' = [tx EXCEPT !.stage = IF Source = path THEN "apply" ELSE "target",
                              !.next = n, !.torn = t]
      BY <1>0, <1>5, <2>3, <3>1, OverlayIsConfig DEF Load
    <3>3. tx' \in TxRecords
      <4>1. tx \in TxRecords /\ n \in AllConfigs \cup {None} /\ t \in BOOLEAN
        BY <1>0
      <4>2. PICK s \in Stages : tx' = [tx EXCEPT !.stage = s, !.next = n, !.torn = t]
        BY <3>2
      <4> QED
        BY <4>1, <4>2
    <3>4. Switching <=> Source # path
      BY <1>0, <1>5 DEF Load, Source
    <3>5. UNCHANGED <<path, procEnv>>
      BY <1>5 DEF Load
    <3> QED
      BY <1>0, <2>1, <3>2, <3>3, <3>4, <3>5, <1>5 DEF Load
  <2> QED
    BY <2>2, <2>3
<1>6. CASE UpdateDone BY <1>0, <1>6 DEF UpdateDone
<1>7. CASE UpdateRollback BY <1>0, <1>7 DEF UpdateRollback, Restored
<1>8. CASE ReloadEnds BY <1>0, <1>8 DEF ReloadEnds
<1>9. CASE Apply
  <2>1. tx.who # None /\ tx.stage # "free"
    BY <1>0, <1>9 DEF Apply
  <2>2. PICK r \in BOOLEAN : tx' = [tx EXCEPT !.stage = "number", !.handler = handler,
     !.restart = r]
    BY <1>0, <1>9 DEF Apply
  <2>3. tx' \in TxRecords
    BY <1>0, <2>2
  <2> QED
    BY <1>0, <1>9, <2>1, <2>3 DEF Apply
<1>10. CASE Number
  <2>1. tx.who # None /\ tx.stage # "free" /\ revision + 1 \in Nat
    BY <1>0, <1>10 DEF Number
  <2>2. PICK s \in Stages : tx' = [tx EXCEPT !.stage = s, !.rev = revision + 1]
    BY <1>0, <1>10 DEF Number
  <2>3. tx' \in TxRecords
    BY <1>0, <2>1, <2>2, ZenonT(60)
  <2> QED
    BY <1>0, <1>10, <2>1, <2>3 DEF Number
<1>11. CASE ApplyFails
  <2>1. tx.who # None /\ tx.stage # "free"
    BY <1>0, <1>11 DEF ApplyFails
  <2>2. tx' \in TxRecords
    BY <1>0, <1>11 DEF ApplyFails
  <2> QED
    BY <1>0, <1>11, <2>1, <2>2 DEF ApplyFails
<1>12. CASE ScheduleRestart
  <2>1. tx.who # None /\ tx.stage # "free"
    BY <1>0, <1>12 DEF ScheduleRestart
  <2>2. tx' \in TxRecords
    BY <1>0, <1>12 DEF ScheduleRestart
  <2> QED
    BY <1>0, <1>12, <2>1, <2>2 DEF ScheduleRestart
<1>13. CASE SendRestart
  <2>1. tx.who # None /\ tx.stage # "free"
    BY <1>0, <1>13 DEF SendRestart, Sent
  <2>2. tx' \in TxRecords
    BY <1>0, <1>13 DEF SendRestart, Sent
  <2> QED
    BY <1>0, <1>13, <2>1, <2>2 DEF SendRestart, Sent
<1>14. CASE HotReload
  <2>1. tx.who # None /\ tx.stage # "free"
    BY <1>0, <1>14 DEF HotReload
  <2>2. tx' \in TxRecords
    BY <1>0, <1>14 DEF HotReload
  <2> QED
    BY <1>0, <1>14, <2>1, <2>2 DEF HotReload
<1>15. CASE HotCommit
  <2>1. tx.who # None /\ tx.stage # "free"
    BY <1>0, <1>15 DEF HotCommit, OwnRevision
  <2>2. tx' \in TxRecords
    BY <1>0, <1>15 DEF HotCommit, OwnRevision
  <2> QED
    BY <1>0, <1>15, <2>1, <2>2 DEF HotCommit, OwnRevision
<1>16. CASE FileTick BY <1>0, <1>16, OverlayIsConfig, ZenonT(60) DEF FileTick
<1>17. CASE ReadFile
  <2>1. tx.who = "file" /\ tx.stage = "read"
    BY <1>0, <1>17 DEF ReadFile
  <2>2. CASE Reloadable
    <3>1. file[path] \in Configs \cup {None}
      BY <1>0, <2>2
    <3>2. tx' = [tx EXCEPT !.stage = "load", !.file = file[path]]
      BY <1>17, <2>2 DEF ReadFile
    <3>3. tx' \in TxRecords
      BY <1>0, <3>1, <3>2
    <3> QED
      BY <1>0, <1>17, <2>1, <2>2, <3>3 DEF ReadFile
  <2>3. CASE ~Reloadable
    <3>1. tx' = [tx EXCEPT !.stage = "failed"]
      BY <1>17, <2>3 DEF ReadFile
    <3> QED
      BY <1>0, <1>17, <2>1, <3>1 DEF ReadFile
  <2> QED
    BY <2>2, <2>3
<1>18. CASE FileEnds BY <1>0, <1>18 DEF FileEnds
<1>19. CASE EnvTick BY <1>0, <1>19 DEF EnvTick
<1>20. CASE EnvSet BY <1>0, <1>a, <1>20 DEF EnvSet
<1>21. CASE EnvReread
  <2>1. file[path] \in Configs /\ file[path] \in AllConfigs
    BY <1>0, <1>21 DEF EnvReread
  <2>2. Overlay(file[path], procEnv) \in AllConfigs
    BY <1>0, <2>1, OverlayIsConfig
  <2>3. tx' \in TxRecords
    BY <1>0, <1>21, <2>1, <2>2 DEF EnvReread
  <2> QED
    BY <1>0, <1>21, <2>1, <2>2, <2>3 DEF EnvReread
<1>22. CASE EnvSwitch BY <1>0, <1>22, OverlayIsConfig, ZenonT(60) DEF EnvSwitch
<1>23. CASE EnvRefused BY <1>0, <1>23 DEF EnvRefused
<1>24. CASE EnvTarget
  <2>1. tx.who # None /\ tx.stage # "free"
    BY <1>0, <1>24 DEF EnvTarget
  <2>2. tx' \in TxRecords
    BY <1>0, <1>24 DEF EnvTarget
  <2> QED
    BY <1>0, <1>24, <2>1, <2>2 DEF EnvTarget
<1>25. CASE EnvDone BY <1>0, <1>25 DEF EnvDone
<1>26. CASE EnvFailed BY <1>0, <1>26 DEF EnvFailed
<1>27. CASE EnvUndo BY <1>0, <1>a, <1>27 DEF EnvUndo
<1>28. CASE EnvAfter BY <1>0, <1>28 DEF EnvAfter
<1>29. CASE StartOk
  <2>1. CASE tx.handler = "this"
    <3>1. tx' = [tx EXCEPT !.handler = "old"] /\ tx.who # None /\ tx.stage # "free"
      BY <1>0, <1>29, <2>1 DEF StartOk
    <3>2. tx' \in TxRecords
      BY <1>0, <3>1
    <3> QED
      BY <1>0, <1>29, <3>1, <3>2 DEF StartOk
  <2>2. CASE tx.handler # "this"
    BY <1>0, <1>29, <2>2 DEF StartOk
  <2> QED
    BY <2>1, <2>2
<1>30. CASE StartFails BY <1>0, <1>30 DEF StartFails
<1>31. CASE Attach BY <1>0, <1>31 DEF Attach, AttachedScheduled
<1>32. CASE TakeRestart BY <1>0, <1>32 DEF TakeRestart
<1>33. CASE Stop BY <1>0, <1>33 DEF Stop
<1>34. CASE Drained BY <1>0, <1>34 DEF Drained
<1>35. CASE DrainTimeout BY <1>0, <1>35 DEF DrainTimeout
<1>36. CASE FoldRestart BY <1>0, <1>36 DEF FoldRestart
<1>37. CASE RestoreEnv BY <1>0, <1>a, <1>37 DEF RestoreEnv
<1>38. CASE RestoreFile BY <1>0, <1>38 DEF RestoreFile, Recovered
<1> QED
  BY <1>1, <1>2, <1>3, <1>4, <1>5, <1>6, <1>7, <1>8, <1>9, <1>10, <1>11, <1>12, <1>13,
     <1>14, <1>15, <1>16, <1>17, <1>18, <1>19, <1>20, <1>21, <1>22, <1>23, <1>24, <1>25,
     <1>26, <1>27, <1>28, <1>29, <1>30, <1>31, <1>32, <1>33, <1>34, <1>35, <1>36, <1>37,
     <1>38 DEF Step, Edit, TxStep, WatchStep, LoopStep

\* The watcher is inside a transaction exactly while one runs for it, and can
\* always go back to the environment it replaced (envfile.go:142).
LEMMA WatchKept ==
  ASSUME ControlInv, Step PROVE WatchOK'
<1> USE ControlValues, ControlBounds DEF FilesOK, PlacesOK, TxOK, TxRecords, WatchOK,
     WatchRecords
<1>0. FilesOK /\ PlacesOK /\ TxOK /\ WatchOK
  BY DEF ControlInv, TypeOK
<1>1. CASE \E p \in Paths, c \in Configs \cup {Bad} : EditFile(p, c)
  BY <1>0, <1>1 DEF EditFile
<1>2. CASE \E e \in Environments : EditEnv(e) BY <1>0, <1>2 DEF EditEnv
<1>3. CASE \E c \in Configs : BeginUpdate(c) BY <1>0, <1>3 DEF BeginUpdate
<1>4. CASE BeginReload BY <1>0, <1>4 DEF BeginReload
<1>5. CASE Load BY <1>0, <1>5 DEF Load
<1>6. CASE UpdateDone BY <1>0, <1>6 DEF UpdateDone
<1>7. CASE UpdateRollback BY <1>0, <1>7 DEF UpdateRollback, Restored
<1>8. CASE ReloadEnds BY <1>0, <1>8 DEF ReloadEnds
<1>9. CASE Apply BY <1>0, <1>9 DEF Apply
<1>10. CASE Number BY <1>0, <1>10 DEF Number
<1>11. CASE ApplyFails BY <1>0, <1>11 DEF ApplyFails
<1>12. CASE ScheduleRestart BY <1>0, <1>12 DEF ScheduleRestart
<1>13. CASE SendRestart BY <1>0, <1>13 DEF SendRestart, Sent
<1>14. CASE HotReload BY <1>0, <1>14 DEF HotReload
<1>15. CASE HotCommit BY <1>0, <1>15 DEF HotCommit, OwnRevision
<1>16. CASE FileTick BY <1>0, <1>16 DEF FileTick
<1>17. CASE ReadFile BY <1>0, <1>17 DEF ReadFile
<1>18. CASE FileEnds BY <1>0, <1>18 DEF FileEnds
<1>19. CASE EnvTick BY <1>0, <1>19, ZenonT(60) DEF EnvTick
<1>20. CASE EnvSet BY <1>0, <1>20 DEF EnvSet
<1>21. CASE EnvReread BY <1>0, <1>21 DEF EnvReread
<1>22. CASE EnvSwitch BY <1>0, <1>22 DEF EnvSwitch
<1>23. CASE EnvRefused BY <1>0, <1>23 DEF EnvRefused
<1>24. CASE EnvTarget BY <1>0, <1>24 DEF EnvTarget
<1>25. CASE EnvDone BY <1>0, <1>25 DEF EnvDone
<1>26. CASE EnvFailed BY <1>0, <1>26 DEF EnvFailed
<1>27. CASE EnvUndo BY <1>0, <1>27 DEF EnvUndo
<1>28. CASE EnvAfter BY <1>0, <1>28 DEF EnvAfter
<1>29. CASE StartOk BY <1>0, <1>29 DEF StartOk
<1>30. CASE StartFails BY <1>0, <1>30 DEF StartFails
<1>31. CASE Attach BY <1>0, <1>31 DEF Attach, AttachedScheduled
<1>32. CASE TakeRestart BY <1>0, <1>32 DEF TakeRestart
<1>33. CASE Stop BY <1>0, <1>33 DEF Stop
<1>34. CASE Drained BY <1>0, <1>34 DEF Drained
<1>35. CASE DrainTimeout BY <1>0, <1>35 DEF DrainTimeout
<1>36. CASE FoldRestart BY <1>0, <1>36 DEF FoldRestart
<1>37. CASE RestoreEnv BY <1>0, <1>37 DEF RestoreEnv
<1>38. CASE RestoreFile BY <1>0, <1>38 DEF RestoreFile, Recovered
<1> QED
  BY <1>1, <1>2, <1>3, <1>4, <1>5, <1>6, <1>7, <1>8, <1>9, <1>10, <1>11, <1>12, <1>13,
     <1>14, <1>15, <1>16, <1>17, <1>18, <1>19, <1>20, <1>21, <1>22, <1>23, <1>24, <1>25,
     <1>26, <1>27, <1>28, <1>29, <1>30, <1>31, <1>32, <1>33, <1>34, <1>35, <1>36, <1>37,
     <1>38 DEF Step, Edit, TxStep, WatchStep, LoopStep

\* Only a transaction counts a revision, and one at a time: what a transaction
\* has counted is still the newest when it commits (manager.go:297).
LEMMA RevisionsKept ==
  ASSUME ControlInv, Step PROVE RevisionInv'
<1> USE ControlValues, ControlBounds DEF CountsOK, TxOK, TxRecords, WatchOK,
     WatchRecords, RevisionInv, Numbered
<1>0. CountsOK /\ TxOK /\ WatchOK /\ RevisionInv
  BY DEF ControlInv, TypeOK
<1>1. CASE \E p \in Paths, c \in Configs \cup {Bad} : EditFile(p, c)
  BY <1>0, <1>1 DEF EditFile
<1>2. CASE \E e \in Environments : EditEnv(e) BY <1>0, <1>2 DEF EditEnv
<1>3. CASE \E c \in Configs : BeginUpdate(c) BY <1>0, <1>3 DEF BeginUpdate
<1>4. CASE BeginReload BY <1>0, <1>4 DEF BeginReload
<1>5. CASE Load BY <1>0, <1>5 DEF Load
<1>6. CASE UpdateDone BY <1>0, <1>6 DEF UpdateDone
<1>7. CASE UpdateRollback BY <1>0, <1>7 DEF UpdateRollback, Restored
<1>8. CASE ReloadEnds BY <1>0, <1>8 DEF ReloadEnds
<1>9. CASE Apply BY <1>0, <1>9 DEF Apply
<1>10. CASE Number BY <1>0, <1>10 DEF Number
<1>11. CASE ApplyFails BY <1>0, <1>11 DEF ApplyFails
<1>12. CASE ScheduleRestart BY <1>0, <1>12 DEF ScheduleRestart
<1>13. CASE SendRestart BY <1>0, <1>13 DEF SendRestart, Sent
<1>14. CASE HotReload BY <1>0, <1>14 DEF HotReload
<1>15. CASE HotCommit BY <1>0, <1>15 DEF HotCommit, OwnRevision
<1>16. CASE FileTick BY <1>0, <1>16 DEF FileTick
<1>17. CASE ReadFile BY <1>0, <1>17 DEF ReadFile
<1>18. CASE FileEnds BY <1>0, <1>18 DEF FileEnds
<1>19. CASE EnvTick BY <1>0, <1>19 DEF EnvTick
<1>20. CASE EnvSet BY <1>0, <1>20 DEF EnvSet
<1>21. CASE EnvReread BY <1>0, <1>21 DEF EnvReread
<1>22. CASE EnvSwitch BY <1>0, <1>22 DEF EnvSwitch
<1>23. CASE EnvRefused BY <1>0, <1>23 DEF EnvRefused
<1>24. CASE EnvTarget BY <1>0, <1>24 DEF EnvTarget
<1>25. CASE EnvDone BY <1>0, <1>25 DEF EnvDone
<1>26. CASE EnvFailed BY <1>0, <1>26 DEF EnvFailed
<1>27. CASE EnvUndo BY <1>0, <1>27 DEF EnvUndo
<1>28. CASE EnvAfter BY <1>0, <1>28 DEF EnvAfter
<1>29. CASE StartOk BY <1>0, <1>29 DEF StartOk
<1>30. CASE StartFails BY <1>0, <1>30 DEF StartFails
<1>31. CASE Attach BY <1>0, <1>31 DEF Attach, AttachedScheduled
<1>32. CASE TakeRestart BY <1>0, <1>32 DEF TakeRestart
<1>33. CASE Stop BY <1>0, <1>33 DEF Stop
<1>34. CASE Drained BY <1>0, <1>34 DEF Drained
<1>35. CASE DrainTimeout BY <1>0, <1>35 DEF DrainTimeout
<1>36. CASE FoldRestart BY <1>0, <1>36 DEF FoldRestart
<1>37. CASE RestoreEnv BY <1>0, <1>37 DEF RestoreEnv
<1>38. CASE RestoreFile BY <1>0, <1>38 DEF RestoreFile, Recovered
<1> QED
  BY <1>1, <1>2, <1>3, <1>4, <1>5, <1>6, <1>7, <1>8, <1>9, <1>10, <1>11, <1>12, <1>13,
     <1>14, <1>15, <1>16, <1>17, <1>18, <1>19, <1>20, <1>21, <1>22, <1>23, <1>24, <1>25,
     <1>26, <1>27, <1>28, <1>29, <1>30, <1>31, <1>32, <1>33, <1>34, <1>35, <1>36, <1>37,
     <1>38 DEF Step, Edit, TxStep, WatchStep, LoopStep

\* What is applied hot keeps an address that a generation has bound, although
\* Attach may replace the running configuration between the comparison and the
\* commit (manager.go:291, manager.go:343).
LEMMA BoundKept ==
  ASSUME ControlInv, Step PROVE BoundInv'
<1> USE ControlValues, ControlBounds DEF FilesOK, ConfigsOK, PlacesOK, TxOK, TxRecords,
     WatchOK, BoundInv, FallbackWasBound, Loaded
<1>0. FilesOK /\ ConfigsOK /\ PlacesOK /\ TxOK /\ WatchOK /\ BoundInv
  BY DEF ControlInv, TypeOK
<1>1. CASE \E p \in Paths, c \in Configs \cup {Bad} : EditFile(p, c)
  BY <1>0, <1>1 DEF EditFile
<1>2. CASE \E e \in Environments : EditEnv(e) BY <1>0, <1>2 DEF EditEnv
<1>3. CASE \E c \in Configs : BeginUpdate(c) BY <1>0, <1>3 DEF BeginUpdate
<1>4. CASE BeginReload BY <1>0, <1>4 DEF BeginReload
<1>5. CASE Load
  <2>1. bound # {} /\ bound' = bound
    BY <1>0, <1>5 DEF Load
  <2> QED
    BY <1>0, <1>5, <2>1 DEF Load
<1>6. CASE UpdateDone BY <1>0, <1>6 DEF UpdateDone
<1>7. CASE UpdateRollback BY <1>0, <1>7 DEF UpdateRollback, Restored
<1>8. CASE ReloadEnds BY <1>0, <1>8 DEF ReloadEnds
<1>9. CASE Apply
  <2>1. bound # {} /\ bound' = bound
    BY <1>0, <1>9 DEF Apply
  <2> QED
    BY <1>0, <1>9, <2>1 DEF Apply
<1>10. CASE Number
  <2>1. bound # {} /\ bound' = bound
    BY <1>0, <1>10 DEF Number
  <2> QED
    BY <1>0, <1>10, <2>1 DEF Number
<1>11. CASE ApplyFails
  <2>1. bound # {} /\ bound' = bound
    BY <1>0, <1>11 DEF ApplyFails
  <2> QED
    BY <1>0, <1>11, <2>1 DEF ApplyFails
<1>12. CASE ScheduleRestart
  <2>1. bound # {} /\ bound' = bound
    BY <1>0, <1>12 DEF ScheduleRestart
  <2> QED
    BY <1>0, <1>12, <2>1 DEF ScheduleRestart
<1>13. CASE SendRestart
  <2>1. bound # {} /\ bound' = bound
    BY <1>0, <1>13 DEF SendRestart, Sent
  <2> QED
    BY <1>0, <1>13, <2>1 DEF SendRestart, Sent
<1>14. CASE HotReload BY <1>0, <1>14 DEF HotReload
<1>15. CASE HotCommit BY <1>0, <1>15 DEF HotCommit, OwnRevision
<1>16. CASE FileTick BY <1>0, <1>16 DEF FileTick
<1>17. CASE ReadFile BY <1>0, <1>17 DEF ReadFile
<1>18. CASE FileEnds BY <1>0, <1>18 DEF FileEnds
<1>19. CASE EnvTick BY <1>0, <1>19 DEF EnvTick
<1>20. CASE EnvSet BY <1>0, <1>20 DEF EnvSet
<1>21. CASE EnvReread
  <2>1. bound # {} /\ bound' = bound
    BY <1>0, <1>21 DEF EnvReread
  <2> QED
    BY <1>0, <1>21, <2>1 DEF EnvReread
<1>22. CASE EnvSwitch
  <2>1. bound # {} /\ bound' = bound
    BY <1>0, <1>22 DEF EnvSwitch
  <2> QED
    BY <1>0, <1>22, <2>1 DEF EnvSwitch
<1>23. CASE EnvRefused
  <2>1. bound # {} /\ bound' = bound
    BY <1>0, <1>23 DEF EnvRefused
  <2> QED
    BY <1>0, <1>23, <2>1 DEF EnvRefused
<1>24. CASE EnvTarget
  <2>1. bound # {} /\ bound' = bound
    BY <1>0, <1>24 DEF EnvTarget
  <2> QED
    BY <1>0, <1>24, <2>1 DEF EnvTarget
<1>25. CASE EnvDone
  <2>1. bound # {} /\ bound' = bound
    BY <1>0, <1>25 DEF EnvDone
  <2> QED
    BY <1>0, <1>25, <2>1 DEF EnvDone
<1>26. CASE EnvFailed
  <2>1. bound # {} /\ bound' = bound
    BY <1>0, <1>26 DEF EnvFailed
  <2> QED
    BY <1>0, <1>26, <2>1 DEF EnvFailed
<1>27. CASE EnvUndo BY <1>0, <1>27 DEF EnvUndo
<1>28. CASE EnvAfter BY <1>0, <1>28 DEF EnvAfter
<1>29. CASE StartOk BY <1>0, <1>29 DEF StartOk
<1>30. CASE StartFails BY <1>0, <1>30 DEF StartFails
<1>31. CASE Attach BY <1>0, <1>31 DEF Attach, AttachedScheduled
<1>32. CASE TakeRestart BY <1>0, <1>32 DEF TakeRestart
<1>33. CASE Stop BY <1>0, <1>33 DEF Stop
<1>34. CASE Drained BY <1>0, <1>34 DEF Drained
<1>35. CASE DrainTimeout BY <1>0, <1>35 DEF DrainTimeout
<1>36. CASE FoldRestart BY <1>0, <1>36 DEF FoldRestart
<1>37. CASE RestoreEnv BY <1>0, <1>37 DEF RestoreEnv
<1>38. CASE RestoreFile BY <1>0, <1>38, SMTT(30) DEF RestoreFile, Recovered
<1> QED
  BY <1>1, <1>2, <1>3, <1>4, <1>5, <1>6, <1>7, <1>8, <1>9, <1>10, <1>11, <1>12, <1>13,
     <1>14, <1>15, <1>16, <1>17, <1>18, <1>19, <1>20, <1>21, <1>22, <1>23, <1>24, <1>25,
     <1>26, <1>27, <1>28, <1>29, <1>30, <1>31, <1>32, <1>33, <1>34, <1>35, <1>36, <1>37,
     <1>38 DEF Step, Edit, TxStep, WatchStep, LoopStep

\* Each transaction ends with the manager, the file and the digest in step,
\* unless an edit raced with it (manager.go:276, manager.go:470).
LEMMA FileKept ==
  ASSUME ControlInv, Step PROVE FileInv'
<1> USE ControlValues, ControlBounds DEF FilesOK, ConfigsOK, PlacesOK, TxOK, TxRecords,
     WatchOK, FileInv, Committed, Known, Loaded
<1>0. FilesOK /\ ConfigsOK /\ PlacesOK /\ TxOK /\ WatchOK /\ FileInv
  BY DEF ControlInv, TypeOK
<1>1. CASE \E p \in Paths, c \in Configs \cup {Bad} : EditFile(p, c)
  BY <1>0, <1>1 DEF EditFile
<1>2. CASE \E e \in Environments : EditEnv(e) BY <1>0, <1>2 DEF EditEnv
<1>3. CASE \E c \in Configs : BeginUpdate(c) BY <1>0, <1>3 DEF BeginUpdate
<1>4. CASE BeginReload BY <1>0, <1>4 DEF BeginReload
<1>5. CASE Load BY <1>0, <1>5 DEF Load
<1>6. CASE UpdateDone BY <1>0, <1>6 DEF UpdateDone
<1>7. CASE UpdateRollback BY <1>0, <1>7 DEF UpdateRollback, Restored
<1>8. CASE ReloadEnds BY <1>0, <1>8 DEF ReloadEnds
<1>9. CASE Apply BY <1>0, <1>9 DEF Apply
<1>10. CASE Number BY <1>0, <1>10 DEF Number
<1>11. CASE ApplyFails BY <1>0, <1>11 DEF ApplyFails
<1>12. CASE ScheduleRestart BY <1>0, <1>12 DEF ScheduleRestart
<1>13. CASE SendRestart BY <1>0, <1>13 DEF SendRestart, Sent
<1>14. CASE HotReload BY <1>0, <1>14 DEF HotReload
<1>15. CASE HotCommit BY <1>0, <1>15 DEF HotCommit, OwnRevision
<1>16. CASE FileTick BY <1>0, <1>16 DEF FileTick
<1>17. CASE ReadFile BY <1>0, <1>17 DEF ReadFile
<1>18. CASE FileEnds BY <1>0, <1>18 DEF FileEnds
<1>19. CASE EnvTick BY <1>0, <1>19 DEF EnvTick
<1>20. CASE EnvSet BY <1>0, <1>20 DEF EnvSet
<1>21. CASE EnvReread BY <1>0, <1>21 DEF EnvReread
<1>22. CASE EnvSwitch BY <1>0, <1>22 DEF EnvSwitch
<1>23. CASE EnvRefused BY <1>0, <1>23 DEF EnvRefused
<1>24. CASE EnvTarget BY <1>0, <1>24 DEF EnvTarget
<1>25. CASE EnvDone BY <1>0, <1>25 DEF EnvDone
<1>26. CASE EnvFailed BY <1>0, <1>26 DEF EnvFailed
<1>27. CASE EnvUndo BY <1>0, <1>27 DEF EnvUndo
<1>28. CASE EnvAfter BY <1>0, <1>28 DEF EnvAfter
<1>29. CASE StartOk BY <1>0, <1>29 DEF StartOk
<1>30. CASE StartFails BY <1>0, <1>30 DEF StartFails
<1>31. CASE Attach BY <1>0, <1>31 DEF Attach, AttachedScheduled
<1>32. CASE TakeRestart BY <1>0, <1>32 DEF TakeRestart
<1>33. CASE Stop BY <1>0, <1>33 DEF Stop
<1>34. CASE Drained BY <1>0, <1>34 DEF Drained
<1>35. CASE DrainTimeout BY <1>0, <1>35 DEF DrainTimeout
<1>36. CASE FoldRestart BY <1>0, <1>36 DEF FoldRestart
<1>37. CASE RestoreEnv BY <1>0, <1>37 DEF RestoreEnv
<1>38. CASE RestoreFile BY <1>0, <1>38 DEF RestoreFile, Recovered
<1> QED
  BY <1>1, <1>2, <1>3, <1>4, <1>5, <1>6, <1>7, <1>8, <1>9, <1>10, <1>11, <1>12, <1>13,
     <1>14, <1>15, <1>16, <1>17, <1>18, <1>19, <1>20, <1>21, <1>22, <1>23, <1>24, <1>25,
     <1>26, <1>27, <1>28, <1>29, <1>30, <1>31, <1>32, <1>33, <1>34, <1>35, <1>36, <1>37,
     <1>38 DEF Step, Edit, TxStep, WatchStep, LoopStep

\* What the run loop will serve stays what was persisted under the environment
\* in force, through hot changes, restarts that supersede each other, failed
\* transactions and recovery (run.go:109, manager.go:313).
LEMMA ServeKept ==
  ASSUME ControlInv, Step PROVE ServeInv'
<1> USE ControlValues, ControlBounds DEF FilesOK, ConfigsOK, PlacesOK, TxOK, TxRecords,
     WatchOK, WatchRecords, FileInv, ServeInv, Will, TxEnv, EnvInForce, Recovering,
     Loaded, Committed
<1>0. FilesOK /\ ConfigsOK /\ PlacesOK /\ TxOK /\ WatchOK /\ FileInv /\ ServeInv
  BY DEF ControlInv, TypeOK
<1>1. CASE \E p \in Paths, c \in Configs \cup {Bad} : EditFile(p, c)
  BY <1>0, <1>1 DEF EditFile
<1>2. CASE \E e \in Environments : EditEnv(e) BY <1>0, <1>2 DEF EditEnv
<1>3. CASE \E c \in Configs : BeginUpdate(c) BY <1>0, <1>3 DEF BeginUpdate
<1>4. CASE BeginReload BY <1>0, <1>4, SMTT(30) DEF BeginReload
<1>5. CASE Load BY <1>0, <1>5, ZenonT(60) DEF Load
<1>6. CASE UpdateDone BY <1>0, <1>6 DEF UpdateDone
<1>7. CASE UpdateRollback BY <1>0, <1>7 DEF UpdateRollback, Restored
<1>8. CASE ReloadEnds BY <1>0, <1>8 DEF ReloadEnds
<1>9. CASE Apply BY <1>0, <1>9, ZenonT(60) DEF Apply
<1>10. CASE Number BY <1>0, <1>10 DEF Number
<1>11. CASE ApplyFails BY <1>0, <1>11 DEF ApplyFails
<1>12. CASE ScheduleRestart BY <1>0, <1>12 DEF ScheduleRestart
<1>13. CASE SendRestart BY <1>0, <1>13 DEF SendRestart, Sent
<1>14. CASE HotReload BY <1>0, <1>14 DEF HotReload
<1>15. CASE HotCommit BY <1>0, <1>15 DEF HotCommit, OwnRevision
<1>16. CASE FileTick BY <1>0, <1>16 DEF FileTick
<1>17. CASE ReadFile BY <1>0, <1>17 DEF ReadFile
<1>18. CASE FileEnds BY <1>0, <1>18 DEF FileEnds
<1>19. CASE EnvTick BY <1>0, <1>19 DEF EnvTick
<1>20. CASE EnvSet BY <1>0, <1>20 DEF EnvSet
<1>21. CASE EnvReread BY <1>0, <1>21 DEF EnvReread
<1>22. CASE EnvSwitch BY <1>0, <1>22 DEF EnvSwitch
<1>23. CASE EnvRefused BY <1>0, <1>23 DEF EnvRefused
<1>24. CASE EnvTarget BY <1>0, <1>24 DEF EnvTarget
<1>25. CASE EnvDone BY <1>0, <1>25 DEF EnvDone
<1>26. CASE EnvFailed BY <1>0, <1>26 DEF EnvFailed
<1>27. CASE EnvUndo BY <1>0, <1>27 DEF EnvUndo
<1>28. CASE EnvAfter BY <1>0, <1>28 DEF EnvAfter
<1>29. CASE StartOk BY <1>0, <1>29 DEF StartOk
<1>30. CASE StartFails BY <1>0, <1>30 DEF StartFails
<1>31. CASE Attach
  <2>1. loop = "bound" /\ loop' = "serve" /\ handler' = "this" /\ open' = open
    BY <1>31 DEF Attach
  <2>2. UNCHANGED <<tx, watch, races, restartCh, running, cfg, persisted, procEnv,
     EnvInForce, TxEnv>>
    BY <1>31 DEF Attach
  <2> QED
    BY <1>0, <2>1, <2>2
<1>32. CASE TakeRestart BY <1>0, <1>32 DEF TakeRestart
<1>33. CASE Stop BY <1>0, <1>33 DEF Stop
<1>34. CASE Drained BY <1>0, <1>34 DEF Drained
<1>35. CASE DrainTimeout BY <1>0, <1>35 DEF DrainTimeout
<1>36. CASE FoldRestart BY <1>0, <1>36 DEF FoldRestart
<1>37. CASE RestoreEnv BY <1>0, <1>37 DEF RestoreEnv
<1>38. CASE RestoreFile BY <1>0, <1>38 DEF RestoreFile, Recovered
<1> QED
  BY <1>1, <1>2, <1>3, <1>4, <1>5, <1>6, <1>7, <1>8, <1>9, <1>10, <1>11, <1>12, <1>13,
     <1>14, <1>15, <1>16, <1>17, <1>18, <1>19, <1>20, <1>21, <1>22, <1>23, <1>24, <1>25,
     <1>26, <1>27, <1>28, <1>29, <1>30, <1>31, <1>32, <1>33, <1>34, <1>35, <1>36, <1>37,
     <1>38 DEF Step, Edit, TxStep, WatchStep, LoopStep

-----------------------------------------------------------------------------
\* What control.New leaves satisfies every part of the invariant.
LEMMA InitControl == Init => ControlInv
<1> SUFFICES ASSUME Init PROVE ControlInv
  OBVIOUS
<1> USE ControlValues, ControlBounds DEF Init, InitConfig
<1>1. InitConfig \in Configs /\ InitConfig \in AllConfigs
  OBVIOUS
<1>2. Overlay(InitConfig, InitEnv) \in AllConfigs
  BY <1>1, OverlayIsConfig
<1>3. FilesOK /\ FlagsOK
  BY <1>1 DEF FilesOK, FlagsOK
<1>4. ConfigsOK /\ PlacesOK
  BY <1>1, <1>2 DEF ConfigsOK, PlacesOK
<1>5. CountsOK /\ RevisionInv
  BY DEF CountsOK, RevisionInv, Numbered
<1>6. TxOK /\ WatchOK
  BY DEF TxOK, TxRecords, Loaded, WatchOK, WatchRecords
<1>7. BoundInv /\ FileInv
  BY DEF BoundInv, FallbackWasBound, FileInv, Committed, Known
<1>8. ServeInv
  BY <1>2 DEF ServeInv, Will, EnvInForce, Recovering, Loaded
<1> QED
  BY <1>3, <1>4, <1>5, <1>6, <1>7, <1>8 DEF ControlInv, TypeOK

\* The invariant only mentions variables, so a stuttering step keeps it.
LEMMA StutterControl == ASSUME ControlInv, UNCHANGED vars PROVE ControlInv'
<1> USE DEF vars
<1>1. TypeOK'
  BY DEF ControlInv, TypeOK, FilesOK, ConfigsOK, PlacesOK, CountsOK, FlagsOK
<1>2. TxOK' /\ WatchOK' /\ RevisionInv'
  BY DEF ControlInv, TxOK, WatchOK, RevisionInv
<1>3. BoundInv' /\ FileInv'
  BY DEF ControlInv, BoundInv, FallbackWasBound, FileInv, Committed, Known
<1>4. ServeInv'
  BY DEF ControlInv, ServeInv, Will, TxEnv, EnvInForce, Recovering, Committed
<1> QED
  BY <1>1, <1>2, <1>3, <1>4 DEF ControlInv

\* Every step of the API's handlers, the watcher and the run loop keeps it.
LEMMA StepControl == ControlInv /\ [Next]_vars => ControlInv'
<1> SUFFICES ASSUME ControlInv, [Next]_vars PROVE ControlInv'
  OBVIOUS
<1>1. CASE Step
  BY <1>1, FilesKept, ConfigsKept, PlacesKept, CountsKept, FlagsKept, TxKept, WatchKept,
     RevisionsKept, BoundKept, FileKept, ServeKept DEF ControlInv, TypeOK
<1>2. CASE UNCHANGED vars
  BY <1>2, StutterControl
<1> QED
  BY <1>1, <1>2 DEF Next, Step, Exited

\* The whole invariant holds of every reachable state of the control plane,
\* Update, Reload, the watcher, Attach and recovery interleaved
\* (manager.go, run.go).
THEOREM ControlInvariant == Spec => []ControlInv
BY InitControl, StepControl, PTL DEF Spec

\* The files, the manager's fields, the channel and the status hold values of
\* their kind, and no revision is applied that was not counted (manager.go:32).
THEOREM ControlTypes == Spec => []TypeOK
<1>1. ControlInv => TypeOK
  BY DEF ControlInv
<1> QED
  BY <1>1, ControlInvariant, PTL

\* Without a racing edit the manager has what is in the file, or the watcher
\* has refused it, whenever no transaction runs and the digest shows nothing
\* new (manager.go:276, manager.go:470).
THEOREM EditsAreKept == Spec => []OnlyRacingEditsAreLost
<1>1. ControlInv => OnlyRacingEditsAreLost
  BY DEF ControlInv, FileInv, Known, OnlyRacingEditsAreLost, Quiet
<1> QED
  BY <1>1, ControlInvariant, PTL

\* Once nothing is in progress the generation that serves runs what is
\* persisted, after any number of failed changes, superseded restarts and
\* recoveries, unless one of the races was met (run.go:109, manager.go:313).
THEOREM PersistedIsServed == Spec => []ServesWhatIsPersisted
<1>1. ControlInv => ServesWhatIsPersisted
  BY DEF ControlInv, ServeInv, Will, EnvInForce, Recovering, ServesWhatIsPersisted, Settled, Quiet
<1> QED
  BY <1>1, ControlInvariant, PTL

\* Recovery never starts on an address that no generation has bound
\* (manager.go:110).
THEOREM FallbackIsBound == Spec => []FallbackWasBound
<1>1. ControlInv => FallbackWasBound
  BY DEF ControlInv, BoundInv
<1> QED
  BY <1>1, ControlInvariant, PTL

\* Revision numbers and the applied revision never go back
\* (manager.go:104, manager.go:343).
THEOREM RevisionsOnlyGrow == Spec => RevisionsGrow
<1>1. ControlInv /\ [Next]_vars => [revision' >= revision /\ applied' >= applied]_vars
  BY RevisionsForward DEF Next, Step, Exited
<1> QED
  BY <1>1, ControlInvariant, PTL DEF Spec, RevisionsGrow
=============================================================================
