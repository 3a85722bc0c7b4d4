----------------------------- MODULE EdgeControl -----------------------------
(***************************************************************************)
(* EdgeProxy's configuration control plane: control.Manager               *)
(* (apps/edgeproxy/internal/control/manager.go), the listener generations  *)
(* of server.runLoop (internal/server/run.go) and the dotenv transaction   *)
(* they share (internal/envfile/envfile.go).                               *)
(*                                                                         *)
(* Three goroutines act: the API handler that runs Update, the watcher,    *)
(* and the run loop.  m.mu sections are single steps.  transactionMu is    *)
(* held by tx.who from the start of a transaction to its end, managedMu by *)
(* the watcher in envMu.  A file's digest is its content.                  *)
(*                                                                         *)
(* A configuration is its restart-required part, listen, and its hot part, *)
(* routes.  An environment may override listen and chooses the file.       *)
(***************************************************************************)
EXTENDS Integers

CONSTANTS Listens,        \* values of the fields restartRequiredChanges compares
          Routes,         \* values of every other field
          Configs,        \* the configurations somebody may write
          Paths,          \* configuration files
          Environments,   \* dotenv contents: [listen, path]
          InitEnv, InitFile,   \* the dotenv file and the files at startup
          Bad,            \* content that LoadFile rejects
          None,
          MaxRevision,    \* bound on m.status.Revision
          MaxEdits,       \* bound on edits of the files by others
          MaxFaults       \* bound on preflights, reloads and starts that fail

AllConfigs == [listen : Listens, routes : Routes]

\* Who may hold transactionMu.
Holders == {"api", "reload", "file", "env"}

ASSUME ControlValues == /\ Configs \subseteq AllConfigs /\ Bad \notin AllConfigs
                        /\ None \notin AllConfigs \cup Environments \cup Listens \cup Paths \cup Holders \cup {Bad}
                        /\ Environments \subseteq [listen : Listens \cup {None}, path : Paths]
                        /\ InitEnv \in Environments
                        /\ InitFile \in [Paths -> Configs]
ASSUME ControlBounds == MaxRevision \in Nat \ {0} /\ MaxEdits \in Nat /\ MaxFaults \in Nat

VARIABLES
    file,           \* file[p]: what is on disk
    envFile,        \* what is in the dotenv file
    procEnv,        \* the dotenv-managed process environment
    path, handler, current, persisted, healthyPath, healthyConfig, lastDigest, lastEnv,
    restartCh,      \* the one-slot channel, None when empty
    envFrom,        \* restartEnvironmentFrom
    revision, applied, scheduled,   \* m.status
    tx,             \* the transaction that holds transactionMu
    watch,          \* the watcher goroutine: where it is and its locals
    loop,           \* the run loop: where it is
    cfg, fallback,  \* its variables cfg (also next) and restartFallbackAvailable
    running,        \* the configuration the generation's handler serves
    open,           \* that handler is not closed
    edits, faults,  \* how many happened
    bound,          \* ghost: listen values a generation has bound so far
    rejected,       \* ghost: the watcher refused what is in the file
    races           \* ghost: the races met so far, see Races

(***************************************************************************)
(* "edit": an edit that the watcher's digest cannot show it;               *)
(* "drain": a change found hot-applicable while the listeners of that      *)
(*        generation drain;                                                *)
(* "hot": the same while a restart is queued or the next one starts;       *)
(* "env": a configuration loaded under an environment not validated yet;   *)
(* "rollback": a recovery whose snapshot is not what the last generation   *)
(*        ran, see RollbackPointWasBound, or under another environment;    *)
(* "torn": an edit between the two reads of the file by one transaction,   *)
(*        so that what it persists is not what it has running; over with   *)
(*        the next transaction that is applied.                            *)
(***************************************************************************)
Races == {"edit", "drain", "hot", "env", "rollback", "torn"}

status  == <<revision, applied, scheduled>>
manager == <<path, handler, current, persisted, healthyPath, healthyConfig, lastDigest,
             lastEnv, restartCh, envFrom, status>>
disk    == <<file, envFile, edits>>
server  == <<loop, cfg, fallback, running, open, bound>>
ghosts  == <<rejected, races>>
vars    == <<disk, procEnv, manager, tx, watch, server, faults, ghosts>>

\* config.Load: the file with the overrides of the environment applied.
Overlay(c, e) == IF e.listen = None THEN c ELSE [c EXCEPT !.listen = e.listen]

\* ValidateEnvironmentManagedChanges: an overridden field may not change.
Managed(old, new) == procEnv.listen # None /\ old.listen # new.listen

\* Locals of a transaction: the candidate, its runtime form, what to go back
\* to when it fails, the handler pointer and revision apply works with, and a
\* ghost: whether it read two contents.
NoTx == [who |-> None, stage |-> "free", file |-> None, next |-> None, base |-> None,
         handler |-> "none", rev |-> 0, oldPath |-> None, digest |-> None, restart |-> FALSE,
         torn |-> FALSE]
\* Locals of the watcher's environment part.
Resting == [at |-> "idle", digest |-> None, previous |-> None, installed |-> FALSE, undo |-> FALSE]

Stages == {"free", "read", "load", "target", "apply", "number", "restart", "send", "hot", "commit", "failed", "done"}

FilesOK ==
    /\ file \in [Paths -> Configs \cup {Bad}]
    /\ path \in Paths /\ healthyPath \in Paths
    /\ envFile \in Environments /\ procEnv \in Environments /\ lastEnv \in Environments
    /\ envFrom \in Environments \cup {None}
    /\ lastDigest \in Configs \cup {Bad}

ConfigsOK ==
    /\ persisted \in Configs /\ healthyConfig \in Configs
    /\ current \in AllConfigs /\ cfg \in AllConfigs /\ running \in AllConfigs
    /\ restartCh \in AllConfigs \cup {None}
    /\ bound \subseteq Listens

PlacesOK ==
    /\ handler \in {"none", "old", "this"}
    /\ tx.who \in Holders \cup {None} /\ tx.stage \in Stages
    /\ watch.at \in {"idle", "load", "set", "inTx", "undo", "after"}
    /\ loop \in {"start", "bound", "serve", "drain", "closed", "restoreEnv", "restoreFile", "exit"}
    /\ races \subseteq Races

CountsOK ==
    /\ revision \in 0..MaxRevision /\ applied \in 0..revision
    /\ edits \in 0..MaxEdits /\ faults \in 0..MaxFaults

FlagsOK == {scheduled, fallback, open, rejected} \subseteq BOOLEAN

TypeOK == FilesOK /\ ConfigsOK /\ PlacesOK /\ CountsOK /\ FlagsOK

InitConfig == InitFile[InitEnv.path]

\* control.New after main loaded the dotenv file, then the first iteration of
\* runLoop.
Init ==
    /\ file = InitFile
    /\ envFile = InitEnv /\ procEnv = InitEnv /\ lastEnv = InitEnv
    /\ path = InitEnv.path /\ healthyPath = path
    /\ persisted = InitConfig /\ healthyConfig = InitConfig /\ lastDigest = InitConfig
    /\ current = Overlay(InitConfig, InitEnv) /\ cfg = current /\ running = current
    /\ handler = "none" /\ restartCh = None /\ envFrom = None
    /\ revision = 1 /\ applied = 1 /\ scheduled = FALSE
    /\ tx = NoTx /\ watch = Resting
    /\ loop = "start" /\ fallback = FALSE /\ open = FALSE
    /\ edits = 0 /\ faults = 0 /\ bound = {} /\ rejected = FALSE /\ races = {}

\* A revision number within the bound is left for every transaction begun.
One(b) == IF b THEN 1 ELSE 0
Owed == One(watch.at \in {"load", "set"}) + One(tx.stage \in {"read", "load", "target", "apply", "number"})
Room == revision + Owed < MaxRevision

Race(name, happens) == races' = IF happens THEN races \cup {name} ELSE races

Fault == faults < MaxFaults /\ faults' = faults + 1
NoFault == UNCHANGED faults

-----------------------------------------------------------------------------
(* Somebody else edits the watched files.                                  *)

EditFile(p, c) ==
    /\ edits < MaxEdits /\ loop # "exit"
    /\ file[p] # c
    /\ file' = [file EXCEPT ![p] = c]
    /\ edits' = edits + 1
    /\ Race("edit", \/ tx.who = "api" /\ p = path
                    \/ tx.who = "env" /\ tx.stage \in {"load", "target"} /\ p = procEnv.path /\ p # path
                    \/ c = lastDigest /\ p = path /\ (persisted # c \/ tx.who = "reload")
                    \/ tx.who = "file" /\ c = tx.digest /\ p = path
                    \/ tx.who = "env" /\ c \in {lastDigest, tx.digest})
    /\ UNCHANGED <<envFile, procEnv, manager, tx, watch, server, faults, rejected>>

EditEnv(e) ==
    /\ edits < MaxEdits /\ loop # "exit"
    /\ envFile # e
    /\ envFile' = e
    /\ edits' = edits + 1
    /\ UNCHANGED <<file, procEnv, manager, tx, watch, server, faults, ghosts>>

-----------------------------------------------------------------------------
(* Update, run by an admin API handler.  Its server accepts requests from  *)
(* the moment a generation is bound, before Attach, until it has drained.  *)

UnvalidatedEnv == watch.at \in {"set", "undo"}

ApiUp == loop \in {"bound", "serve", "drain"}

BeginUpdate(c) ==
    /\ ApiUp /\ tx = NoTx /\ Room
    /\ ~Managed(persisted, c)
    /\ file' = [file EXCEPT ![path] = c]
    /\ tx' = [NoTx EXCEPT !.who = "api", !.stage = "load", !.file = c, !.base = persisted]
    /\ rejected' = FALSE
    /\ UNCHANGED <<envFile, procEnv, manager, watch, server, edits, faults, races>>

\* The file a transaction works on: while the environment changes, the one it
\* names.
Source == IF tx.who = "env" THEN procEnv.path ELSE path

\* config.Load reads the file once more, after Update has saved it or LoadFile
\* has read it, and an edit may lie between.  The environment it reads may be
\* one the watcher has set and not validated yet.
Load ==
    /\ tx.stage = "load"
    /\ tx' = IF file[Source] = Bad THEN [tx EXCEPT !.stage = "failed"]
             ELSE [tx EXCEPT !.stage = IF Source = path THEN "apply" ELSE "target",
                             !.next = Overlay(file[Source], procEnv),
                             !.torn = file[Source] # tx.file]
    /\ Race("env", UnvalidatedEnv)
    /\ UNCHANGED <<disk, procEnv, manager, watch, server, faults, rejected>>

UpdateDone ==
    /\ tx.who = "api" /\ tx.stage = "done"
    /\ lastDigest' = file[path]
    /\ tx' = NoTx
    /\ UNCHANGED <<disk, procEnv, path, handler, current, persisted, healthyPath, healthyConfig,
                   lastEnv, restartCh, envFrom, status,
                   watch, server, faults, ghosts>>

\* Mutant: a failed update leaves the candidate in the file.
NotRestored == file
\* rollbackPersistedUpdate: the previous configuration is saved again.
Restored == [file EXCEPT ![path] = tx.base]

UpdateRollback ==
    /\ tx.who = "api" /\ tx.stage = "failed"
    /\ file' = Restored
    /\ lastDigest' = Restored[path]
    /\ tx' = NoTx
    /\ UNCHANGED <<envFile, edits, procEnv, path, handler, current, persisted, healthyPath,
                   healthyConfig, lastEnv, restartCh, envFrom, status, watch, server, faults, ghosts>>

-----------------------------------------------------------------------------
(* apply, shared by every transaction.                                     *)

\* The running configuration and handler are read in one m.mu section ...
Apply ==
    /\ tx.stage = "apply"
    /\ LET restart == current.listen # tx.next.listen
       IN  /\ tx' = [tx EXCEPT !.stage = "number", !.handler = handler, !.restart = restart]
           /\ Race(IF loop = "drain" THEN "drain" ELSE "hot", ~restart /\ (loop # "serve" \/ restartCh # None))
    /\ UNCHANGED <<disk, procEnv, manager, watch, server, faults, rejected>>

\* ... and the revision is counted in the next.
Number ==
    /\ tx.stage = "number"
    /\ revision' = revision + 1
    /\ tx' = [tx EXCEPT !.stage = IF tx.restart THEN "restart" ELSE "hot", !.rev = revision + 1]
    /\ UNCHANGED <<disk, procEnv, path, handler, current, persisted, healthyPath, healthyConfig,
                   lastDigest, lastEnv, restartCh, envFrom, applied, scheduled, watch, server,
                   faults, ghosts>>

\* validateRestartCandidate refuses, handler.Reload fails, or no runtime is
\* attached yet.
ApplyFails ==
    /\ \/ tx.stage \in {"restart", "hot"} /\ Fault
       \/ tx.stage = "hot" /\ tx.handler = "none" /\ NoFault
    /\ tx' = [tx EXCEPT !.stage = "failed", !.restart = FALSE]
    /\ UNCHANGED <<disk, procEnv, manager, watch, server, ghosts>>

\* The ghost of a transaction that is applied.
AppliedRace == races' = IF tx.torn THEN races \cup {"torn"} ELSE races \ {"torn"}

ScheduleRestart ==
    /\ tx.stage = "restart"
    /\ AppliedRace
    /\ persisted' = tx.file
    /\ scheduled' = TRUE
    /\ tx' = [tx EXCEPT !.stage = "send"]
    /\ UNCHANGED <<disk, procEnv, path, handler, current, healthyPath, healthyConfig, lastDigest,
                   lastEnv, restartCh, envFrom, revision, applied, watch, server,
                   faults, rejected>>

\* Mutant: a full channel keeps the older request.
SentUnlessFull == IF restartCh = None THEN tx.next ELSE restartCh
\* A request still in the channel is replaced.
Sent == tx.next

SendRestart ==
    /\ tx.stage = "send"
    /\ restartCh' = Sent
    /\ tx' = [tx EXCEPT !.stage = "done"]
    /\ UNCHANGED <<disk, procEnv, path, handler, current, persisted, healthyPath, healthyConfig,
                   lastDigest, lastEnv, envFrom, status, watch,
                   server, faults, ghosts>>

\* handler.Reload; on a handler that was closed it serves nobody.
HotReload ==
    /\ tx.stage = "hot" /\ tx.handler # "none"
    /\ running' = IF tx.handler = "this" /\ open THEN tx.next ELSE running
    /\ tx' = [tx EXCEPT !.stage = "commit"]
    /\ UNCHANGED <<disk, procEnv, manager, watch, loop, cfg, fallback, open, bound, faults,
                   ghosts>>

\* Mutant: the number counted before the current revision's.
StaleRevision == tx.rev - 2
\* Mutant: the number the next transaction will count.
UncheckedRevision == revision + 1
\* The number counted for this transaction, not the newest one.
OwnRevision == tx.rev

HotCommit ==
    /\ tx.stage = "commit"
    /\ AppliedRace
    /\ current' = tx.next
    /\ persisted' = tx.file
    /\ healthyPath' = path
    /\ healthyConfig' = tx.file
    /\ applied' = OwnRevision
    /\ scheduled' = FALSE
    /\ tx' = [tx EXCEPT !.stage = "done"]
    /\ UNCHANGED <<disk, procEnv, path, handler, lastDigest, lastEnv, restartCh, envFrom,
                   revision, watch, server, faults, rejected>>

-----------------------------------------------------------------------------
(* The API's Reload, and the watcher's look at the configuration file.     *)
(* Both end in reload, which reads the file by LoadFile, refuses one that   *)
(* does not load or changes what the environment overrides, and reads it   *)
(* again in Load.                                                          *)

Reloadable == file[path] # Bad /\ ~Managed(persisted, file[path])

\* LoadFile of p by a transaction of who.
FileRead(who, p) == [NoTx EXCEPT !.who = who, !.stage = "load", !.file = file[p]]

BeginReload ==
    /\ ApiUp /\ tx = NoTx /\ Room
    /\ Reloadable
    /\ tx' = FileRead("reload", path)
    /\ UNCHANGED <<disk, procEnv, manager, watch, server, faults, ghosts>>

ReloadEnds ==
    /\ tx.who = "reload" /\ tx.stage \in {"done", "failed"}
    /\ tx' = NoTx
    /\ UNCHANGED <<disk, procEnv, manager, watch, server, faults, ghosts>>

\* The watcher runs from the first Attach on, and looks at one file at a time.
Ticking == watch.at = "idle" /\ handler # "none" /\ tx.who # "file"

\* The digest is taken before the file is read.
FileTick ==
    /\ Ticking /\ tx = NoTx /\ Room
    /\ file[path] # lastDigest
    /\ tx' = [NoTx EXCEPT !.who = "file", !.stage = "read", !.digest = file[path]]
    /\ UNCHANGED <<disk, procEnv, manager, watch, server, faults, ghosts>>

ReadFile ==
    /\ tx.stage = "read"
    /\ tx' = IF Reloadable THEN [tx EXCEPT !.stage = "load", !.file = file[path]]
                           ELSE [tx EXCEPT !.stage = "failed"]
    /\ UNCHANGED <<disk, procEnv, manager, watch, server, faults, ghosts>>

\* The digest is remembered whether or not the revision was applied.
FileEnds ==
    /\ tx.who = "file" /\ tx.stage \in {"done", "failed"}
    /\ lastDigest' = tx.digest
    /\ rejected' = (tx.stage = "failed")
    /\ tx' = NoTx
    /\ UNCHANGED <<disk, procEnv, path, handler, current, persisted, healthyPath, healthyConfig,
                   lastEnv, restartCh, envFrom, status, watch, server, faults, races>>

-----------------------------------------------------------------------------
(* The watcher's look at the dotenv file: ReloadValidated holds managedMu  *)
(* from the first Setenv until reloadEnvironmentRevision, which takes      *)
(* transactionMu inside it, has returned.                                  *)

EnvTick ==
    /\ Ticking /\ Room
    /\ envFile # lastEnv
    /\ envFrom' = IF envFrom = None THEN procEnv ELSE envFrom
    /\ watch' = [Resting EXCEPT !.at = "load", !.digest = envFile, !.installed = (envFrom = None)]
    /\ UNCHANGED <<disk, procEnv, path, handler, current, persisted, healthyPath, healthyConfig,
                   lastDigest, lastEnv, restartCh, status, tx, server, faults, ghosts>>

EnvSet ==
    /\ watch.at = "load"
    /\ procEnv' = envFile
    /\ watch' = [watch EXCEPT !.at = "set", !.previous = procEnv]
    /\ UNCHANGED <<disk, manager, tx, server, faults, ghosts>>

\* reloadEnvironmentRevision: the same file again ...
EnvReread ==
    /\ watch.at = "set" /\ tx = NoTx
    /\ procEnv.path = path /\ Reloadable
    /\ tx' = FileRead("env", path)
    /\ watch' = [watch EXCEPT !.at = "inTx"]
    /\ UNCHANGED <<disk, procEnv, manager, server, faults, ghosts>>

\* ... another one ...
EnvSwitch ==
    /\ watch.at = "set" /\ tx = NoTx
    /\ procEnv.path # path /\ file[procEnv.path] # Bad
    /\ tx' = FileRead("env", procEnv.path)
    /\ watch' = [watch EXCEPT !.at = "inTx"]
    /\ UNCHANGED <<disk, procEnv, manager, server, faults, ghosts>>

\* ... or one that does not load or changes what is overridden.
EnvRefused ==
    /\ watch.at = "set" /\ tx = NoTx
    /\ \/ procEnv.path = path /\ ~Reloadable
       \/ procEnv.path # path /\ file[procEnv.path] = Bad
    /\ watch' = [watch EXCEPT !.at = "undo"]
    /\ UNCHANGED <<disk, procEnv, manager, tx, server, faults, ghosts>>

\* The digest of the new file, taken after it was read.
EnvTarget ==
    /\ tx.stage = "target"
    /\ path' = procEnv.path
    /\ lastDigest' = file[procEnv.path]
    /\ tx' = [tx EXCEPT !.stage = "apply", !.oldPath = path, !.digest = lastDigest]
    /\ UNCHANGED <<disk, procEnv, handler, current, persisted, healthyPath, healthyConfig, lastEnv,
                   restartCh, envFrom, status, watch, server, faults, ghosts>>

EnvDone ==
    /\ tx.who = "env" /\ tx.stage = "done"
    /\ watch' = [watch EXCEPT !.at = "after", !.undo = ~tx.restart]
    /\ rejected' = FALSE
    /\ tx' = NoTx
    /\ UNCHANGED <<disk, procEnv, manager, server, faults, races>>

EnvFailed ==
    /\ tx.who = "env" /\ tx.stage = "failed"
    /\ IF tx.oldPath = None THEN UNCHANGED <<path, lastDigest>>
                            ELSE path' = tx.oldPath /\ lastDigest' = tx.digest
    /\ watch' = [watch EXCEPT !.at = "undo"]
    /\ tx' = NoTx
    /\ UNCHANGED <<disk, procEnv, handler, current, persisted, healthyPath, healthyConfig, lastEnv,
                   restartCh, envFrom, status, server, faults, ghosts>>

\* loadFile's rollback, then managedMu is free.
EnvUndo ==
    /\ watch.at = "undo"
    /\ procEnv' = watch.previous
    /\ watch' = [watch EXCEPT !.at = "after", !.undo = TRUE]
    /\ UNCHANGED <<disk, manager, tx, server, faults, ghosts>>

\* Without a restart on its way the rollback snapshot is dropped.
EnvAfter ==
    /\ watch.at = "after"
    /\ envFrom' = IF watch.installed /\ watch.undo THEN None ELSE envFrom
    /\ lastEnv' = watch.digest
    /\ watch' = Resting
    /\ UNCHANGED <<disk, procEnv, path, handler, current, persisted, healthyPath, healthyConfig,
                   lastDigest, restartCh, status, tx, server, faults, ghosts>>

ManagedMuFree == watch.at \notin {"set", "inTx", "undo"}

\* The environment that stays if what the watcher has set is refused.
EnvInForce == IF ManagedMuFree THEN procEnv ELSE watch.previous

-----------------------------------------------------------------------------
(* runLoop.                                                                *)

\* startGeneration has bound its listeners: a handler of its own, which the
\* manager does not know yet.
StartOk ==
    /\ loop = "start"
    /\ running' = cfg
    /\ open' = TRUE
    /\ handler' = IF handler = "this" THEN "old" ELSE handler
    /\ tx' = IF tx.handler = "this" THEN [tx EXCEPT !.handler = "old"] ELSE tx
    /\ bound' = bound \cup {cfg.listen}
    /\ fallback' = FALSE
    /\ loop' = "bound"
    /\ UNCHANGED <<disk, procEnv, path, current, persisted, healthyPath, healthyConfig, lastDigest,
                   lastEnv, restartCh, envFrom, status, watch, cfg, faults, ghosts>>

StartFails ==
    /\ loop = "start"
    /\ Fault
    /\ loop' = IF fallback THEN "restoreEnv" ELSE "exit"
    /\ UNCHANGED <<disk, procEnv, manager, tx, watch, cfg, fallback, running, open, bound, ghosts>>

AttachedScheduled == FALSE

Attach ==
    /\ loop = "bound"
    /\ handler' = "this"
    /\ current' = cfg
    /\ healthyPath' = path /\ healthyConfig' = persisted
    /\ scheduled' = AttachedScheduled
    /\ applied' = revision
    /\ envFrom' = None
    /\ loop' = "serve"
    /\ UNCHANGED <<disk, procEnv, path, persisted, lastDigest, lastEnv, restartCh, revision,
                   tx, watch, cfg, fallback, running, open, bound, faults, ghosts>>

TakeRestart ==
    /\ loop = "serve" /\ restartCh # None
    /\ cfg' = restartCh
    /\ restartCh' = None
    /\ loop' = "drain"
    /\ UNCHANGED <<disk, procEnv, path, handler, current, persisted, healthyPath, healthyConfig,
                   lastDigest, lastEnv, envFrom, status, tx, watch, fallback, running, open, bound,
                   faults, ghosts>>

\* A signal, or a listener that fails.
Stop ==
    /\ loop = "serve"
    /\ loop' = "exit"
    /\ UNCHANGED <<disk, procEnv, manager, tx, watch, cfg, fallback, running, open, bound, faults,
                   ghosts>>

InHandler == tx.who \in {"api", "reload"}

\* shutdownServers waits for the admin handlers in progress; then the
\* handler is closed.
Drained ==
    /\ loop = "drain" /\ ~InHandler
    /\ open' = FALSE
    /\ loop' = "closed"
    /\ UNCHANGED <<disk, procEnv, manager, tx, watch, cfg, fallback, running, bound, faults, ghosts>>

\* Past shutdown_timeout the program ends instead.
DrainTimeout ==
    /\ loop = "drain" /\ InHandler
    /\ loop' = "exit"
    /\ UNCHANGED <<disk, procEnv, manager, tx, watch, cfg, fallback, running, open, bound, faults,
                   ghosts>>

\* latestRestart.
FoldRestart ==
    /\ loop = "closed"
    /\ cfg' = IF restartCh = None THEN cfg ELSE restartCh
    /\ restartCh' = None
    /\ fallback' = TRUE
    /\ loop' = "start"
    /\ UNCHANGED <<disk, procEnv, path, handler, current, persisted, healthyPath, healthyConfig,
                   lastDigest, lastEnv, envFrom, status, tx, watch, running, open, bound, faults,
                   ghosts>>

\* Mutant: recovery takes transactionMu before the environment's lock.
RestoreEnvLocked ==
    /\ loop = "restoreEnv"
    /\ \/ /\ tx = NoTx
          /\ tx' = [NoTx EXCEPT !.who = "loop"]
          /\ UNCHANGED <<procEnv, loop>>
       \/ /\ tx.who = "loop" /\ ManagedMuFree
          /\ procEnv' = IF envFrom = None THEN procEnv ELSE envFrom
          /\ tx' = NoTx
          /\ loop' = "restoreFile"
    /\ UNCHANGED <<disk, manager, watch, cfg, fallback, running, open, bound, faults, ghosts>>

\* RecoverFailedRestart restores the environment under managedMu alone ...
RestoreEnv ==
    /\ loop = "restoreEnv"
    /\ \/ envFrom = None /\ UNCHANGED procEnv
       \/ envFrom # None /\ ManagedMuFree /\ procEnv' = envFrom
    /\ loop' = "restoreFile"
    /\ UNCHANGED <<disk, manager, tx, watch, cfg, fallback, running, open, bound, faults, ghosts>>

\* Mutant: recovery starts what was persisted last.
RecoveredPersisted == persisted
\* healthyRuntime: what the last healthy generation runs.
Recovered == current

\* ... then, under transactionMu, the file and the manager's view of it.
RestoreFile ==
    /\ loop = "restoreFile" /\ tx = NoTx
    /\ file' = [file EXCEPT ![healthyPath] = healthyConfig]
    /\ path' = healthyPath
    /\ persisted' = healthyConfig
    /\ lastDigest' = healthyConfig
    /\ scheduled' = FALSE
    /\ envFrom' = None
    /\ restartCh' = None
    /\ cfg' = Recovered
    /\ fallback' = FALSE
    /\ loop' = "start"
    /\ Race("rollback", current # Overlay(healthyConfig, EnvInForce))
    /\ UNCHANGED <<envFile, edits, procEnv, handler, current, healthyPath, healthyConfig, lastEnv,
                   revision, applied, tx, watch, running, open, bound, faults, rejected>>

Exited == loop = "exit" /\ UNCHANGED vars

-----------------------------------------------------------------------------
Edit == \/ \E p \in Paths, c \in Configs \cup {Bad} : EditFile(p, c)
        \/ \E e \in Environments : EditEnv(e)

TxStep == \/ Load \/ ReadFile \/ UpdateDone \/ UpdateRollback \/ ReloadEnds
          \/ Apply \/ Number \/ ApplyFails \/ ScheduleRestart \/ SendRestart
          \/ HotReload \/ HotCommit \/ FileEnds \/ EnvTarget \/ EnvDone \/ EnvFailed

WatchStep == \/ FileTick
             \/ EnvTick \/ EnvSet \/ EnvReread \/ EnvSwitch \/ EnvRefused \/ EnvUndo \/ EnvAfter

LoopStep == \/ StartOk \/ StartFails \/ Attach \/ TakeRestart \/ Drained \/ DrainTimeout
            \/ FoldRestart \/ RestoreEnv \/ RestoreFile

Next == \/ loop # "exit" /\ \/ Edit
                            \/ \E c \in Configs : BeginUpdate(c)
                            \/ BeginReload
                            \/ TxStep \/ WatchStep \/ LoopStep \/ Stop
        \/ Exited

Spec == Init /\ [][Next]_vars

\* The goroutines are never descheduled for good, a transaction runs to its
\* end, and Go's mutexes let a starving waiter in: recovery gets transactionMu.
Running(A) == loop # "exit" /\ A

Fairness == /\ WF_vars(Running(TxStep))
            /\ WF_vars(Running(WatchStep))
            /\ WF_vars(Running(LoopStep))
            /\ SF_vars(Running(RestoreFile))

FairSpec == Spec /\ Fairness

-----------------------------------------------------------------------------
Quiet == tx = NoTx /\ watch.at = "idle"

\* When nothing is in progress and the watcher finds nothing new in the file,
\* the manager has what is in the file, unless the watcher refused it or an
\* edit raced with a transaction: a failed update leaves neither the file nor
\* the digest behind (manager.go:276), a failed change of EDGEPROXY_CONFIG
\* leaves neither the path nor the digest (manager.go:470).
OnlyRacingEditsAreLost ==
    Quiet /\ file[path] = lastDigest => persisted = file[path] \/ rejected \/ "edit" \in races

Settled ==
    /\ loop = "serve" /\ Quiet
    /\ restartCh = None

\* Once everything is quiet, the generation that serves runs the file and the
\* environment the manager holds, whatever failed or was rolled back before,
\* unless one of the races was met: of several restarts requested while
\* listeners drain the last one wins (run.go:109, manager.go:313).  A
\* transaction that finds one content in LoadFile and another in Load
\* (manager.go:210, 222) persists the first and runs the second; this is over
\* when another transaction is applied, but when the first content is put back
\* before the watcher's next look, nothing starts one.
ServesWhatIsPersisted == Settled /\ races = {} => running = Overlay(persisted, procEnv)

\* The comment at run.go:109: "Changes arriving while listeners drain are
\* folded into the next generation".
DrainFoldsChanges ==
    Settled /\ races \subseteq {"drain"} => running = Overlay(persisted, procEnv)

\* The comment at envfile.go:142: validation before a rollback "makes runtime
\* file watching transactional", so that no refused environment is in use.
RefusedEnvironmentIsUnused ==
    Settled /\ races \subseteq {"env"} => running = Overlay(persisted, procEnv)

\* Recovery starts a configuration whose listeners some generation has bound
\* (manager.go:110), never the replacement that has just failed.
FallbackWasBound == loop = "start" /\ ~fallback /\ bound # {} => cfg.listen \in bound

\* README.md:71: recovery rolls back to "the latest successfully started or
\* hot-applied file-backed revision".
RollbackPointWasBound ==
    handler # "none" /\ lastEnv.listen = None /\ procEnv.listen = None /\ watch.at = "idle"
        => healthyConfig.listen \in bound

\* Revision numbers are used once and what is applied is never taken back to
\* an earlier number, although Attach and a hot commit both write it
\* (manager.go:104, manager.go:343).
RevisionsGrow == [][revision' >= revision /\ applied' >= applied]_vars

\* A scheduled restart happens, is cancelled by a later change or a rollback,
\* or the program stops: the status does not promise it for ever.  And the
\* recovery after a restart that failed comes to an end: it does not deadlock
\* with the watcher, which takes the same two locks (manager.go:116).
RestartsComplete ==
    /\ scheduled ~> (~scheduled \/ loop = "exit")
    /\ (loop = "restoreEnv") ~> (loop \in {"start", "exit"})
=============================================================================
