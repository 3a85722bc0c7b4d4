--------------------------- MODULE SecurityControl ---------------------------
(***************************************************************************)
(* SecurityEdge's control plane: the Runtime (securityedge.go, watch.go,   *)
(* restart_preflight.go), the generations and the file supervisor of       *)
(* cmd/securityedge/main.go, and the admin operations on EdgeProxy's       *)
(* routes (internal/admin/control.go), beside an EdgeProxy that shares     *)
(* its route table with SecurityEdge through a file.                       *)
(*                                                                         *)
(* A configuration is its restart-required part, listen, and the set of    *)
(* routes that have a policy of their own.  A route table is the set of    *)
(* its routes.  A file's digest is its content.  r.configMu is held by     *)
(* tx.who; sections that hold it and read nothing twice are single steps.  *)
(* The checks of one tick are separate actions: since a file may change    *)
(* between two checks, every order of them is one the code can show.       *)
(***************************************************************************)
EXTENDS Integers, FiniteSets

CONSTANTS Listens, Names,     \* listen addresses; route names
          SecConfigs,         \* the configurations somebody may write
          SecPaths,           \* SecurityEdge configuration files
          SecEnvs,            \* dotenv contents: [listen, path]
          Tables,             \* the route tables somebody may write
          InitSecEnv, InitSecFile, InitTable,
          Bad,                \* content that does not load
          None,
          MaxSecEdits,        \* bound on edits of files by others
          MaxCalls,           \* bound on admin calls
          MaxSecFaults        \* bound on failed preflights, saves, starts, calls

AllSecConfigs == [listen : Listens, policy : SUBSET Names]

ASSUME SecValues == /\ SecConfigs \subseteq AllSecConfigs /\ Bad \notin AllSecConfigs
                    /\ Tables \subseteq SUBSET Names /\ Bad \notin Tables
                    /\ SecEnvs \subseteq [listen : Listens \cup {None}, path : SecPaths]
                    /\ InitSecEnv \in SecEnvs /\ InitTable \in Tables
                    /\ InitSecFile \in [SecPaths -> SecConfigs]
                    /\ None \notin Listens \cup SecEnvs /\ None \notin {"replace", "update"}
ASSUME SecBounds == {MaxSecEdits, MaxCalls, MaxSecFaults} \subseteq Nat

VARIABLES
    disk,     \* the files: sec[p], env, and edge, EdgeProxy's route table
    procEnv,  \* the dotenv-managed process environment
    rt,       \* Runtime: path, cfg, table, healthyFileCfg, and of its watch
              \* status restart_scheduled and applied_revision = revision
    tx,       \* the update that holds configMu
    bff,      \* an admin operation on EdgeProxy's routes
    sup,      \* the supervisor: where it is, its digests, what is pending
    loop,     \* runManaged: where it is, its path, fallback and notice
    ep,       \* EdgeProxy: the table it serves, the file it saw, its readiness
    spent,    \* edits, calls and faults so far
    wasBound, \* ghost: listen addresses a generation has bound
    refused,  \* ghost: the supervisor refused the configuration in the file
    lost      \* ghost: the races met so far, see Lost

(***************************************************************************)
(* "edit":  the file changed where no digest shows it: before the first    *)
(*          digest was taken, or under an update that saves over it, or    *)
(*          back to what the digest shows, or in a file that is not        *)
(*          watched;                                                       *)
(* "routes": the route table's digest was taken without loading the table, *)
(*          or an older table came back under an unchanged digest;         *)
(* "env":   an update was made under an environment not validated yet;     *)
(* "healthy": an environment made a file the running configuration that    *)
(*          was not loaded, and healthyFileCfg stayed behind;              *)
(* "drain": an update was made after the fallback had been recorded.       *)
(***************************************************************************)
Lost == {"edit", "routes", "env", "healthy", "drain"}

secVars == <<disk, procEnv, rt, tx, bff, sup, loop, ep, spent, wasBound, refused, lost>>

NoSecTx == [who |-> None, base |-> None, cand |-> None, table |-> {}]
NoBff == [at |-> "idle", route |-> None, policy |-> FALSE, table |-> {}]

SecTypeOK ==
    /\ disk.sec \in [SecPaths -> SecConfigs \cup AllSecConfigs \cup {Bad}]
    /\ {disk.env, procEnv} \subseteq SecEnvs
    /\ {disk.edge, ep.seen} \subseteq (SUBSET Names) \cup {Bad}
    /\ {ep.active, rt.table} \subseteq SUBSET Names /\ ep.ready \in BOOLEAN
    /\ rt.path \in SecPaths /\ {rt.cfg, rt.healthy} \subseteq AllSecConfigs
    /\ {rt.scheduled, rt.inSync} \subseteq BOOLEAN
    /\ tx.who \in {None, "replace", "update"}
    /\ bff.at \in {"idle", "delete", "put", "restore", "reload"}
    /\ sup.at \in {"off", "idle", "env", "sec", "reread", "edge", "late"}
    /\ loop.at \in {"new", "digest", "serve", "drain", "exit"}
    /\ wasBound \subseteq Listens /\ lost \subseteq Lost

Off == [at |-> "off", sec |-> Bad, env |-> None, edge |-> Bad, pending |-> FALSE, prev |-> None]

SecInit ==
    /\ disk = [sec |-> InitSecFile, env |-> InitSecEnv, edge |-> InitTable]
    /\ procEnv = InitSecEnv
    /\ rt = [path |-> InitSecEnv.path, cfg |-> InitSecFile[InitSecEnv.path], table |-> {},
             healthy |-> InitSecFile[InitSecEnv.path], scheduled |-> FALSE, inSync |-> TRUE]
    /\ tx = NoSecTx /\ bff = NoBff /\ sup = Off
    /\ loop = [at |-> "new", path |-> InitSecEnv.path, fallback |-> None, notice |-> FALSE]
    /\ ep = [active |-> InitTable, seen |-> InitTable, ready |-> TRUE]
    /\ spent = [edits |-> 0, calls |-> 0, faults |-> 0]
    /\ wasBound = {} /\ refused = FALSE /\ lost = {}

Fault == spent.faults < MaxSecFaults /\ spent' = [spent EXCEPT !.faults = @ + 1]
NoFault == UNCHANGED spent
Met(race, happens) == lost' = IF happens THEN lost \cup {race} ELSE lost

-----------------------------------------------------------------------------
(* Configurations.                                                         *)

\* ApplyEnvironmentOverrides on a loaded file.
Overlay(c, e) == IF e.listen = None THEN c ELSE [c EXCEPT !.listen = e.listen]

\* ValidateEnvironmentManagedChanges: an overridden field may not change.
Managed(old, new) == procEnv.listen # None /\ old.listen # new.listen

\* restartRequiredChanges against the running configuration.
RestartRequired(next) == rt.cfg.listen # next.listen

\* validateRoutePolicies over a table that loads.
PoliciesKnown(c, t) == t # Bad /\ c.policy \subseteq t

File == disk.sec[rt.path]

\* RecordWatchChange.
Recorded(r, what) == [r EXCEPT !.scheduled = (what = "restart"), !.inSync = (what = "applied")]

\* MarkRestartScheduled.
Marked(r) == [r EXCEPT !.scheduled = TRUE]
\* ConfigureWatcher: a new generation completes what was scheduled.
Configured(r) == [r EXCEPT !.scheduled = FALSE, !.inSync = TRUE]

\* Mutant: the running configuration is replaced and the table is not.
AppliedTableLate(r, file, table) == [r EXCEPT !.cfg = Overlay(file, procEnv), !.healthy = file]
\* applyReload and the healthyFileCfg that follows it.
Applied(r, file, table) ==
    [r EXCEPT !.cfg = Overlay(file, procEnv), !.table = table, !.healthy = file]

-----------------------------------------------------------------------------
(* Files edited by others, and EdgeProxy.                                  *)

Edit == spent.edits < MaxSecEdits /\ spent' = [spent EXCEPT !.edits = @ + 1] /\ loop.at # "exit"

EditSec(p, c) ==
    /\ Edit /\ disk.sec[p] # c
    /\ disk' = [disk EXCEPT !.sec[p] = c]
    /\ Met("edit", \/ tx.who # None \/ loop.at \in {"digest", "drain", "new"}
                   \/ p # rt.path \/ c = sup.sec)
    /\ UNCHANGED <<procEnv, rt, tx, bff, sup, loop, ep, wasBound, refused>>

EditEnv(e) ==
    /\ Edit /\ disk.env # e
    /\ disk' = [disk EXCEPT !.env = e]
    /\ Met("edit", loop.at # "serve" \/ e = sup.env)
    /\ UNCHANGED <<procEnv, rt, tx, bff, sup, loop, ep, wasBound, refused>>

\* The route table's file gets new content, by whomever.
TableRace(t) == Met("routes", \/ loop.at # "serve" \/ tx.who # None
                              \/ t = sup.edge \/ sup.at = "reread")

EditEdge(t) ==
    /\ Edit /\ disk.edge # t
    /\ disk' = [disk EXCEPT !.edge = t]
    /\ TableRace(t)
    /\ UNCHANGED <<procEnv, rt, tx, bff, sup, loop, ep, wasBound, refused>>

\* EdgeProxy's watcher finds the new file and applies it in place ...
EdgeApplies ==
    /\ ep.ready /\ disk.edge # ep.seen
    /\ ep' = IF disk.edge = Bad THEN [ep EXCEPT !.seen = Bad]
             ELSE [ep EXCEPT !.seen = disk.edge, !.active = disk.edge]
    /\ UNCHANGED <<disk, procEnv, rt, tx, bff, sup, loop, spent, wasBound, refused, lost>>

\* ... or schedules a restart, during which it does not report ready, ...
EdgeSchedulesRestart ==
    /\ ep.ready /\ disk.edge \notin {ep.seen, Bad}
    /\ ep' = [ep EXCEPT !.seen = disk.edge, !.ready = FALSE]
    /\ UNCHANGED <<disk, procEnv, rt, tx, bff, sup, loop, spent, wasBound, refused, lost>>

\* ... after which it serves the file as it is by then ...
EdgeRestarted ==
    /\ ~ep.ready /\ disk.edge # Bad
    /\ ep' = [active |-> disk.edge, seen |-> disk.edge, ready |-> TRUE]
    /\ UNCHANGED <<disk, procEnv, rt, tx, bff, sup, loop, spent, wasBound, refused, lost>>

\* ... or, when it cannot start, goes back to the table it served.
EdgeRollsBack ==
    /\ ~ep.ready /\ (Fault \/ (disk.edge = Bad /\ NoFault))
    /\ disk' = [disk EXCEPT !.edge = ep.active]
    /\ ep' = [ep EXCEPT !.seen = ep.active, !.ready = TRUE]
    /\ TableRace(ep.active)
    /\ UNCHANGED <<procEnv, rt, tx, bff, sup, loop, wasBound, refused>>

-----------------------------------------------------------------------------
(* ReplaceConfig and update.  Both load the file, prepare the candidate,   *)
(* save it and apply it, or leave it to the supervisor to restart with it. *)

ApiUp == loop.at \in {"digest", "serve", "drain"}
Call == ApiUp /\ spent.calls < MaxCalls /\ spent' = [spent EXCEPT !.calls = @ + 1]

Begin(who, cand) ==
    /\ tx = NoSecTx /\ Call
    /\ File # Bad
    /\ PoliciesKnown(cand, disk.edge)
    /\ tx' = [who |-> who, base |-> File, cand |-> cand, table |-> disk.edge]
    /\ Met("env", sup.at = "env")
    /\ UNCHANGED <<disk, procEnv, rt, bff, sup, loop, ep, wasBound, refused>>

BeginReplace(c) == File # Bad /\ ~Managed(File, c) /\ Begin("replace", c)

\* UpdateRoutePolicy for a route of the table, DeleteRoutePolicy, and
\* UpdateDefaultPolicy, which leaves the modelled fields alone.
BeginUpdate ==
    /\ File # Bad
    /\ \/ \E n \in rt.table : Begin("update", [File EXCEPT !.policy = @ \cup {n}])
       \/ \E n \in File.policy : Begin("update", [File EXCEPT !.policy = @ \ {n}])
       \/ Begin("update", File)

\* The candidate is saved, and applied or, with MarkRestartScheduled, left to
\* the supervisor.
Save(cand, table) ==
    /\ disk' = [disk EXCEPT !.sec[rt.path] = cand]
    /\ rt' = IF RestartRequired(Overlay(cand, procEnv)) THEN Marked(rt)
             ELSE Applied(rt, cand, table)

\* The supervisor takes a file that needs a restart for the one it has seen.
Unnoticed(cand) == /\ RestartRequired(Overlay(cand, procEnv))
                   /\ loop.at = "digest" \/ cand = sup.sec

\* An update made while the listeners drain is not in the fallback.
SaveRaces(cand) ==
    lost' = lost \cup (IF loop.at = "drain" THEN {"drain"} ELSE {})
                 \cup (IF sup.at = "env" THEN {"env"} ELSE {})
                 \cup (IF Unnoticed(cand) THEN {"edit"} ELSE {})

Commit ==
    /\ tx.who # None
    /\ Save(tx.cand, tx.table)
    /\ SaveRaces(tx.cand)
    /\ refused' = FALSE
    /\ tx' = NoSecTx
    /\ UNCHANGED <<procEnv, bff, sup, loop, ep, spent, wasBound>>

\* The restart preflight or Save refuses: nothing has changed.
Refuse ==
    /\ tx.who # None /\ Fault
    /\ tx' = NoSecTx
    /\ UNCHANGED <<disk, procEnv, rt, bff, sup, loop, ep, wasBound, refused, lost>>

\* applyReload fails and the file loaded first is saved again.
Unapply ==
    /\ tx.who # None /\ Fault
    /\ ~RestartRequired(Overlay(tx.cand, procEnv))
    /\ disk' = [disk EXCEPT !.sec[rt.path] = tx.base]
    /\ tx' = NoSecTx
    /\ UNCHANGED <<procEnv, rt, bff, sup, loop, ep, wasBound, refused, lost>>

-----------------------------------------------------------------------------
(* Runtime.Reload, by POST /api/v1/reload and by the supervisor, and       *)
(* ReloadEdgeRoutes.                                                       *)

\* What Reload finds in the file.
Found ==
    IF File = Bad \/ Managed(rt.healthy, File) THEN "error"
    ELSE IF File = rt.healthy THEN "same"
    ELSE IF ~PoliciesKnown(File, disk.edge) THEN "error"
    ELSE IF RestartRequired(Overlay(File, procEnv)) THEN "restart"
    ELSE "hot"

ApiReload ==
    /\ tx = NoSecTx /\ Call
    /\ Found = "hot"
    /\ rt' = Applied(rt, File, disk.edge)
    /\ SaveRaces(File)
    /\ refused' = FALSE
    /\ UNCHANGED <<disk, procEnv, tx, bff, sup, loop, ep, wasBound>>

\* ReloadEdgeRoutes: only the table is replaced.
RoutesReloaded(r) == [r EXCEPT !.table = disk.edge]
RoutesLoad == PoliciesKnown(rt.cfg, disk.edge)

-----------------------------------------------------------------------------
(* The dashboard's operations on EdgeProxy's routes.                       *)

\* edgeRouteDelete removes the route's policy first, ...
DeleteRoute(n) ==
    /\ bff = NoBff /\ tx = NoSecTx /\ Call
    /\ LET bare == [File EXCEPT !.policy = @ \ {n}]
           deleting == [NoBff EXCEPT !.at = "delete", !.route = n]
       IN  IF n \in rt.cfg.policy
           THEN /\ File # Bad /\ PoliciesKnown(bare, disk.edge)
                /\ Save(bare, disk.edge) /\ SaveRaces(bare)
                /\ bff' = IF RestartRequired(Overlay(bare, procEnv)) THEN NoBff
                          ELSE [deleting EXCEPT !.policy = TRUE]
           ELSE bff' = deleting /\ UNCHANGED <<disk, rt, lost>>
    /\ UNCHANGED <<procEnv, tx, sup, loop, ep, wasBound, refused>>

\* ... edgeConfigReplace keeps the routes that have a policy, ...
ReplaceTable(t) ==
    /\ bff = NoBff /\ Call
    /\ rt.cfg.policy \subseteq t /\ disk.edge # t
    /\ bff' = [NoBff EXCEPT !.at = "put", !.table = t]
    /\ UNCHANGED <<disk, procEnv, rt, tx, sup, loop, ep, wasBound, refused, lost>>

Forwarded == bff.at \in {"delete", "put"}
\* The table EdgeProxy is asked for.
Requested == IF bff.at = "put" THEN bff.table ELSE ep.active \ {bff.route}
Accepted == Forwarded /\ ep.ready /\ Requested \in Tables

\* ... then EdgeProxy saves and applies the new table, ...
EdgeAccepts ==
    /\ Accepted
    /\ disk' = [disk EXCEPT !.edge = Requested]
    /\ ep' = [ep EXCEPT !.active = Requested, !.seen = Requested]
    /\ \/ bff' = [bff EXCEPT !.at = "reload"] /\ NoFault
       \/ bff' = [bff EXCEPT !.at = "restore"] /\ Fault   \* the answer is lost
    /\ TableRace(Requested)
    /\ UNCHANGED <<procEnv, rt, tx, sup, loop, wasBound, refused>>

\* ... or answers that it has to restart: nothing more to do here, ...
EdgePutsOff ==
    /\ Accepted /\ bff.at = "put"
    /\ disk' = [disk EXCEPT !.edge = Requested]
    /\ ep' = [ep EXCEPT !.seen = Requested, !.ready = FALSE]
    /\ bff' = NoBff
    /\ TableRace(Requested)
    /\ UNCHANGED <<procEnv, rt, tx, sup, loop, spent, wasBound, refused>>

EdgeRejects ==
    /\ Forwarded /\ IF Accepted THEN Fault ELSE NoFault
    /\ bff' = [bff EXCEPT !.at = "restore"]
    /\ UNCHANGED <<disk, procEnv, rt, tx, sup, loop, ep, wasBound, refused, lost>>

\* ... and SecurityEdge loads it, or restores the policy.
BffReload ==
    /\ bff.at = "reload" /\ tx = NoSecTx
    /\ rt' = IF RoutesLoad THEN RoutesReloaded(rt) ELSE rt
    /\ bff' = NoBff
    /\ UNCHANGED <<disk, procEnv, tx, sup, loop, ep, spent, wasBound, refused, lost>>

BffRestore ==
    /\ bff.at = "restore" /\ tx = NoSecTx
    /\ LET full == [File EXCEPT !.policy = @ \cup {bff.route}]
       IN  IF bff.policy /\ bff.route \in rt.table /\ File # Bad /\ PoliciesKnown(full, disk.edge)
           THEN Save(full, disk.edge) /\ SaveRaces(full)
           ELSE UNCHANGED <<disk, rt, lost>>
    /\ bff' = NoBff
    /\ UNCHANGED <<procEnv, tx, sup, loop, ep, spent, wasBound, refused>>

-----------------------------------------------------------------------------
(* superviseSecurityGeneration.                                            *)

\* The digests are taken once the generation serves.
TakeDigests ==
    /\ loop.at = "digest"
    /\ loop' = [loop EXCEPT !.at = "serve"]
    /\ sup' = [Off EXCEPT !.at = "idle", !.sec = File, !.env = disk.env, !.edge = disk.edge]
    /\ UNCHANGED <<disk, procEnv, rt, tx, bff, ep, spent, wasBound, refused, lost>>

Watching == loop.at = "serve" /\ sup.at = "idle"

\* Runtime.RestartFallback.
RestartFallback == [path |-> rt.path, cfg |-> rt.healthy]

\* Supervision ends in a restart: RestartFallback and the environment to go
\* back to, when the restart is the environment's doing, are recorded.
Restart(next, env) ==
    /\ loop' = [at |-> "drain", path |-> next, notice |-> FALSE,
                fallback |-> [path |-> RestartFallback.path, cfg |-> RestartFallback.cfg, env |-> env]]
    /\ sup' = Off

\* The dotenv file changed: its values are set ...
TickEnv ==
    /\ Watching /\ disk.env # sup.env
    /\ sup' = [sup EXCEPT !.at = "env", !.env = disk.env, !.prev = procEnv]
    /\ procEnv' = disk.env
    /\ Met("env", tx.who # None)
    /\ UNCHANGED <<disk, rt, tx, bff, loop, ep, spent, wasBound, refused>>

EnvLoads == disk.sec[procEnv.path] # Bad /\ PoliciesKnown(disk.sec[procEnv.path], disk.edge)

EnvStays == procEnv.path = rt.path /\ ~RestartRequired(Overlay(File, procEnv))

\* Mutant: the variables stay set when validation fails.
EnvKept == procEnv
\* loadFile's rollback.
EnvBefore == sup.prev

\* ... and validated: rolled back, ...
EnvRefused ==
    /\ sup.at = "env" /\ tx = NoSecTx
    /\ IF EnvLoads THEN Fault ELSE NoFault
    /\ procEnv' = EnvBefore
    /\ sup' = [sup EXCEPT !.at = "idle", !.prev = None]
    /\ rt' = Recorded(rt, "error")
    /\ UNCHANGED <<disk, tx, bff, loop, ep, wasBound, refused, lost>>

\* ... or a reason to restart with another file or another address, ...
EnvRestarts ==
    /\ sup.at = "env" /\ tx = NoSecTx /\ EnvLoads
    /\ ~EnvStays
    /\ Restart(procEnv.path, sup.prev)
    /\ rt' = Recorded(rt, "restart")
    /\ Met("edit", procEnv.path # rt.path /\ File # rt.healthy)
    /\ UNCHANGED <<disk, procEnv, tx, bff, ep, spent, wasBound, refused>>

\* ... or applied in place, unless it changes nothing: equal configurations
\* compare equal when none of their lists is empty, since cloneConfig makes an
\* empty list nil and Validate does not.
EnvApplies ==
    /\ sup.at = "env" /\ tx = NoSecTx /\ disk.sec[procEnv.path] # Bad
    /\ EnvStays
    /\ \E same \in {FALSE, Overlay(File, procEnv) = rt.cfg} :
           /\ same \/ EnvLoads
           /\ rt' = Recorded(IF same THEN rt ELSE Applied(rt, File, disk.edge), "applied")
           /\ lost' = lost \cup (IF same /\ disk.edge # sup.edge THEN {"routes"} ELSE {})
                           \cup (IF same /\ rt.cfg # Overlay(rt.healthy, procEnv) THEN {"healthy"} ELSE {})
    /\ sup' = [sup EXCEPT !.at = "reread", !.prev = None]
    /\ refused' = FALSE
    /\ UNCHANGED <<disk, procEnv, tx, bff, loop, ep, spent, wasBound>>

\* SecurityEdge's own file changed: Reload.
TickSec ==
    /\ Watching /\ File # sup.sec
    /\ sup' = [sup EXCEPT !.at = "sec", !.sec = File]
    /\ UNCHANGED <<disk, procEnv, rt, tx, bff, loop, ep, spent, wasBound, refused, lost>>

SecRefused ==
    /\ sup.at = "sec" /\ tx = NoSecTx
    /\ \/ Found = "error" /\ NoFault
       \/ Found \in {"restart", "hot"} /\ Fault
    /\ rt' = Recorded(rt, "error")
    /\ sup' = [sup EXCEPT !.at = "idle"]
    /\ refused' = TRUE
    /\ UNCHANGED <<disk, procEnv, tx, bff, loop, ep, wasBound, lost>>

SecRestarts ==
    /\ sup.at = "sec" /\ tx = NoSecTx /\ Found = "restart"
    /\ Restart(rt.path, None)
    /\ rt' = Recorded(rt, "restart")
    /\ UNCHANGED <<disk, procEnv, tx, bff, ep, spent, wasBound, refused, lost>>

SecApplies ==
    /\ sup.at = "sec" /\ tx = NoSecTx /\ Found \in {"same", "hot"}
    /\ rt' = Recorded(IF Found = "same" THEN rt ELSE Applied(rt, File, disk.edge), "applied")
    /\ Met("routes", Found = "same" /\ disk.edge # sup.edge)
    /\ sup' = [sup EXCEPT !.at = "reread"]
    /\ refused' = FALSE
    /\ UNCHANGED <<disk, procEnv, tx, bff, loop, ep, spent, wasBound>>

\* A reload is taken to have loaded the route table: its digest is renewed.
RereadEdge ==
    /\ sup.at = "reread"
    /\ sup' = [sup EXCEPT !.at = "idle", !.edge = disk.edge]
    /\ UNCHANGED <<disk, procEnv, rt, tx, bff, loop, ep, spent, wasBound, refused, lost>>

-----------------------------------------------------------------------------
(* The route table.  edgeProxyWatchReady: EdgeProxy has no restart         *)
(* scheduled and has applied its newest revision, or was rolled back.      *)

EdgeReady == ep.ready

TickEdge ==
    /\ Watching /\ disk.edge # sup.edge
    /\ \/ EdgeReady /\ sup' = [sup EXCEPT !.at = "edge", !.edge = disk.edge] /\ NoFault /\ UNCHANGED rt
       \/ ~EdgeReady /\ sup' = [sup EXCEPT !.edge = disk.edge, !.pending = TRUE] /\ NoFault /\ UNCHANGED rt
       \/ Fault /\ sup' = [sup EXCEPT !.edge = disk.edge, !.pending = TRUE] /\ rt' = Recorded(rt, "error")
    /\ UNCHANGED <<disk, procEnv, tx, bff, loop, ep, wasBound, refused, lost>>

\* Mutant: it is asked for again when the file changes again.
TickPendingOnEdit ==
    /\ Watching /\ sup.pending /\ disk.edge # sup.edge
    /\ \/ EdgeReady /\ sup' = [sup EXCEPT !.at = "late"] /\ NoFault /\ UNCHANGED rt
       \/ Fault /\ rt' = Recorded(rt, "error") /\ UNCHANGED sup
    /\ UNCHANGED <<disk, procEnv, tx, bff, loop, ep, wasBound, refused, lost>>
\* A table that was put off is asked for again at every tick.
TickPending ==
    /\ Watching /\ sup.pending
    /\ \/ EdgeReady /\ sup' = [sup EXCEPT !.at = "late"] /\ NoFault /\ UNCHANGED rt
       \/ Fault /\ rt' = Recorded(rt, "error") /\ UNCHANGED sup
    /\ UNCHANGED <<disk, procEnv, tx, bff, loop, ep, wasBound, refused, lost>>

LoadRoutes ==
    /\ sup.at \in {"edge", "late"} /\ tx = NoSecTx
    /\ rt' = IF RoutesLoad THEN Recorded(RoutesReloaded(rt), "applied") ELSE Recorded(rt, "error")
    /\ sup' = [sup EXCEPT !.at = "idle", !.pending = @ /\ ~(RoutesLoad /\ sup.at = "late")]
    /\ UNCHANGED <<disk, procEnv, tx, bff, loop, ep, spent, wasBound, refused, lost>>

-----------------------------------------------------------------------------
(* runManaged.                                                             *)

\* A signal, or a listener that fails, ends the process.
Stop ==
    /\ Watching
    /\ loop' = [loop EXCEPT !.at = "exit"]
    /\ sup' = Off
    /\ UNCHANGED <<disk, procEnv, rt, tx, bff, ep, spent, wasBound, refused, lost>>

\* shutdownServers waits for the admin calls that are under way ...
Drained ==
    /\ loop.at = "drain" /\ tx = NoSecTx /\ bff = NoBff
    /\ loop' = [loop EXCEPT !.at = "new"]
    /\ UNCHANGED <<disk, procEnv, rt, tx, bff, sup, ep, spent, wasBound, refused, lost>>

\* ... and the process ends when they outlast the deadline.
DrainFails ==
    /\ loop.at = "drain" /\ Fault
    /\ loop' = [loop EXCEPT !.at = "exit"]
    /\ tx' = NoSecTx /\ bff' = NoBff
    /\ UNCHANGED <<disk, procEnv, rt, sup, ep, wasBound, refused, lost>>

Startable == disk.sec[loop.path] # Bad /\ PoliciesKnown(disk.sec[loop.path], disk.edge)

\* securityedge.New, ConfigureWatcher and the listeners.
Start ==
    /\ loop.at = "new" /\ Startable
    /\ LET new == Applied([rt EXCEPT !.path = loop.path], disk.sec[loop.path], disk.edge)
       IN  /\ rt' = IF loop.notice THEN Recorded(Configured(new), "error") ELSE Configured(new)
           /\ wasBound' = wasBound \cup {new.cfg.listen}
    /\ loop' = [loop EXCEPT !.at = "digest", !.fallback = None, !.notice = FALSE]
    /\ refused' = FALSE
    /\ UNCHANGED <<disk, procEnv, tx, bff, sup, ep, spent, lost>>

\* Mutant: the environment is not put back.
KeepEnvironment(fb) == procEnv
\* RestoreManagedEnvironment, when the environment asked for the restart.
FallbackEnvironment(fb) == IF fb.env = None THEN procEnv ELSE fb.env

StartFails == loop.at = "new" /\ IF Startable THEN Fault ELSE NoFault

\* restoreSecurityFallback.
Recover ==
    /\ StartFails /\ loop.fallback # None
    /\ LET fb == loop.fallback
       IN  /\ procEnv' = FallbackEnvironment(fb)
           /\ disk' = IF fb.path = loop.path THEN [disk EXCEPT !.sec[fb.path] = fb.cfg] ELSE disk
           /\ loop' = [at |-> "new", path |-> fb.path, fallback |-> None, notice |-> TRUE]
    /\ UNCHANGED <<rt, tx, bff, sup, ep, wasBound, refused, lost>>

GiveUp ==
    /\ StartFails /\ loop.fallback = None
    /\ loop' = [loop EXCEPT !.at = "exit"]
    /\ UNCHANGED <<disk, procEnv, rt, tx, bff, sup, ep, wasBound, refused, lost>>

-----------------------------------------------------------------------------
Edits == \/ \E p \in SecPaths, c \in SecConfigs \cup {Bad} : EditSec(p, c)
         \/ \E e \in SecEnvs : EditEnv(e)
         \/ \E t \in Tables \cup {Bad} : EditEdge(t)
Calls == \/ \E c \in SecConfigs : BeginReplace(c)
         \/ BeginUpdate \/ ApiReload
         \/ \E n \in Names : DeleteRoute(n)
         \/ \E t \in Tables : ReplaceTable(t)
Updates == Commit \/ Refuse \/ Unapply
BffSteps == EdgeAccepts \/ EdgePutsOff \/ EdgeRejects \/ BffReload \/ BffRestore
EdgeSteps == EdgeApplies \/ EdgeSchedulesRestart \/ EdgeRestarted \/ EdgeRollsBack
Ticks == TickEnv \/ TickSec \/ TickEdge \/ TickPending
Supervision == \/ TakeDigests \/ EnvRefused \/ EnvRestarts \/ EnvApplies
               \/ SecRefused \/ SecRestarts \/ SecApplies \/ RereadEdge \/ LoadRoutes
Generations == Drained \/ DrainFails \/ Start \/ Recover \/ GiveUp

SecNext == \/ Edits \/ Calls \/ Updates \/ BffSteps \/ EdgeSteps
           \/ Ticks \/ Supervision \/ Generations \/ Stop

SecSpec == SecInit /\ [][SecNext]_secVars

\* Admin calls, EdgeProxy's own reloads and restarts, the ticker and the run
\* loop go on; edits, calls and faults need not happen.
SecFairness ==
    /\ WF_secVars(Updates) /\ WF_secVars(BffSteps) /\ WF_secVars(EdgeApplies) /\ WF_secVars(EdgeRestarted)
    /\ WF_secVars(TickEnv) /\ WF_secVars(TickSec)
    /\ WF_secVars(TickEdge) /\ SF_secVars(TickPending)
    /\ WF_secVars(Supervision) /\ WF_secVars(Generations)

FairSecSpec == SecSpec /\ SecFairness

-----------------------------------------------------------------------------
Settled == loop.at = "serve" /\ sup.at = "idle" /\ sup.sec = File

\* Once the supervisor has looked at its file, SecurityEdge serves the
\* configuration in it under the environment it has adopted, or has refused
\* it, also while admin calls are under way; only the races of Lost can come
\* between (main.go:295-421).
ServesItsFile ==
    Settled /\ lost = {} => \/ refused
                            \/ rt.cfg = Overlay(File, procEnv)

\* Once the supervisor has looked at the route table and has not put it off,
\* SecurityEdge routes by it, whatever EdgeProxy does, unless the table lacks a
\* route with a policy; and at all times while a generation serves or drains
\* the policies that are served name routes that are served, although the
\* configuration and the table are replaced by the supervisor, by updates and
\* by the dashboard's operations (main.go:317-331 and 390-417,
\* securityedge.go:517-534 and 852-869).
RoutesFollow ==
    /\ /\ loop.at = "serve" /\ sup.at = "idle" /\ sup.edge = disk.edge /\ ~sup.pending
       /\ lost = {}
       => rt.table = disk.edge \/ ~RoutesLoad
    /\ ApiUp => rt.cfg.policy \subseteq rt.table

\* After a replacement generation failed, the generation that is started
\* again listens on an address that has been bound before, unless its file
\* was edited meanwhile (main.go:277-293).
RecoversBound ==
    [][Recover /\ lost = {} => Overlay(disk'.sec[loop'.path], procEnv').listen \in wasBound]_secVars

\* A route table put off because EdgeProxy was restarting is not put off for
\* ever, and a restart ends in a generation that serves or in the end of the
\* process (main.go:317-331 and 119-175).
RestartsAndRoutesComplete ==
    /\ sup.pending ~> (~sup.pending \/ ~RoutesLoad)
    /\ loop.at \in {"drain", "new"} ~> loop.at \in {"serve", "exit"}

\* A new route table that suits the policies, written while the supervisor
\* watches and different from the table it has seen, is routed by in the end
\* ("watches three inputs independently", apps/securityedge/README.md:440).
RouteEditsAreAdopted ==
    (loop.at = "serve" /\ disk.edge # sup.edge /\ RoutesLoad)
        ~> (rt.table = disk.edge \/ ~RoutesLoad \/ loop.at # "serve")
=============================================================================
