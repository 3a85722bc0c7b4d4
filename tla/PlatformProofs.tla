--------------------------- MODULE PlatformProofs ---------------------------
(***************************************************************************)
(* Proofs about the parts of the platform that keep files and generations: *)
(* ConfigFiles, what a restart finds; EdgeHandler, what Close leaves; and  *)
(* SecurityControl, what SecurityEdge serves after its files, its          *)
(* environment and EdgeProxy's route table changed.  At the end, what the  *)
(* parts promise holds of the platform.                                    *)
(***************************************************************************)
EXTENDS MCPlatform, RequestProofs, StoreProofs

-----------------------------------------------------------------------------
(* ConfigFiles.                                                            *)

Documents == Contents \cup {Garbled}
Files == Documents \cup {Absent}

\* trimConfigBackups keeps a bounded number of copies, those with the highest
\* names: the copy at i stays unless as many as are kept have a higher name.
LEMMA TrimKeepsHighest ==
    ASSUME NEW S, NEW all \in Seq(S), all # <<>>,
           NEW i \in 1..Len(all), Len(all) - i < KeepBackups
    PROVE  /\ Trimmed(all) \in Seq(S)
           /\ Len(Trimmed(all)) = IF KeepBackups <= Len(all) THEN KeepBackups ELSE Len(all)
           /\ all[i] \in ToSet(Trimmed(all))
<1> DEFINE n == Len(all)
           k == IF KeepBackups <= n THEN KeepBackups ELSE n
           t == SubSeq(all, n - k + 1, n)
<1>1. n \in Nat \ {0} /\ KeepBackups \in Nat \ {0}
  BY FileValues
<1>2. Trimmed(all) = t
  BY <1>1, MinOfTwo DEF Trimmed
<1>3. k \in 1..n /\ n - k + 1 \in 1..n /\ i - (n - k) \in 1..k
  BY <1>1
<1>4. /\ t \in Seq(S) /\ Len(t) = k
      /\ \A j \in 1..k : t[j] = all[(n - k + 1) + j - 1]
  <2> HIDE DEF k, n
  <2>1. n - k + 1 \in 1..n /\ n \in 1..n /\ n = Len(all)
    BY <1>3, <1>1 DEF n
  <2> QED BY <2>1, <1>3, <1>1
<1>5. t[i - (n - k)] = all[i] /\ i - (n - k) \in DOMAIN t
  <2> HIDE DEF k, n, t
  <2>1. (n - k + 1) + (i - (n - k)) - 1 = i
    BY <1>3, <1>1
  <2> QED BY <2>1, <1>3, <1>4
<1>6. all[i] \in ToSet(t)
  BY <1>5 DEF ToSet
<1> QED BY <1>2, <1>3, <1>4, <1>6

\* copyFile puts the copy at its place among the names.
LEMMA CopyIsInserted ==
    ASSUME backups \in Seq(Documents), place \in 0..Len(backups), live \in Documents
    PROVE  /\ Copied \in Seq(Documents) /\ Copied # <<>>
           /\ Len(Copied) = Len(backups) + 1
           /\ Copied[place + 1] = live
<1> DEFINE p == SubSeq(backups, 1, place)
           q == SubSeq(backups, place + 1, Len(backups))
<1>1. p \in Seq(Documents) /\ Len(p) = place
  OBVIOUS
<1>2. q \in Seq(Documents) /\ Len(q) = Len(backups) - place
  OBVIOUS
<1>3. Copied = p \o <<live>> \o q
  <2>1. (place + 1) - 1 = place
    OBVIOUS
  <2> QED BY <2>1 DEF Copied, InsertAt
<1> HIDE DEF p, q
<1>4. /\ p \o <<live>> \in Seq(Documents) /\ Len(p \o <<live>>) = place + 1
      /\ (p \o <<live>>)[place + 1] = live
  BY <1>1
<1>5. /\ (p \o <<live>>) \o q \in Seq(Documents)
      /\ Len((p \o <<live>>) \o q) = Len(backups) + 1
      /\ ((p \o <<live>>) \o q)[place + 1] = live
  <2> DEFINE h == p \o <<live>>
  <2>1. h \in Seq(Documents) /\ Len(h) = place + 1 /\ h[place + 1] = live
    BY <1>4
  <2>2. place + 1 \in 1..Len(h) /\ Len(h) + Len(q) = Len(backups) + 1
    BY <2>1, <1>2
  <2> HIDE DEF h
  <2>3. h \o q \in Seq(Documents) /\ Len(h \o q) = Len(h) + Len(q)
    BY <2>1, <1>2
  <2>4. (h \o q)[place + 1] = h[place + 1]
    BY <2>1, <2>2, <1>2
  <2> QED BY <2>1, <2>2, <2>3, <2>4 DEF h
<1> QED BY <1>3, <1>5

(***************************************************************************)
(* What a Save has done so far: at no time are both names empty; before    *)
(* the new file has its name, and whenever nothing has the file's name,    *)
(* what a restart would find is among the backups, races aside.            *)
(***************************************************************************)
FilesInv ==
    /\ live \in Files /\ staging \in Files
    /\ backups \in Seq(Documents) /\ Len(backups) <= KeepBackups /\ place \in 0..Len(backups)
    /\ saver \in [at : {"idle", "temp", "replace", "finish"}, new : Contents \cup {Absent}, exists : BOOLEAN]
    /\ due \subseteq Documents /\ fileRaces \subseteq FileRaces
    /\ FoundFile # Absent
    /\ saver.at = "idle" => saver = NoSave
    /\ saver.at # "idle" => saver.new \in Contents
    /\ saver.at = "temp" /\ saver.exists => live # Absent
    /\ saver.at = "finish" => live # Absent
    /\ "restore" \notin fileRaces => FoundFile \in due
    /\ fileRaces = {} /\ (saver.at \in {"temp", "replace"} \/ live = Absent)
          => FoundFile \in ToSet(backups)
    /\ fileRaces = {} /\ previous # Absent => previous \in ToSet(backups)

\* Nothing was saved yet: the invariant of the files holds.
LEMMA FilesInitOK == FilesInit => FilesInv
<1> SUFFICES ASSUME FilesInit PROVE FilesInv
  OBVIOUS
<1>1. <<>> \in Seq(Documents) /\ Len(<<>>) = 0
  OBVIOUS
<1> QED BY <1>1, FileValues DEF FilesInit, FilesInv, NoSave, Files, Documents, FoundFile, FileRaces

\* Save has backed the file up and writes its temporary file.
LEMMA SaveBeginOK == ASSUME FilesInv, NEW c \in Contents, SaveBegin(c) PROVE FilesInv'
<1> USE FileValues DEF Documents, Files, FoundFile
<1>1. /\ saver' = [at |-> "temp", new |-> c, exists |-> live # Absent]
      /\ due' = {FoundFile, c} /\ previous' = Absent
      /\ UNCHANGED <<live, staging>>
  BY DEF SaveBegin
<1>2. CASE live = Absent
  <2>1. UNCHANGED <<backups, place, fileRaces>>
    BY <1>2 DEF SaveBegin
  <2> QED BY <1>1, <1>2, <2>1 DEF FilesInv, NoSave
<1>3. CASE live # Absent
  <2>1. /\ backups' = Trimmed(Copied)
        /\ place' = place + 1 - (Len(Copied) - Len(backups'))
        /\ fileRaces' = IF CopyIsKept THEN {} ELSE {"clock"}
    BY <1>3 DEF SaveBegin
  <2>2. /\ backups \in Seq(Documents) /\ Len(backups) <= KeepBackups
        /\ place \in 0..Len(backups) /\ live \in Documents
    BY <1>3 DEF FilesInv
  <2>3. /\ Copied \in Seq(Documents) /\ Copied # <<>>
        /\ Len(Copied) = Len(backups) + 1 /\ Copied[place + 1] = live
    BY <2>2, CopyIsInserted
  <2>4. KeepBackups \in Nat \ {0} /\ Len(backups) \in Nat
    BY <2>2
  <2>5. /\ Trimmed(Copied) \in Seq(Documents)
        /\ Len(Trimmed(Copied)) = IF KeepBackups <= Len(backups) + 1 THEN KeepBackups ELSE Len(backups) + 1
    <3>1. Len(Copied) \in 1..Len(Copied) /\ Len(Copied) - Len(Copied) < KeepBackups
      BY <2>3, <2>4
    <3> QED BY <3>1, <2>3, TrimKeepsHighest
  <2>6. CopyIsKept => live \in ToSet(Trimmed(Copied))
    <3> SUFFICES ASSUME CopyIsKept PROVE live \in ToSet(Trimmed(Copied))
      OBVIOUS
    <3>1. place + 1 \in 1..Len(Copied) /\ Len(Copied) - (place + 1) < KeepBackups
      BY <2>2, <2>3, <2>4 DEF CopyIsKept
    <3>2. Copied[place + 1] \in ToSet(Trimmed(Copied))
      BY <3>1, <2>3, TrimKeepsHighest
    <3> QED BY <3>2, <2>3
  <2>7. /\ backups' \in Seq(Documents) /\ Len(backups') <= KeepBackups
        /\ place' \in 0..Len(backups')
    BY <2>1, <2>2, <2>3, <2>4, <2>5
  <2>8. fileRaces' \subseteq FileRaces /\ (fileRaces' = {} => live' \in ToSet(backups'))
    BY <1>1, <2>1, <2>6 DEF FileRaces
  <2> QED BY <1>1, <1>3, <2>7, <2>8 DEF FilesInv, NoSave
<1> QED BY <1>2, <1>3

\* Every step of Save, of a load, of an editor and of the clock keeps it.
LEMMA FilesStepOK == FilesInv /\ [FilesNext]_fileVars => FilesInv'
<1> SUFFICES ASSUME FilesInv, [FilesNext]_fileVars PROVE FilesInv'
  OBVIOUS
<1> USE FileValues DEF Documents, Files, FoundFile, NoSave
<1>1. CASE \E c \in Contents : SaveBegin(c)
  BY <1>1, SaveBeginOK
<1>2. CASE SaveStage
  BY <1>2 DEF FilesInv, SaveStage, Staged
<1>3. CASE SaveReplace
  BY <1>3 DEF FilesInv, SaveReplace
<1>4. CASE SaveFinish
  BY <1>4 DEF FilesInv, SaveFinish
<1>5. CASE SaveFails
  BY <1>5 DEF FilesInv, SaveFails
<1>6. CASE LoadConfig
  BY <1>6 DEF FilesInv, LoadConfig, Restores
<1>7. CASE \E p \in {"owner", "other"} : FindStaged(p)
  BY <1>7 DEF FilesInv, FindStaged
<1>8. CASE \E p \in {"owner", "other"} : RestoreStaged(p)
  <2>1. PICK p \in {"owner", "other"} : RestoreStaged(p)
    BY <1>8
  <2>2. UNCHANGED <<backups, place, saver, previous>>
    BY <2>1 DEF RestoreStaged
  <2>3. CASE staging = Absent
    <3>1. UNCHANGED <<live, staging, due, fileRaces>>
      BY <2>1, <2>3 DEF RestoreStaged
    <3> QED BY <2>2, <3>1 DEF FilesInv
  <2>4. CASE staging # Absent
    <3>1. /\ live' = staging /\ staging' = Absent
          /\ due' \in {{staging}, due}
          /\ fileRaces' = IF live = Absent THEN fileRaces ELSE fileRaces \cup {"restore"}
      BY <2>1, <2>4 DEF RestoreStaged
    <3>2. FoundFile' = staging /\ (live = Absent => FoundFile = staging)
      BY <3>1, <2>4
    <3>3. fileRaces' \subseteq FileRaces /\ due' \subseteq Documents
      BY <3>1, <2>4 DEF FilesInv, FileRaces
    <3>4. "restore" \notin fileRaces' => live = Absent /\ "restore" \notin fileRaces
      BY <3>1
    <3>5. fileRaces' = {} => live = Absent /\ fileRaces = {}
      BY <3>1
    <3> QED BY <2>2, <2>4, <3>1, <3>2, <3>3, <3>4, <3>5 DEF FilesInv
  <2> QED BY <2>3, <2>4
<1>9. CASE CrashOwner
  BY <1>9 DEF FilesInv, CrashOwner
<1>10. CASE \E c \in Contents \cup {Garbled} : EditConfig(c)
  BY <1>10 DEF FilesInv, EditConfig, FileRaces
<1>11. CASE \E n \in 0..Len(backups) : MoveClock(n)
  BY <1>11 DEF FilesInv, MoveClock
<1>12. CASE UNCHANGED fileVars
  BY <1>12 DEF FilesInv, fileVars
<1> QED BY <1>1, <1>2, <1>3, <1>4, <1>5, <1>6, <1>7, <1>8, <1>9, <1>10, <1>11, <1>12 DEF FilesNext

\* Whatever is interrupted, whatever fails and whenever other processes, editors
\* and the clock come in between, a restart finds the last saved or edited
\* configuration, or one of the two of a Save under way, and what a Save
\* replaced is backed up, but for the three races FileRaces names, for any
\* number of saves, faults and backups (persist.go:56-75 and 108-197).
THEOREM SavedIsFound == FilesSpec => []ConfigSurvives
<1>1. FilesInv => ConfigSurvives
  BY DEF FilesInv, ConfigSurvives
<1> QED BY <1>1, FilesInitOK, FilesStepOK, PTL DEF FilesSpec

\* The files, the backups and the Save keep their types, and the backups never
\* outgrow maxConfigBackups (persist.go:126-138 and 188-197).
THEOREM FilesTypes == FilesSpec => []FilesTypeOK
<1>1. FilesInv => FilesTypeOK
  BY DEF FilesInv, FilesTypeOK, Files, Documents
<1> QED BY <1>1, FilesInitOK, FilesStepOK, PTL DEF FilesSpec

-----------------------------------------------------------------------------
(* EdgeHandler.                                                            *)

HandlerTypes ==
    /\ published \in Gens \cup {NoGen} /\ built \in 1..(MaxReloads + 1)
    /\ canceled \subseteq Gens /\ late \subseteq Gens
    /\ probing \in [Gens -> SUBSET Checks]
    /\ reload \in [at : {"idle", "publish", "retire", "wait"}, gen : Gens \cup {NoGen}, old : Gens \cup {NoGen}]
    /\ request \in [Upgrades -> {"new", "serving", "hijacked", "open", "ending", "done"}]
    /\ conn \in [Upgrades -> {"none", "open", "closed"}]
    /\ tunnels \subseteq Upgrades /\ tunnelsClosed \in BOOLEAN
    /\ closer \in [Closers -> [at : {"idle", "closing", "swap", "stop", "wait", "done"},
                               todo : SUBSET Upgrades, old : Gens \cup {NoGen}]]

(***************************************************************************)
(* The tunnels: a registered tunnel is one whose copies run or end, an     *)
(* open connection without a registered tunnel has only been taken over;   *)
(* once a caller of Close has waited for the tunnels there are none, and   *)
(* until then an open one is on the list of a caller that closes it.       *)
(***************************************************************************)
TunnelInv ==
    /\ \A u \in Upgrades : u \in tunnels <=> request[u] \in {"open", "ending"}
    /\ \A u \in Upgrades : conn[u] = "open" => request[u] \in {"hijacked", "open"}
    /\ \A u \in Upgrades : request[u] \in {"hijacked", "open"} => conn[u] # "none"
    /\ \A k \in Closers : closer[k].at # "idle" => tunnelsClosed
    /\ \A k \in Closers : closer[k].at \in {"swap", "stop", "wait", "done"} => tunnels = {}
    /\ tunnelsClosed => \A u \in tunnels :
          conn[u] = "open" => \E k \in Closers : closer[k].at = "closing" /\ u \in closer[k].todo

(***************************************************************************)
(* The generations: one that still checks is published, or in the hands of *)
(* the Reload or of a caller of Close that will wait for it; what they     *)
(* wait for is cancelled; and once the handler was emptied, it only        *)
(* publishes late generations.                                             *)
(***************************************************************************)
Responsible(g) ==
    \/ g = published
    \/ reload.at = "publish" /\ g = reload.gen
    \/ reload.at \in {"retire", "wait"} /\ g = reload.old
    \/ \E k \in Closers : closer[k].at \in {"stop", "wait"} /\ g = closer[k].old

GenerationInv ==
    /\ \A g \in Gens : probing[g] # {} => Responsible(g)
    /\ reload.at = "publish" => reload.gen \in Gens
    /\ \A k \in Closers : closer[k].at = "wait" => closer[k].old \in canceled \cup {NoGen}
    /\ \A k \in Closers : closer[k].at \in {"stop", "wait", "done"} => published \in late \cup {NoGen}

HandlerInv == HandlerTypes /\ TunnelInv /\ GenerationInv

\* NoGen is no generation.
LEMMA GensAreNumbers == MaxReloads \in Nat /\ Gens = 0..MaxReloads /\ NoGen \notin Gens
  BY HandlerValues DEF Gens, NoGen

\* NewHandler publishes generation 0.
LEMMA HandlerInitOK == HandlerInit => HandlerInv
<1> SUFFICES ASSUME HandlerInit PROVE HandlerInv
  OBVIOUS
<1>1. 0 \in Gens /\ 1 \in 1..(MaxReloads + 1)
  BY GensAreNumbers
<1>2. HandlerTypes
  BY <1>1 DEF HandlerInit, HandlerTypes, NoReload, NotClosing
<1>3. TunnelInv
  BY DEF HandlerInit, TunnelInv, NotClosing
<1>4. GenerationInv
  BY DEF HandlerInit, GenerationInv, NoReload, NotClosing, Responsible
<1> QED BY <1>2, <1>3, <1>4 DEF HandlerInv

\* Every step of requests, Reload and Close keeps the types ...
LEMMA HandlerTypesStep == HandlerInv /\ [HandlerNext]_handlerVars => HandlerTypes'
<1> SUFFICES ASSUME HandlerTypes, GenerationInv, [HandlerNext]_handlerVars PROVE HandlerTypes'
  BY DEF HandlerInv
<1> USE DEF HandlerTypes
<1>1. ASSUME NEW ok \in BOOLEAN, BuildState(ok) PROVE HandlerTypes'
  <2>1. built \in Gens /\ built + 1 \in 1..(MaxReloads + 1)
    BY <1>1, GensAreNumbers DEF BuildState
  <2> QED BY <1>1, <2>1 DEF BuildState
<1>2. CASE PublishState
  BY <1>2 DEF PublishState, GenerationInv
<1>3. CASE RetireState
  BY <1>3 DEF RetireState, Cancel
<1>4. CASE ReloadReturns
  BY <1>4 DEF ReloadReturns, NoReload
<1>5. ASSUME NEW g \in Gens, NEW c \in Checks, CheckEnds(g, c) PROVE HandlerTypes'
  BY <1>5 DEF CheckEnds
<1>6. ASSUME NEW u \in Upgrades, ServeUpgrade(u) \/ NoUpgrade(u) \/ \E cleared \in BOOLEAN : Hijack(u, cleared)
      PROVE  HandlerTypes'
  BY <1>6 DEF ServeUpgrade, NoUpgrade, Hijack
<1>7. ASSUME NEW u \in Upgrades, RegisterProtocolTunnel(u) \/ TunnelEnds(u) \/ UnregisterProtocolTunnel(u)
      PROVE  HandlerTypes'
  BY <1>7 DEF RegisterProtocolTunnel, TunnelEnds, UnregisterProtocolTunnel
<1>8. ASSUME NEW k \in Closers, CloseBegins(k) PROVE HandlerTypes'
  BY <1>8 DEF CloseBegins
<1>9. ASSUME NEW k \in Closers, NEW u \in Upgrades, CloseTunnel(k, u) PROVE HandlerTypes'
  BY <1>9 DEF CloseTunnel
<1>10. ASSUME NEW k \in Closers, TunnelsGone(k) \/ EmptyHandler(k) PROVE HandlerTypes'
  BY <1>10 DEF TunnelsGone, EmptyHandler
<1>11. ASSUME NEW k \in Closers, StopChecks(k) \/ CloseReturns(k) PROVE HandlerTypes'
  BY <1>11 DEF StopChecks, CloseReturns, Cancel
<1>12. CASE UNCHANGED handlerVars
  BY <1>12 DEF handlerVars
<1> QED BY <1>1, <1>2, <1>3, <1>4, <1>5, <1>6, <1>7, <1>8, <1>9, <1>10, <1>11, <1>12
        DEF HandlerNext, CloseSteps

\* ... what is known of the tunnels, ...
LEMMA TunnelStep == HandlerInv /\ [HandlerNext]_handlerVars => TunnelInv'
<1> SUFFICES ASSUME HandlerTypes, TunnelInv, [HandlerNext]_handlerVars PROVE TunnelInv'
  BY DEF HandlerInv
<1> USE DEF HandlerTypes, TunnelInv
<1>1. CASE (\E ok \in BOOLEAN : BuildState(ok)) \/ PublishState \/ RetireState \/ ReloadReturns
  BY <1>1 DEF BuildState, PublishState, RetireState, ReloadReturns
<1>2. ASSUME NEW g \in Gens, NEW c \in Checks, CheckEnds(g, c) PROVE TunnelInv'
  BY <1>2 DEF CheckEnds
<1>3. ASSUME NEW u \in Upgrades, ServeUpgrade(u) \/ NoUpgrade(u) PROVE TunnelInv'
  BY <1>3 DEF ServeUpgrade, NoUpgrade
<1>4. ASSUME NEW u \in Upgrades, NEW cleared \in BOOLEAN, Hijack(u, cleared) PROVE TunnelInv'
  BY <1>4 DEF Hijack
<1>5. ASSUME NEW u \in Upgrades, RegisterProtocolTunnel(u) PROVE TunnelInv'
  <2>1. CASE tunnelsClosed
    BY <1>5, <2>1 DEF RegisterProtocolTunnel, RefusesTunnels
  <2>2. CASE ~tunnelsClosed
    <3>1. \A k \in Closers : closer[k].at = "idle"
      BY <2>2
    <3>2. /\ request' = [request EXCEPT ![u] = "open"] /\ tunnels' = tunnels \cup {u}
          /\ conn[u] # "none" /\ UNCHANGED <<conn, closer, tunnelsClosed>>
      BY <1>5, <2>2 DEF RegisterProtocolTunnel, RefusesTunnels
    <3> QED BY <3>1, <3>2, <2>2
  <2> QED BY <2>1, <2>2
<1>6. ASSUME NEW u \in Upgrades, TunnelEnds(u) \/ UnregisterProtocolTunnel(u) PROVE TunnelInv'
  BY <1>6 DEF TunnelEnds, UnregisterProtocolTunnel
<1>7. ASSUME NEW k \in Closers, CloseBegins(k) PROVE TunnelInv'
  BY <1>7 DEF CloseBegins
<1>8. ASSUME NEW k \in Closers, NEW u \in Upgrades, CloseTunnel(k, u) PROVE TunnelInv'
  BY <1>8 DEF CloseTunnel
<1>9. ASSUME NEW k \in Closers, TunnelsGone(k) PROVE TunnelInv'
  BY <1>9 DEF TunnelsGone
<1>10. ASSUME NEW k \in Closers, EmptyHandler(k) \/ StopChecks(k) \/ CloseReturns(k) PROVE TunnelInv'
  BY <1>10 DEF EmptyHandler, StopChecks, CloseReturns
<1>11. CASE UNCHANGED handlerVars
  BY <1>11 DEF handlerVars
<1> QED BY <1>1, <1>2, <1>3, <1>4, <1>5, <1>6, <1>7, <1>8, <1>9, <1>10, <1>11 DEF HandlerNext, CloseSteps

\* ... and what is known of the generations.
LEMMA GenerationStep == HandlerInv /\ [HandlerNext]_handlerVars => GenerationInv'
<1> SUFFICES ASSUME HandlerTypes, GenerationInv, [HandlerNext]_handlerVars PROVE GenerationInv'
  BY DEF HandlerInv
<1> USE GensAreNumbers DEF HandlerTypes, GenerationInv, Responsible
<1>1. ASSUME NEW ok \in BOOLEAN, BuildState(ok) PROVE GenerationInv'
  <2>1. built \in Gens
    BY <1>1 DEF BuildState
  <2> QED BY <1>1, <2>1 DEF BuildState
<1>2. CASE PublishState
  BY <1>2 DEF PublishState
<1>3. CASE RetireState
  BY <1>3 DEF RetireState, Cancel
<1>4. CASE ReloadReturns
  BY <1>4 DEF ReloadReturns, NoReload, Stopped
<1>5. ASSUME NEW g \in Gens, NEW c \in Checks, CheckEnds(g, c) PROVE GenerationInv'
  BY <1>5 DEF CheckEnds
<1>6. ASSUME NEW u \in Upgrades, ServeUpgrade(u) \/ NoUpgrade(u) \/ \E cleared \in BOOLEAN : Hijack(u, cleared)
      PROVE  GenerationInv'
  BY <1>6 DEF ServeUpgrade, NoUpgrade, Hijack
<1>7. ASSUME NEW u \in Upgrades, RegisterProtocolTunnel(u) \/ TunnelEnds(u) \/ UnregisterProtocolTunnel(u)
      PROVE  GenerationInv'
  BY <1>7 DEF RegisterProtocolTunnel, TunnelEnds, UnregisterProtocolTunnel
<1>8. ASSUME NEW k \in Closers, CloseBegins(k) PROVE GenerationInv'
  <2>1. /\ closer[k].at = "idle" /\ closer'[k].at = "closing"
        /\ \A j \in Closers : j # k => closer'[j] = closer[j]
        /\ UNCHANGED <<published, canceled, probing, reload, late>>
    BY <1>8 DEF CloseBegins
  <2>2. ASSUME NEW g \in Gens, probing'[g] # {} PROVE Responsible(g)'
    <3>1. Responsible(g)
      BY <2>1, <2>2
    <3>2. CASE \E j \in Closers : closer[j].at \in {"stop", "wait"} /\ g = closer[j].old
      <4>1. PICK j \in Closers : closer[j].at \in {"stop", "wait"} /\ g = closer[j].old
        BY <3>2
      <4>2. closer'[j] = closer[j]
        BY <2>1, <4>1
      <4> QED BY <4>1, <4>2
    <3> QED BY <2>1, <3>1, <3>2
  <2>3. ASSUME NEW j \in Closers
        PROVE  /\ closer'[j].at = "wait" => closer'[j].old \in canceled' \cup {NoGen}
               /\ closer'[j].at \in {"stop", "wait", "done"} => published' \in late' \cup {NoGen}
    BY <2>1
  <2> HIDE DEF Responsible
  <2> QED BY <2>1, <2>2, <2>3
<1>9. ASSUME NEW k \in Closers, NEW u \in Upgrades, CloseTunnel(k, u) PROVE GenerationInv'
  <2>1. /\ closer[k].at = "closing" /\ closer'[k].at = "closing"
        /\ \A j \in Closers : j # k => closer'[j] = closer[j]
        /\ UNCHANGED <<published, canceled, probing, reload, late>>
    BY <1>9 DEF CloseTunnel
  <2> QED BY <2>1, SMTT(30)
<1>10. ASSUME NEW k \in Closers, TunnelsGone(k) PROVE GenerationInv'
  BY <1>10 DEF TunnelsGone
<1>11. ASSUME NEW k \in Closers, EmptyHandler(k) PROVE GenerationInv'
  <2>1. /\ closer[k].at = "swap" /\ closer'[k].at = "stop" /\ closer'[k].old = published
        /\ \A j \in Closers : j # k => closer'[j] = closer[j]
        /\ published' = NoGen /\ UNCHANGED <<canceled, probing, reload, late>>
    BY <1>11 DEF EmptyHandler
  <2> QED BY <2>1, SMTT(30)
<1>12. ASSUME NEW k \in Closers, StopChecks(k) PROVE GenerationInv'
  <2>1. /\ closer[k].at = "stop" /\ closer'[k].at = "wait" /\ closer'[k].old = closer[k].old
        /\ \A j \in Closers : j # k => closer'[j] = closer[j]
        /\ canceled \subseteq canceled' /\ closer[k].old \in canceled' \cup {NoGen}
        /\ UNCHANGED <<published, probing, reload, late>>
    BY <1>12 DEF StopChecks, Cancel
  <2> QED BY <2>1
<1>13. ASSUME NEW k \in Closers, CloseReturns(k) PROVE GenerationInv'
  BY <1>13 DEF CloseReturns, Stopped
<1>14. CASE UNCHANGED handlerVars
  BY <1>14 DEF handlerVars
<1> QED BY <1>1, <1>2, <1>3, <1>4, <1>5, <1>6, <1>7, <1>8, <1>9, <1>10, <1>11, <1>12, <1>13, <1>14
        DEF HandlerNext, CloseSteps

\* The handler's inductive invariant.
THEOREM HandlerInvariant == HandlerSpec => []HandlerInv
<1>1. HandlerInv /\ [HandlerNext]_handlerVars => HandlerInv'
  BY HandlerTypesStep, TunnelStep, GenerationStep DEF HandlerInv
<1> QED BY <1>1, HandlerInitOK, PTL DEF HandlerSpec

\* Once Close has returned to any caller no tunnel is registered, every
\* connection of one is closed, and only a generation published behind Close
\* is still checked; a Reload leaves only its own generation's checks running;
\* for any number of requests, callers, checks and reloads
\* (handler.go:112-203).
THEOREM CloseLeavesNothing == HandlerSpec => []HandlerQuiet
<1>1. ASSUME HandlerInv PROVE HandlerQuiet
  <2> DEFINE Checking == {g \in Gens : probing[g] # {}}
             Unreturned == {k \in Closers : closer[k].at # "done"}
  <2>1. ASSUME Unreturned # Closers
        PROVE  /\ tunnels = {}
               /\ \A u \in Upgrades : conn[u] = "open" => request[u] = "hijacked"
               /\ reload.at = "idle" => Checking \subseteq late \cup {closer[k].old : k \in Unreturned}
    <3>1. PICK k \in Closers : closer[k].at = "done"
      BY <2>1
    <3>2. tunnels = {}
      BY <1>1, <3>1 DEF HandlerInv, TunnelInv
    <3>3. \A u \in Upgrades : conn[u] = "open" => request[u] = "hijacked"
      BY <1>1, <3>2 DEF HandlerInv, TunnelInv
    <3>4. published \in late \cup {NoGen}
      BY <1>1, <3>1 DEF HandlerInv, GenerationInv
    <3>5. ASSUME reload.at = "idle", NEW g \in Checking
          PROVE  g \in late \cup {closer[j].old : j \in Unreturned}
      BY <1>1, <3>4, <3>5, GensAreNumbers DEF HandlerInv, GenerationInv, Responsible
    <3> QED BY <3>2, <3>3, <3>5
  <2>2. ASSUME reload.at = "idle", \A k \in Unreturned : closer[k].at = "idle"
        PROVE  Checking \subseteq {published}
    BY <1>1, <2>2 DEF HandlerInv, GenerationInv, Responsible
  <2> QED BY <2>1, <2>2 DEF HandlerQuiet
<1> QED BY <1>1, HandlerInvariant, PTL

(***************************************************************************)
(* The guards of the steps of Unwinding, which are what ENABLED Unwinding  *)
(* amounts to: those of Close, of a cancelled check and of a tunnel whose  *)
(* connection is closed.                                                   *)
(***************************************************************************)
MayUnwind ==
    \/ \E k \in Closers : /\ closer[k].at = "closing"
                          /\ closer[k].todo # {} \/ tunnels = {}
    \/ \E k \in Closers : closer[k].at \in {"swap", "stop"}
    \/ \E k \in Closers : closer[k].at = "wait" /\ Stopped(closer[k].old)
    \/ \E g \in Gens, c \in Checks : g \in canceled /\ c \in probing[g]
    \/ \E u \in Upgrades : conn[u] = "closed" /\ request[u] = "open"
    \/ \E u \in Upgrades : request[u] = "ending"

CloseMoves == (\E k \in Closers : closer[k].at \notin {"idle", "done"}) => MayUnwind

\* A caller of Close is never stuck behind a peer, an origin or another caller:
\* whatever it waits for is a tunnel that somebody closes or has closed, or a
\* check that is cancelled (handler.go:125-203).
THEOREM CloseIsNeverStuck == HandlerSpec => []CloseMoves
<1>1. ASSUME HandlerInv, NEW k \in Closers, closer[k].at \notin {"idle", "done"}
      PROVE  MayUnwind
  <2>1. closer[k].at \in {"closing", "swap", "stop", "wait"}
    BY <1>1 DEF HandlerInv, HandlerTypes
  <2>2. CASE closer[k].at = "closing" /\ tunnels # {}
    <3>1. PICK u \in tunnels : TRUE
      BY <2>2
    <3>2. u \in Upgrades /\ request[u] \in {"open", "ending"} /\ tunnelsClosed
      BY <1>1, <2>2 DEF HandlerInv, HandlerTypes, TunnelInv
    <3>3. CASE request[u] = "open" /\ conn[u] = "open"
      <4>1. PICK j \in Closers : closer[j].at = "closing" /\ u \in closer[j].todo
        BY <1>1, <3>2, <3>3 DEF HandlerInv, TunnelInv
      <4> QED BY <4>1 DEF MayUnwind
    <3>4. CASE request[u] = "open" /\ conn[u] # "open"
      <4>1. conn[u] = "closed"
        BY <1>1, <3>2, <3>4 DEF HandlerInv, HandlerTypes, TunnelInv
      <4> QED BY <4>1, <3>2, <3>4 DEF MayUnwind
    <3>5. CASE request[u] = "ending"
      BY <3>5, <3>2 DEF MayUnwind
    <3> QED BY <3>2, <3>3, <3>4, <3>5
  <2>3. CASE closer[k].at = "wait" /\ ~Stopped(closer[k].old)
    <3>1. /\ closer[k].old \in canceled /\ canceled \subseteq Gens
          /\ probing[closer[k].old] # {} /\ probing[closer[k].old] \subseteq Checks
      BY <1>1, <2>3 DEF HandlerInv, HandlerTypes, GenerationInv, Stopped
    <3> QED BY <3>1 DEF MayUnwind
  <2> QED BY <2>1, <2>2, <2>3 DEF MayUnwind
<1>2. HandlerInv => CloseMoves
  BY <1>1 DEF CloseMoves
<1> QED BY <1>2, HandlerInvariant, PTL

-----------------------------------------------------------------------------
(* SecurityControl.                                                        *)

RouteSets == SUBSET Names
SecFiles == AllSecConfigs \cup {Bad}
TableFiles == Tables \cup {Bad}
Fallbacks == [path : SecPaths, cfg : AllSecConfigs, env : SecEnvs \cup {None}]

DiskType == [sec : [SecPaths -> SecFiles], env : SecEnvs, edge : TableFiles]
RuntimeType == [path : SecPaths, cfg : AllSecConfigs, table : RouteSets, healthy : AllSecConfigs,
                scheduled : BOOLEAN, inSync : BOOLEAN]
UpdateType == [who : {None, "replace", "update"}, base : AllSecConfigs \cup {None},
               cand : AllSecConfigs \cup {None}, table : RouteSets]
BffType == [at : {"idle", "delete", "put", "restore", "reload"}, route : Names \cup {None},
            policy : BOOLEAN, table : RouteSets]
SupervisorType == [at : {"off", "idle", "env", "sec", "reread", "edge", "late"}, sec : SecFiles,
                   env : SecEnvs \cup {None}, edge : TableFiles, pending : BOOLEAN,
                   prev : SecEnvs \cup {None}]
LoopType == [at : {"new", "digest", "serve", "drain", "exit"}, path : SecPaths,
             fallback : Fallbacks \cup {None}, notice : BOOLEAN]
EdgeType == [active : Tables, seen : TableFiles, ready : BOOLEAN]

SecTypes ==
    /\ disk \in DiskType /\ procEnv \in SecEnvs /\ rt \in RuntimeType /\ tx \in UpdateType
    /\ bff \in BffType /\ sup \in SupervisorType /\ loop \in LoopType /\ ep \in EdgeType
    /\ wasBound \subseteq Listens

\* An update that holds configMu has loaded a file and a table and has checked
\* its candidate against the table; the supervisor runs with its generation,
\* and remembers the environment before the one it validates.
CallInv ==
    /\ tx.who = None => tx = NoSecTx
    /\ tx.who # None => /\ tx.base \in AllSecConfigs /\ tx.cand \in AllSecConfigs
                        /\ tx.cand.policy \subseteq tx.table
    /\ ApiUp => rt.cfg.policy \subseteq rt.table
    /\ loop.at = "new" => tx = NoSecTx /\ bff = NoBff
    /\ loop.at # "serve" => sup = Off
    /\ sup.at = "env" => sup.prev # None
    /\ loop.at \in {"digest", "serve"} => rt.cfg.listen \in wasBound

\* The environment the running configuration was made under.
Effective == IF sup.at = "env" THEN sup.prev ELSE procEnv

\* The supervisor has seen, and dealt with, the file and the table of now.
FileSeen == \/ loop.at = "digest"
            \/ loop.at = "serve" /\ sup.sec = File /\ sup.at # "sec"
TableSeen == \/ loop.at = "digest"
             \/ /\ loop.at = "serve" /\ ~sup.pending /\ sup.at # "edge"
                /\ sup.at = "reread" \/ sup.edge = disk.edge

(***************************************************************************)
(* Without the races of Lost: the running configuration is the one in      *)
(* healthyFileCfg, an update holds what the files still hold, what the     *)
(* supervisor has seen is served or refused, and the fallback of a restart *)
(* goes back to an address that was bound.                                 *)
(***************************************************************************)
HealthyInv == loop.at \in {"digest", "serve"} => rt.cfg = Overlay(rt.healthy, Effective)
UpdateInv == tx.who # None => File = tx.base /\ tx.table = disk.edge
FileInv == FileSeen => refused \/ rt.cfg = Overlay(File, Effective)
TableInv == TableSeen => rt.table = disk.edge \/ ~RoutesLoad
FallbackInv == loop.at \in {"drain", "new"} /\ loop.fallback # None =>
    LET fb == loop.fallback
    IN  /\ fb.path = rt.path
        /\ Overlay(fb.cfg, FallbackEnvironment(fb)).listen \in wasBound
        /\ fb.path # loop.path => File = fb.cfg

FollowInv == lost = {} => HealthyInv /\ UpdateInv /\ FileInv /\ TableInv /\ FallbackInv

SecInv == SecTypes /\ CallInv /\ FollowInv

\* A configuration under an environment is a configuration with its policies.
LEMMA OverlayFacts ==
    ASSUME NEW c \in AllSecConfigs, NEW e \in SecEnvs
    PROVE  Overlay(c, e) \in AllSecConfigs /\ Overlay(c, e).policy = c.policy
  BY SecValues DEF AllSecConfigs, Overlay

\* A configuration with other policies, for routes that exist.
LEMMA PolicyFacts ==
    ASSUME NEW c \in AllSecConfigs, NEW P \in RouteSets
    PROVE  [c EXCEPT !.policy = P] \in AllSecConfigs /\ [c EXCEPT !.policy = P].policy = P
  BY DEF AllSecConfigs, RouteSets

\* What a configuration and a table consist of.
LEMMA ConfigFacts ==
    /\ \A c \in AllSecConfigs : c.policy \in RouteSets /\ c.listen \in Listens
    /\ \A t \in Tables : t \in RouteSets /\ t # Bad
    /\ {} \in RouteSets /\ SecConfigs \subseteq AllSecConfigs /\ Bad \notin AllSecConfigs
    /\ None \notin SecEnvs /\ None \notin {"replace", "update"}
    /\ \A e \in SecEnvs : e.path \in SecPaths
    /\ \A P, Q \in RouteSets : P \cup Q \in RouteSets /\ P \ Q \in RouteSets
    /\ \A P \in RouteSets : \A n \in P : n \in Names
    /\ \A n \in Names : {n} \in RouteSets
  BY SecValues, SMTT(30) DEF AllSecConfigs, RouteSets

\* The dashboard's operation and EdgeProxy's state keep their shapes.
LEMMA BffFacts ==
    /\ NoBff \in BffType /\ NoBff.at = "idle"
    /\ \A n \in Names : /\ [NoBff EXCEPT !.at = "delete", !.route = n] \in BffType
                         /\ [[NoBff EXCEPT !.at = "delete", !.route = n] EXCEPT !.policy = TRUE] \in BffType
    /\ \A x \in BffType : /\ [x EXCEPT !.at = "reload"] \in BffType
                           /\ [x EXCEPT !.at = "restore"] \in BffType
<1>1. NoBff \in BffType /\ NoBff.at = "idle"
  BY ConfigFacts DEF NoBff, BffType
<1>2. \A n \in Names : [NoBff EXCEPT !.at = "delete", !.route = n] \in BffType
  BY <1>1 DEF BffType
<1>3. \A x \in BffType : /\ [x EXCEPT !.at = "reload"] \in BffType
                         /\ [x EXCEPT !.at = "restore"] \in BffType
                         /\ [x EXCEPT !.policy = TRUE] \in BffType
  BY DEF BffType
<1> QED BY <1>1, <1>2, <1>3

\* EdgeProxy serves a table that loads.
LEMMA EdgeFacts ==
    ASSUME NEW x \in EdgeType, NEW t \in Tables
    PROVE  /\ t \in TableFiles /\ [x EXCEPT !.active = t, !.seen = t] \in EdgeType
           /\ [x EXCEPT !.seen = t, !.active = t] \in EdgeType
           /\ [x EXCEPT !.seen = t, !.ready = FALSE] \in EdgeType
           /\ [x EXCEPT !.seen = t, !.ready = TRUE] \in EdgeType
           /\ [x EXCEPT !.seen = Bad] \in EdgeType
           /\ [active |-> t, seen |-> t, ready |-> TRUE] \in EdgeType
  BY DEF EdgeType, TableFiles

\* The first generation is about to start.
LEMMA SecInitOK == SecInit => SecTypes /\ CallInv
<1> SUFFICES ASSUME SecInit PROVE SecTypes /\ CallInv
  OBVIOUS
<1>1. /\ InitSecFile \in [SecPaths -> SecFiles] /\ InitSecEnv \in SecEnvs
      /\ InitSecEnv.path \in SecPaths /\ InitSecFile[InitSecEnv.path] \in AllSecConfigs
      /\ InitTable \in Tables
  BY SecValues, ConfigFacts DEF SecFiles
<1>2. disk \in DiskType /\ rt \in RuntimeType /\ ep \in EdgeType
  BY <1>1, ConfigFacts DEF SecInit, DiskType, RuntimeType, EdgeType, TableFiles
<1>3. tx \in UpdateType /\ bff \in BffType
  BY ConfigFacts DEF SecInit, NoSecTx, NoBff, UpdateType, BffType
<1>4. sup \in SupervisorType /\ loop \in LoopType
  BY <1>1 DEF SecInit, Off, SupervisorType, LoopType, SecFiles, TableFiles
<1>5. CallInv
  BY <1>1, ConfigFacts DEF SecInit, CallInv, NoSecTx, Off, ApiUp
<1> QED BY <1>1, <1>2, <1>3, <1>4, <1>5 DEF SecInit, SecTypes

USE DEF Fault, NoFault, Met, Edit, Call, Watching, TableRace

\* A race that was met stays met, and only the races of Lost are.
LEMMA LostGrows == [SecNext]_secVars => lost \subseteq lost' /\ lost' \subseteq lost \cup Lost
<1> USE DEF Lost
<1>1. Edits => lost \subseteq lost' /\ lost' \subseteq lost \cup Lost
  BY SMTT(30) DEF Edits, EditSec, EditEnv, EditEdge
<1>2. Calls => lost \subseteq lost' /\ lost' \subseteq lost \cup Lost
  BY DEF Calls, BeginReplace, BeginUpdate, Begin, ApiReload, DeleteRoute, ReplaceTable, SaveRaces
<1>3. Updates => lost \subseteq lost' /\ lost' \subseteq lost \cup Lost
  BY DEF Updates, Commit, Refuse, Unapply, SaveRaces
<1>4. BffSteps => lost \subseteq lost' /\ lost' \subseteq lost \cup Lost
  BY DEF BffSteps, EdgeAccepts, EdgePutsOff, EdgeRejects, BffReload, BffRestore, SaveRaces
<1>5. EdgeSteps => lost \subseteq lost' /\ lost' \subseteq lost \cup Lost
  BY DEF EdgeSteps, EdgeApplies, EdgeSchedulesRestart, EdgeRestarted, EdgeRollsBack
<1>6. Ticks => lost \subseteq lost' /\ lost' \subseteq lost \cup Lost
  BY DEF Ticks, TickEnv, TickSec, TickEdge, TickPending
<1>7. Supervision => lost \subseteq lost' /\ lost' \subseteq lost \cup Lost
  BY DEF Supervision, TakeDigests, EnvRefused, EnvRestarts, EnvApplies, SecRefused, SecRestarts,
         SecApplies, RereadEdge, LoadRoutes
<1>8. Generations \/ Stop \/ UNCHANGED secVars => lost \subseteq lost' /\ lost' \subseteq lost \cup Lost
  BY DEF Generations, Drained, DrainFails, Start, Recover, GiveUp, Stop, secVars
<1> QED BY <1>1, <1>2, <1>3, <1>4, <1>5, <1>6, <1>7, <1>8 DEF SecNext

\* The files and tables that are loaded.
LEMMA FileFacts ==
    ASSUME SecTypes
    PROVE  /\ rt.path \in SecPaths /\ \A p \in SecPaths : disk.sec[p] \in SecFiles
           /\ File \in SecFiles /\ (File # Bad => File \in AllSecConfigs)
           /\ \A c : PoliciesKnown(c, disk.edge) => disk.edge \in Tables /\ disk.edge \in RouteSets
                                                    /\ c.policy \subseteq disk.edge
           /\ \A c : disk' = [disk EXCEPT !.sec[rt.path] = c] /\ c \in SecFiles => disk' \in DiskType
           /\ \A t : disk' = [disk EXCEPT !.edge = t] /\ t \in TableFiles => disk' \in DiskType
           /\ rt.cfg \in AllSecConfigs /\ rt.healthy \in AllSecConfigs /\ rt.table \in RouteSets
<1>1. disk \in DiskType /\ rt \in RuntimeType
  BY DEF SecTypes
<1>2. rt.path \in SecPaths /\ rt.cfg \in AllSecConfigs /\ rt.healthy \in AllSecConfigs /\ rt.table \in RouteSets
  BY <1>1 DEF RuntimeType
<1>3. disk.sec \in [SecPaths -> SecFiles] /\ disk.edge \in TableFiles
  BY <1>1 DEF DiskType
<1>4. \A p \in SecPaths : disk.sec[p] \in SecFiles
  BY <1>3
<1>5. File \in SecFiles /\ (File # Bad => File \in AllSecConfigs)
  BY <1>2, <1>4 DEF File, SecFiles
<1>6. \A c : PoliciesKnown(c, disk.edge) => disk.edge \in Tables /\ disk.edge \in RouteSets
                                            /\ c.policy \subseteq disk.edge
  BY <1>3, ConfigFacts DEF PoliciesKnown, TableFiles
<1>7. \A c : disk' = [disk EXCEPT !.sec[rt.path] = c] /\ c \in SecFiles => disk' \in DiskType
  BY <1>1, <1>2 DEF DiskType
<1>8. \A t : disk' = [disk EXCEPT !.edge = t] /\ t \in TableFiles => disk' \in DiskType
  BY <1>1 DEF DiskType
<1> QED BY <1>2, <1>4, <1>5, <1>6, <1>7, <1>8

\* applyReload with a file and a table that suit each other.
LEMMA AppliedFacts ==
    ASSUME NEW old \in RuntimeType, NEW e \in SecEnvs, e = procEnv,
           NEW c \in AllSecConfigs, NEW t \in RouteSets, c.policy \subseteq t
    PROVE  /\ Applied(old, c, t) \in RuntimeType
           /\ Applied(old, c, t).path = old.path
           /\ Applied(old, c, t).cfg = Overlay(c, e)
           /\ Applied(old, c, t).healthy = c
           /\ Applied(old, c, t).table = t
           /\ Applied(old, c, t).cfg.policy \subseteq Applied(old, c, t).table
<1>1. Overlay(c, e) \in AllSecConfigs /\ Overlay(c, e).policy = c.policy
  BY OverlayFacts
<1> QED BY <1>1 DEF Applied, RuntimeType

\* RecordWatchChange and MarkRestartScheduled only touch the watch status.
LEMMA StatusFacts ==
    ASSUME NEW old \in RuntimeType, NEW what
    PROVE  LET same(q) == /\ q \in RuntimeType
                          /\ q.path = old.path /\ q.cfg = old.cfg /\ q.healthy = old.healthy /\ q.table = old.table
           IN  same(Recorded(old, what)) /\ same(Marked(old)) /\ same(Configured(old))
  BY DEF RuntimeType, Recorded, Marked, Configured

\* Save's candidate reaches the file, and the Runtime if it needs no restart.
LEMMA SaveFacts ==
    ASSUME SecTypes, NEW cand \in AllSecConfigs, NEW t \in RouteSets, cand.policy \subseteq t, Save(cand, t)
    PROVE  /\ disk' \in DiskType /\ disk'.edge = disk.edge /\ disk'.env = disk.env
           /\ disk'.sec[rt.path] = cand
           /\ \A p \in SecPaths : p # rt.path => disk'.sec[p] = disk.sec[p]
           /\ rt' \in RuntimeType /\ rt'.path = rt.path
           /\ \/ /\ RestartRequired(Overlay(cand, procEnv))
                 /\ rt'.cfg = rt.cfg /\ rt'.healthy = rt.healthy /\ rt'.table = rt.table
              \/ /\ ~RestartRequired(Overlay(cand, procEnv)) /\ rt.cfg.listen = rt'.cfg.listen
                 /\ rt'.cfg = Overlay(cand, procEnv) /\ rt'.healthy = cand /\ rt'.table = t
                 /\ rt'.cfg.policy \subseteq rt'.table
<1>1. disk \in DiskType /\ rt \in RuntimeType /\ procEnv \in SecEnvs /\ rt.path \in SecPaths
  BY DEF SecTypes, RuntimeType
<1>2. disk' = [disk EXCEPT !.sec[rt.path] = cand]
  BY DEF Save
<1>3. /\ disk' \in DiskType /\ disk'.edge = disk.edge /\ disk'.env = disk.env
      /\ disk'.sec[rt.path] = cand
      /\ \A p \in SecPaths : p # rt.path => disk'.sec[p] = disk.sec[p]
  BY <1>1, <1>2 DEF DiskType, SecFiles
<1>4. CASE RestartRequired(Overlay(cand, procEnv))
  <2>1. rt' = Marked(rt)
    BY <1>4 DEF Save
  <2> QED BY <1>1, <1>3, <1>4, <2>1, StatusFacts
<1>5. CASE ~RestartRequired(Overlay(cand, procEnv))
  <2>1. rt' = Applied(rt, cand, t)
    BY <1>5 DEF Save
  <2>2. rt' \in RuntimeType /\ rt'.path = rt.path /\ rt'.cfg = Overlay(cand, procEnv)
        /\ rt'.healthy = cand /\ rt'.table = t /\ rt'.cfg.policy \subseteq rt'.table
    BY <2>1, <1>1, AppliedFacts
  <2>3. rt.cfg.listen = rt'.cfg.listen
    BY <1>5, <2>2 DEF RestartRequired
  <2> QED BY <1>3, <1>5, <2>2, <2>3
<1> QED BY <1>4, <1>5

\* Steps of EdgeProxy and of the dashboard's operations that leave the files
\* and the Runtime alone.
LEMMA QuietStep ==
    ASSUME SecInv, UNCHANGED <<disk, procEnv, rt, tx, sup, loop, wasBound, refused, lost>>,
           bff' \in BffType, loop.at = "new" => bff' = NoBff, ep' \in EdgeType
    PROVE  SecInv'
<1>1. SecTypes'
  BY DEF SecInv, SecTypes
<1>2. CallInv'
  BY DEF SecInv, CallInv, ApiUp
<1>3. FollowInv'
  BY DEF SecInv, FollowInv, HealthyInv, UpdateInv, FileInv, TableInv, FallbackInv, Effective, FileSeen,
         TableSeen, File, RoutesLoad, PoliciesKnown, FallbackEnvironment
<1> QED BY <1>1, <1>2, <1>3 DEF SecInv

\* The route table's file gets new content.
LEMMA TableStep ==
    ASSUME SecInv, NEW t \in TableFiles, disk' = [disk EXCEPT !.edge = t], TableRace(t),
           UNCHANGED <<procEnv, rt, tx, sup, loop, wasBound, refused>>,
           bff' \in BffType, loop.at = "new" => bff' = NoBff, ep' \in EdgeType
    PROVE  SecInv'
<1>0. SecTypes /\ CallInv /\ FollowInv
  BY DEF SecInv
<1>1. disk' \in DiskType /\ disk'.sec = disk.sec /\ disk'.edge = t
  BY <1>0 DEF SecTypes, DiskType
<1>2. SecTypes'
  BY <1>0, <1>1 DEF SecTypes
<1>3. CallInv'
  BY <1>0 DEF CallInv, ApiUp
<1>4. ASSUME lost' = {} PROVE /\ lost = {} /\ loop.at = "serve" /\ tx.who = None
                              /\ t # sup.edge /\ sup.at # "reread"
  BY <1>4
<1>5. FollowInv'
  <2> SUFFICES ASSUME lost' = {} PROVE HealthyInv' /\ UpdateInv' /\ FileInv' /\ TableInv' /\ FallbackInv'
    BY DEF FollowInv
  <2>1. HealthyInv /\ FileInv
    BY <1>0, <1>4 DEF FollowInv
  <2>2. HealthyInv' /\ FileInv'
    BY <2>1, <1>1 DEF HealthyInv, FileInv, FileSeen, Effective, File
  <2>3. UpdateInv' /\ TableInv' /\ FallbackInv'
    BY <1>1, <1>4 DEF UpdateInv, TableInv, FallbackInv, TableSeen
  <2> QED BY <2>2, <2>3
<1> QED BY <1>2, <1>3, <1>5 DEF SecInv

\* Somebody edits the file.
LEMMA EditSecStep ==
    ASSUME SecInv, NEW p \in SecPaths, NEW c \in SecFiles, EditSec(p, c) PROVE SecInv'
<1>0. SecTypes /\ CallInv /\ FollowInv
  BY DEF SecInv
<1>1. disk' \in DiskType /\ disk'.sec[p] = c /\ disk'.edge = disk.edge
  BY <1>0 DEF EditSec, SecTypes, DiskType
<1>2. UNCHANGED <<procEnv, rt, tx, bff, sup, loop, ep, wasBound, refused>>
  BY DEF EditSec
<1>3. SecTypes' /\ CallInv'
  BY <1>0, <1>1, <1>2 DEF SecTypes, CallInv, ApiUp
<1>4. ASSUME lost' = {} PROVE /\ lost = {} /\ loop.at \notin {"digest", "drain", "new"} /\ tx.who = None
                              /\ p = rt.path /\ c # sup.sec
  BY <1>4 DEF EditSec
<1>5. FollowInv'
  <2> SUFFICES ASSUME lost' = {} PROVE HealthyInv' /\ UpdateInv' /\ FileInv' /\ TableInv' /\ FallbackInv'
    BY DEF FollowInv
  <2>1. HealthyInv /\ TableInv
    BY <1>0, <1>4 DEF FollowInv
  <2>2. HealthyInv' /\ TableInv'
    BY <2>1, <1>1, <1>2 DEF HealthyInv, TableInv, TableSeen, Effective, RoutesLoad, PoliciesKnown
  <2>3. File' = c
    BY <1>1, <1>2, <1>4 DEF File
  <2>4. UpdateInv' /\ FileInv' /\ FallbackInv'
    BY <2>3, <1>2, <1>4 DEF UpdateInv, FileInv, FallbackInv, FileSeen
  <2> QED BY <2>2, <2>4
<1> QED BY <1>3, <1>5 DEF SecInv

\* Somebody edits the dotenv file.
LEMMA EditEnvStep == ASSUME SecInv, NEW e \in SecEnvs, EditEnv(e) PROVE SecInv'
<1>0. SecTypes /\ CallInv /\ FollowInv
  BY DEF SecInv
<1>1. disk' \in DiskType /\ disk'.sec = disk.sec /\ disk'.edge = disk.edge
  BY <1>0 DEF EditEnv, SecTypes, DiskType
<1>2. UNCHANGED <<procEnv, rt, tx, bff, sup, loop, ep, wasBound, refused>> /\ (lost' = {} => lost = {})
  BY DEF EditEnv
<1>3. SecTypes' /\ CallInv'
  BY <1>0, <1>1, <1>2 DEF SecTypes, CallInv, ApiUp
<1>5. FollowInv'
  BY <1>0, <1>1, <1>2
     DEF FollowInv, HealthyInv, UpdateInv, FileInv, TableInv, FallbackInv, Effective, FileSeen,
         TableSeen, File, RoutesLoad, PoliciesKnown, FallbackEnvironment
<1> QED BY <1>3, <1>5 DEF SecInv

\* An update takes configMu and loads the file and the table.
LEMMA BeginStep ==
    ASSUME SecInv, NEW who \in {"replace", "update"}, NEW c \in AllSecConfigs, Begin(who, c) PROVE SecInv'
<1>0. SecTypes /\ CallInv /\ FollowInv
  BY DEF SecInv
<1>1. UNCHANGED <<disk, procEnv, rt, bff, sup, loop, ep, wasBound, refused>> /\ (lost' = {} => lost = {})
  BY DEF Begin
<1>2. File \in AllSecConfigs /\ disk.edge \in RouteSets /\ c.policy \subseteq disk.edge /\ ApiUp
  BY <1>0, FileFacts DEF Begin
<1>3. tx' = [who |-> who, base |-> File, cand |-> c, table |-> disk.edge] /\ who # None
  BY ConfigFacts DEF Begin
<1>4. tx' \in UpdateType
  BY <1>2, <1>3 DEF UpdateType
<1>5. SecTypes'
  BY <1>0, <1>1, <1>4 DEF SecTypes
<1>6. CallInv'
  BY <1>0, <1>1, <1>2, <1>3 DEF CallInv, ApiUp
<1>7. FollowInv'
  BY <1>0, <1>1, <1>3
     DEF FollowInv, HealthyInv, UpdateInv, FileInv, TableInv, FallbackInv, Effective, FileSeen,
         TableSeen, File, RoutesLoad, PoliciesKnown, FallbackEnvironment
<1> QED BY <1>5, <1>6, <1>7 DEF SecInv

\* A candidate that was loaded together with the file and the table is saved,
\* and applied or left to the supervisor.
LEMMA SaveStep ==
    ASSUME SecInv, NEW cand \in AllSecConfigs, NEW t \in RouteSets, cand.policy \subseteq t,
           lost = {} => t = disk.edge, loop.at # "new",
           Save(cand, t), SaveRaces(cand), tx' = NoSecTx, bff' \in BffType,
           UNCHANGED <<procEnv, sup, loop, ep, wasBound>>
    PROVE  SecInv'
<1>0. SecTypes /\ CallInv /\ FollowInv
  BY DEF SecInv
<1>1. /\ disk' \in DiskType /\ disk'.edge = disk.edge
      /\ disk'.sec[rt.path] = cand
      /\ rt' \in RuntimeType /\ rt'.path = rt.path
      /\ \/ /\ RestartRequired(Overlay(cand, procEnv))
            /\ rt'.cfg = rt.cfg /\ rt'.healthy = rt.healthy /\ rt'.table = rt.table
         \/ /\ ~RestartRequired(Overlay(cand, procEnv)) /\ rt.cfg.listen = rt'.cfg.listen
            /\ rt'.cfg = Overlay(cand, procEnv) /\ rt'.healthy = cand /\ rt'.table = t
            /\ rt'.cfg.policy \subseteq rt'.table
  BY <1>0, SaveFacts
<1>2. tx' \in UpdateType /\ tx'.who = None
  BY ConfigFacts DEF NoSecTx, UpdateType
<1>3. SecTypes'
  BY <1>0, <1>1, <1>2 DEF SecTypes
<1>4. CallInv'
  BY <1>0, <1>1, <1>2 DEF CallInv, ApiUp
<1>5. ASSUME lost' = {} PROVE /\ lost = {} /\ loop.at # "drain" /\ sup.at # "env" /\ loop.at # "new"
                              /\ ~Unnoticed(cand)
  BY <1>5 DEF SaveRaces
<1>6. FollowInv'
  <2> SUFFICES ASSUME lost' = {} PROVE HealthyInv' /\ UpdateInv' /\ FileInv' /\ TableInv' /\ FallbackInv'
    BY DEF FollowInv
  <2>1. HealthyInv /\ TableInv /\ t = disk.edge
    BY <1>0, <1>5 DEF FollowInv
  <2>2. File' = cand
    BY <1>1 DEF File
  <2>3. HealthyInv'
    BY <2>1, <1>1, <1>5 DEF HealthyInv, Effective
  <2>4. UpdateInv' /\ FallbackInv'
    BY <1>2, <1>5 DEF UpdateInv, FallbackInv
  <2>5. FileInv'
    BY <1>1, <1>5, <2>2 DEF FileInv, FileSeen, Effective, Unnoticed
  <2>6. TableInv'
    BY <2>1, <1>1 DEF TableInv, TableSeen, RoutesLoad, PoliciesKnown
  <2> QED BY <2>3, <2>4, <2>5, <2>6
<1> QED BY <1>3, <1>4, <1>6 DEF SecInv

\* An update saves what it prepared under configMu.
LEMMA CommitStep == ASSUME SecInv, Commit PROVE SecInv'
<1>0. SecTypes /\ CallInv /\ FollowInv
  BY DEF SecInv
<1>1. /\ tx.who # None /\ Save(tx.cand, tx.table) /\ SaveRaces(tx.cand) /\ tx' = NoSecTx
      /\ UNCHANGED <<procEnv, bff, sup, loop, ep, wasBound>>
  BY DEF Commit
<1>2. tx.cand \in AllSecConfigs /\ tx.table \in RouteSets /\ tx.cand.policy \subseteq tx.table
  BY <1>0, <1>1 DEF CallInv, SecTypes, UpdateType
<1>3. (lost = {} => tx.table = disk.edge) /\ bff' \in BffType /\ loop.at # "new"
  BY <1>0, <1>1 DEF FollowInv, UpdateInv, SecTypes, CallInv, NoSecTx
<1> QED BY <1>1, <1>2, <1>3, SaveStep

\* Nothing has changed, or the file is put back as it was loaded.
LEMMA RefuseStep == ASSUME SecInv, Refuse \/ Unapply PROVE SecInv'
<1>0. SecTypes /\ CallInv /\ FollowInv
  BY DEF SecInv
<1>1. /\ tx.who # None /\ tx' = NoSecTx
      /\ UNCHANGED <<procEnv, rt, bff, sup, loop, ep, wasBound, refused, lost>>
      /\ disk' = disk \/ disk' = [disk EXCEPT !.sec[rt.path] = tx.base]
  BY DEF Refuse, Unapply
<1>2. tx' \in UpdateType /\ tx'.who = None
  BY <1>1, ConfigFacts DEF NoSecTx, UpdateType
<1>3. disk' \in DiskType /\ disk'.edge = disk.edge /\ (lost = {} => File' = File)
  <2>1. disk \in DiskType /\ rt.path \in SecPaths /\ tx.base \in SecFiles
    BY <1>0, <1>1 DEF SecTypes, RuntimeType, CallInv, SecFiles
  <2>2. lost = {} => tx.base = disk.sec[rt.path]
    BY <1>0, <1>1 DEF FollowInv, UpdateInv, File
  <2> QED BY <2>1, <2>2, <1>1 DEF DiskType, File
<1>4. SecTypes' /\ CallInv'
  BY <1>0, <1>1, <1>2, <1>3 DEF SecTypes, CallInv, ApiUp
<1>5. FollowInv'
  <2> SUFFICES ASSUME lost' = {} PROVE HealthyInv' /\ UpdateInv' /\ FileInv' /\ TableInv' /\ FallbackInv'
    BY DEF FollowInv
  <2>1. lost = {} /\ HealthyInv /\ FileInv /\ TableInv /\ FallbackInv /\ File' = File
    BY <1>0, <1>1, <1>3 DEF FollowInv
  <2>2. HealthyInv' /\ FileInv' /\ UpdateInv'
    BY <2>1, <1>1, <1>2 DEF HealthyInv, FileInv, UpdateInv, FileSeen, Effective
  <2>3. TableInv' /\ FallbackInv'
    BY <2>1, <1>1, <1>3 DEF TableInv, TableSeen, RoutesLoad, PoliciesKnown, FallbackInv, FallbackEnvironment
  <2> QED BY <2>2, <2>3
<1> QED BY <1>4, <1>5 DEF SecInv

\* A file that the supervisor's Reload or POST /api/v1/reload can apply.
LEMMA HotFacts ==
    ASSUME SecTypes, Found = "hot"
    PROVE  /\ File \in AllSecConfigs /\ disk.edge \in RouteSets /\ File.policy \subseteq disk.edge
           /\ Applied(rt, File, disk.edge) \in RuntimeType
           /\ Applied(rt, File, disk.edge).path = rt.path
           /\ Applied(rt, File, disk.edge).cfg = Overlay(File, procEnv)
           /\ Applied(rt, File, disk.edge).healthy = File
           /\ Applied(rt, File, disk.edge).table = disk.edge
           /\ Applied(rt, File, disk.edge).cfg.policy \subseteq Applied(rt, File, disk.edge).table
           /\ rt.cfg.listen = Overlay(File, procEnv).listen
<1>1. File # Bad /\ PoliciesKnown(File, disk.edge) /\ rt.cfg.listen = Overlay(File, procEnv).listen
  BY DEF Found, RestartRequired
<1>2. File \in AllSecConfigs /\ disk.edge \in RouteSets /\ File.policy \subseteq disk.edge
  BY <1>1, FileFacts
<1>3. rt \in RuntimeType /\ procEnv \in SecEnvs
  BY DEF SecTypes
<1> QED BY <1>1, <1>2, <1>3, AppliedFacts

\* POST /api/v1/reload applies the file that somebody edited.
LEMMA ApiReloadStep == ASSUME SecInv, ApiReload PROVE SecInv'
<1>0. SecTypes /\ CallInv /\ FollowInv
  BY DEF SecInv
<1>1. /\ ApiUp /\ tx = NoSecTx /\ rt' = Applied(rt, File, disk.edge) /\ SaveRaces(File)
      /\ UNCHANGED <<disk, procEnv, tx, bff, sup, loop, ep, wasBound>>
  BY DEF ApiReload
<1>2. /\ rt' \in RuntimeType /\ rt'.path = rt.path /\ rt'.cfg = Overlay(File, procEnv)
      /\ rt'.healthy = File /\ rt'.table = disk.edge /\ rt'.cfg.policy \subseteq rt'.table
      /\ rt.cfg.listen = rt'.cfg.listen
  BY <1>0, <1>1, HotFacts DEF ApiReload
<1>3. SecTypes' /\ CallInv'
  BY <1>0, <1>1, <1>2 DEF SecTypes, CallInv, ApiUp
<1>4. ASSUME lost' = {} PROVE lost = {} /\ loop.at \notin {"drain", "new"} /\ sup.at # "env"
  BY <1>4, <1>1 DEF SaveRaces, ApiUp
<1>5. FollowInv'
  <2> SUFFICES ASSUME lost' = {} PROVE HealthyInv' /\ UpdateInv' /\ FileInv' /\ TableInv' /\ FallbackInv'
    BY DEF FollowInv
  <2>1. File' = File /\ tx.who = None
    BY <1>1, <1>2 DEF File, NoSecTx
  <2>2. HealthyInv' /\ UpdateInv' /\ FileInv' /\ TableInv' /\ FallbackInv'
    BY <2>1, <1>1, <1>2, <1>4 DEF HealthyInv, UpdateInv, FileInv, TableInv, FallbackInv, Effective
  <2> QED BY <2>2
<1> QED BY <1>3, <1>5 DEF SecInv

\* edgeRouteDelete removes the route's policy, if it has one.
LEMMA DeleteRouteStep == ASSUME SecInv, NEW n \in Names, DeleteRoute(n) PROVE SecInv'
<1>0. SecTypes /\ CallInv /\ FollowInv
  BY DEF SecInv
<1>1. CASE n \in rt.cfg.policy
  <2> DEFINE bare == [File EXCEPT !.policy = @ \ {n}]
  <2>1. /\ File # Bad /\ PoliciesKnown(bare, disk.edge)
        /\ Save(bare, disk.edge) /\ SaveRaces(bare) /\ loop.at # "new" /\ tx' = NoSecTx
        /\ bff' \in {NoBff, [[NoBff EXCEPT !.at = "delete", !.route = n] EXCEPT !.policy = TRUE]}
        /\ UNCHANGED <<procEnv, sup, loop, ep, wasBound>>
    BY <1>1, SMTT(30) DEF DeleteRoute, ApiUp
  <2>2. bff' \in BffType
    BY <2>1, BffFacts
  <2>3. File \in AllSecConfigs /\ disk.edge \in RouteSets /\ bare.policy \subseteq disk.edge
    BY <1>0, <2>1, FileFacts
  <2>4. bare \in AllSecConfigs
    <3>1. File.policy \ {n} \in RouteSets
      BY <2>3, ConfigFacts
    <3> QED BY <2>3, <3>1, PolicyFacts
  <2> HIDE DEF bare
  <2> QED BY <2>1, <2>2, <2>3, <2>4, SaveStep
<1>2. CASE n \notin rt.cfg.policy
  <2>1. /\ UNCHANGED <<disk, procEnv, rt, tx, sup, loop, wasBound, refused, lost, ep>>
        /\ bff' = [NoBff EXCEPT !.at = "delete", !.route = n]
    BY <1>2, SMTT(30) DEF DeleteRoute
  <2>2. bff' \in BffType /\ ep' \in EdgeType /\ loop.at # "new"
    BY <1>0, <2>1, BffFacts DEF SecTypes, DeleteRoute, ApiUp
  <2> QED BY <2>1, <2>2, QuietStep
<1> QED BY <1>1, <1>2

\* EdgeProxy accepts, puts off or rejects the table it is asked for.
LEMMA BffStep == ASSUME SecInv, EdgeAccepts \/ EdgePutsOff \/ EdgeRejects PROVE SecInv'
<1>0. bff \in BffType /\ ep \in EdgeType /\ loop.at # "new"
  BY BffFacts DEF SecInv, SecTypes, CallInv, EdgeAccepts, EdgePutsOff, EdgeRejects, Accepted, Forwarded
<1>1. CASE EdgeAccepts \/ EdgePutsOff
  <2>1. PICK t \in Tables : t = Requested
    BY <1>1 DEF EdgeAccepts, EdgePutsOff, Accepted
  <2>2. /\ disk' = [disk EXCEPT !.edge = t] /\ TableRace(t)
        /\ UNCHANGED <<procEnv, rt, tx, sup, loop, wasBound, refused>>
        /\ \/ ep' = [ep EXCEPT !.active = t, !.seen = t]
           \/ ep' = [ep EXCEPT !.seen = t, !.ready = FALSE]
        /\ \/ bff' = NoBff
           \/ bff' = [bff EXCEPT !.at = "reload"]
           \/ bff' = [bff EXCEPT !.at = "restore"]
    BY <1>1, <2>1 DEF EdgeAccepts, EdgePutsOff
  <2>3. bff' \in BffType /\ ep' \in EdgeType /\ t \in TableFiles
    BY <1>0, <2>2, BffFacts, EdgeFacts, ZenonT(60)
  <2> HIDE DEF TableRace
  <2> QED BY <1>0, <2>2, <2>3, TableStep
<1>2. CASE EdgeRejects
  <2>1. /\ UNCHANGED <<disk, procEnv, rt, tx, sup, loop, ep, wasBound, refused, lost>>
        /\ bff' = [bff EXCEPT !.at = "restore"]
    BY <1>2 DEF EdgeRejects
  <2>2. bff' \in BffType /\ ep' \in EdgeType
    BY <1>0, <2>1, BffFacts
  <2> QED BY <1>0, <2>1, <2>2, QuietStep
<1> QED BY <1>1, <1>2, SMTT(30)

\* EdgeProxy's own reloads, restarts and rollbacks.
LEMMA EdgeStep == ASSUME SecInv, EdgeSteps PROVE SecInv'
<1>0. bff \in BffType /\ ep \in EdgeType /\ disk.edge \in TableFiles /\ ep.active \in Tables
      /\ (loop.at = "new" => bff = NoBff)
  BY DEF SecInv, SecTypes, CallInv, DiskType, EdgeType
<1>1. CASE EdgeApplies \/ EdgeSchedulesRestart \/ EdgeRestarted
  <2>1. /\ UNCHANGED <<disk, procEnv, rt, tx, bff, sup, loop, wasBound, refused, lost>>
        /\ ep' \in EdgeType
    <3>1. disk.edge # Bad => disk.edge \in Tables
      BY <1>0 DEF TableFiles
    <3> QED BY <1>0, <1>1, <3>1, EdgeFacts DEF EdgeApplies, EdgeSchedulesRestart, EdgeRestarted
  <2> QED BY <1>0, <2>1, QuietStep
<1>2. CASE EdgeRollsBack
  <2>1. /\ disk' = [disk EXCEPT !.edge = ep.active] /\ TableRace(ep.active)
        /\ UNCHANGED <<procEnv, rt, tx, bff, sup, loop, wasBound, refused>>
        /\ ep' = [ep EXCEPT !.seen = ep.active, !.ready = TRUE]
    BY <1>2 DEF EdgeRollsBack
  <2>2. ep' \in EdgeType /\ ep.active \in TableFiles
    BY <1>0, <2>1, EdgeFacts
  <2> HIDE DEF TableRace
  <2> QED BY <1>0, <2>1, <2>2, TableStep
<1> QED BY <1>1, <1>2 DEF EdgeSteps

\* ReloadEdgeRoutes replaces the table by one that has every route with a
\* policy, or leaves the Runtime alone.
LEMMA RoutesFacts ==
    ASSUME SecTypes, RoutesLoad
    PROVE  /\ RoutesReloaded(rt) \in RuntimeType /\ RoutesReloaded(rt).path = rt.path
           /\ RoutesReloaded(rt).cfg = rt.cfg /\ RoutesReloaded(rt).healthy = rt.healthy
           /\ RoutesReloaded(rt).table = disk.edge /\ rt.cfg.policy \subseteq disk.edge
<1>1. disk.edge \in RouteSets /\ rt.cfg.policy \subseteq disk.edge
  BY FileFacts DEF RoutesLoad
<1>2. rt \in RuntimeType
  BY DEF SecTypes
<1> QED BY <1>1, <1>2 DEF RoutesReloaded, RuntimeType

\* The dashboard's operation loads the table EdgeProxy has saved ...
LEMMA BffReloadStep == ASSUME SecInv, BffReload PROVE SecInv'
<1>0. SecTypes /\ CallInv /\ FollowInv
  BY DEF SecInv
<1>1. /\ tx = NoSecTx /\ bff' = NoBff
      /\ UNCHANGED <<disk, procEnv, tx, sup, loop, ep, wasBound, refused, lost>>
  BY DEF BffReload
<1>2. CASE ~RoutesLoad
  <2>1. rt' = rt
    BY <1>2, SMTT(30) DEF BffReload
  <2>2. bff' \in BffType /\ ep' \in EdgeType
    BY <1>0, <1>1, BffFacts DEF SecTypes
  <2> QED BY <1>1, <2>1, <2>2, QuietStep
<1>3. CASE RoutesLoad
  <2>1. rt' \in RuntimeType /\ rt'.path = rt.path /\ rt'.cfg = rt.cfg /\ rt'.healthy = rt.healthy
        /\ rt'.table = disk.edge /\ rt.cfg.policy \subseteq disk.edge
    BY <1>0, <1>3, RoutesFacts, SMTT(30) DEF BffReload
  <2>2. SecTypes'
    BY <1>0, <1>1, <2>1, BffFacts DEF SecTypes
  <2>3. CallInv'
    BY <1>0, <1>1, <2>1 DEF CallInv, ApiUp
  <2>4. FollowInv'
    BY <1>0, <1>1, <2>1
       DEF FollowInv, HealthyInv, UpdateInv, FileInv, TableInv, FallbackInv, Effective, FileSeen,
           File, FallbackEnvironment
  <2> QED BY <2>2, <2>3, <2>4 DEF SecInv
<1> QED BY <1>2, <1>3

\* ... or puts the policy back.
LEMMA BffRestoreStep == ASSUME SecInv, BffRestore PROVE SecInv'
<1>0. SecTypes /\ CallInv /\ FollowInv
  BY DEF SecInv
<1> DEFINE full == [File EXCEPT !.policy = @ \cup {bff.route}]
<1>1. /\ bff' = NoBff /\ tx = NoSecTx
      /\ UNCHANGED <<procEnv, tx, sup, loop, ep, wasBound, refused>>
  BY SMTT(30) DEF BffRestore
<1>2. bff' \in BffType /\ ep' \in EdgeType /\ loop.at # "new"
  BY <1>0, <1>1, BffFacts DEF SecTypes, CallInv, BffRestore
<1>3. CASE bff.policy /\ bff.route \in rt.table /\ File # Bad /\ PoliciesKnown(full, disk.edge)
  <2>1. Save(full, disk.edge) /\ SaveRaces(full)
    BY <1>3 DEF BffRestore
  <2>2. /\ File \in AllSecConfigs /\ disk.edge \in RouteSets /\ full.policy \subseteq disk.edge
        /\ bff.route \in Names
    BY <1>0, <1>3, FileFacts, ConfigFacts
  <2>3. full \in AllSecConfigs
    <3>1. File.policy \cup {bff.route} \in RouteSets
      BY <2>2, ConfigFacts
    <3> QED BY <2>2, <3>1, PolicyFacts
  <2> HIDE DEF full
  <2> QED BY <1>1, <1>2, <2>1, <2>2, <2>3, SaveStep
<1>4. CASE ~(bff.policy /\ bff.route \in rt.table /\ File # Bad /\ PoliciesKnown(full, disk.edge))
  <2>1. UNCHANGED <<disk, rt, lost>>
    BY <1>4 DEF BffRestore
  <2> QED BY <1>1, <1>2, <2>1, QuietStep
<1> QED BY <1>3, <1>4

\* The supervisor's record keeps its shape.
LEMMA OffFacts == Off \in SupervisorType /\ Off.at = "off"
  BY DEF Off, SupervisorType, SecFiles, TableFiles

\* What the watched files hold.
LEMMA DiskFacts ==
    ASSUME SecTypes
    PROVE  /\ disk.env \in SecEnvs /\ disk.edge \in TableFiles /\ File \in SecFiles
           /\ procEnv \in SecEnvs /\ procEnv.path \in SecPaths /\ disk.sec[procEnv.path] \in SecFiles
           /\ loop.path \in SecPaths /\ disk.sec[loop.path] \in SecFiles
           /\ rt \in RuntimeType /\ sup \in SupervisorType /\ loop \in LoopType
<1>1. /\ disk.env \in SecEnvs /\ disk.edge \in TableFiles /\ disk.sec \in [SecPaths -> SecFiles]
      /\ loop.path \in SecPaths /\ procEnv \in SecEnvs
      /\ rt \in RuntimeType /\ sup \in SupervisorType /\ loop \in LoopType
  BY DEF SecTypes, DiskType, LoopType
<1>2. procEnv.path \in SecPaths
  BY <1>1, ConfigFacts
<1> QED BY <1>1, <1>2, FileFacts

\* The dotenv file's values are set: the Runtime still serves those before.
LEMMA TickEnvStep == ASSUME SecInv, TickEnv PROVE SecInv'
<1>0. SecTypes /\ CallInv /\ FollowInv
  BY DEF SecInv
<1>1. /\ loop.at = "serve" /\ sup.at = "idle" /\ procEnv' = disk.env
      /\ sup' = [sup EXCEPT !.at = "env", !.env = disk.env, !.prev = procEnv]
      /\ UNCHANGED <<disk, rt, tx, bff, loop, ep, wasBound, refused>> /\ (lost' = {} => lost = {})
  BY DEF TickEnv
<1>2. /\ sup' \in SupervisorType /\ sup'.at = "env" /\ sup'.prev = procEnv /\ sup'.sec = sup.sec
      /\ sup'.edge = sup.edge /\ sup'.pending = sup.pending /\ procEnv' \in SecEnvs /\ procEnv # None
  BY <1>0, <1>1, DiskFacts, ConfigFacts DEF SupervisorType
<1>3. SecTypes' /\ CallInv'
  BY <1>0, <1>1, <1>2 DEF SecTypes, CallInv, ApiUp
<1>4. FollowInv'
  BY <1>0, <1>1, <1>2
     DEF FollowInv, HealthyInv, UpdateInv, FileInv, TableInv, FallbackInv, Effective, FileSeen,
         TableSeen, File, RoutesLoad, PoliciesKnown
<1> QED BY <1>3, <1>4 DEF SecInv

\* A step of the supervisor that leaves the Runtime's configuration and table,
\* and the environment it was made under, alone.
LEMMA WatchStep ==
    ASSUME SecInv, loop.at = "serve", UNCHANGED <<disk, tx, bff, loop, ep, wasBound>>, lost' = lost,
           procEnv' \in SecEnvs, sup' \in SupervisorType, sup'.at = "env" => sup'.prev # None, Effective' = Effective,
           rt' \in RuntimeType, rt'.path = rt.path, rt'.cfg = rt.cfg, rt'.healthy = rt.healthy,
           rt'.table = rt.table,
           lost = {} => \/ ~FileSeen' \/ refused'
                        \/ (FileSeen /\ refused' = refused)
                        \/ rt.cfg = Overlay(File, Effective),
           lost = {} => \/ ~TableSeen' \/ TableSeen
    PROVE  SecInv'
<1>0. SecTypes /\ CallInv /\ FollowInv
  BY DEF SecInv
<1>1. SecTypes' /\ CallInv'
  BY <1>0 DEF SecTypes, CallInv, ApiUp
<1>2. FollowInv'
  <2> SUFFICES ASSUME lost' = {} PROVE HealthyInv' /\ UpdateInv' /\ FileInv' /\ TableInv' /\ FallbackInv'
    BY DEF FollowInv
  <2>1. HealthyInv /\ UpdateInv /\ FileInv /\ TableInv /\ File' = File
    BY <1>0 DEF FollowInv, File
  <2>2. HealthyInv' /\ UpdateInv' /\ FallbackInv'
    BY <2>1 DEF HealthyInv, UpdateInv, FallbackInv
  <2>3. FileInv'
    BY <2>1 DEF FileInv
  <2>4. TableInv'
    BY <2>1 DEF TableInv, RoutesLoad, PoliciesKnown
  <2> QED BY <2>2, <2>3, <2>4
<1> QED BY <1>1, <1>2 DEF SecInv

\* The supervisor finds another configuration ...
LEMMA TickSecStep == ASSUME SecInv, TickSec PROVE SecInv'
<1>0. SecTypes
  BY DEF SecInv
<1>1. /\ loop.at = "serve" /\ sup.at = "idle" /\ sup' = [sup EXCEPT !.at = "sec", !.sec = File]
      /\ UNCHANGED <<disk, procEnv, rt, tx, bff, loop, ep, wasBound, refused, lost>>
  BY DEF TickSec
<1>2. /\ sup' \in SupervisorType /\ sup'.at = "sec" /\ sup'.edge = sup.edge /\ sup'.pending = sup.pending
      /\ rt \in RuntimeType /\ procEnv \in SecEnvs
  BY <1>0, <1>1, DiskFacts DEF SupervisorType
<1>3. Effective' = Effective /\ ~FileSeen' /\ (TableSeen' => TableSeen)
  BY <1>1, <1>2 DEF Effective, FileSeen, TableSeen
<1> QED BY <1>1, <1>2, <1>3, WatchStep

\* ... or another route table, or one it has put off.
LEMMA TickEdgeStep == ASSUME SecInv, TickEdge \/ TickPending PROVE SecInv'
<1>0. SecTypes /\ rt \in RuntimeType /\ procEnv \in SecEnvs
  BY DEF SecInv, SecTypes
<1>1. /\ loop.at = "serve" /\ sup.at = "idle"
      /\ \/ sup' = [sup EXCEPT !.at = "edge", !.edge = disk.edge]
         \/ sup' = [sup EXCEPT !.edge = disk.edge, !.pending = TRUE]
         \/ sup.pending /\ sup' = [sup EXCEPT !.at = "late"]
         \/ sup.pending /\ sup' = sup
      /\ rt' = rt \/ rt' = Recorded(rt, "error")
      /\ UNCHANGED <<disk, procEnv, tx, bff, loop, ep, wasBound, refused, lost>>
  BY DEF TickEdge, TickPending
<1>2. /\ sup' \in SupervisorType /\ sup'.at \in {"edge", "idle", "late"} /\ sup'.sec = sup.sec
      /\ sup'.at = "edge" \/ sup'.pending
  BY <1>0, <1>1, DiskFacts DEF SupervisorType
<1>3. /\ rt' \in RuntimeType /\ rt'.path = rt.path /\ rt'.cfg = rt.cfg /\ rt'.healthy = rt.healthy
      /\ rt'.table = rt.table
  BY <1>0, <1>1, StatusFacts
<1>4. Effective' = Effective /\ (FileSeen' => FileSeen) /\ ~TableSeen'
  BY <1>1, <1>2, <1>3 DEF Effective, FileSeen, TableSeen, File
<1> QED BY <1>0, <1>1, <1>2, <1>3, <1>4, WatchStep

\* The environment is rolled back to the one that is in effect.
LEMMA EnvRefusedStep == ASSUME SecInv, EnvRefused PROVE SecInv'
<1>0. SecTypes /\ CallInv /\ rt \in RuntimeType
  BY DEF SecInv, SecTypes
<1>1. /\ sup.at = "env" /\ procEnv' = sup.prev /\ sup' = [sup EXCEPT !.at = "idle", !.prev = None]
      /\ rt' = Recorded(rt, "error")
      /\ UNCHANGED <<disk, tx, bff, loop, ep, wasBound, refused, lost>>
  BY DEF EnvRefused, EnvBefore
<1>2. loop.at = "serve" /\ sup.prev \in SecEnvs
  BY <1>0, <1>1, OffFacts DEF CallInv, SecTypes, SupervisorType
<1>3. /\ sup' \in SupervisorType /\ sup'.at = "idle" /\ sup'.sec = sup.sec /\ sup'.edge = sup.edge
      /\ sup'.pending = sup.pending
  BY <1>0, <1>1, DiskFacts DEF SupervisorType
<1>4. /\ rt' \in RuntimeType /\ rt'.path = rt.path /\ rt'.cfg = rt.cfg /\ rt'.healthy = rt.healthy
      /\ rt'.table = rt.table
  BY <1>0, <1>1, StatusFacts
<1>5. Effective' = Effective /\ (FileSeen' => FileSeen) /\ (TableSeen' => TableSeen)
  BY <1>1, <1>3, <1>4 DEF Effective, FileSeen, TableSeen, File
<1> QED BY <1>0, <1>1, <1>2, <1>3, <1>4, <1>5, WatchStep

\* Reload refuses the file.
LEMMA SecRefusedStep == ASSUME SecInv, SecRefused PROVE SecInv'
<1>0. SecTypes /\ CallInv /\ rt \in RuntimeType /\ procEnv \in SecEnvs
  BY DEF SecInv, SecTypes
<1>1. /\ sup.at = "sec" /\ sup' = [sup EXCEPT !.at = "idle"] /\ refused' = TRUE
      /\ rt' = Recorded(rt, "error")
      /\ UNCHANGED <<disk, procEnv, tx, bff, loop, ep, wasBound, lost>>
  BY DEF SecRefused
<1>2. loop.at = "serve"
  BY <1>0, <1>1, OffFacts DEF CallInv
<1>3. /\ sup' \in SupervisorType /\ sup'.at = "idle" /\ sup'.edge = sup.edge /\ sup'.pending = sup.pending
  BY <1>0, <1>1, DiskFacts DEF SupervisorType
<1>4. /\ rt' \in RuntimeType /\ rt'.path = rt.path /\ rt'.cfg = rt.cfg /\ rt'.healthy = rt.healthy
      /\ rt'.table = rt.table
  BY <1>0, <1>1, StatusFacts
<1>5. Effective' = Effective /\ (TableSeen' => TableSeen)
  BY <1>1, <1>3 DEF Effective, TableSeen
<1> QED BY <1>0, <1>1, <1>2, <1>3, <1>4, <1>5, WatchStep

\* The digest of the route table is renewed after a reload.
LEMMA RereadEdgeStep == ASSUME SecInv, RereadEdge PROVE SecInv'
<1>0. SecTypes /\ CallInv /\ rt \in RuntimeType /\ procEnv \in SecEnvs
  BY DEF SecInv, SecTypes
<1>1. /\ sup.at = "reread" /\ sup' = [sup EXCEPT !.at = "idle", !.edge = disk.edge]
      /\ UNCHANGED <<disk, procEnv, rt, tx, bff, loop, ep, wasBound, refused, lost>>
  BY DEF RereadEdge
<1>2. loop.at = "serve"
  BY <1>0, <1>1, OffFacts DEF CallInv
<1>3. /\ sup' \in SupervisorType /\ sup'.at = "idle" /\ sup'.sec = sup.sec /\ sup'.pending = sup.pending
  BY <1>0, <1>1, DiskFacts DEF SupervisorType
<1>4. Effective' = Effective /\ (FileSeen' => FileSeen) /\ (TableSeen' => TableSeen)
  BY <1>1, <1>2, <1>3 DEF Effective, FileSeen, TableSeen, File
<1> QED BY <1>0, <1>1, <1>2, <1>3, <1>4, WatchStep

\* A reload by the supervisor that applies the file and the table of now.
LEMMA ApplyStep ==
    ASSUME SecInv, sup.at \in {"env", "sec"}, procEnv' = procEnv, UNCHANGED <<disk, tx, bff, loop, ep, wasBound>>,
           lost' = {} => lost = {}, NEW c \in AllSecConfigs, c = File, NEW q \in RuntimeType,
           c.policy \subseteq disk.edge, q.path = rt.path, q.cfg = Overlay(c, procEnv), q.healthy = c,
           q.table = disk.edge, q.cfg.listen = rt.cfg.listen, q.cfg.policy \subseteq q.table,
           rt' = Recorded(q, "applied"),
           sup' \in SupervisorType, sup'.at = "reread"
    PROVE  SecInv'
<1>0. SecTypes /\ CallInv /\ FollowInv
  BY DEF SecInv
<1>1. /\ rt' \in RuntimeType /\ rt'.path = rt.path /\ rt'.cfg = Overlay(c, procEnv) /\ rt'.healthy = c
      /\ rt'.table = disk.edge /\ rt'.cfg.policy \subseteq rt'.table /\ rt'.cfg.listen = rt.cfg.listen
  BY StatusFacts
<1>2. loop.at = "serve"
  BY <1>0, OffFacts DEF CallInv
<1>3. SecTypes' /\ CallInv'
  BY <1>0, <1>1, <1>2 DEF SecTypes, CallInv, ApiUp
<1>4. File' = c
  BY <1>1 DEF File
<1>5. FollowInv'
  BY <1>0, <1>1, <1>2, <1>4
     DEF FollowInv, HealthyInv, UpdateInv, FileInv, TableInv, FallbackInv, Effective, File
<1> QED BY <1>3, <1>5 DEF SecInv

\* A reload by the supervisor that finds nothing to apply.
LEMMA SameStep ==
    ASSUME SecInv, sup.at \in {"env", "sec"}, procEnv' = procEnv, UNCHANGED <<disk, tx, bff, loop, ep, wasBound>>,
           lost' = {} => /\ lost = {} /\ disk.edge = sup.edge /\ rt.cfg = Overlay(File, procEnv)
                         /\ rt.cfg = Overlay(rt.healthy, procEnv),
           rt' = Recorded(rt, "applied"),
           sup' \in SupervisorType, sup'.at = "reread", sup'.pending = sup.pending
    PROVE  SecInv'
<1>0. SecTypes /\ CallInv /\ FollowInv /\ rt \in RuntimeType
  BY DEF SecInv, SecTypes
<1>1. /\ rt' \in RuntimeType /\ rt'.path = rt.path /\ rt'.cfg = rt.cfg /\ rt'.healthy = rt.healthy
      /\ rt'.table = rt.table
  BY <1>0, StatusFacts
<1>2. loop.at = "serve"
  BY <1>0, OffFacts DEF CallInv
<1>3. SecTypes' /\ CallInv'
  BY <1>0, <1>1, <1>2 DEF SecTypes, CallInv, ApiUp
<1>4. File' = File
  BY <1>1 DEF File
<1>5. FollowInv'
  <2> SUFFICES ASSUME lost' = {} PROVE HealthyInv' /\ UpdateInv' /\ FileInv' /\ TableInv' /\ FallbackInv'
    BY DEF FollowInv
  <2>1. UpdateInv /\ TableInv
    BY <1>0 DEF FollowInv
  <2>2. HealthyInv' /\ UpdateInv' /\ FileInv' /\ FallbackInv'
    BY <2>1, <1>1, <1>2, <1>4 DEF HealthyInv, UpdateInv, FileInv, FallbackInv, Effective
  <2>3. TableInv'
    BY <2>1, <1>1, <1>2 DEF TableInv, TableSeen, RoutesLoad, PoliciesKnown
  <2> QED BY <2>2, <2>3
<1> QED BY <1>3, <1>5 DEF SecInv

\* ReloadEnvironment under the new environment.
LEMMA EnvAppliesStep == ASSUME SecInv, EnvApplies PROVE SecInv'
<1>0. SecTypes /\ CallInv /\ FollowInv /\ rt \in RuntimeType /\ procEnv \in SecEnvs
  BY DEF SecInv, SecTypes
<1>1. /\ sup.at = "env" /\ procEnv.path = rt.path /\ File # Bad
      /\ rt.cfg.listen = Overlay(File, procEnv).listen
      /\ sup' = [sup EXCEPT !.at = "reread", !.prev = None]
      /\ UNCHANGED <<disk, procEnv, tx, bff, loop, ep, wasBound>> /\ (lost' = {} => lost = {})
  BY DEF EnvApplies, EnvStays, RestartRequired, File
<1>2. sup' \in SupervisorType /\ sup'.at = "reread" /\ sup'.pending = sup.pending
  BY <1>0, <1>1, DiskFacts DEF SupervisorType
<1> DEFINE Skips == /\ Overlay(File, procEnv) = rt.cfg /\ rt' = Recorded(rt, "applied")
                    /\ lost' = {} => disk.edge = sup.edge /\ rt.cfg = Overlay(rt.healthy, procEnv)
           Rebuilds == EnvLoads /\ rt' = Recorded(Applied(rt, File, disk.edge), "applied")
<1>3. Skips \/ Rebuilds
  <2>1. PICK same \in {FALSE, Overlay(File, procEnv) = rt.cfg} :
          /\ same \/ EnvLoads
          /\ rt' = Recorded(IF same THEN rt ELSE Applied(rt, File, disk.edge), "applied")
          /\ lost' = lost \cup (IF same /\ disk.edge # sup.edge THEN {"routes"} ELSE {})
                          \cup (IF same /\ rt.cfg # Overlay(rt.healthy, procEnv) THEN {"healthy"} ELSE {})
    BY DEF EnvApplies
  <2> QED BY <2>1
<1>4. CASE Skips
  BY <1>1, <1>2, <1>4, SameStep
<1>5. CASE Rebuilds
  <2>1. PoliciesKnown(File, disk.edge) /\ rt' = Recorded(Applied(rt, File, disk.edge), "applied")
    BY <1>1, <1>5 DEF EnvLoads, File
  <2>2. PICK c \in AllSecConfigs : c = File
    BY <1>0, <1>1, FileFacts
  <2>3. disk.edge \in RouteSets /\ c.policy \subseteq disk.edge
    BY <1>0, <2>1, <2>2, FileFacts
  <2>4. PICK q \in RuntimeType : q = Applied(rt, c, disk.edge)
    BY <1>0, <2>2, <2>3, AppliedFacts
  <2>5. /\ q.path = rt.path /\ q.cfg = Overlay(c, procEnv) /\ q.healthy = c /\ q.table = disk.edge
        /\ q.cfg.policy \subseteq q.table
    BY <1>0, <2>2, <2>3, <2>4, AppliedFacts
  <2>6. q.cfg.listen = rt.cfg.listen /\ rt' = Recorded(q, "applied")
    BY <1>1, <2>1, <2>2, <2>4, <2>5
  <2> QED BY <1>1, <1>2, <2>2, <2>3, <2>5, <2>6, ApplyStep
<1> QED BY <1>3, <1>4, <1>5

\* Reload for the supervisor.
LEMMA SecAppliesStep == ASSUME SecInv, SecApplies PROVE SecInv'
<1>0. SecTypes /\ CallInv /\ FollowInv /\ rt \in RuntimeType /\ procEnv \in SecEnvs
  BY DEF SecInv, SecTypes
<1>1. /\ sup.at = "sec" /\ Found \in {"same", "hot"} /\ sup' = [sup EXCEPT !.at = "reread"]
      /\ UNCHANGED <<disk, procEnv, tx, bff, loop, ep, wasBound>> /\ (lost' = {} => lost = {})
  BY DEF SecApplies
<1>2. /\ sup' \in SupervisorType /\ sup'.at = "reread" /\ sup'.pending = sup.pending
      /\ loop.at = "serve"
  BY <1>0, <1>1, DiskFacts, OffFacts DEF SupervisorType, CallInv
<1>3. CASE Found = "same"
  <2>1. rt' = Recorded(rt, "applied") /\ File = rt.healthy /\ (lost' = {} => disk.edge = sup.edge)
    BY <1>3 DEF SecApplies, Found
  <2>2. lost' = {} => rt.cfg = Overlay(rt.healthy, procEnv)
    BY <1>0, <1>1, <1>2 DEF FollowInv, HealthyInv, Effective
  <2> QED BY <1>1, <1>2, <2>1, <2>2, SameStep
<1>4. CASE Found = "hot"
  <2>1. rt' = Recorded(Applied(rt, File, disk.edge), "applied")
    BY <1>4 DEF SecApplies
  <2>2. PICK c \in AllSecConfigs, q \in RuntimeType : c = File /\ q = Applied(rt, File, disk.edge)
    BY <1>0, <1>4, HotFacts
  <2>3. /\ c.policy \subseteq disk.edge /\ q.path = rt.path /\ q.cfg = Overlay(c, procEnv) /\ q.healthy = c
        /\ q.table = disk.edge /\ q.cfg.policy \subseteq q.table /\ q.cfg.listen = rt.cfg.listen
    BY <1>0, <1>4, <2>2, HotFacts
  <2>4. rt' = Recorded(q, "applied")
    BY <2>1, <2>2
  <2> QED BY <1>1, <1>2, <2>2, <2>3, <2>4, ApplyStep
<1> QED BY <1>1, <1>3, <1>4

\* ReloadEdgeRoutes for the supervisor.
LEMMA LoadRoutesStep == ASSUME SecInv, LoadRoutes PROVE SecInv'
<1>0. SecTypes /\ CallInv /\ FollowInv /\ rt \in RuntimeType
  BY DEF SecInv, SecTypes
<1>1. /\ sup.at \in {"edge", "late"}
      /\ sup' = [sup EXCEPT !.at = "idle", !.pending = @ /\ ~(RoutesLoad /\ sup.at = "late")]
      /\ UNCHANGED <<disk, procEnv, tx, bff, loop, ep, wasBound, refused, lost>>
  BY DEF LoadRoutes
<1>2. sup' \in SupervisorType /\ sup'.at = "idle" /\ sup'.sec = sup.sec
  BY <1>0, <1>1, DiskFacts DEF SupervisorType
<1>3. /\ rt' \in RuntimeType /\ rt'.path = rt.path /\ rt'.cfg = rt.cfg /\ rt'.healthy = rt.healthy
      /\ rt'.table = (IF RoutesLoad THEN disk.edge ELSE rt.table)
      /\ rt.cfg.policy \subseteq rt.table => rt'.cfg.policy \subseteq rt'.table
  <2>1. CASE RoutesLoad
    <3>1. PICK q \in RuntimeType : q = RoutesReloaded(rt)
      BY <1>0, <2>1, RoutesFacts
    <3>2. rt' = Recorded(q, "applied")
      BY <2>1, <3>1 DEF LoadRoutes
    <3> QED BY <1>0, <2>1, <3>1, <3>2, RoutesFacts, StatusFacts
  <2>2. CASE ~RoutesLoad
    <3>1. rt' = Recorded(rt, "error")
      BY <2>2 DEF LoadRoutes
    <3> QED BY <1>0, <2>2, <3>1, StatusFacts
  <2> QED BY <2>1, <2>2
<1>4. loop.at = "serve"
  BY <1>0, <1>1, OffFacts DEF CallInv
<1>5. SecTypes' /\ CallInv'
  BY <1>0, <1>1, <1>2, <1>3, <1>4 DEF SecTypes, CallInv, ApiUp
<1>6. FollowInv'
  <2> SUFFICES ASSUME lost' = {} PROVE HealthyInv' /\ UpdateInv' /\ FileInv' /\ TableInv' /\ FallbackInv'
    BY DEF FollowInv
  <2>1. HealthyInv /\ UpdateInv /\ FileInv /\ File' = File
    BY <1>0, <1>1, <1>3 DEF FollowInv, File
  <2>2. HealthyInv' /\ UpdateInv' /\ FileInv' /\ FallbackInv'
    BY <2>1, <1>1, <1>2, <1>3, <1>4
       DEF HealthyInv, UpdateInv, FileInv, FallbackInv, Effective, FileSeen
  <2>3. TableInv'
    BY <1>1, <1>3 DEF TableInv, RoutesLoad, PoliciesKnown
  <2> QED BY <2>2, <2>3
<1> QED BY <1>5, <1>6 DEF SecInv

\* The supervisor starts with the files as they are.
LEMMA TakeDigestsStep == ASSUME SecInv, TakeDigests PROVE SecInv'
<1>0. SecTypes /\ CallInv /\ FollowInv
  BY DEF SecInv
<1>1. /\ loop.at = "digest" /\ loop' = [loop EXCEPT !.at = "serve"]
      /\ sup' = [Off EXCEPT !.at = "idle", !.sec = File, !.env = disk.env, !.edge = disk.edge]
      /\ UNCHANGED <<disk, procEnv, rt, tx, bff, ep, wasBound, refused, lost>>
  BY DEF TakeDigests
<1>2. loop' \in LoopType /\ loop'.at = "serve" /\ loop'.path = loop.path /\ loop'.fallback = loop.fallback
  BY <1>0, <1>1, DiskFacts DEF LoopType
<1>3. sup' \in SupervisorType /\ sup'.at = "idle"
  BY <1>0, <1>1, DiskFacts, OffFacts DEF SupervisorType
<1>4. SecTypes' /\ CallInv'
  BY <1>0, <1>1, <1>2, <1>3 DEF SecTypes, CallInv, ApiUp
<1>5. sup.at = "off"
  BY <1>0, <1>1, OffFacts DEF CallInv
<1>6. FollowInv'
  BY <1>0, <1>1, <1>2, <1>3, <1>5
     DEF FollowInv, HealthyInv, UpdateInv, FileInv, TableInv, FallbackInv, Effective, FileSeen,
         TableSeen, File, RoutesLoad, PoliciesKnown
<1> QED BY <1>4, <1>6 DEF SecInv

\* Supervision ends in a restart: the fallback is the running configuration.
LEMMA ProcessRestartStep ==
    ASSUME SecInv, loop.at = "serve", NEW next \in SecPaths, NEW env \in SecEnvs \cup {None},
           Restart(next, env), tx = NoSecTx, rt' = Recorded(rt, "restart"),
           UNCHANGED <<disk, procEnv, tx, bff, ep, wasBound, refused>>,
           (IF env = None THEN procEnv ELSE env) = Effective,
           lost' = {} => lost = {} /\ (next # rt.path => File = rt.healthy)
    PROVE  SecInv'
<1>0. SecTypes /\ CallInv /\ FollowInv /\ rt \in RuntimeType
  BY DEF SecInv, SecTypes
<1>1. /\ loop' = [at |-> "drain", path |-> next, notice |-> FALSE,
                  fallback |-> [path |-> rt.path, cfg |-> rt.healthy, env |-> env]]
      /\ sup' = Off
  BY DEF Restart, RestartFallback
<1>2. rt.path \in SecPaths /\ rt.healthy \in AllSecConfigs
  BY <1>0, FileFacts
<1>3. loop' \in LoopType
  BY <1>1, <1>2 DEF LoopType, Fallbacks
<1>4. /\ rt' \in RuntimeType /\ rt'.path = rt.path /\ rt'.cfg = rt.cfg /\ rt'.healthy = rt.healthy
      /\ rt'.table = rt.table
  BY <1>0, StatusFacts
<1>5. SecTypes' /\ CallInv'
  BY <1>0, <1>1, <1>3, <1>4, OffFacts DEF SecTypes, CallInv, ApiUp
<1>6. FollowInv'
  <2> SUFFICES ASSUME lost' = {} PROVE HealthyInv' /\ UpdateInv' /\ FileInv' /\ TableInv' /\ FallbackInv'
    BY DEF FollowInv
  <2>1. rt.cfg = Overlay(rt.healthy, Effective) /\ rt.cfg.listen \in wasBound /\ tx.who = None
    BY <1>0 DEF FollowInv, HealthyInv, CallInv, NoSecTx
  <2>2. HealthyInv' /\ UpdateInv' /\ FileInv' /\ TableInv'
    BY <2>1, <1>1 DEF HealthyInv, UpdateInv, FileInv, TableInv, FileSeen, TableSeen
  <2>3. FallbackInv'
    BY <2>1, <1>1, <1>4 DEF FallbackInv, FallbackEnvironment, File
  <2> QED BY <2>2, <2>3
<1> QED BY <1>5, <1>6 DEF SecInv

\* The environment or the file asks for a restart.
LEMMA RestartsStep == ASSUME SecInv, EnvRestarts \/ SecRestarts PROVE SecInv'
<1>0. SecTypes /\ CallInv
  BY DEF SecInv
<1>1. loop.at = "serve"
  BY <1>0, OffFacts DEF CallInv, EnvRestarts, SecRestarts
<1>2. CASE EnvRestarts
  <2>1. /\ sup.at = "env" /\ tx = NoSecTx /\ Restart(procEnv.path, sup.prev) /\ rt' = Recorded(rt, "restart")
        /\ UNCHANGED <<disk, procEnv, tx, bff, ep, wasBound, refused>>
        /\ (lost' = {} => lost = {} /\ (procEnv.path # rt.path => File = rt.healthy))
    BY <1>2 DEF EnvRestarts
  <2>2. sup.prev \in SecEnvs \cup {None} /\ sup.prev # None /\ procEnv.path \in SecPaths
    BY <1>0, <2>1, DiskFacts DEF CallInv, SupervisorType
  <2>3. (IF sup.prev = None THEN procEnv ELSE sup.prev) = Effective
    BY <2>1, <2>2 DEF Effective
  <2> QED BY <1>1, <2>1, <2>2, <2>3, ProcessRestartStep
<1>3. CASE SecRestarts
  <2>1. /\ sup.at = "sec" /\ tx = NoSecTx /\ Restart(rt.path, None) /\ rt' = Recorded(rt, "restart")
        /\ UNCHANGED <<disk, procEnv, tx, bff, ep, wasBound, refused, lost>>
    BY <1>3 DEF SecRestarts
  <2>2. rt.path \in SecPaths
    BY <1>0, FileFacts
  <2>3. procEnv = Effective
    BY <2>1 DEF Effective
  <2> QED BY <1>1, <2>1, <2>2, <2>3, ProcessRestartStep
<1> QED BY <1>2, <1>3

\* The generation ends, with or without another one behind it.
LEMMA EndStep == ASSUME SecInv, Stop \/ Drained \/ DrainFails \/ GiveUp PROVE SecInv'
<1>0. SecTypes /\ CallInv /\ FollowInv
  BY DEF SecInv
<1>1. /\ UNCHANGED <<disk, procEnv, rt, ep, wasBound, refused, lost>>
      /\ loop' = [loop EXCEPT !.at = "exit"] \/ (Drained /\ loop' = [loop EXCEPT !.at = "new"])
      /\ sup' = Off
      /\ (tx' = tx /\ bff' = bff) \/ (tx' = NoSecTx /\ bff' = NoBff)
      /\ Drained => tx = NoSecTx /\ bff = NoBff /\ loop.at = "drain"
  BY <1>0 DEF Stop, Drained, DrainFails, GiveUp, StartFails, CallInv
<1>2. loop' \in LoopType /\ loop'.path = loop.path /\ loop'.fallback = loop.fallback
      /\ (loop'.at = "exit" \/ (Drained /\ loop'.at = "new"))
  BY <1>0, <1>1, DiskFacts, SMTT(30) DEF LoopType
<1>3. tx' \in UpdateType /\ bff' \in BffType /\ NoSecTx.who = None
  <2>1. NoSecTx \in UpdateType /\ NoSecTx.who = None
    BY ConfigFacts DEF NoSecTx, UpdateType
  <2> QED BY <1>0, <1>1, <2>1, BffFacts DEF SecTypes
<1>4. SecTypes'
  BY <1>0, <1>1, <1>2, <1>3, OffFacts DEF SecTypes
<1>5. CallInv'
  BY <1>0, <1>1, <1>2, <1>3, OffFacts DEF CallInv, ApiUp
<1>6. FollowInv'
  BY <1>0, <1>1, <1>2, <1>3
     DEF FollowInv, HealthyInv, UpdateInv, FileInv, TableInv, FallbackInv, FileSeen,
         TableSeen, File, FallbackEnvironment
<1> QED BY <1>4, <1>5, <1>6 DEF SecInv

\* A generation starts with the file as it is.
LEMMA StartStep == ASSUME SecInv, Start PROVE SecInv'
<1>0. SecTypes /\ CallInv /\ FollowInv /\ rt \in RuntimeType /\ procEnv \in SecEnvs
  BY DEF SecInv, SecTypes
<1> DEFINE r0 == [rt EXCEPT !.path = loop.path]
           c0 == disk.sec[loop.path]
           new == Applied(r0, c0, disk.edge)
<1>1. /\ loop.at = "new" /\ c0 # Bad /\ PoliciesKnown(c0, disk.edge)
      /\ rt' = (IF loop.notice THEN Recorded(Configured(new), "error") ELSE Configured(new))
      /\ wasBound' = wasBound \cup {new.cfg.listen}
      /\ loop' = [loop EXCEPT !.at = "digest", !.fallback = None, !.notice = FALSE]
      /\ UNCHANGED <<disk, procEnv, tx, bff, sup, ep, lost>>
  BY DEF Start, Startable
<1>2. c0 \in AllSecConfigs /\ disk.edge \in RouteSets /\ c0.policy \subseteq disk.edge
  BY <1>0, <1>1, DiskFacts, FileFacts DEF SecFiles
<1>3. r0 \in RuntimeType /\ r0.path = loop.path
  BY <1>0, DiskFacts DEF RuntimeType
<1>4. /\ new \in RuntimeType /\ new.path = loop.path /\ new.cfg = Overlay(c0, procEnv)
      /\ new.healthy = c0 /\ new.table = disk.edge /\ new.cfg.policy \subseteq new.table
  <2> HIDE DEF r0, c0
  <2> QED BY <1>0, <1>2, <1>3, AppliedFacts
<1>5. /\ rt' \in RuntimeType /\ rt'.path = new.path /\ rt'.cfg = new.cfg /\ rt'.healthy = new.healthy
      /\ rt'.table = new.table
  <2> HIDE DEF new
  <2>1. PICK q \in RuntimeType : q = Configured(new)
    BY <1>4, StatusFacts
  <2>2. q.path = new.path /\ q.cfg = new.cfg /\ q.healthy = new.healthy /\ q.table = new.table
    BY <1>4, <2>1, StatusFacts
  <2>3. rt' = q \/ rt' = Recorded(q, "error")
    BY <1>1, <2>1
  <2> QED BY <2>2, <2>3, StatusFacts
<1>6. loop' \in LoopType /\ loop'.at = "digest" /\ loop'.fallback = None
  BY <1>0, <1>1, DiskFacts DEF LoopType
<1>7. new.cfg.listen \in Listens /\ sup.at = "off" /\ sup = Off /\ tx = NoSecTx /\ NoSecTx.who = None
  <2> HIDE DEF new
  <2> QED BY <1>0, <1>1, <1>4, ConfigFacts, OffFacts DEF RuntimeType, CallInv, NoSecTx
<1> HIDE DEF new
<1>8. SecTypes'
  BY <1>0, <1>1, <1>5, <1>6, <1>7 DEF SecTypes
<1>9. CallInv'
  BY <1>0, <1>1, <1>4, <1>5, <1>6, <1>7 DEF CallInv, ApiUp
<1>10. File' = c0
  BY <1>1, <1>4, <1>5 DEF File
<1> HIDE DEF c0
<1>11. FollowInv'
  BY <1>1, <1>4, <1>5, <1>6, <1>7, <1>10
     DEF FollowInv, HealthyInv, UpdateInv, FileInv, TableInv, FallbackInv, Effective
<1> QED BY <1>8, <1>9, <1>11 DEF SecInv

\* restoreSecurityFallback goes back to an address that was bound.
LEMMA RecoverStep == ASSUME SecInv, Recover
                     PROVE  SecInv' /\ (lost = {} => Overlay(disk'.sec[loop'.path], procEnv').listen \in wasBound)
<1>0. SecTypes /\ CallInv /\ FollowInv
  BY DEF SecInv
<1>1. PICK fb \in Fallbacks : fb = loop.fallback
  BY <1>0 DEF SecTypes, LoopType, Recover
<1>2. /\ loop.at = "new" /\ loop.fallback # None /\ procEnv' = FallbackEnvironment(fb)
      /\ disk' = (IF fb.path = loop.path THEN [disk EXCEPT !.sec[fb.path] = fb.cfg] ELSE disk)
      /\ loop' = [at |-> "new", path |-> fb.path, fallback |-> None, notice |-> TRUE]
      /\ UNCHANGED <<rt, tx, bff, sup, ep, wasBound, refused, lost>>
  BY <1>1 DEF Recover, StartFails
<1>3. fb.path \in SecPaths /\ fb.cfg \in AllSecConfigs /\ procEnv' \in SecEnvs /\ loop' \in LoopType
  BY <1>0, <1>1, <1>2 DEF Fallbacks, FallbackEnvironment, LoopType, SecTypes
<1>4. disk' \in DiskType /\ (fb.path = loop.path => disk'.sec[fb.path] = fb.cfg)
  BY <1>0, <1>2, <1>3 DEF SecTypes, DiskType, SecFiles
<1>5. SecTypes'
  BY <1>0, <1>2, <1>3, <1>4 DEF SecTypes
<1>6. CallInv' /\ tx.who = None
  BY <1>0, <1>2, ConfigFacts DEF CallInv, ApiUp, NoSecTx
<1>7. FollowInv'
  BY <1>2, <1>6 DEF FollowInv, HealthyInv, UpdateInv, FileInv, TableInv, FallbackInv, FileSeen, TableSeen
<1>8. ASSUME lost = {} PROVE Overlay(disk'.sec[loop'.path], procEnv').listen \in wasBound
  <2>1. /\ fb.path = rt.path /\ Overlay(fb.cfg, FallbackEnvironment(fb)).listen \in wasBound
        /\ fb.path # loop.path => File = fb.cfg
    BY <1>0, <1>1, <1>2, <1>8 DEF FollowInv, FallbackInv
  <2>2. disk'.sec[loop'.path] = fb.cfg
    BY <1>2, <1>4, <2>1 DEF File
  <2> QED BY <1>2, <2>1, <2>2
<1> QED BY <1>5, <1>6, <1>7, <1>8 DEF SecInv

\* edgeConfigReplace asks for another table.
LEMMA ReplaceTableStep == ASSUME SecInv, NEW t \in Tables, ReplaceTable(t) PROVE SecInv'
<1>1. /\ UNCHANGED <<disk, procEnv, rt, tx, sup, loop, wasBound, refused, lost, ep>> /\ loop.at # "new"
      /\ bff' = [NoBff EXCEPT !.at = "put", !.table = t]
  BY DEF ReplaceTable, ApiUp
<1>2. ep' \in EdgeType
  BY <1>1, SMTT(30) DEF SecInv, SecTypes
<1>3. bff' \in BffType
  BY <1>1, BffFacts, ConfigFacts DEF BffType
<1> QED BY <1>1, <1>2, <1>3, QuietStep

\* Somebody edits the route table.
LEMMA EditEdgeStep == ASSUME SecInv, NEW t \in TableFiles, EditEdge(t) PROVE SecInv'
<1>1. /\ disk' = [disk EXCEPT !.edge = t] /\ TableRace(t)
      /\ UNCHANGED <<procEnv, rt, tx, bff, sup, loop, ep, wasBound, refused>>
  BY DEF EditEdge
<1>2. bff' \in BffType /\ ep' \in EdgeType /\ (loop.at = "new" => bff' = NoBff)
  BY <1>1 DEF SecInv, SecTypes, CallInv
<1> HIDE DEF TableRace
<1> QED BY <1>1, <1>2, TableStep

\* ReplaceConfig and update.
LEMMA UpdateBeginsStep ==
    ASSUME SecInv, (\E c \in SecConfigs : BeginReplace(c)) \/ BeginUpdate PROVE SecInv'
<1>0. SecTypes
  BY DEF SecInv
<1>1. ASSUME NEW c \in SecConfigs, BeginReplace(c) PROVE SecInv'
  <2>1. c \in AllSecConfigs /\ Begin("replace", c)
    BY <1>1, ConfigFacts DEF BeginReplace
  <2> QED BY <2>1, BeginStep
<1>2. CASE BeginUpdate
  <2>1. File \in AllSecConfigs /\ rt.table \in RouteSets /\ File.policy \in RouteSets
    BY <1>0, <1>2, FileFacts, ConfigFacts DEF BeginUpdate
  <2>2. ASSUME NEW n \in rt.table, Begin("update", [File EXCEPT !.policy = @ \cup {n}]) PROVE SecInv'
    <3>1. File.policy \cup {n} \in RouteSets
      BY <2>1, ConfigFacts
    <3>2. PICK c \in AllSecConfigs : c = [File EXCEPT !.policy = @ \cup {n}]
      BY <2>1, <3>1, PolicyFacts
    <3> QED BY <2>2, <3>2, BeginStep
  <2>3. ASSUME NEW n \in File.policy, Begin("update", [File EXCEPT !.policy = @ \ {n}]) PROVE SecInv'
    <3>1. File.policy \ {n} \in RouteSets
      BY <2>1, ConfigFacts
    <3>2. PICK c \in AllSecConfigs : c = [File EXCEPT !.policy = @ \ {n}]
      BY <2>1, <3>1, PolicyFacts
    <3> QED BY <2>3, <3>2, BeginStep
  <2>4. Begin("update", File) => SecInv'
    BY <2>1, BeginStep
  <2> QED BY <1>2, <2>2, <2>3, <2>4 DEF BeginUpdate
<1> QED BY <1>1, <1>2

\* The invariant holds when the process starts ...
LEMMA SecInvInit == SecInit => SecInv
<1> SUFFICES ASSUME SecInit PROVE SecInv
  OBVIOUS
<1>1. FollowInv
  BY DEF SecInit, FollowInv, HealthyInv, UpdateInv, FileInv, TableInv, FallbackInv, FileSeen, TableSeen, NoSecTx
<1> QED BY <1>1, SecInitOK DEF SecInv

\* ... and every step keeps it.
LEMMA SecStep == SecInv /\ [SecNext]_secVars => SecInv'
<1> SUFFICES ASSUME SecInv PROVE [SecNext]_secVars => SecInv'
  OBVIOUS
<1>1. Edits => SecInv'
  <2>1. SecConfigs \cup {Bad} \subseteq SecFiles
    BY ConfigFacts DEF SecFiles
  <2> QED BY <2>1, EditSecStep, EditEnvStep, EditEdgeStep DEF Edits, TableFiles
<1>2. Calls => SecInv'
  BY UpdateBeginsStep, ApiReloadStep, DeleteRouteStep, ReplaceTableStep DEF Calls
<1>3. Updates => SecInv'
  BY CommitStep, RefuseStep DEF Updates
<1>4. BffSteps => SecInv'
  BY BffStep, BffReloadStep, BffRestoreStep DEF BffSteps
<1>5. EdgeSteps => SecInv'
  BY EdgeStep
<1>6. Ticks => SecInv'
  BY TickEnvStep, TickSecStep, TickEdgeStep DEF Ticks
<1>7. Supervision => SecInv'
  BY TakeDigestsStep, EnvRefusedStep, RestartsStep, EnvAppliesStep, SecRefusedStep, SecAppliesStep,
     RereadEdgeStep, LoadRoutesStep DEF Supervision
<1>8. Generations \/ Stop => SecInv'
  BY EndStep, StartStep, RecoverStep DEF Generations
<1>9. UNCHANGED secVars => SecInv'
  <2> SUFFICES ASSUME UNCHANGED secVars PROVE SecInv'
    OBVIOUS
  <2>1. UNCHANGED <<disk, procEnv, rt, tx, sup, loop, wasBound, refused, lost, bff, ep>>
    BY DEF secVars
  <2>2. bff' \in BffType /\ ep' \in EdgeType /\ (loop.at = "new" => bff' = NoBff)
    BY <2>1 DEF SecInv, SecTypes, CallInv
  <2> QED BY <2>1, <2>2, QuietStep
<1> QED BY <1>1, <1>2, <1>3, <1>4, <1>5, <1>6, <1>7, <1>8, <1>9 DEF SecNext

\* The invariant of SecurityEdge's control plane (securityedge.go and
\* cmd/securityedge/main.go).
THEOREM SecInvariant == SecSpec => []SecInv
<1>1. SecInit => SecInv
  BY SecInvInit
<1>2. SecInv /\ [SecNext]_secVars => SecInv'
  BY SecStep
<1> QED BY <1>1, <1>2, PTL DEF SecSpec

\* The files, the Runtime, EdgeProxy and the supervisor keep their types, and
\* the races met are those of Lost (securityedge.go:36-75).
THEOREM SecTypesKept == SecSpec => []SecTypeOK
<1>1. SecInit => lost \subseteq Lost
  BY DEF SecInit
<1>2. lost \subseteq Lost /\ [SecNext]_secVars => (lost \subseteq Lost)'
  BY LostGrows
<1>3. SecInv /\ lost \subseteq Lost => SecTypeOK
  <2> SUFFICES ASSUME SecTypes, lost \subseteq Lost PROVE SecTypeOK
    BY DEF SecInv
  <2>1. disk.sec \in [SecPaths -> SecConfigs \cup AllSecConfigs \cup {Bad}] /\ disk.env \in SecEnvs
        /\ disk.edge \in (SUBSET Names) \cup {Bad}
    <3>1. disk.sec \in [SecPaths -> SecFiles] /\ disk.env \in SecEnvs /\ disk.edge \in TableFiles
      BY DEF SecTypes, DiskType
    <3> QED BY <3>1, ConfigFacts DEF SecFiles, TableFiles, RouteSets
  <2>2. ep.active \in SUBSET Names /\ ep.seen \in (SUBSET Names) \cup {Bad} /\ ep.ready \in BOOLEAN
    <3>1. ep.active \in Tables /\ ep.seen \in TableFiles /\ ep.ready \in BOOLEAN
      BY DEF SecTypes, EdgeType
    <3> QED BY <3>1, ConfigFacts DEF TableFiles, RouteSets
  <2>3. rt.table \in SUBSET Names /\ rt.path \in SecPaths /\ {rt.cfg, rt.healthy} \subseteq AllSecConfigs
        /\ {rt.scheduled, rt.inSync} \subseteq BOOLEAN
    BY DEF SecTypes, RuntimeType, RouteSets
  <2>4. tx.who \in {None, "replace", "update"} /\ bff.at \in {"idle", "delete", "put", "restore", "reload"}
    BY DEF SecTypes, UpdateType, BffType
  <2>5. /\ sup.at \in {"off", "idle", "env", "sec", "reread", "edge", "late"}
        /\ loop.at \in {"new", "digest", "serve", "drain", "exit"} /\ procEnv \in SecEnvs
        /\ wasBound \subseteq Listens
    BY DEF SecTypes, SupervisorType, LoopType
  <2> QED BY <2>1, <2>2, <2>3, <2>4, <2>5 DEF SecTypeOK
<1> QED BY <1>1, <1>2, <1>3, SecInvariant, PTL DEF SecSpec

\* The configuration in the file is served or was refused, once the
\* supervisor has looked at it and none of the races was met
\* (main.go:295-421, securityedge.go:720-803).
THEOREM FileIsServed == SecSpec => []ServesItsFile
<1>1. SecInv => ServesItsFile
  BY DEF SecInv, FollowInv, FileInv, FileSeen, Effective, ServesItsFile, Settled
<1> QED BY <1>1, SecInvariant, PTL

\* The route table in the file is routed by, once the supervisor has looked
\* at it, and the policies served are always those of routes served
\* (main.go:317-331 and 390-417, securityedge.go:517-534 and 852-869).
THEOREM TableIsRouted == SecSpec => []RoutesFollow
<1>1. SecInv => RoutesFollow
  BY DEF SecInv, CallInv, FollowInv, TableInv, TableSeen, RoutesFollow
<1> QED BY <1>1, SecInvariant, PTL

\* A restart that fails goes back to an address that was bound, whatever the
\* file, the environment and the updates did before it (main.go:277-293,
\* securityedge.go:805-825).
THEOREM RecoveryIsBound == SecSpec => RecoversBound
<1>1. SecInv /\ [SecNext]_secVars =>
        [Recover /\ lost = {} => Overlay(disk'.sec[loop'.path], procEnv').listen \in wasBound]_secVars
  BY RecoverStep
<1> QED BY <1>1, SecInvariant, PTL DEF SecSpec, RecoversBound

-----------------------------------------------------------------------------
(* The platform.                                                           *)

\* The state of EdgeProxy's handler stays within its types (handler.go:32-203).
THEOREM HandlerTypesKept == HandlerSpec => []HandlerTypeOK
<1>1. HandlerInv => HandlerTypeOK
  BY DEF HandlerInv, HandlerTypes, HandlerTypeOK
<1> QED BY <1>1, HandlerInvariant, PTL

\* A behaviour of the platform is a behaviour of each of its parts: what is
\* proved of a part holds of the platform.
THEOREM PlatformRunsItsParts ==
    PlatformSpec => /\ SecSpec /\ LogSpec /\ FilesSpec /\ HandlerSpec
                    /\ HistorySpec /\ RoutingSpec /\ PolicySpec
<1>1. PlatformInit => /\ SecInit /\ LogInit /\ FilesInit /\ HandlerInit
                      /\ HistoryInit /\ RoutingInit /\ PolicyInit
  BY DEF PlatformInit
<1>2. [PlatformNext]_platformVars => [SecNext]_secVars
  BY DEF PlatformNext, platformVars
<1>3. [PlatformNext]_platformVars => [LogNext]_logVars
  BY DEF PlatformNext, platformVars
<1>4. [PlatformNext]_platformVars => [FilesNext]_fileVars
  BY DEF PlatformNext, platformVars
<1>5. [PlatformNext]_platformVars => [HandlerNext]_handlerVars
  BY DEF PlatformNext, platformVars
<1>6. [PlatformNext]_platformVars => [HistoryNext]_historyVars
  BY DEF PlatformNext, platformVars
<1>7. [PlatformNext]_platformVars => [RoutingNext]_routingVars
  BY DEF PlatformNext, platformVars
<1>8. [PlatformNext]_platformVars => [PolicyNext]_policyVars
  BY DEF PlatformNext, platformVars
<1> QED BY <1>1, <1>2, <1>3, <1>4, <1>5, <1>6, <1>7, <1>8, PTL
        DEF PlatformSpec, SecSpec, LogSpec, FilesSpec, HandlerSpec, HistorySpec, RoutingSpec, PolicySpec

\* Every part's state stays within its bounds and its types: the rings, files,
\* backups, samples, tunnels and entries of the parts never outgrow what they
\* are configured to hold.
THEOREM PlatformTypes == PlatformSpec => []PlatformTypeOK
<1>1. (SecTypeOK /\ LogTypeOK /\ FilesTypeOK /\ HandlerTypeOK /\ HistoryTypeOK /\ PolicyTypeOK)
         => PlatformTypeOK
  BY DEF PlatformTypeOK
<1> QED BY <1>1, PlatformRunsItsParts, SecTypesKept, LogTypeCorrect, FilesTypes, HandlerTypesKept,
           HistoryTypeCorrect, PolicyTypes, PTL
=============================================================================
