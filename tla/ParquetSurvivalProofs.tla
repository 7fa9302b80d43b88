------------------------- MODULE ParquetSurvivalProofs -------------------------
(***************************************************************************)
(* Proofs about ParquetRefresh under any failing step, the roll-back's own *)
(* included, and any kill of a process or of the container: but for a      *)
(* change of settings, workers are only stopped for a refresh that has     *)
(* staged everything, and a mapfile whose index files are complete stays   *)
(* on the disk as long as no edit of the admin process meets a swap.       *)
(***************************************************************************)
EXTENDS ParquetRefreshProofs

-----------------------------------------------------------------------------
(* The invariants *)

\* A mapfile on the disk, live or moved away, that does not need generation g.
Spared(g) ==
    \/ Live("mapfile") # g /\ Complete(Live("mapfile"))
    \/ \E h \in Generation :
          backup[<<"mapfile", h>>] # g /\ Complete(backup[<<"mapfile", h>>])

\* From the unlink of the mapfile's backup on, the new generation is the copy.
CommittedAt == {"collect", "ready"}
UnmovedAt == {"begin", "prepare", "generate", "stop", "backupCatalog", "backupMapfile"}
UnrestoredAt == {"begin", "undo", "restoreCatalog", "restoreMapfile"} \union TrySteps

SparedInv(p) ==
    /\ pc[p] \notin CommittedAt => Spared(gen[p])
    /\ pc[p] \in UnmovedAt => backup[<<"mapfile", gen[p]>>] = None
    /\ pc[p] \in {"installCatalog", "installMapfile"} => Live("mapfile") = None
    /\ pc[p] \in UnrestoredAt /\ MustRestore(p, "mapfile") => Live("mapfile") \in {None, gen[p]}

SurvivalInv ==
    /\ \A p \in Proc : pc[p] \in {"lock", "begin"} => replaced[p] = {}
    /\ spoilt \/ (SurvivingCopy /\ \A p \in Proc : Busy(p) => SparedInv(p))

\* What has been written when the workers are about to be stopped.
StagedInv ==
    \A p \in Proc :
        /\ pc[p] = "generate" => <<"catalog", gen[p]>> \in candidate
        /\ pc[p] = "stop" => File \X {gen[p]} \subseteq candidate

-----------------------------------------------------------------------------
(* Workers are stopped last *)

LEMMA InitStaged == Init => StagedInv
  BY DEF Init, StagedInv

LEMMA WorkStaged ==
    ASSUME TypeOK, NEW p \in Proc, Work(p), pc[p] = "generate" => <<"catalog", gen[p]>> \in candidate
    PROVE  /\ pc'[p] = "generate" => <<"catalog", gen[p]>> \in candidate'
           /\ pc'[p] = "stop" => File \X {gen[p]} \subseteq candidate'
<1> USE DEF TypeOK, Goto
<1>1. CASE Prepare(p)
  BY <1>1 DEF Prepare
<1>2. CASE Generate(p)
  <2>1. /\ pc[p] = "generate" /\ pc'[p] # "generate"
        /\ candidate' = candidate \union {<<"mapfile", gen[p]>>}
    BY <1>2 DEF Generate
  <2>2. \A f \in File : <<f, gen[p]>> \in candidate'
    BY <2>1 DEF File
  <2> QED
    BY <2>1, <2>2
<1>3. CASE ~Prepare(p) /\ ~Generate(p)
  <2>1. pc'[p] \notin {"generate", "stop"}
    <3>1. CASE Begin(p) \/ Stop(p) \/ Start(p) \/ Collect(p) \/ Ready(p)
      BY <3>1 DEF Begin, Stop, Start, Collect, Ready
    <3>2. CASE UnlinkCandidates(p) \/ Discard(p) \/ Restart(p) \/ Failed(p)
      BY <3>2 DEF UnlinkCandidates, Discard, Restart, Failed
    <3>3. CASE BackupFiles(p) \/ InstallFiles(p) \/ DropBackups(p) \/ RestoreFiles(p)
      BY <3>3 DEF BackupFiles, Backup, InstallFiles, Install, DropBackups, DropBackup,
                  RestoreFiles, Restore
    <3>4. CASE Fault(p)
      BY <3>4 DEF Fault, Raise, PrepareFails, GenerateFails, StopFails, StartFails, RaiseAt
    <3> QED
      BY <1>3, <3>1, <3>2, <3>3, <3>4 DEF Work
  <2> QED
    BY <2>1
<1> QED
  BY <1>1, <1>2, <1>3

\* Steps of processes that do not hold the lock, and of the container.
Idling ==
    \/ \E p \in Proc : Outside(p)
    \/ AdminStep \/ KillContainer \/ UNCHANGED vars

LEMMA IdlingFrame ==
    ASSUME TypeOK, EditInv, Idling
    PROVE  /\ UNCHANGED <<candidate, dir>>
           /\ spoilt => spoilt'
           /\ \/ spoilt'
              \/ /\ Live("mapfile")' = Live("mapfile")
                 /\ \A h \in Generation : backup'[<<"mapfile", h>>] = backup[<<"mapfile", h>>]
           /\ \A q \in Proc :
                 \/ pc'[q] = pc[q] /\ gen'[q] = gen[q] /\ replaced'[q] = replaced[q]
                 \/ pc'[q] = "lock" /\ replaced'[q] = {}
                 \/ pc'[q] = "begin" /\ pc[q] = "lock" /\ replaced'[q] = replaced[q]
                 \/ pc'[q] \in {"raised", "idle"}
<1> USE DEF TypeOK, Goto, locals, files
<1>1. ASSUME NEW p \in Proc, StartContainer(p) \/ PostRefresh(p)
      PROVE  /\ candidate' = candidate
             /\ pc'[p] = "lock" /\ replaced'[p] = {}
             /\ \A q \in Proc : q # p => pc'[q] = pc[q] /\ gen'[q] = gen[q] /\ replaced'[q] = replaced[q]
  BY <1>1 DEF StartContainer, PostRefresh, Spawn
<1>2. ASSUME NEW p \in Proc, Lock(p) \/ LockBusy(p) \/ Exit(p) \/ Kill(p)
      PROVE  /\ UNCHANGED <<candidate, gen, replaced>>
             /\ (pc[p] = "lock" /\ pc'[p] = "begin") \/ pc'[p] \in {"raised", "idle"}
             /\ \A q \in Proc : q # p => pc'[q] = pc[q]
  BY <1>2 DEF Lock, LockBusy, Exit, Kill
<1>3. ASSUME NEW p \in Proc, Outside(p)
      PROVE  /\ UNCHANGED <<dir, spoilt, backup>> /\ Live("mapfile")' = Live("mapfile")
             /\ candidate' = candidate
             /\ \A q \in Proc :
                   \/ pc'[q] = pc[q] /\ gen'[q] = gen[q] /\ replaced'[q] = replaced[q]
                   \/ pc'[q] = "lock" /\ replaced'[q] = {}
                   \/ pc'[q] = "begin" /\ pc[q] = "lock" /\ replaced'[q] = replaced[q]
                   \/ pc'[q] \in {"raised", "idle"}
  <2>1. UNCHANGED <<dir, spoilt, backup>> /\ Live("mapfile")' = Live("mapfile")
    BY <1>3, OutsideLive DEF File
  <2>2. CASE StartContainer(p) \/ PostRefresh(p)
    BY <1>1, <2>1, <2>2
  <2>3. CASE Lock(p) \/ LockBusy(p) \/ Exit(p) \/ Kill(p)
    BY <1>2, <2>1, <2>3
  <2> QED
    BY <1>3, <2>2, <2>3 DEF Outside
<1>4. CASE AdminStep \/ KillContainer
  <2>1. /\ UNCHANGED <<gen, replaced, candidate, dir>>
        /\ pc' = pc \/ pc' = [q \in Proc |-> "idle"]
    BY <1>4
    DEF AdminStep, AdminRestart, PutSettings, ReadMapfile, TruncateMapfile, WriteMapfile,
        WriteFails, AdminStops, AdminStarts, KillContainer
  <2>2. /\ spoilt => spoilt'
        /\ \A f \in File : Spoilt(f)' \/ (~Spoilt(f) /\ Live(f)' = Live(f))
        /\ \A f \in File, h \in Generation : Spoilt(f)' \/ backup'[<<f, h>>] = backup[<<f, h>>]
    BY <1>4, AdminLive
  <2>3. \A q \in Proc : (pc'[q] = pc[q] /\ gen'[q] = gen[q] /\ replaced'[q] = replaced[q]) \/ pc'[q] = "idle"
    BY <2>1
  <2> QED
    BY <2>1, <2>2, <2>3 DEF Spoilt, File
<1>5. CASE UNCHANGED vars
  BY <1>5 DEF vars, Live
<1> QED
  BY <1>3, <1>4, <1>5 DEF Idling

LEMMA WorkOrIdling ==
    ASSUME [Next]_vars
    PROVE  (\E p \in Proc : Work(p)) \/ Idling
  BY DEF Next, Step, Work, Outside, Idling

LEMMA NextStaged == IInv /\ StagedInv /\ [Next]_vars => StagedInv'
<1> SUFFICES ASSUME IInv, StagedInv, [Next]_vars PROVE StagedInv'
  OBVIOUS
<1>1. ASSUME NEW p \in Proc, Work(p) PROVE StagedInv'
  <2>1. /\ Busy(p) /\ lock = p /\ gen' = gen /\ \A q \in Proc : q # p => pc'[q] = pc[q]
    BY <1>1, WorkFrame DEF IInv, LockInv
  <2>2. \A q \in Proc : q # p => pc'[q] \notin {"generate", "stop"}
    BY <2>1 DEF IInv, LockInv, Busy, TrySteps
  <2>3. /\ pc'[p] = "generate" => <<"catalog", gen[p]>> \in candidate'
        /\ pc'[p] = "stop" => File \X {gen[p]} \subseteq candidate'
    BY <1>1, WorkStaged DEF IInv, StagedInv
  <2> QED
    BY <2>1, <2>2, <2>3 DEF StagedInv
<1>2. CASE Idling
  <2>1. /\ candidate' = candidate
        /\ \A q \in Proc : (pc'[q] = pc[q] /\ gen'[q] = gen[q]) \/ pc'[q] \notin {"generate", "stop"}
    BY <1>2, IdlingFrame DEF IInv
  <2> QED
    BY <2>1 DEF StagedInv
<1> QED
  BY <1>1, <1>2, WorkOrIdling

\* The step that takes workers down, alone.
StagesFirst ==
    ~(up \subseteq up') /\ phase' = "running" /\ edit' = edit =>
        \E p \in Proc : /\ lock = p /\ dir[gen[p]] = "staged"
                       /\ File \X {gen[p]} \subseteq candidate

LEMMA NextStagesFirst == IInv /\ StagedInv /\ [Next]_vars => StagesFirst
<1> SUFFICES ASSUME IInv, StagedInv, [Next]_vars,
                    ~(up \subseteq up'), phase' = "running", edit' = edit
             PROVE  \E p \in Proc : /\ lock = p /\ dir[gen[p]] = "staged"
                                   /\ File \X {gen[p]} \subseteq candidate
  BY DEF StagesFirst
<1> USE DEF TypeOK, IInv
<1>0. loaded' # loaded /\ \A ws : ~Starts(ws)
  BY DEF up, Starts
<1>1. ~AdminStep /\ ~KillContainer /\ ~UNCHANGED vars
  <2>1. ~AdminRestart /\ ~PutSettings /\ ~ReadMapfile /\ ~TruncateMapfile /\ ~WriteMapfile /\ ~WriteFails
    BY <1>0 DEF AdminRestart, PutSettings, ReadMapfile, TruncateMapfile, WriteMapfile, WriteFails
  <2>2. ~AdminStops /\ ~AdminStarts
    BY <1>0 DEF AdminStops, AdminStarts
  <2> QED
    BY <1>0, <2>1, <2>2 DEF AdminStep, KillContainer, vars
<1>2. ASSUME NEW p \in Proc PROVE ~Outside(p)
  BY <1>0 DEF Outside, StartContainer, PostRefresh, Lock, LockBusy, Exit, Kill
<1>3. PICK p \in Proc : Work(p)
  BY <1>1, <1>2, WorkOrIdling DEF Idling
<1>4. pc[p] = "stop"
  <2>2. Stop(p) \/ StopFails(p)
    BY <1>0, <1>3
    DEF Work, Begin, Prepare, Generate, BackupFiles, Backup, InstallFiles, Install, Start,
        DropBackups, DropBackup, Collect, Ready, UnlinkCandidates, RestoreFiles, Restore, Discard,
        Restart, Failed, Fault, Raise, PrepareFails, GenerateFails, StartFails
  <2> QED
    BY <2>2 DEF Stop, StopFails, RaiseAt
<1>5. Busy(p) /\ lock = p
  BY <1>3, WorkFrame DEF LockInv
<1> QED
  BY <1>4, <1>5 DEF StagedInv, SwapInv, StagedAt, TrySteps

\* README.md:79-81, whatever fails or is killed: but for a change of settings,
\* workers go down only once the index files, the catalog and the mapfile of the
\* new generation are written.
THEOREM StagedFirst == Spec => StagedBeforeStop
<1>1. IInv /\ StagedInv /\ [Next]_vars => [StagesFirst]_vars
  BY NextStagesFirst
<1> QED
  BY <1>1, InitStaged, NextStaged, Invariant, PTL DEF Spec, StagedBeforeStop, StagesFirst

-----------------------------------------------------------------------------
(* A complete mapfile survives *)

LEMMA InitSurvival == Init => SurvivalInv
  BY RefreshAssumption
  DEF Init, SurvivalInv, SurvivingCopy, Complete, Busy, TrySteps, UndoSteps, File, Live

LEMMA SparedSurvives ==
    ASSUME NEW g, Spared(g)
    PROVE  SurvivingCopy
  BY DEF Spared, SurvivingCopy

\* A step that leaves the mapfile and its backups alone, and no directory but
\* that of p's own generation.
MapfileKept(p) ==
    /\ file'["mapfile"] = file["mapfile"]
    /\ Live("mapfile")' = Live("mapfile")
    /\ \A h \in Generation : backup'[<<"mapfile", h>>] = backup[<<"mapfile", h>>]
    /\ \A h \in Generation \ {gen[p]} : dir'[h] = dir[h]
    /\ "mapfile" \in replaced'[p] <=> "mapfile" \in replaced[p]

LEMMA SparedKept ==
    ASSUME TypeOK, NEW p \in Proc, Spared(gen[p]), MapfileKept(p), gen'[p] = gen[p]
    PROVE  Spared(gen[p])'
  BY DEF Spared, Complete, MapfileKept

LEMMA WorkMapfileKept ==
    ASSUME TypeOK, EditInv, NEW p \in Proc, Work(p),
           pc[p] \notin {"backupMapfile", "installMapfile", "dropMapfile", "collect", "restoreMapfile"}
              \/ Fault(p)
    PROVE  MapfileKept(p)
<1> SUFFICES /\ file'["mapfile"] = file["mapfile"]
             /\ \A h \in Generation : backup'[<<"mapfile", h>>] = backup[<<"mapfile", h>>]
             /\ \A h \in Generation \ {gen[p]} : dir'[h] = dir[h]
             /\ "mapfile" \in replaced'[p] <=> "mapfile" \in replaced[p]
  BY WorkFrame DEF MapfileKept, Moves, Live
<1> USE DEF TypeOK, locals, files
<1>1. CASE Begin(p) \/ Prepare(p) \/ Generate(p) \/ Stop(p) \/ Start(p) \/ Ready(p)
  BY <1>1 DEF Begin, Prepare, Generate, Stop, Start, Ready
<1>2. CASE UnlinkCandidates(p) \/ Discard(p) \/ Restart(p) \/ Failed(p)
  BY <1>2 DEF UnlinkCandidates, Discard, Remove, Restart, Failed
<1>3. CASE Fault(p)
  BY <1>3 DEF Fault, Raise, PrepareFails, GenerateFails, StopFails, StartFails, RaiseAt
<1>4. CASE ~Fault(p) /\ (BackupFiles(p) \/ InstallFiles(p) \/ DropBackups(p) \/ RestoreFiles(p))
  BY <1>4 DEF BackupFiles, Backup, InstallFiles, Install, DropBackups, DropBackup, RestoreFiles,
              Restore, File
<1>5. CASE ~Fault(p) /\ Collect(p)
  BY <1>5 DEF Collect
<1> QED
  BY <1>1, <1>2, <1>3, <1>4, <1>5 DEF Work

\* Where control can come from, for the steps of MapfileKept.
LEMMA WorkControl ==
    ASSUME TypeOK, NEW p \in Proc, Work(p), "ready" \notin FaultSteps,
           pc[p] \notin {"backupMapfile", "installMapfile", "dropMapfile", "collect", "restoreMapfile"}
              \/ Fault(p)
    PROVE  /\ pc'[p] \notin CommittedAt
           /\ pc[p] \in CommittedAt => pc'[p] = "done"
           /\ pc'[p] \in UnmovedAt => pc[p] \in UnmovedAt
           /\ pc'[p] \in {"installCatalog", "installMapfile"} => pc[p] = "installCatalog"
           /\ pc'[p] \in UnrestoredAt => pc[p] \in UnrestoredAt
<1> USE RefreshAssumption DEF TypeOK, Goto, CommittedAt, UnmovedAt, UnrestoredAt, TrySteps, UndoSteps
<1>1. CASE Begin(p) \/ Prepare(p) \/ Generate(p) \/ Stop(p) \/ Start(p) \/ Ready(p)
  BY <1>1 DEF Begin, Prepare, Generate, Stop, Start, Ready
<1>2. CASE UnlinkCandidates(p) \/ Discard(p) \/ Restart(p) \/ Failed(p)
  BY <1>2 DEF UnlinkCandidates, Discard, Restart, Failed
<1>3. CASE Fault(p)
  BY <1>3 DEF Fault, Raise, PrepareFails, GenerateFails, StopFails, StartFails, RaiseAt, MayRaise
<1>4. CASE ~Fault(p) /\ (BackupFiles(p) \/ InstallFiles(p) \/ DropBackups(p) \/ RestoreFiles(p))
  BY <1>4 DEF BackupFiles, Backup, InstallFiles, Install, DropBackups, DropBackup, RestoreFiles, Restore
<1>5. CASE ~Fault(p) /\ Collect(p)
  BY <1>5 DEF Collect
<1> QED
  BY <1>1, <1>2, <1>3, <1>4, <1>5 DEF Work

LEMMA WorkSurvival ==
    ASSUME "ready" \notin FaultSteps, TypeOK, EditInv, NEW p \in Proc, SwapInv(p), SparedInv(p),
           Work(p), ~spoilt'
    PROVE  SurvivingCopy' /\ (Busy(p)' => SparedInv(p)')
<1> DEFINE g == gen[p]
<1>1. gen'[p] = g /\ g \in Generation /\ g # None /\ "mapfile" \in File
  BY WorkFrame, RefreshAssumption DEF File
<1>0. /\ ~spoilt
      /\ file'["mapfile"] = file["mapfile"] => Live("mapfile")' = Live("mapfile")
      /\ file'["mapfile"] # file["mapfile"] =>
            Live("mapfile") = file["mapfile"] /\ Live("mapfile")' = file'["mapfile"]
      /\ \A h \in Generation : backup[<<"mapfile", h>>] # Open
  <2>1. /\ Spoilt("mapfile") => Spoilt("mapfile")'
        /\ file'["mapfile"] = file["mapfile"] => Live("mapfile")' = Live("mapfile")
        /\ \/ Spoilt("mapfile")'
           \/ file'["mapfile"] = file["mapfile"]
           \/ Live("mapfile") = file["mapfile"] /\ Live("mapfile")' = file'["mapfile"]
    BY <1>1, WorkFrame, MovesEdit
  <2> QED
    BY <2>1 DEF Spoilt, EditInv
<1>01. pc[p] \in InstalledAt("mapfile") => Live("mapfile") = g
  BY <1>0, <1>1 DEF SwapInv, HeldInv, Spoilt
<1>02. g' = g
  BY <1>1
<1> HIDE DEF g
<1> USE <1>1, <1>02
<1>2. CASE pc[p] \notin {"backupMapfile", "installMapfile", "dropMapfile", "collect", "restoreMapfile"}
              \/ Fault(p)
  <2>1. MapfileKept(p)
    BY <1>2, WorkMapfileKept
  <2>2. /\ pc'[p] \notin CommittedAt
        /\ pc[p] \in CommittedAt => pc'[p] = "done"
        /\ pc'[p] \in UnmovedAt => pc[p] \in UnmovedAt
        /\ pc'[p] \in {"installCatalog", "installMapfile"} => pc[p] = "installCatalog"
        /\ pc'[p] \in UnrestoredAt => pc[p] \in UnrestoredAt
    BY <1>2, WorkControl
  <2>3. CASE pc[p] \notin CommittedAt
    <3>1. Spared(g)'
      BY <2>1, <2>3, SparedKept DEF SparedInv, g
    <3>2. SurvivingCopy'
      BY <3>1, SparedSurvives DEF Spared, SurvivingCopy
    <3>3. SparedInv(p)'
      BY <2>1, <2>2, <3>1 DEF SparedInv, MapfileKept, MustRestore, g
    <3> QED
      BY <3>2, <3>3
  <2>4. CASE pc[p] \in CommittedAt
    <3>1. ~Busy(p)'
      BY <2>2, <2>4 DEF Busy, TrySteps, UndoSteps
    <3>2. Ready(p)
      BY <1>2, <2>2, <2>4, RefreshAssumption
      DEF Work, Begin, Prepare, Generate, Stop, BackupFiles, Backup, InstallFiles, Install, Start,
          DropBackups, DropBackup, Collect, UnlinkCandidates, RestoreFiles, Restore, Discard,
          Restart, Failed, CommittedAt, Fault, Raise, PrepareFails, GenerateFails, StopFails,
          StartFails, RaiseAt, MayRaise
    <3>3. Live("mapfile")' = g /\ dir[g] = "staged" /\ dir' = dir
      BY <1>0, <1>01, <3>2 DEF Ready, SwapInv, StagedAt, InstalledAt, TrySteps, files, g
    <3>4. SurvivingCopy'
      BY <3>3 DEF SurvivingCopy, Complete
    <3> QED
      BY <3>1, <3>4
  <2> QED
    BY <2>3, <2>4
<1>3. CASE Backup(p, "mapfile", "backupMapfile", "installCatalog")
  <2>1. /\ pc[p] = "backupMapfile" /\ pc'[p] = "installCatalog" /\ dir' = dir /\ replaced' = replaced
        /\ file'["mapfile"] = None
        /\ \A h \in Generation : backup'[<<"mapfile", h>>] =
              IF h = g THEN file["mapfile"] ELSE backup[<<"mapfile", h>>]
    BY <1>3 DEF Backup, Goto, TypeOK, locals, g
  <2>2. Spared(g) /\ backup[<<"mapfile", g>>] = None
    BY <2>1 DEF SparedInv, CommittedAt, UnmovedAt, g
  <2>7. Live("mapfile")' = None /\ (file["mapfile"] = None \/ Live("mapfile") = file["mapfile"])
    <3>1. file["mapfile"] = None => Live("mapfile") = None
      BY RefreshAssumption DEF Live
    <3> QED
      BY <1>0, <2>1, <3>1
  <2>3. ~Complete(backup[<<"mapfile", g>>])
    BY <2>2, RefreshAssumption DEF Complete
  <2>8. file["mapfile"] = None => Live("mapfile") = None
    BY RefreshAssumption DEF Live
  <2>9. ~Complete(None)
    BY RefreshAssumption DEF Complete
  <2>4. Spared(g)'
    BY <2>1, <2>2, <2>3, <2>7, <2>8, <2>9 DEF Spared, Complete
  <2>5. SurvivingCopy'
    BY <2>4 DEF Spared, SurvivingCopy
  <2>6. SparedInv(p)'
    BY <2>1, <2>4, <2>7 DEF SparedInv, UnmovedAt, g
  <2> QED
    BY <2>5, <2>6
<1>4. CASE Install(p, "mapfile", "installMapfile", IF RestartWorkers THEN "start" ELSE "dropCatalog")
  <2>1. /\ pc[p] = "installMapfile" /\ pc'[p] \in {"start", "dropCatalog"}
        /\ dir' = dir /\ backup' = backup /\ file'["mapfile"] = g
    BY <1>4 DEF Install, Goto, TypeOK, g
  <2>2. Spared(g) /\ Live("mapfile") = None /\ ~Complete(Live("mapfile"))
    BY <2>1, RefreshAssumption DEF SparedInv, CommittedAt, Complete, g
  <2>6. Live("mapfile")' = g
    BY <1>0, <2>1, <2>2, RefreshAssumption DEF Live
  <2>3. Spared(g)'
    BY <2>1, <2>2 DEF Spared, Complete
  <2>4. SurvivingCopy'
    BY <2>3 DEF Spared, SurvivingCopy
  <2>5. SparedInv(p)'
    BY <2>1, <2>3, <2>6 DEF SparedInv, UnmovedAt, g
  <2> QED
    BY <2>4, <2>5
<1>5. CASE DropBackup(p, "mapfile", "dropMapfile", "collect") \/ (Collect(p) /\ ~Fault(p))
  <2>1. /\ pc[p] \in {"dropMapfile", "collect"} /\ pc'[p] \in CommittedAt
        /\ file' = file /\ dir'[g] = dir[g]
    BY <1>5 DEF DropBackup, Collect, Remove, Obsolete, Goto, TypeOK, CommittedAt, g
  <2>2. Live("mapfile") = g /\ dir[g] = "staged" /\ Live("mapfile")' = g
    BY <1>0, <1>01, <2>1 DEF SwapInv, StagedAt, InstalledAt, TrySteps, g
  <2>3. SurvivingCopy'
    BY <2>1, <2>2 DEF SurvivingCopy, Complete
  <2>4. SparedInv(p)'
    BY <2>1, <2>2 DEF SparedInv, CommittedAt, UnmovedAt, g
  <2> QED
    BY <2>3, <2>4
<1>6. CASE Restore(p, "mapfile", "restoreMapfile", "discard")
  <2>1. /\ pc[p] = "restoreMapfile" /\ pc'[p] = "discard" /\ dir' = dir
        /\ \A h \in Generation : backup'[<<"mapfile", h>>] =
              IF h = g THEN None ELSE backup[<<"mapfile", h>>]
        /\ file'["mapfile"] = IF MustRestore(p, "mapfile") THEN backup[<<"mapfile", g>>]
                                                           ELSE file["mapfile"]
    BY <1>6 DEF Restore, Goto, TypeOK, g
  <2>2. /\ Spared(g)
        /\ MustRestore(p, "mapfile") => Live("mapfile") \in {None, g}
        /\ ~MustRestore(p, "mapfile") => backup[<<"mapfile", g>>] = None
    BY <2>1 DEF SparedInv, CommittedAt, UnrestoredAt, MustRestore, g
  <2>7. Live("mapfile")' = IF MustRestore(p, "mapfile") THEN backup[<<"mapfile", g>>]
                                                        ELSE Live("mapfile")
    <3>1. file["mapfile"] = backup[<<"mapfile", g>>] => Live("mapfile") = file["mapfile"]
      BY <1>0 DEF Live
    <3> QED
      BY <1>0, <2>1, <3>1
  <2>3. ~Complete(None)
    BY RefreshAssumption DEF Complete
  <2>4. Spared(g)'
    BY <2>1, <2>2, <2>3, <2>7 DEF Spared, Complete
  <2>5. SurvivingCopy'
    BY <2>4 DEF Spared, SurvivingCopy
  <2>6. SparedInv(p)'
    BY <2>1, <2>4 DEF SparedInv, UnmovedAt, UnrestoredAt, TrySteps, CommittedAt, g
  <2> QED
    BY <2>5, <2>6
<1>7. \/ pc[p] \notin {"backupMapfile", "installMapfile", "dropMapfile", "collect", "restoreMapfile"}
      \/ Fault(p)
      \/ Backup(p, "mapfile", "backupMapfile", "installCatalog")
      \/ Install(p, "mapfile", "installMapfile", IF RestartWorkers THEN "start" ELSE "dropCatalog")
      \/ DropBackup(p, "mapfile", "dropMapfile", "collect") \/ Collect(p)
      \/ Restore(p, "mapfile", "restoreMapfile", "discard")
  BY DEF Work, Begin, Prepare, Generate, Stop, BackupFiles, Backup, InstallFiles, Install, Start,
         DropBackups, DropBackup, Collect, Ready, UnlinkCandidates, RestoreFiles, Restore, Discard,
         Restart, Failed
<1> QED
  BY <1>2, <1>3, <1>4, <1>5, <1>6, <1>7

LEMMA NextSurvival ==
    ASSUME "ready" \notin FaultSteps, IInv, SurvivalInv, [Next]_vars
    PROVE  SurvivalInv'
<1>0. TypeOK /\ EditInv
  BY DEF IInv
<1>1. ASSUME NEW p \in Proc, Work(p) PROVE SurvivalInv'
  <2>1. /\ Busy(p) /\ lock = p /\ gen' = gen /\ pc'[p] \notin {"idle", "lock", "begin"}
        /\ \A q \in Proc : q # p => pc'[q] = pc[q]
        /\ spoilt => spoilt'
    BY <1>1, WorkFrame DEF IInv, LockInv, Moves
  <2>2. \A q \in Proc : Busy(q)' => q = p
    BY <2>1 DEF IInv, LockInv, Busy
  <2>3. ASSUME ~spoilt' PROVE SurvivingCopy' /\ (Busy(p)' => SparedInv(p)')
    BY <1>1, <2>1, <2>3, WorkSurvival DEF IInv, SurvivalInv
  <2>4. \A q \in Proc : q # p => replaced'[q] = replaced[q]
    BY <1>1
    DEF IInv, TypeOK, locals, Work, Begin, Prepare, Generate, Stop, BackupFiles, Backup,
        InstallFiles, Install, Start, DropBackups, DropBackup, Collect, Ready, UnlinkCandidates,
        RestoreFiles, Restore, Discard, Restart, Failed, Fault, Raise, PrepareFails, GenerateFails,
        StopFails, StartFails, RaiseAt
  <2> QED
    BY <2>1, <2>2, <2>3, <2>4 DEF SurvivalInv
<1>2. CASE Idling
  <2>1. /\ dir' = dir
        /\ spoilt => spoilt'
        /\ \/ spoilt'
           \/ /\ Live("mapfile")' = Live("mapfile")
              /\ \A h \in Generation : backup'[<<"mapfile", h>>] = backup[<<"mapfile", h>>]
        /\ \A q \in Proc :
              \/ pc'[q] = pc[q] /\ gen'[q] = gen[q] /\ replaced'[q] = replaced[q]
              \/ pc'[q] = "lock" /\ replaced'[q] = {}
              \/ pc'[q] = "begin" /\ pc[q] = "lock" /\ replaced'[q] = replaced[q]
              \/ pc'[q] \in {"raised", "idle"}
    BY <1>0, <1>2, IdlingFrame
  <2>3. \A q \in Proc : pc'[q] \in {"lock", "begin"} => replaced'[q] = {}
    BY <2>1 DEF SurvivalInv
  <2>5. SUFFICES ASSUME ~spoilt'
                 PROVE  SurvivingCopy' /\ \A q \in Proc : Busy(q)' => SparedInv(q)'
    BY <2>3 DEF SurvivalInv
  <2>6. /\ ~spoilt /\ dir' = dir /\ Live("mapfile")' = Live("mapfile")
        /\ \A h \in Generation : backup'[<<"mapfile", h>>] = backup[<<"mapfile", h>>]
    BY <2>1, <2>5
  <2>2. SurvivingCopy'
    BY <2>6 DEF SurvivalInv, SurvivingCopy, Complete
  <2>4. ASSUME NEW q \in Proc, Busy(q)' PROVE SparedInv(q)'
    <3>1. CASE pc'[q] = "begin"
      <4>1. IInv'
        BY NextInv
      <4>2. gen'[q] \in Generation /\ Untouched(gen[q])'
        BY <3>1, <4>1 DEF IInv, TypeOK, FreshInv
      <4>3. /\ Live("mapfile")' # gen'[q] /\ backup'[<<"mapfile", gen'[q]>>] = None
            /\ \A h \in Generation : backup'[<<"mapfile", h>>] # gen'[q]
        BY <4>2 DEF Untouched, File, Live
      <4>4. Spared(gen[q])'
        BY <2>2, <2>5, <4>3 DEF Spared, SurvivingCopy
      <4> QED
        BY <2>3, <3>1, <4>3, <4>4 DEF SparedInv, MustRestore
    <3>2. CASE pc'[q] # "begin"
      <4>1. pc'[q] = pc[q] /\ gen'[q] = gen[q] /\ replaced'[q] = replaced[q] /\ Busy(q)
        BY <2>1, <2>4, <3>2 DEF Busy, TrySteps, UndoSteps
      <4>2. SparedInv(q)
        BY <2>6, <4>1 DEF SurvivalInv
      <4>3. gen[q] \in Generation
        BY <1>0, <4>1 DEF TypeOK, Busy, TrySteps, UndoSteps
      <4> QED
        BY <2>6, <4>1, <4>2, <4>3
        DEF SparedInv, Spared, Complete, MustRestore, CommittedAt, UnmovedAt, UnrestoredAt, TrySteps
    <3> QED
      BY <3>1, <3>2
  <2> QED
    BY <2>2, <2>4
<1> QED
  BY <1>1, <1>2, WorkOrIdling

\* Whatever fails or is killed, the roll-back and the container included, a
\* mapfile whose index files are complete stays on the disk, as long as no edit of
\* the admin process meets a swap or is cut short; the one failure it does not
\* stand is that of recording the success, after the old generation is gone.
THEOREM MapfileSurvives ==
    ASSUME "ready" \notin FaultSteps
    PROVE  Spec => []SurvivingCopy
<1>1. IInv /\ SurvivalInv /\ [Next]_vars => SurvivalInv'
  BY NextSurvival
<1>2. SurvivalInv => SurvivingCopy
  BY DEF SurvivalInv, SurvivingCopy
<1> QED
  BY <1>1, <1>2, InitSurvival, Invariant, PTL DEF Spec
=============================================================================
