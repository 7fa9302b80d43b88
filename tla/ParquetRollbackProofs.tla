------------------------- MODULE ParquetRollbackProofs -------------------------
(***************************************************************************)
(* Proofs about ParquetRefresh when the roll-back itself works: statements *)
(* of refresh() may raise, except the file operations of its "except"      *)
(* branch and the two after which no backup is left, and no process is     *)
(* killed.  A refresh then switches generations at once or not at all: the *)
(* controller implements AbstractRefresh, and nothing is left behind, what *)
(* ever the admin process writes meanwhile.  As long as none of its edits  *)
(* meets a swap, the catalog and the mapfile agree, and what is served is  *)
(* complete.                                                               *)
(***************************************************************************)
EXTENDS ParquetRefreshProofs

\* The failures that the "except" branch is there for: none of its own file
\* operations raises, nor the two statements after which no backup is left.
Recoverable ==
    /\ FaultSteps \intersect {"undo", "restoreCatalog", "restoreMapfile", "dropMapfile", "ready"} = {}
    /\ "kill" \notin Disruptions

Prior == Generation \union {Seed}

\* Where file f stands in the swap of process p, when c was active before.
Kept(p, f, c)    == Live(f) = c /\ backup[<<f, gen[p]>>] = None /\ f \notin replaced[p]
Moved(p, f, c)   == Live(f) = None /\ backup[<<f, gen[p]>>] = c /\ f \notin replaced[p]
Swapped(p, f, c) == Live(f) = gen[p] /\ backup[<<f, gen[p]>>] = c /\ f \in replaced[p]
Dropped(p, f)    == Live(f) = gen[p] /\ backup[<<f, gen[p]>>] = None
Back(p, f, c)    == Live(f) = c /\ backup[<<f, gen[p]>>] = None

KeptAt(f) == {"begin", "prepare", "generate", "stop", "backupCatalog"}
                 \union (IF f = "mapfile" THEN {"backupMapfile"} ELSE {})
MovedAt(f) == {"installCatalog"}
                  \union (IF f = "mapfile" THEN {"installMapfile"} ELSE {"backupMapfile"})
SwappedAt(f) == {"start", "dropCatalog"}
                    \union (IF f = "mapfile" THEN {"dropMapfile"} ELSE {"installMapfile"})
DroppedAt(f) == {"collect", "ready", "done"}
                    \union (IF f = "mapfile" THEN {} ELSE {"dropMapfile"})
OpenAt(f) == {"undo", "restoreCatalog"} \union (IF f = "mapfile" THEN {"restoreMapfile"} ELSE {})
BackAt(f) == {"discard", "restart", "failed", "raised"}
                 \union (IF f = "mapfile" THEN {} ELSE {"restoreMapfile"})
CommittedAt == {"dropMapfile", "collect", "ready", "done"}
Held == {"begin", "done", "raised"} \union TrySteps \union UndoSteps

InPlace(p, f, c) ==
    /\ pc[p] \in KeptAt(f) => Kept(p, f, c)
    /\ pc[p] \in MovedAt(f) => Moved(p, f, c)
    /\ pc[p] \in SwappedAt(f) => Swapped(p, f, c)
    /\ pc[p] \in DroppedAt(f) => Dropped(p, f)
    /\ pc[p] \in OpenAt(f) => Kept(p, f, c) \/ Moved(p, f, c) \/ Swapped(p, f, c)
    /\ pc[p] \in BackAt(f) => Back(p, f, c)

FilesInv(p, c) ==
    \A f \in File :
        /\ Spoilt(f) \/ InPlace(p, f, c)
        /\ pc[p] \in KeptAt(f) \union DroppedAt(f) \union BackAt(f) =>
              backup[<<f, gen[p]>>] = None
        /\ \A h \in Generation \ {gen[p]} : backup[<<f, h>>] = None

DirsInv(p, c) ==
    /\ \A h \in Generation : dir[h] # "absent" => h = c \/ h = gen[p]
    /\ pc[p] \in {"ready", "done"} => \A h \in Generation : dir[h] # "absent" => h = gen[p]
    /\ pc[p] \in {"begin", "restart", "failed", "raised"} => dir[gen[p]] = "absent"
    /\ pc[p] = "prepare" => dir[gen[p]] = "partial"
    /\ pc[p] = "done" => dir[gen[p]] = "staged"
    /\ pc[p] \notin {"ready", "done"} /\ c \in Generation => dir[c] = "staged"
    /\ pc[p] \in TrySteps /\ c \in Generation => c \in old[p]

CandidatesInv(p) ==
    /\ candidate \subseteq File \X {gen[p]}
    /\ pc[p] \notin {"generate", "stop", "backupCatalog", "backupMapfile", "installCatalog",
                     "installMapfile", "undo"} => candidate = {}
    /\ pc[p] = "installMapfile" => candidate \subseteq {<<"mapfile", gen[p]>>}

ReportInv(p, c) ==
    status.state = "ready" =>
        /\ pc[p] \notin CommittedAt => status.generation = c
        /\ pc[p] = "done" => status.generation = gen[p]

Swapping(p, c) ==
    /\ c # gen[p]
    /\ FilesInv(p, c) /\ DirsInv(p, c) /\ CandidatesInv(p) /\ ReportInv(p, c)

\* One generation, or the bundled content, and nothing else.
Clean(c) ==
    /\ \A f \in File :
          /\ Spoilt(f) \/ Live(f) = c
          /\ \A h \in Generation : backup[<<f, h>>] = None
    /\ \A h \in Generation : dir[h] # "absent" => h = c
    /\ c \in Generation => dir[c] = "staged"
    /\ candidate = {}
    /\ status.state = "ready" => status.generation = c

PhaseInv ==
    /\ lock # None => pc[lock] \in Held
    /\ \A p \in Proc : pc[p] = "done" => lock = p
    /\ \A p \in Proc : pc[p] = "lock" => replaced[p] = {} /\ ~stopped[p]
    /\ phase # "running" => up = {}
    /\ phase = "down" => AtRest
    /\ phase = "booting" =>
          /\ \A p, q \in Proc : pc[p] # "idle" /\ pc[q] # "idle" => p = q
          /\ \A p \in Proc : pc[p] # "idle" => pc[p] \notin {"stop", "start", "restart"} /\ ~stopped[p]

RollbackInv ==
    /\ PhaseInv
    /\ lock = None => \E c \in Prior : Clean(c)
    /\ lock # None => \E c \in Prior : Swapping(lock, c)

-----------------------------------------------------------------------------
(* A step that raises *)

\* A fault that the roll-back is there for moves no file, and leads to the
\* "except" branch while both backups are still there.
LEMMA FaultFrame ==
    ASSUME TypeOK, Recoverable, NEW p \in Proc, Fault(p)
    PROVE  /\ UNCHANGED <<file, backup, replaced, old, stopped, status, phase>>
           /\ \A h \in Generation \ {gen[p]} : dir'[h] = dir[h]
           /\ dir'[gen[p]] = dir[gen[p]] \/ pc[p] = "prepare"
           /\ candidate' = candidate \/ (pc[p] \in {"prepare", "generate"}
                                         /\ candidate' \subseteq candidate \union File \X {gen[p]})
           /\ loaded' = loaded \/ pc[p] \in {"stop", "start", "restart"}
           /\ \/ pc[p] \in TrySteps \ {"dropMapfile", "collect", "ready"} /\ pc'[p] = "undo"
              \/ pc[p] \in {"begin", "restart", "failed"} /\ pc'[p] = "raised"
<1> USE RefreshAssumption DEF Recoverable, RaiseAt, Goto, TypeOK, MayRaise, LeavingSteps,
        TrySteps, UndoSteps, admin, locals
<1>1. CASE Raise(p)
  BY <1>1 DEF Raise
<1>2. CASE PrepareFails(p) \/ GenerateFails(p)
  BY <1>2 DEF PrepareFails, GenerateFails, File
<1>3. CASE StopFails(p) \/ StartFails(p)
  BY <1>3 DEF StopFails, StartFails
<1> QED
  BY <1>1, <1>2, <1>3 DEF Fault

-----------------------------------------------------------------------------
(* What each step of the holder does to the swap *)

LEMMA WorkFiles ==
    ASSUME TypeOK, EditInv, Recoverable, NEW p \in Proc, NEW c \in Prior, c # gen[p],
           FilesInv(p, c), Work(p)
    PROVE  FilesInv(p, c)'
<1> DEFINE g == gen[p]
<1>1. gen'[p] = g /\ g \in Generation /\ g # None /\ c # None
  BY WorkFrame, RefreshAssumption DEF Prior
<1>2. \A f \in File, h \in Generation \ {g} : backup'[<<f, h>>] = None
  <2>1. \A f \in File, h \in Generation \ {g} : backup[<<f, h>>] = None
    BY DEF FilesInv
  <2>2. \A f \in File, h \in Generation \ {g} : backup'[<<f, h>>] \in {backup[<<f, h>>], None}
    BY WorkFrame DEF Moves
  <2> QED
    BY <2>1, <2>2
<1>3. \A f \in File :
         /\ Spoilt(f) => Spoilt(f)'
         /\ file'[f] = file[f] => Live(f)' = Live(f)
         /\ \/ Spoilt(f)'
            \/ file'[f] = file[f]
            \/ Live(f) = file[f] /\ Live(f)' = file'[f]
  BY <1>1, WorkFrame, MovesEdit
<1> HIDE DEF g
<1>4. /\ g = gen[p]
      /\ \A f \in File :
            /\ Spoilt(f) \/ InPlace(p, f, c)
            /\ pc[p] \in KeptAt(f) \union DroppedAt(f) \union BackAt(f) => backup[<<f, g>>] = None
  BY DEF FilesInv, g
<1>5. SUFFICES ASSUME NEW f \in File
               PROVE  /\ Spoilt(f)' \/ InPlace(p, f, c)'
                      /\ pc'[p] \in KeptAt(f) \union DroppedAt(f) \union BackAt(f) =>
                            backup'[<<f, g>>] = None
  BY <1>1, <1>2 DEF FilesInv, KeptAt, DroppedAt, BackAt
<1> USE <1>1 DEF InPlace, Kept, Moved, Swapped, Dropped, Back, KeptAt, MovedAt, SwappedAt,
        DroppedAt, OpenAt, BackAt
\* Steps that move nothing.
<1>6. ASSUME UNCHANGED <<file, backup, replaced>>,
             pc'[p] \in KeptAt(f) => pc[p] \in KeptAt(f),
             pc'[p] \in MovedAt(f) => pc[p] \in MovedAt(f),
             pc'[p] \in SwappedAt(f) => pc[p] \in SwappedAt(f),
             pc'[p] \in DroppedAt(f) => pc[p] \in DroppedAt(f),
             pc'[p] \in OpenAt(f) =>
                pc[p] \in OpenAt(f) \union KeptAt(f) \union MovedAt(f) \union SwappedAt(f),
             pc'[p] \in BackAt(f) => pc[p] \in BackAt(f) \union {"begin"}
      PROVE  /\ Spoilt(f)' \/ InPlace(p, f, c)'
             /\ pc'[p] \in KeptAt(f) \union DroppedAt(f) \union BackAt(f) =>
                   backup'[<<f, g>>] = None
  <2>1. Live(f)' = Live(f) /\ (Spoilt(f) => Spoilt(f)')
    BY <1>3, <1>6
  <2>2. pc[p] = "begin" => pc[p] \in KeptAt(f)
    OBVIOUS
  <2> HIDE DEF KeptAt, MovedAt, SwappedAt, DroppedAt, OpenAt, BackAt
  <2>3. pc'[p] \in KeptAt(f) \union DroppedAt(f) \union BackAt(f) => backup'[<<f, g>>] = None
    BY <1>4, <1>6, <2>2
  <2>4. ASSUME InPlace(p, f, c) PROVE InPlace(p, f, c)'
    <3> USE DEF KeptAt, MovedAt, SwappedAt, DroppedAt, OpenAt, BackAt
    <3> QED
      BY <1>4, <1>6, <2>1, <2>2, <2>4
  <2> QED
    BY <1>4, <2>1, <2>3, <2>4
<1>7. CASE Begin(p) \/ Prepare(p) \/ Generate(p) \/ Stop(p)
  <2>1. /\ UNCHANGED <<file, backup, replaced>>
        /\ pc[p] \in {"begin", "prepare", "generate", "stop"}
        /\ pc'[p] \in {"prepare", "generate", "stop", "backupCatalog"}
    BY <1>7 DEF Begin, Prepare, Generate, Stop, Goto, locals, files, TypeOK
  <2> QED
    BY <1>6, <2>1 DEF File
<1>8. CASE Start(p) \/ Collect(p) \/ Ready(p) \/ UnlinkCandidates(p) \/ Discard(p) \/ Restart(p)
           \/ Failed(p)
  <2>1. /\ UNCHANGED <<file, backup, replaced>>
        /\ \/ pc[p] = "start" /\ pc'[p] = "dropCatalog"
           \/ pc[p] = "collect" /\ pc'[p] = "ready"
           \/ pc[p] = "ready" /\ pc'[p] = "done"
           \/ pc[p] = "undo" /\ pc'[p] = "restoreCatalog"
           \/ pc[p] = "discard" /\ pc'[p] \in {"restart", "failed"}
           \/ pc[p] = "restart" /\ pc'[p] = "failed"
           \/ pc[p] = "failed" /\ pc'[p] = "raised"
    BY <1>8 DEF Start, Collect, Ready, UnlinkCandidates, Discard, Restart, Failed, Goto, locals,
                files, TypeOK
  <2> QED
    BY <1>6, <2>1 DEF File
<1>9. CASE Fault(p)
  <2>1. /\ UNCHANGED <<file, backup, replaced>>
        /\ \/ pc[p] \in TrySteps \ {"dropMapfile", "collect", "ready"} /\ pc'[p] = "undo"
           \/ pc[p] \in {"begin", "restart", "failed"} /\ pc'[p] = "raised"
    BY <1>9, FaultFrame
  <2> QED
    BY <1>6, <2>1 DEF TrySteps, File
<1>10. CASE BackupFiles(p)
  <2> PICK e \in File, step \in Steps, next \in Steps :
           /\ Backup(p, e, step, next)
           /\ \/ e = "catalog" /\ step = "backupCatalog" /\ next = "backupMapfile"
              \/ e = "mapfile" /\ step = "backupMapfile" /\ next = "installCatalog"
    BY <1>10 DEF BackupFiles, File, Steps, TrySteps
  <2>1. /\ \/ e = "catalog" /\ pc[p] = "backupCatalog" /\ pc'[p] = "backupMapfile"
           \/ e = "mapfile" /\ pc[p] = "backupMapfile" /\ pc'[p] = "installCatalog"
        /\ file'[e] = None /\ (f # e => file'[f] = file[f])
        /\ backup'[<<f, g>>] = IF f = e THEN file[f] ELSE backup[<<f, g>>]
        /\ replaced' = replaced
    BY <1>4 DEF Backup, Goto, locals, TypeOK
  <2>2. CASE f # e
    <3>1. Live(f)' = Live(f) /\ (Spoilt(f) => Spoilt(f)')
      BY <1>3, <2>1, <2>2
    <3>2. /\ pc'[p] \in KeptAt(f) => pc[p] \in KeptAt(f)
          /\ pc'[p] \in MovedAt(f) => pc[p] \in MovedAt(f)
          /\ pc'[p] \notin SwappedAt(f) \union DroppedAt(f) \union OpenAt(f) \union BackAt(f)
      BY <2>1, <2>2 DEF File
    <3> QED
      BY <1>4, <2>1, <2>2, <3>1, <3>2
  <2>3. CASE f = e
    <3>1. /\ pc[p] \in KeptAt(f) /\ pc'[p] \in MovedAt(f)
          /\ pc'[p] \notin KeptAt(f) \union SwappedAt(f) \union DroppedAt(f)
                              \union OpenAt(f) \union BackAt(f)
      BY <2>1, <2>3 DEF File
    <3>2. CASE ~Spoilt(f)'
      <4>1. InPlace(p, f, c)
        BY <1>3, <1>4, <3>2
      <4>2. Live(f) = c /\ f \notin replaced[p]
        BY <1>4, <3>1, <4>1
      <4>3. file[f] = c /\ Live(f)' = None
        <5>1. file[f] = None => Live(f) = None
          BY RefreshAssumption DEF Live
        <5> QED
          BY <1>3, <2>1, <2>3, <3>2, <4>2, <5>1
      <4> QED
        BY <1>4, <2>1, <2>3, <3>1, <4>2, <4>3
    <3> QED
      BY <3>1, <3>2
  <2> QED
    BY <2>2, <2>3
<1>11. CASE InstallFiles(p)
  <2>1. PICK e \in File :
           /\ \/ e = "catalog" /\ pc[p] = "installCatalog" /\ pc'[p] = "installMapfile"
              \/ e = "mapfile" /\ pc[p] = "installMapfile" /\ pc'[p] \in {"start", "dropCatalog"}
           /\ file'[e] = g /\ (f # e => file'[f] = file[f])
           /\ backup' = backup
           /\ f \in replaced'[p] <=> f \in replaced[p] \/ f = e
    BY <1>4, <1>11 DEF InstallFiles, Install, Goto, File, TypeOK
  <2>2. CASE f # e
    <3>1. Live(f)' = Live(f) /\ (Spoilt(f) => Spoilt(f)')
      BY <1>3, <2>1, <2>2
    <3>2. /\ pc'[p] \in MovedAt(f) => pc[p] \in MovedAt(f)
          /\ pc'[p] \in SwappedAt(f) => pc[p] \in SwappedAt(f)
          /\ pc'[p] \notin KeptAt(f) \union DroppedAt(f) \union OpenAt(f) \union BackAt(f)
      BY <2>1, <2>2 DEF File
    <3> QED
      BY <1>4, <2>1, <2>2, <3>1, <3>2
  <2>3. CASE f = e
    <3>1. /\ pc[p] \in MovedAt(f) /\ pc'[p] \in SwappedAt(f)
          /\ pc'[p] \notin KeptAt(f) \union MovedAt(f) \union DroppedAt(f)
                              \union OpenAt(f) \union BackAt(f)
      BY <2>1, <2>3 DEF File
    <3>2. CASE ~Spoilt(f)'
      <4>1. InPlace(p, f, c)
        BY <1>3, <1>4, <3>2
      <4>2. backup[<<f, g>>] = c /\ Live(f) = None
        BY <1>4, <3>1, <4>1
      <4>3. Live(f)' = g
        <5>1. file[f] = g => Live(f) = g
          BY RefreshAssumption DEF Live
        <5> QED
          BY <1>3, <2>1, <2>3, <3>2, <4>2, <5>1
      <4> QED
        BY <1>4, <2>1, <2>3, <3>1, <4>2, <4>3
    <3> QED
      BY <3>1, <3>2
  <2> QED
    BY <2>2, <2>3
<1>12. CASE DropBackups(p)
  <2> PICK e \in File, step \in Steps, next \in Steps :
           /\ DropBackup(p, e, step, next)
           /\ \/ e = "catalog" /\ step = "dropCatalog" /\ next = "dropMapfile"
              \/ e = "mapfile" /\ step = "dropMapfile" /\ next = "collect"
    BY <1>12 DEF DropBackups, File, Steps, TrySteps
  <2>1. /\ \/ e = "catalog" /\ pc[p] = "dropCatalog" /\ pc'[p] = "dropMapfile"
           \/ e = "mapfile" /\ pc[p] = "dropMapfile" /\ pc'[p] = "collect"
        /\ backup'[<<f, g>>] = IF f = e THEN None ELSE backup[<<f, g>>]
        /\ UNCHANGED <<file, replaced>>
    BY <1>4 DEF DropBackup, Goto, locals, TypeOK
  <2>2. Live(f)' = Live(f) /\ (Spoilt(f) => Spoilt(f)')
    BY <1>3, <2>1
  <2>3. /\ pc'[p] \in SwappedAt(f) => pc[p] \in SwappedAt(f) /\ f # e
        /\ pc'[p] \in DroppedAt(f) => (pc[p] \in SwappedAt(f) /\ f = e) \/ pc[p] \in DroppedAt(f)
        /\ pc'[p] \notin KeptAt(f) \union MovedAt(f) \union OpenAt(f) \union BackAt(f)
    BY <2>1 DEF File
  <2> QED
    BY <1>4, <2>1, <2>2, <2>3
<1>13. CASE RestoreFiles(p)
  <2> PICK e \in File, step \in Steps, next \in Steps :
           /\ Restore(p, e, step, next)
           /\ \/ e = "catalog" /\ step = "restoreCatalog" /\ next = "restoreMapfile"
              \/ e = "mapfile" /\ step = "restoreMapfile" /\ next = "discard"
    BY <1>13 DEF RestoreFiles, File, Steps, UndoSteps
  <2>1. /\ \/ e = "catalog" /\ pc[p] = "restoreCatalog" /\ pc'[p] = "restoreMapfile"
           \/ e = "mapfile" /\ pc[p] = "restoreMapfile" /\ pc'[p] = "discard"
        /\ f # e => file'[f] = file[f]
        /\ file'[e] = IF backup[<<e, g>>] # None \/ e \in replaced[p]
                      THEN backup[<<e, g>>] ELSE file[e]
        /\ backup'[<<f, g>>] = IF f = e THEN None ELSE backup[<<f, g>>]
        /\ replaced' = replaced
    BY <1>4 DEF Restore, MustRestore, Goto, locals, TypeOK
  <2>2. CASE f # e
    <3>1. Live(f)' = Live(f) /\ (Spoilt(f) => Spoilt(f)')
      BY <1>3, <2>1, <2>2
    <3>2. /\ pc'[p] \in OpenAt(f) => pc[p] \in OpenAt(f)
          /\ pc'[p] \in BackAt(f) => pc[p] \in BackAt(f)
          /\ pc'[p] \notin KeptAt(f) \union MovedAt(f) \union SwappedAt(f) \union DroppedAt(f)
      BY <2>1, <2>2 DEF File
    <3> QED
      BY <1>4, <2>1, <2>2, <3>1, <3>2
  <2>3. CASE f = e
    <3>1. /\ pc[p] \in OpenAt(f) /\ pc'[p] \in BackAt(f)
          /\ pc'[p] \notin KeptAt(f) \union MovedAt(f) \union SwappedAt(f) \union DroppedAt(f)
                              \union OpenAt(f)
      BY <2>1, <2>3 DEF File
    <3>2. CASE ~Spoilt(f)'
      <4>1. InPlace(p, f, c)
        BY <1>3, <1>4, <3>2
      <4>2. Kept(p, f, c) \/ Moved(p, f, c) \/ Swapped(p, f, c)
        BY <3>1, <4>1 DEF InPlace
      <4>3. Live(f)' = c
        <5>1. CASE Kept(p, f, c)
          <6>1. file'[f] = file[f]
            BY <1>4, <2>1, <2>3, <5>1
          <6> QED
            BY <1>3, <5>1, <6>1
        <5>2. CASE ~Kept(p, f, c)
          <6>1. file'[f] = c
            BY <1>4, <2>1, <2>3, <4>2, <5>2
          <6>2. Live(f) # c
            BY <1>4, <4>2, <5>2
          <6>3. file[f] = c => Live(f) = c
            BY RefreshAssumption DEF Live, Prior
          <6> QED
            BY <1>3, <3>2, <6>1, <6>2, <6>3
        <5> QED
          BY <5>1, <5>2
      <4> QED
        BY <1>4, <2>1, <2>3, <3>1, <4>3
    <3> QED
      BY <2>1, <2>3, <3>1, <3>2
  <2> QED
    BY <2>2, <2>3
<1> QED
  BY <1>7, <1>8, <1>9, <1>10, <1>11, <1>12, <1>13 DEF Work

LEMMA WorkDirs ==
    ASSUME TypeOK, EditInv, Recoverable, NEW p \in Proc, NEW c \in Prior, c # gen[p],
           FilesInv(p, c), DirsInv(p, c), SwapInv(p), Work(p)
    PROVE  DirsInv(p, c)'
<1> DEFINE g == gen[p]
<1>1. gen'[p] = g /\ g \in Generation
  BY WorkFrame
<1> USE <1>1 DEF DirsInv, TypeOK, Goto, locals, files, TrySteps
<1>2. CASE Begin(p)
  <2>1. file["catalog"] = c /\ pc[p] = "begin"
    BY <1>2 DEF Begin, FilesInv, InPlace, Kept, KeptAt, Spoilt, Live, EditInv, File
  <2>2. old'[p] = {c} \intersect Generation
    BY <1>2, <2>1 DEF Begin, GenerationPaths
  <2> QED
    BY <1>2, <2>2 DEF Begin
<1>3. CASE Prepare(p) \/ Generate(p) \/ Stop(p)
  BY <1>3 DEF Prepare, Generate, Stop
<1>4. CASE BackupFiles(p) \/ InstallFiles(p) \/ DropBackups(p)
  BY <1>4 DEF BackupFiles, InstallFiles, DropBackups, Backup, Install, DropBackup
<1>5. CASE Collect(p)
  <2>1. /\ pc[p] = "collect" /\ pc'[p] = "ready"
        /\ \A h \in Generation : dir'[h] = IF h \in old[p] \ {g} THEN "absent" ELSE dir[h]
        /\ old' = old
    BY <1>5 DEF Collect, Remove, Obsolete
  <2>2. \A h \in Generation : dir[h] # "absent" => h = g \/ h \in old[p] \ {g}
    BY <2>1
  <2>3. \A h \in Generation : dir'[h] # "absent" => h = g
    BY <2>1, <2>2
  <2>4. c \in Generation => c \in old'[p]
    BY <2>1
  <2> QED
    BY <2>1, <2>3, <2>4
<1>6. CASE Ready(p)
  BY <1>6 DEF Ready, SwapInv, StagedAt
<1>7. CASE Start(p) \/ UnlinkCandidates(p) \/ RestoreFiles(p) \/ Restart(p) \/ Failed(p)
  BY <1>7 DEF Start, UnlinkCandidates, RestoreFiles, Restore, Restart, Failed
<1>8. CASE Discard(p)
  BY <1>8 DEF Discard, Remove
<1>9. CASE Fault(p)
  BY <1>9, FaultFrame
<1> QED
  BY <1>2, <1>3, <1>4, <1>5, <1>6, <1>7, <1>8, <1>9 DEF Work

LEMMA WorkCandidates ==
    ASSUME TypeOK, Recoverable, NEW p \in Proc, CandidatesInv(p), Work(p)
    PROVE  CandidatesInv(p)'
<1> DEFINE g == gen[p]
<1>1. gen'[p] = g /\ g \in Generation
  BY WorkFrame
<1> USE <1>1 DEF CandidatesInv, TypeOK, Goto, locals, files, File
<1>2. CASE Begin(p) \/ Prepare(p) \/ Generate(p) \/ Stop(p)
  BY <1>2 DEF Begin, Prepare, Generate, Stop
<1>3. CASE BackupFiles(p) \/ DropBackups(p) \/ RestoreFiles(p)
  BY <1>3 DEF BackupFiles, DropBackups, RestoreFiles, Backup, DropBackup, Restore
<1>4. CASE InstallFiles(p)
  BY <1>4 DEF InstallFiles, Install
<1>5. CASE Start(p) \/ Collect(p) \/ Ready(p)
  BY <1>5 DEF Start, Collect, Ready
<1>6. CASE UnlinkCandidates(p)
  BY <1>6 DEF UnlinkCandidates, Candidates
<1>7. CASE Discard(p) \/ Restart(p) \/ Failed(p)
  BY <1>7 DEF Discard, Restart, Failed
<1>8. CASE Fault(p)
  BY <1>8, FaultFrame DEF TrySteps
<1> QED
  BY <1>2, <1>3, <1>4, <1>5, <1>6, <1>7, <1>8 DEF Work

LEMMA WorkReport ==
    ASSUME TypeOK, Recoverable, NEW p \in Proc, NEW c, ReportInv(p, c), Work(p)
    PROVE  ReportInv(p, c)'
<1>1. gen'[p] = gen[p]
  BY WorkFrame
<1> USE <1>1 DEF ReportInv, CommittedAt, TypeOK, Goto, locals, files
<1>2. CASE Begin(p) \/ Prepare(p) \/ Generate(p) \/ Stop(p) \/ Start(p) \/ Collect(p)
  BY <1>2 DEF Begin, Prepare, Generate, Stop, Start, Collect
<1>3. CASE BackupFiles(p) \/ InstallFiles(p) \/ DropBackups(p) \/ RestoreFiles(p)
  BY <1>3 DEF BackupFiles, Backup, InstallFiles, Install, DropBackups, DropBackup, RestoreFiles, Restore
<1>4. CASE Ready(p)
  BY <1>4 DEF Ready
<1>5. CASE UnlinkCandidates(p) \/ Discard(p) \/ Restart(p)
  BY <1>5 DEF UnlinkCandidates, Discard, Restart
<1>6. CASE Failed(p)
  BY <1>6 DEF Failed
<1>7. CASE Fault(p)
  BY <1>7, FaultFrame DEF TrySteps
<1> QED
  BY <1>2, <1>3, <1>4, <1>5, <1>6, <1>7 DEF Work

LEMMA WorkSwapping ==
    ASSUME TypeOK, EditInv, Recoverable, NEW p \in Proc, NEW c \in Prior, Swapping(p, c),
           SwapInv(p), Work(p)
    PROVE  Swapping(p, c)'
<1>1. c # gen'[p]
  BY WorkFrame DEF Swapping
<1> QED
  BY <1>1, WorkFiles, WorkDirs, WorkCandidates, WorkReport DEF Swapping

-----------------------------------------------------------------------------
(* The processes and the container *)

LEMMA PhaseStarts ==
    ASSUME TypeOK, PhaseInv, NEW p \in Proc, StartContainer(p) \/ PostRefresh(p)
    PROVE  PhaseInv'
<1>1. /\ pc[p] = "idle" /\ pc' = [pc EXCEPT ![p] = "lock"] /\ UNCHANGED lock
      /\ stopped' = [stopped EXCEPT ![p] = FALSE]
      /\ replaced' = [replaced EXCEPT ![p] = {}]
      /\ up' = up
  BY DEF StartContainer, PostRefresh, Spawn, up
<1>2. \/ phase = "down" /\ phase' = "booting" /\ AtRest
      \/ phase = "running" /\ phase' = "running"
  BY DEF StartContainer, PostRefresh, Serving, PhaseInv
<1>3. /\ pc'[p] = "lock" /\ stopped'[p] = FALSE /\ replaced'[p] = {}
      /\ \A q \in Proc : q # p => pc'[q] = pc[q] /\ stopped'[q] = stopped[q] /\ replaced'[q] = replaced[q]
  BY <1>1 DEF TypeOK
<1>4. lock # None => lock \in Proc /\ lock # p /\ pc[lock] \in Held
  BY <1>1 DEF PhaseInv, TypeOK, Held, TrySteps, UndoSteps
<1> QED
  BY <1>1, <1>2, <1>3, <1>4 DEF PhaseInv, AtRest

LEMMA PhaseOutside ==
    ASSUME TypeOK, LockInv, PhaseInv, NEW p \in Proc, Lock(p) \/ LockBusy(p) \/ Exit(p)
    PROVE  PhaseInv'
<1>1. /\ UNCHANGED <<stopped, replaced>>
      /\ pc[p] # "idle" /\ pc'[p] \in {"begin", "raised", "idle"}
      /\ \A q \in Proc : q # p => pc'[q] = pc[q]
  BY DEF Lock, LockBusy, Exit, Goto, TypeOK, locals
<1>2. CASE Lock(p)
  <2>1. lock = None /\ lock' = p /\ pc'[p] = "begin" /\ UNCHANGED <<phase, up>>
    BY <1>2 DEF Lock, LockFree, Goto, TypeOK, admin, up
  <2> QED
    BY <1>1, <2>1, RefreshAssumption DEF PhaseInv, AtRest, Held
<1>3. CASE LockBusy(p)
  <2>1. lock # None /\ lock' = lock /\ pc[p] = "lock" /\ pc'[p] = "raised" /\ UNCHANGED <<phase, up>>
    BY <1>3 DEF LockBusy, Goto, TypeOK, admin, up
  <2>2. lock # p
    BY <2>1 DEF PhaseInv, Held, TrySteps, UndoSteps
  <2>3. lock \in Proc => pc'[lock] = pc[lock]
    BY <1>1, <2>2
  <2>4. ~AtRest
    BY <2>1 DEF AtRest
  <2> QED
    BY <1>1, <2>1, <2>2, <2>3, <2>4 DEF PhaseInv, TypeOK
<1>4. CASE Exit(p)
  <2>1. /\ pc[p] \in {"done", "raised"} /\ pc'[p] = "idle"
        /\ lock' = IF lock = p THEN None ELSE lock
        /\ \/ phase = "booting" /\ phase' = "running"
           \/ phase = "booting" /\ phase' = "down" /\ up' = up
           \/ phase # "booting" /\ UNCHANGED <<phase, up>>
    BY <1>4 DEF Exit, Goto, TypeOK, up
  <2>2. phase = "booting" => \A q \in Proc : q # p => pc'[q] = "idle"
    BY <1>1 DEF PhaseInv
  <2>3. AtRest => AtRest'
    BY <1>1, <2>1 DEF AtRest
  <2>4. phase = "booting" => AtRest'
    BY <2>1, <2>2 DEF AtRest
  <2>5. lock' # None => lock' \in Proc /\ lock' # p /\ lock' = lock
    BY <2>1 DEF TypeOK
  <2> QED
    BY <1>1, <2>1, <2>3, <2>4, <2>5 DEF PhaseInv, TypeOK
<1> QED
  BY <1>2, <1>3, <1>4

LEMMA PhaseWork ==
    ASSUME TypeOK, Recoverable, LockInv, PhaseInv, NEW p \in Proc, Work(p)
    PROVE  PhaseInv'
<1>1. /\ Busy(p) /\ lock = p /\ lock' = lock /\ p # None
      /\ \A q \in Proc : q # p => pc'[q] = pc[q]
      /\ pc'[p] \notin {"idle", "lock", "begin"}
  BY WorkFrame, RefreshAssumption DEF LockInv
<1>2. pc'[p] \in Held
  BY <1>1, ProcessTypes DEF TypeOK, Held, Steps, Step, Work
<1>3. pc[p] # "idle" /\ pc[p] # "lock" /\ phase # "down"
  BY <1>1 DEF Busy, TrySteps, UndoSteps, PhaseInv, AtRest
<1>4. phase' = phase
  BY DEF Work, Begin, Prepare, Generate, Stop, BackupFiles, Backup, InstallFiles, Install, Start,
         DropBackups, DropBackup, Collect, Ready, UnlinkCandidates, RestoreFiles, Restore, Discard,
         Restart, Failed, Fault, Raise, PrepareFails, GenerateFails, StopFails, StartFails, RaiseAt,
         admin
<1>5. \A q \in Proc : q # p => replaced'[q] = replaced[q] /\ stopped'[q] = stopped[q]
  BY DEF TypeOK, locals, Work, Begin, Prepare, Generate, Stop, BackupFiles, Backup, InstallFiles,
         Install, Start, DropBackups, DropBackup, Collect, Ready, UnlinkCandidates, RestoreFiles,
         Restore, Discard, Restart, Failed, Fault, Raise, PrepareFails, GenerateFails, StopFails,
         StartFails, RaiseAt
<1>6. ASSUME phase # "running"
      PROVE  up' = up /\ pc'[p] \notin {"stop", "start", "restart"} /\ ~stopped'[p]
  <2>1. phase = "booting" /\ up = {} /\ pc[p] \notin {"stop", "start", "restart"} /\ ~stopped[p]
    BY <1>3, <1>6 DEF PhaseInv, TypeOK
  <2> USE <1>6, <2>1 DEF TypeOK, Goto, locals, up
  <2>2. CASE Begin(p) \/ Prepare(p) \/ Collect(p) \/ Ready(p) \/ UnlinkCandidates(p) \/ Failed(p)
    BY <2>2 DEF Begin, Prepare, Collect, Ready, UnlinkCandidates, Failed
  <2>3. CASE Generate(p) \/ Discard(p)
    BY <2>3 DEF Generate, RestartWorkers, Discard, NeedsRestart
  <2>4. CASE Stop(p) \/ Start(p) \/ Restart(p)
    BY <2>4 DEF Stop, Start, Restart
  <2>5. CASE BackupFiles(p) \/ InstallFiles(p) \/ DropBackups(p) \/ RestoreFiles(p)
    BY <2>5 DEF BackupFiles, Backup, InstallFiles, Install, RestartWorkers, DropBackups, DropBackup,
                RestoreFiles, Restore
  <2>6. CASE Fault(p)
    BY <2>6, FaultFrame DEF TrySteps
  <2> QED
    BY <2>2, <2>3, <2>4, <2>5, <2>6 DEF Work
<1> QED
  BY <1>1, <1>2, <1>3, <1>4, <1>5, <1>6 DEF PhaseInv, AtRest

-----------------------------------------------------------------------------
(* The invariant *)

\* What another step may do to the files: nothing but to spoil the mapfile.
Beside ==
    /\ UNCHANGED <<candidate, dir>>
    /\ \A f \in File, h \in Generation : backup[<<f, h>>] = None => backup'[<<f, h>>] = None
    /\ \A f \in File :
          \/ Spoilt(f)'
          \/ /\ ~Spoilt(f) /\ Live(f)' = Live(f)
             /\ \A h \in Generation : backup'[<<f, h>>] = backup[<<f, h>>]

\* It leaves the holder's swap as it is.
LEMMA SwappingKept ==
    ASSUME NEW q, NEW c, gen[q] \in Generation, Swapping(q, c), Beside,
           gen'[q] = gen[q], old'[q] = old[q], replaced'[q] = replaced[q], pc'[q] = pc[q],
           status' = status \/ status'.state # "ready"
    PROVE  Swapping(q, c)'
<1>1. FilesInv(q, c)'
  <2> SUFFICES ASSUME NEW f \in File
               PROVE  /\ Spoilt(f)' \/ InPlace(q, f, c)'
                      /\ pc'[q] \in KeptAt(f) \union DroppedAt(f) \union BackAt(f) =>
                            backup'[<<f, gen'[q]>>] = None
                      /\ \A h \in Generation \ {gen'[q]} : backup'[<<f, h>>] = None
    BY DEF FilesInv, KeptAt, DroppedAt, BackAt
  <2>1. /\ Spoilt(f) \/ InPlace(q, f, c)
        /\ pc[q] \in KeptAt(f) \union DroppedAt(f) \union BackAt(f) => backup[<<f, gen[q]>>] = None
        /\ \A h \in Generation \ {gen[q]} : backup[<<f, h>>] = None
    BY DEF Swapping, FilesInv
  <2>2. ASSUME ~Spoilt(f)' PROVE InPlace(q, f, c)'
    <3>1. /\ InPlace(q, f, c) /\ Live(f)' = Live(f)
          /\ backup'[<<f, gen[q]>>] = backup[<<f, gen[q]>>]
      BY <2>1, <2>2 DEF Beside
    <3> QED
      BY <3>1 DEF InPlace, Kept, Moved, Swapped, Dropped, Back, KeptAt, MovedAt, SwappedAt,
                  DroppedAt, OpenAt, BackAt
  <2> QED
    BY <2>1, <2>2 DEF Beside
<1>2. DirsInv(q, c)' /\ CandidatesInv(q)'
  BY DEF Swapping, DirsInv, CandidatesInv, Beside, TrySteps
<1>3. ReportInv(q, c)'
  BY DEF Swapping, ReportInv, CommittedAt
<1> QED
  BY <1>1, <1>2, <1>3 DEF Swapping

LEMMA CleanKept ==
    ASSUME NEW c, Clean(c), Beside, status' = status \/ status'.state # "ready"
    PROVE  Clean(c)'
  BY DEF Clean, Beside

\* The lock is taken over a clean disk, with an id that is nowhere on it.
LEMMA LockSwapping ==
    ASSUME IInv, PhaseInv, NEW p \in Proc, NEW c \in Prior, Clean(c), Lock(p)
    PROVE  Swapping(p, c)'
<1> DEFINE g == gen[p]
<1>1. /\ pc[p] = "lock" /\ pc'[p] = "begin" /\ UNCHANGED <<status, gen, old, stopped, replaced>>
      /\ UNCHANGED <<file, candidate, backup, dir>>
      /\ \A f \in File : (Live(f)' = Live(f)) /\ (Spoilt(f)' <=> Spoilt(f))
  BY OutsideLive DEF Lock, Goto, IInv, TypeOK, locals, files, Outside
<1>2. g \in Generation /\ replaced[p] = {} /\ Untouched(g)
  BY <1>1 DEF IInv, TypeOK, FreshInv, PhaseInv
<1>3. c # g
  BY <1>2 DEF Clean, Untouched, Live, Spoilt, File
<1>4. \A f \in File :
         /\ Spoilt(f) \/ Live(f) = c
         /\ \A h \in Generation : backup[<<f, h>>] = None
  BY DEF Clean
<1>5. FilesInv(p, c)'
  BY <1>1, <1>2, <1>4
  DEF FilesInv, InPlace, Kept, KeptAt, MovedAt, SwappedAt, DroppedAt, OpenAt, BackAt
<1>6. DirsInv(p, c)'
  <2>1. dir[g] = "absent"
    BY <1>2, <1>3 DEF Clean
  <2> QED
    BY <1>1, <2>1 DEF DirsInv, Clean, TrySteps
<1>7. CandidatesInv(p)'
  BY <1>1 DEF CandidatesInv, Clean
<1>8. ReportInv(p, c)'
  BY <1>1 DEF ReportInv, Clean, CommittedAt
<1> QED
  BY <1>1, <1>3, <1>5, <1>6, <1>7, <1>8 DEF Swapping

\* A process that ends has committed its generation or is back at the old one.
LEMMA ExitClean ==
    ASSUME IInv, PhaseInv, NEW p \in Proc, NEW c \in Prior, Swapping(p, c), Exit(p)
    PROVE  \E d \in Prior : Clean(d)'
<1> DEFINE g == gen[p]
<1>1. /\ pc[p] \in {"done", "raised"}
      /\ UNCHANGED <<status, gen, file, candidate, backup, dir>>
      /\ g \in Generation
      /\ \A f \in File : (Live(f)' = Live(f)) /\ (Spoilt(f)' <=> Spoilt(f))
  BY OutsideLive DEF Exit, Outside, IInv, TypeOK, locals, files
<1>2. \A f \in File, h \in Generation \ {g} : backup[<<f, h>>] = None
  BY DEF Swapping, FilesInv
<1>3. candidate = {}
  BY <1>1 DEF Swapping, CandidatesInv
<1>4. \A f \in File : backup[<<f, g>>] = None /\ (Spoilt(f) \/ InPlace(p, f, c))
  BY <1>1 DEF Swapping, FilesInv, DroppedAt, BackAt
<1>5. CASE pc[p] = "done"
  <2>1. \A f \in File : Spoilt(f) \/ Live(f) = g
    BY <1>4, <1>5 DEF InPlace, DroppedAt, Dropped
  <2>2. dir[g] = "staged" /\ \A h \in Generation : dir[h] # "absent" => h = g
    BY <1>5 DEF Swapping, DirsInv
  <2>3. status.state = "ready" => status.generation = g
    BY <1>5 DEF Swapping, ReportInv
  <2>4. Clean(g)'
    BY <1>1, <1>2, <1>3, <1>4, <2>1, <2>2, <2>3 DEF Clean
  <2> QED
    BY <1>1, <2>4 DEF Prior
<1>6. CASE pc[p] = "raised"
  <2>1. \A f \in File : Spoilt(f) \/ Live(f) = c
    BY <1>4, <1>6 DEF InPlace, BackAt, Back
  <2>2. (c \in Generation => dir[c] = "staged") /\ \A h \in Generation : dir[h] # "absent" => h = c
    BY <1>6 DEF Swapping, DirsInv
  <2>3. status.state = "ready" => status.generation = c
    BY <1>6 DEF Swapping, ReportInv, CommittedAt
  <2>4. Clean(c)'
    BY <1>1, <1>2, <1>3, <1>4, <2>1, <2>2, <2>3 DEF Clean
  <2> QED
    BY <2>4
<1> QED
  BY <1>1, <1>5, <1>6

LEMMA InitRollback == Init => RollbackInv
<1> SUFFICES ASSUME Init PROVE RollbackInv
  OBVIOUS
<1>1. PhaseInv
  BY DEF Init, PhaseInv, AtRest, up
<1>2. Clean(Seed) /\ Seed \in Prior
  BY RefreshAssumption DEF Init, Clean, Prior, Live
<1> QED
  BY <1>1, <1>2 DEF RollbackInv, Init

LEMMA PhaseAdmin ==
    ASSUME TypeOK, EditInv, PhaseInv, AdminStep
    PROVE  PhaseInv'
<1>1. /\ UNCHANGED <<phase, lock, pc, stopped, replaced>>
      /\ loaded' = loaded \/ edit.step \in {"stop", "start"}
  BY DEF AdminStep, AdminRestart, PutSettings, ReadMapfile, TruncateMapfile, WriteMapfile,
         WriteFails, AdminStops, AdminStarts, locals
<1>2. up' = up \/ phase = "running"
  BY <1>1 DEF EditInv, up
<1> QED
  BY <1>1, <1>2 DEF PhaseInv, AtRest

LEMMA NextRollback ==
    ASSUME Recoverable, IInv, RollbackInv, [Next]_vars
    PROVE  RollbackInv'
<1>1. TypeOK /\ EditInv /\ LockInv /\ PhaseInv
  BY DEF IInv, RollbackInv
<1>2. ASSUME NEW p \in Proc, Work(p) PROVE RollbackInv'
  <2>1. lock = p /\ lock' = p /\ Busy(p) /\ p # None
    BY <1>1, <1>2, WorkFrame, RefreshAssumption DEF LockInv
  <2>2. PICK c \in Prior : Swapping(p, c)
    BY <2>1 DEF RollbackInv
  <2>3. SwapInv(p)
    BY <1>1, <2>1 DEF IInv, PhaseInv
  <2>4. Swapping(p, c)'
    BY <1>1, <1>2, <2>2, <2>3, WorkSwapping
  <2>5. PhaseInv'
    BY <1>1, <1>2, PhaseWork
  <2> QED
    BY <2>1, <2>4, <2>5 DEF RollbackInv
<1>3. ASSUME NEW p \in Proc, Lock(p) PROVE RollbackInv'
  <2>1. lock = None /\ lock' = p /\ p # None
    BY <1>3, RefreshAssumption DEF Lock, LockFree
  <2>2. PICK c \in Prior : Clean(c)
    BY <2>1 DEF RollbackInv
  <2>3. Swapping(p, c)'
    BY <1>1, <1>3, <2>2, LockSwapping
  <2> QED
    BY <1>1, <1>3, <2>1, <2>3, PhaseOutside DEF RollbackInv
\* Steps of others, which do not take or drop the lock.
<1>4. ASSUME PhaseInv', Beside, lock' = lock, status' = status \/ status'.state # "ready",
             lock # None => /\ gen'[lock] = gen[lock] /\ old'[lock] = old[lock]
                            /\ replaced'[lock] = replaced[lock] /\ pc'[lock] = pc[lock]
      PROVE  RollbackInv'
  <2>1. CASE lock = None
    BY <1>4, <2>1, CleanKept DEF RollbackInv
  <2>2. CASE lock # None
    <3>1. lock \in Proc /\ gen[lock] \in Generation
      BY <1>1, <2>2 DEF TypeOK, PhaseInv, Held, TrySteps, UndoSteps
    <3>2. PICK c \in Prior : Swapping(lock, c)
      BY <2>2 DEF RollbackInv
    <3>3. \A q \in Proc : q = lock => Swapping(q, c)'
      BY <1>4, <2>2, <3>1, <3>2, SwappingKept
    <3> QED
      BY <1>4, <2>2, <3>1, <3>3 DEF RollbackInv
  <2> QED
    BY <2>1, <2>2
<1>5. ASSUME NEW p \in Proc, Outside(p), UNCHANGED candidate PROVE Beside
  BY <1>1, <1>5, OutsideLive DEF Beside
<1>6. ASSUME NEW p \in Proc, StartContainer(p) \/ PostRefresh(p) \/ LockBusy(p) PROVE RollbackInv'
  <2>1. /\ pc[p] \in {"idle", "lock"} /\ lock' = lock /\ candidate' = candidate
        /\ status' = status \/ status'.state # "ready"
    BY <1>6 DEF StartContainer, PostRefresh, Spawn, LockBusy, files
  <2>2. PhaseInv' /\ Beside
    BY <1>1, <1>5, <1>6, <2>1, PhaseStarts, PhaseOutside DEF Outside
  <2>3. lock # None => lock \in Proc /\ lock # p
    BY <1>1, <2>1 DEF TypeOK, PhaseInv, Held, TrySteps, UndoSteps
  <2>4. lock # None => /\ gen'[lock] = gen[lock] /\ old'[lock] = old[lock]
                       /\ replaced'[lock] = replaced[lock] /\ pc'[lock] = pc[lock]
    BY <1>1, <1>6, <2>3 DEF StartContainer, PostRefresh, Spawn, LockBusy, Goto, TypeOK, locals
  <2> QED
    BY <1>4, <2>1, <2>2, <2>4
<1>7. ASSUME NEW p \in Proc, Exit(p) PROVE RollbackInv'
  <2>1. PhaseInv' /\ p # None
    BY <1>1, <1>7, PhaseOutside, RefreshAssumption
  <2>2. CASE lock = p
    <3>1. lock' = None
      BY <1>7, <2>2 DEF Exit
    <3>2. PICK c \in Prior : Swapping(p, c)
      BY <2>1, <2>2 DEF RollbackInv
    <3>3. \E d \in Prior : Clean(d)'
      BY <1>1, <1>7, <3>2, ExitClean
    <3> QED
      BY <2>1, <3>1, <3>3 DEF RollbackInv
  <2>3. CASE lock # p
    <3>1. /\ lock' = lock
          /\ UNCHANGED <<candidate, status, gen, old, replaced>>
          /\ \A q \in Proc : q # p => pc'[q] = pc[q]
      BY <1>1, <1>7, <2>3 DEF Exit, Goto, TypeOK, locals, files
    <3>2. Beside
      BY <1>5, <1>7, <3>1 DEF Outside
    <3>3. lock # None => lock \in Proc
      BY <1>1 DEF TypeOK
    <3> QED
      BY <1>4, <2>1, <2>3, <3>1, <3>2, <3>3
  <2> QED
    BY <2>2, <2>3
<1>8. CASE AdminStep
  <2>1. UNCHANGED <<lock, pc, replaced, gen, old, candidate, dir, status>>
    BY <1>8
    DEF AdminStep, AdminRestart, PutSettings, ReadMapfile, TruncateMapfile, WriteMapfile,
        WriteFails, AdminStops, AdminStarts, locals, files
  <2>2. Beside
    BY <1>1, <1>8, <2>1, AdminLive, RefreshAssumption DEF Beside
  <2>3. PhaseInv'
    BY <1>1, <1>8, PhaseAdmin
  <2> QED
    BY <1>4, <2>1, <2>2, <2>3
<1>9. CASE UNCHANGED vars
  <2>1. UNCHANGED <<lock, pc, phase, stopped, replaced, gen, old, status, candidate, dir, loaded>>
    BY <1>9 DEF vars
  <2>2. PhaseInv'
    BY <1>1, <2>1 DEF PhaseInv, AtRest, up
  <2>3. Beside
    BY <1>9 DEF Beside, vars, Live, Spoilt
  <2> QED
    BY <1>4, <2>1, <2>2, <2>3
<1>10. ~KillContainer /\ \A p \in Proc : ~Kill(p)
  BY DEF KillContainer, Kill, Recoverable
<1> QED
  BY <1>2, <1>3, <1>6, <1>7, <1>8, <1>9, <1>10 DEF Next, Step, Work

\* The disk is clean whenever no refresh holds the lock, and otherwise stands
\* where the holder's next statement expects it.
THEOREM RollbackInvariant ==
    ASSUME Recoverable
    PROVE  Spec => []RollbackInv
<1>1. IInv /\ RollbackInv /\ [Next]_vars => RollbackInv'
  BY NextRollback
<1> QED
  BY <1>1, InitRollback, Invariant, PTL DEF Spec

-----------------------------------------------------------------------------
(* What the workers have loaded *)

\* The failures that leave running workers with what they have loaded: a
\* roll-back after "start" does not stop them before it deletes, and a start
\* that fails half-way has started some on the new mapfile.
KeepsLoaded == "dropCatalog" \notin FaultSteps /\ "partialStart" \notin Disruptions

SwapSteps == {"backupCatalog", "backupMapfile", "installCatalog", "installMapfile", "start"}
Before == {"begin", "prepare", "generate", "stop"}
UndoFiles == {"undo", "restoreCatalog", "restoreMapfile"}

\* The workers run on the prior mapfile until they are stopped, and on the new
\* one once they have been started; they do not run while it is swapped.
LoadedAt(p, c) ==
    /\ \A w \in up :
          loaded[w] = IF pc[p] \in {"dropCatalog"} \union CommittedAt THEN gen[p] ELSE c
    /\ phase = "running" /\ pc[p] \in SwapSteps => stopped[p]
    /\ pc[p] \in Before => ~stopped[p]
    /\ stopped[p] /\ pc[p] \in SwapSteps \union UndoFiles => up = {}
    /\ phase = "running" /\ ~stopped[p] /\ pc[p] \in UndoFiles => Live("mapfile") = c

ServedInv ==
    \/ spoilt
    \/ lock = None /\ \A w \in up : loaded[w] = Live("mapfile")
    \/ lock # None /\ \E c \in Prior : Swapping(lock, c) /\ LoadedAt(lock, c)

LEMMA SpoiltStays == spoilt /\ [Next]_vars => spoilt'
<1> SUFFICES ASSUME spoilt, [Next]_vars PROVE spoilt'
  OBVIOUS
<1>1. ASSUME NEW p \in Proc, Step(p) \/ Fault(p) PROVE spoilt'
  BY <1>1
  DEF Step, Fault, Lock, LockBusy, Begin, Prepare, Generate, Stop, BackupFiles, Backup, InstallFiles,
      Install, Start, DropBackups, DropBackup, Collect, Ready, UnlinkCandidates, RestoreFiles,
      Restore, Discard, Restart, Failed, Exit, Raise, PrepareFails, GenerateFails, StopFails,
      StartFails, Meets, LoadsOpen
<1>2. ASSUME NEW p \in Proc, StartContainer(p) \/ PostRefresh(p) \/ Kill(p) PROVE spoilt'
  BY <1>2 DEF StartContainer, PostRefresh, Kill
<1>3. CASE AdminStep \/ KillContainer
  BY <1>3
  DEF AdminStep, AdminRestart, PutSettings, ReadMapfile, TruncateMapfile, WriteMapfile,
      WriteFails, AdminStops, AdminStarts, KillContainer, CutShort
<1> QED
  BY <1>1, <1>2, <1>3 DEF Next, vars

\* Who starts, loads the mapfile; who stops, is not up.
LEMMA Workers ==
    ASSUME NEW ws
    PROVE  /\ Starts(ws) => \A w \in up' : loaded'[w] \in
                 (IF w \in up THEN {loaded[w]} ELSE {file["mapfile"]})
           /\ Starts({}) => up' = up /\ \A w \in up' : loaded'[w] = loaded[w]
           /\ Stops(ws) => /\ up' \subseteq up
                           /\ \A w \in up' : loaded'[w] = loaded[w]
           /\ Stops(Worker) => up' = {}
           /\ loaded' = loaded => up' = up /\ \A w \in up' : loaded'[w] = loaded[w]
  BY DEF Starts, Stops, up

LEMMA WorkLoaded ==
    ASSUME IInv, PhaseInv, Recoverable, KeepsLoaded, NEW p \in Proc, lock = p, NEW c \in Prior,
           Swapping(p, c), LoadedAt(p, c), Work(p), ~spoilt'
    PROVE  LoadedAt(p, c)'
<1> DEFINE g == gen[p]
           m == Live("mapfile")
<1>1. /\ TypeOK /\ EditInv /\ gen'[p] = g /\ g \in Generation /\ phase' = phase /\ edit' = edit
      /\ pc[p] \in Held
  BY WorkFrame DEF IInv, Moves, Busy, Held
<1>2. /\ ~spoilt
      /\ file'["mapfile"] = file["mapfile"] => Live("mapfile")' = m
  BY <1>1, WorkFrame, MovesEdit DEF File, Spoilt
<1>3. InPlace(p, "mapfile", c)
  BY <1>2 DEF Swapping, FilesInv, Spoilt, File
<1>4. /\ pc[p] \in KeptAt("mapfile") \union BackAt("mapfile") => m = c
      /\ pc[p] \in SwappedAt("mapfile") \union DroppedAt("mapfile") => m = g
  BY <1>3 DEF InPlace, Kept, Back, Swapped, Dropped
<1>5. /\ \A w \in up :
            loaded[w] = IF pc[p] \in {"dropCatalog"} \union CommittedAt THEN g ELSE c
      /\ phase = "running" /\ pc[p] \in SwapSteps => stopped[p]
      /\ pc[p] \in Before => ~stopped[p]
      /\ stopped[p] /\ pc[p] \in SwapSteps \union UndoFiles => up = {}
      /\ phase = "running" /\ ~stopped[p] /\ pc[p] \in UndoFiles => m = c
      /\ phase # "running" => up = {}
  BY DEF LoadedAt, PhaseInv
<1> HIDE DEF g, m
<1> SUFFICES
      /\ \A w \in up' :
            loaded'[w] = IF pc'[p] \in {"dropCatalog"} \union CommittedAt THEN g ELSE c
      /\ phase = "running" /\ pc'[p] \in SwapSteps => stopped'[p]
      /\ pc'[p] \in Before => ~stopped'[p]
      /\ stopped'[p] /\ pc'[p] \in SwapSteps \union UndoFiles => up' = {}
      /\ phase = "running" /\ ~stopped'[p] /\ pc'[p] \in UndoFiles => Live("mapfile")' = c
  BY <1>1 DEF LoadedAt, CommittedAt, SwapSteps, UndoFiles, Before
<1> USE DEF SwapSteps, UndoFiles, Before, CommittedAt
<1>6. CASE Begin(p) \/ Prepare(p) \/ Generate(p)
  <2>1. /\ UNCHANGED <<loaded, stopped>> /\ pc[p] \in {"begin", "prepare", "generate"}
        /\ pc'[p] \in {"prepare", "generate", "stop"}
           \/ (pc'[p] = "backupCatalog" /\ phase # "running")
    BY <1>1, <1>6 DEF Begin, Prepare, Generate, Goto, TypeOK, locals, RestartWorkers
  <2> QED
    BY <1>5, <2>1, Workers
<1>7. CASE Stop(p)
  <2>1. /\ up' = {} /\ pc'[p] = "backupCatalog" /\ stopped'[p] = TRUE
    BY <1>1, <1>7, Workers DEF Stop, Goto, TypeOK
  <2> QED
    BY <2>1
<1>8. CASE BackupFiles(p) \/ InstallFiles(p)
  <2>1. /\ UNCHANGED <<loaded, stopped>> /\ pc[p] \in SwapSteps \ {"start"}
        /\ pc'[p] \in SwapSteps \/ (pc'[p] = "dropCatalog" /\ phase # "running")
    BY <1>1, <1>8
    DEF BackupFiles, Backup, InstallFiles, Install, Goto, TypeOK, locals, RestartWorkers
  <2>2. up' = up /\ up = {}
    BY <1>5, <2>1, Workers
  <2> QED
    BY <1>5, <2>1, <2>2
<1>9. CASE Start(p)
  <2>1. /\ pc[p] = "start" /\ pc'[p] = "dropCatalog" /\ Starts(Worker) /\ LoadsOpen
        /\ stopped'[p] = FALSE
    BY <1>1, <1>9 DEF Start, Goto, TypeOK
  <2>2. file["mapfile"] = g
    BY <1>4, <2>1 DEF LoadsOpen, Live, SwappedAt, m
  <2>3. phase = "running"
    BY <1>1, <2>1 DEF PhaseInv, AtRest, TypeOK
  <2>4. up = {}
    BY <1>5, <2>1, <2>3
  <2>5. \A w \in up' : loaded'[w] = g
    BY <2>1, <2>2, <2>4, Workers
  <2> QED
    BY <2>1, <2>5
<1>10. CASE DropBackups(p) \/ Collect(p) \/ Ready(p)
  <2>1. /\ loaded' = loaded /\ pc[p] \in {"dropCatalog"} \union CommittedAt
        /\ pc'[p] \in CommittedAt
    BY <1>1, <1>10 DEF DropBackups, DropBackup, Collect, Ready, Goto, TypeOK
  <2> QED
    BY <1>5, <2>1, Workers
<1>11. CASE UnlinkCandidates(p)
  <2>1. /\ UNCHANGED <<loaded, stopped, file>> /\ pc[p] = "undo" /\ pc'[p] = "restoreCatalog"
    BY <1>1, <1>11 DEF UnlinkCandidates, Goto, TypeOK, locals
  <2> QED
    BY <1>2, <1>5, <2>1, Workers
<1>12. CASE Restore(p, "catalog", "restoreCatalog", "restoreMapfile")
  <2>1. /\ UNCHANGED <<loaded, stopped>> /\ file'["mapfile"] = file["mapfile"]
        /\ pc[p] = "restoreCatalog" /\ pc'[p] = "restoreMapfile"
    BY <1>1, <1>12 DEF Restore, Goto, TypeOK, locals, File
  <2> QED
    BY <1>2, <1>5, <2>1, Workers
<1>13. CASE Restore(p, "mapfile", "restoreMapfile", "discard") \/ Discard(p) \/ Failed(p)
  <2>1. /\ loaded' = loaded /\ pc[p] \in {"restoreMapfile", "discard", "failed"}
        /\ pc'[p] \in {"discard", "restart", "failed", "raised"}
    BY <1>1, <1>13 DEF Restore, Discard, Failed, Goto, TypeOK
  <2> QED
    BY <1>5, <2>1, Workers
<1>14. CASE Restart(p)
  <2>1. /\ pc[p] = "restart" /\ pc'[p] = "failed" /\ Starts(Worker) /\ LoadsOpen
    BY <1>1, <1>14 DEF Restart, Goto, TypeOK
  <2>2. file["mapfile"] = c
    BY <1>4, <2>1 DEF LoadsOpen, Live, BackAt, m
  <2> QED
    BY <1>5, <2>1, <2>2, Workers
<1>15. CASE Raise(p) \/ PrepareFails(p) \/ GenerateFails(p)
  <2>1. /\ UNCHANGED <<loaded, stopped, file>>
        /\ \/ /\ pc[p] \in {"prepare", "generate"} \union SwapSteps /\ pc'[p] = "undo"
           \/ pc[p] \in {"begin", "restart", "failed"} /\ pc'[p] = "raised"
    <3>1. UNCHANGED <<loaded, stopped, file>> /\ pc[p] # "stop" /\ pc[p] # "dropCatalog"
      BY <1>15
      DEF Raise, PrepareFails, GenerateFails, RaiseAt, locals, LeavingSteps, KeepsLoaded
    <3>2. \/ pc[p] \in TrySteps \ {"dropMapfile", "collect", "ready"} /\ pc'[p] = "undo"
          \/ pc[p] \in {"begin", "restart", "failed"} /\ pc'[p] = "raised"
      BY <1>1, <1>15, FaultFrame DEF Fault
    <3> QED
      BY <3>1, <3>2 DEF TrySteps
  <2>2. /\ up' = up /\ \A w \in up' : loaded'[w] = loaded[w]
        /\ Live("mapfile")' = m
    BY <1>2, <2>1, Workers
  <2>3. pc[p] \in {"prepare", "generate"} => m = c
    BY <1>4 DEF KeptAt
  <2> QED
    BY <1>5, <2>1, <2>2, <2>3
<1>16. CASE StopFails(p)
  <2>1. /\ UNCHANGED <<stopped, file>> /\ pc[p] = "stop" /\ pc'[p] = "undo"
        /\ \E ws \in SUBSET Worker : Stops(ws)
    BY <1>1, <1>16 DEF StopFails, RaiseAt, Goto, TypeOK, locals, TrySteps
  <2>2. up' \subseteq up /\ \A w \in up' : loaded'[w] = loaded[w]
    BY <2>1, Workers
  <2>3. m = c /\ Live("mapfile")' = m
    BY <1>2, <1>4, <2>1 DEF KeptAt
  <2> QED
    BY <1>5, <2>1, <2>2, <2>3
<1>17. CASE StartFails(p)
  <2>1. UNCHANGED <<stopped, file>> /\ LoadsOpen
    BY <1>17 DEF StartFails, RaiseAt, locals
  <2>2. CASE pc[p] = "start"
    <3>1. Starts({}) /\ pc'[p] = "undo"
      BY <1>1, <1>17, <2>2 DEF StartFails, RaiseAt, Goto, TypeOK, TrySteps, KeepsLoaded
    <3>2. stopped[p] /\ up = {} /\ up' = {}
      <4>1. phase = "running"
        BY <1>1, <2>2 DEF PhaseInv, AtRest, TypeOK
      <4> QED
        BY <1>5, <2>2, <3>1, <4>1, Workers
    <3> QED
      BY <2>1, <3>1, <3>2
  <2>3. CASE pc[p] # "start"
    <3>1. pc[p] = "restart" /\ pc'[p] = "raised" /\ \E ws \in SUBSET Worker : Starts(ws)
      BY <1>1, <1>17, <2>3 DEF StartFails, RaiseAt, Goto, TypeOK, TrySteps
    <3>2. file["mapfile"] = c
      BY <1>4, <2>1, <3>1 DEF LoadsOpen, Live, BackAt, m
    <3> QED
      BY <1>5, <3>1, <3>2, Workers
  <2> QED
    BY <2>2, <2>3
<1> QED
  BY <1>6, <1>7, <1>8, <1>9, <1>10, <1>11, <1>12, <1>13, <1>14, <1>15, <1>16, <1>17
  DEF Work, Fault, RestoreFiles


\* A step that leaves the swap alone, moves no mapfile, and starts workers, if
\* any, on the mapfile.
LEMMA ServedKept ==
    ASSUME IInv, PhaseInv, RollbackInv', ServedInv, ~spoilt, ~spoilt',
           Live("mapfile")' = Live("mapfile"), lock' = lock, phase' = phase,
           \A w \in up' : loaded'[w] \in (IF w \in up THEN {loaded[w]} ELSE {Live("mapfile")}),
           lock # None => /\ gen'[lock] = gen[lock] /\ pc'[lock] = pc[lock]
                          /\ stopped'[lock] = stopped[lock]
                          /\ stopped[lock] => up' \subseteq up,
           lock # None => \A c \in Prior : Swapping(lock, c) => Swapping(lock, c)',
           up' \subseteq up \/ phase = "running"
    PROVE  ServedInv'
<1>1. CASE lock = None
  <2>1. \A w \in up : loaded[w] = Live("mapfile")
    BY <1>1 DEF ServedInv
  <2> QED
    BY <1>1, <2>1 DEF ServedInv
<1>2. CASE lock # None
  <2> DEFINE p == lock
             m == Live("mapfile")
  <2>1. PICK c \in Prior : Swapping(p, c) /\ LoadedAt(p, c)
    BY <1>2 DEF ServedInv
  <2>2. InPlace(p, "mapfile", c) /\ pc[p] \in Held
    BY <1>2, <2>1 DEF Swapping, FilesInv, Spoilt, File, PhaseInv
  <2>3. /\ pc[p] \in KeptAt("mapfile") \union BackAt("mapfile") => m = c
        /\ pc[p] \in SwappedAt("mapfile") \union DroppedAt("mapfile") => m = gen[p]
    BY <2>2 DEF InPlace, Kept, Back, Swapped, Dropped
  <2>4. /\ \A w \in up :
              loaded[w] = IF pc[p] \in {"dropCatalog"} \union CommittedAt THEN gen[p] ELSE c
        /\ phase = "running" /\ pc[p] \in SwapSteps => stopped[p]
        /\ pc[p] \in Before => ~stopped[p]
        /\ stopped[p] /\ pc[p] \in SwapSteps \union UndoFiles => up = {}
        /\ phase = "running" /\ ~stopped[p] /\ pc[p] \in UndoFiles => m = c
    BY <2>1 DEF LoadedAt
  <2> HIDE DEF m
  <2>5. \/ up' \subseteq up
        \/ phase = "running" /\ ~stopped[p]
    BY <1>2
  <2>6. phase = "running" /\ ~stopped[p] =>
            m = IF pc[p] \in {"dropCatalog"} \union CommittedAt THEN gen[p] ELSE c
    BY <2>2, <2>3, <2>4
    DEF Held, TrySteps, UndoSteps, KeptAt, BackAt, SwappedAt, DroppedAt, SwapSteps, UndoFiles,
        CommittedAt
  <2>7. \A w \in up' : loaded'[w] = IF pc[p] \in {"dropCatalog"} \union CommittedAt THEN gen[p] ELSE c
    BY <2>4, <2>5, <2>6 DEF m
  <2>8. LoadedAt(p, c)'
    BY <1>2, <2>4, <2>7 DEF LoadedAt, CommittedAt, SwapSteps, UndoFiles, Before, m
  <2>9. Swapping(p, c)'
    BY <1>2, <2>1
  <2> QED
    BY <1>2, <2>8, <2>9 DEF ServedInv
<1> QED
  BY <1>1, <1>2

LEMMA NextServed ==
    ASSUME Recoverable, KeepsLoaded, IInv, RollbackInv, RollbackInv', ServedInv, [Next]_vars
    PROVE  ServedInv'
<1>1. /\ TypeOK /\ EditInv /\ LockInv /\ PhaseInv
  BY DEF IInv, RollbackInv
<1>2. SUFFICES ASSUME ~spoilt, ~spoilt' PROVE ServedInv'
  BY SpoiltStays DEF ServedInv
<1>3. ASSUME NEW p \in Proc, Work(p) PROVE ServedInv'
  <2>1. lock = p /\ lock' = p /\ Busy(p) /\ p # None
    BY <1>1, <1>3, WorkFrame, RefreshAssumption DEF LockInv
  <2>2. PICK c \in Prior : Swapping(p, c) /\ LoadedAt(p, c)
    BY <1>2, <2>1 DEF ServedInv
  <2>3. SwapInv(p)
    BY <1>1, <2>1 DEF IInv
  <2>4. Swapping(p, c)'
    BY <1>1, <1>3, <2>2, <2>3, WorkSwapping
  <2>5. LoadedAt(p, c)'
    BY <1>1, <1>2, <1>3, <2>1, <2>2, WorkLoaded
  <2> QED
    BY <2>1, <2>4, <2>5 DEF ServedInv
<1>4. ASSUME NEW p \in Proc, Lock(p) PROVE ServedInv'
  <2>1. /\ lock = None /\ lock' = p /\ p # None /\ pc[p] = "lock" /\ pc'[p] = "begin"
        /\ up' = up /\ UNCHANGED <<loaded, stopped, phase, gen>>
    BY <1>1, <1>4, RefreshAssumption DEF Lock, LockFree, Goto, TypeOK, admin, locals, up
  <2>2. PICK c \in Prior : Clean(c)
    BY <2>1 DEF RollbackInv
  <2>3. Swapping(p, c)'
    BY <1>1, <1>4, <2>2, LockSwapping
  <2>4. Live("mapfile") = c /\ ~stopped[p]
    BY <1>1, <1>2, <2>1, <2>2 DEF Clean, Spoilt, File, PhaseInv
  <2>5. \A w \in up : loaded[w] = c
    BY <1>2, <2>1, <2>4 DEF ServedInv
  <2>6. LoadedAt(p, c)'
    BY <2>1, <2>4, <2>5 DEF LoadedAt, CommittedAt, SwapSteps, UndoFiles, Before
  <2> QED
    BY <2>1, <2>3, <2>6 DEF ServedInv
\* Steps of others, which do not take or drop the lock.
<1>5. ASSUME NEW p \in Proc, StartContainer(p) \/ PostRefresh(p) \/ LockBusy(p) PROVE ServedInv'
  <2>1. /\ pc[p] \in {"idle", "lock"} /\ UNCHANGED <<lock, candidate, loaded>> /\ up' = up
        /\ status' = status \/ status'.state # "ready"
    BY <1>5 DEF StartContainer, PostRefresh, Spawn, LockBusy, files, up
  <2>2. phase' = phase \/ up = {}
    BY <1>1, <1>5 DEF StartContainer, PostRefresh, LockBusy, admin, PhaseInv
  <2>3. lock # None => lock \in Proc /\ lock # p
    BY <1>1, <2>1 DEF TypeOK, PhaseInv, Held, TrySteps, UndoSteps
  <2>4. lock # None => /\ gen'[lock] = gen[lock] /\ old'[lock] = old[lock]
                       /\ replaced'[lock] = replaced[lock] /\ pc'[lock] = pc[lock]
                       /\ stopped'[lock] = stopped[lock]
    BY <1>1, <1>5, <2>3 DEF StartContainer, PostRefresh, Spawn, LockBusy, Goto, TypeOK, locals
  <2>5. Live("mapfile")' = Live("mapfile") /\ Beside
    BY <1>1, <1>5, <2>1, OutsideLive DEF Outside, Beside, File
  <2>6. lock # None => gen[lock] \in Generation
    BY <1>1, <2>3 DEF TypeOK, PhaseInv, Held, TrySteps, UndoSteps
  <2>7. lock # None => \A c \in Prior : Swapping(lock, c) => Swapping(lock, c)'
    <3>1. ASSUME lock # None, NEW c \in Prior, NEW q, q = lock, Swapping(q, c) PROVE Swapping(q, c)'
      BY <2>1, <2>4, <2>5, <2>6, <3>1, SwappingKept
    <3> QED
      BY <2>1, <3>1
  <2>8. CASE phase' = phase
    BY <1>1, <1>2, <2>1, <2>4, <2>5, <2>7, <2>8, ServedKept
  <2>9. CASE phase' # phase
    <3>1. AtRest /\ lock = None /\ up = {}
      BY <1>1, <1>5, <2>2, <2>9
      DEF StartContainer, PostRefresh, LockBusy, admin, PhaseInv, AtRest, TypeOK, Held, TrySteps, UndoSteps
    <3> QED
      BY <2>1, <3>1 DEF ServedInv
  <2> QED
    BY <2>8, <2>9
<1>6. ASSUME NEW p \in Proc, Exit(p) PROVE ServedInv'
  <2>1. /\ p # None /\ Live("mapfile")' = Live("mapfile") /\ pc[p] \in {"done", "raised"}
        /\ UNCHANGED <<status, gen, old, stopped, replaced, candidate, backup, dir>>
        /\ \A q \in Proc : q # p => pc'[q] = pc[q]
        /\ Beside
    BY <1>1, <1>6, OutsideLive, RefreshAssumption
    DEF Exit, Outside, Beside, File, locals, files, Goto, TypeOK
  <2>2. CASE phase = "booting"
    <3>1. lock' = None /\ up = {}
      BY <1>1, <1>6, <2>1, <2>2 DEF Exit, PhaseInv, TypeOK, Held, TrySteps, UndoSteps
    <3>2. \A w \in up' : loaded'[w] = file["mapfile"]
      BY <1>6, <2>2, <3>1, Workers DEF Exit
    <3>3. file["mapfile"] = Live("mapfile")
      BY <1>1, <2>2 DEF EditInv, Live, File
    <3> QED
      BY <2>1, <3>1, <3>2, <3>3 DEF ServedInv
  <2>3. CASE phase # "booting" /\ lock = p
    <3>1. lock' = None /\ up' = up /\ loaded' = loaded
      BY <1>6, <2>3 DEF Exit, up
    <3>2. PICK c \in Prior : Swapping(p, c) /\ LoadedAt(p, c)
      BY <1>2, <2>1, <2>3 DEF ServedInv
    <3>3. InPlace(p, "mapfile", c)
      BY <1>2, <3>2 DEF Swapping, FilesInv, Spoilt, File
    <3>4. Live("mapfile") = IF pc[p] = "done" THEN gen[p] ELSE c
      BY <2>1, <3>3 DEF InPlace, DroppedAt, Dropped, BackAt, Back
    <3>5. \A w \in up : loaded[w] = IF pc[p] = "done" THEN gen[p] ELSE c
      BY <2>1, <3>2 DEF LoadedAt, CommittedAt
    <3> QED
      BY <2>1, <3>1, <3>4, <3>5 DEF ServedInv
  <2>4. CASE phase # "booting" /\ lock # p
    <3>1. UNCHANGED <<lock, phase, loaded>> /\ up' = up
      BY <1>6, <2>4 DEF Exit, up
    <3>2. lock # None => lock \in Proc /\ gen[lock] \in Generation
      BY <1>1 DEF TypeOK, PhaseInv, Held, TrySteps, UndoSteps
    <3>3. lock # None => \A c \in Prior : Swapping(lock, c) => Swapping(lock, c)'
      <4>1. ASSUME lock # None, NEW c \in Prior, NEW q, q = lock, Swapping(q, c) PROVE Swapping(q, c)'
        BY <2>1, <2>4, <3>1, <3>2, <4>1, SwappingKept
      <4> QED
        BY <3>1, <4>1
    <3> QED
      BY <1>1, <1>2, <2>1, <2>4, <3>1, <3>2, <3>3, ServedKept
  <2> QED
    BY <2>2, <2>3, <2>4
<1>7. CASE AdminStep
  <2>1. UNCHANGED <<phase, lock, pc, replaced, gen, old, stopped, candidate, dir, status>>
    BY <1>7
    DEF AdminStep, AdminRestart, PutSettings, ReadMapfile, TruncateMapfile, WriteMapfile,
        WriteFails, AdminStops, AdminStarts, locals, files
  <2>2. Beside
    BY <1>1, <1>7, <2>1, AdminLive, RefreshAssumption DEF Beside
  <2>3. Live("mapfile")' = Live("mapfile")
    BY <1>1, <1>2, <1>7, AdminLive DEF Spoilt, File
  <2>4. lock # None => lock \in Proc /\ gen[lock] \in Generation
    BY <1>1 DEF TypeOK, PhaseInv, Held, TrySteps, UndoSteps
  <2>5. lock # None => \A c \in Prior : Swapping(lock, c) => Swapping(lock, c)'
    <3>1. ASSUME lock # None, NEW c \in Prior, NEW q, q = lock, Swapping(q, c) PROVE Swapping(q, c)'
      BY <2>1, <2>2, <2>4, <3>1, SwappingKept
    <3> QED
      BY <2>1, <3>1
  <2>6. CASE AdminStarts
    <3>1. phase = "running" /\ file["mapfile"] = Live("mapfile")
      BY <1>1, <2>6 DEF AdminStarts, EditInv, Live, File
    <3>2. lock # None => ~stopped[lock]
      BY <1>2, <2>6 DEF AdminStarts
    <3>3. \A w \in up' : loaded'[w] \in (IF w \in up THEN {loaded[w]} ELSE {Live("mapfile")})
      BY <2>6, <3>1, Workers DEF AdminStarts
    <3> QED
      BY <1>1, <1>2, <2>1, <2>3, <2>5, <3>1, <3>2, <3>3, ServedKept
  <2>7. CASE ~AdminStarts
    <3>1. up' \subseteq up /\ \A w \in up' : loaded'[w] = loaded[w]
      BY <1>7, <2>7, Workers
      DEF AdminStep, AdminRestart, PutSettings, ReadMapfile, TruncateMapfile, WriteMapfile,
          WriteFails, AdminStops
    <3>2. \A w \in up' : loaded'[w] \in (IF w \in up THEN {loaded[w]} ELSE {Live("mapfile")})
      BY <3>1
    <3> QED
      BY <1>1, <1>2, <2>1, <2>3, <2>5, <3>1, <3>2, ServedKept
  <2> QED
    BY <2>6, <2>7
<1>8. CASE UNCHANGED vars
  <2>1. /\ UNCHANGED <<loaded, lock, pc, gen, phase, stopped>> /\ up' = up
        /\ Live("mapfile")' = Live("mapfile")
    BY <1>8 DEF vars, up, Live
  <2>2. ASSUME NEW q, NEW c, Swapping(q, c) PROVE Swapping(q, c)'
    BY <1>8, <2>2
    DEF vars, Swapping, FilesInv, DirsInv, CandidatesInv, ReportInv, InPlace, Kept, Moved, Swapped,
        Dropped, Back, Live, Spoilt, KeptAt, MovedAt, SwappedAt, DroppedAt, OpenAt, BackAt
  <2>3. lock # None => \A c \in Prior : Swapping(lock, c) => Swapping(lock, c)'
    BY <2>1, <2>2
  <2> QED
    BY <1>1, <1>2, <2>1, <2>3, ServedKept
<1>9. ~KillContainer /\ \A p \in Proc : ~Kill(p)
  BY DEF KillContainer, Kill, Recoverable
<1> QED
  BY <1>3, <1>4, <1>5, <1>6, <1>7, <1>8, <1>9 DEF Next, Step, Work

\* Between refreshes the workers have loaded the mapfile, and during one the
\* prior mapfile until they are stopped and the new one from their start on.
THEOREM ServedInvariant ==
    ASSUME Recoverable, KeepsLoaded
    PROVE  Spec => []ServedInv
<1>1. Init => ServedInv
  BY DEF Init, ServedInv, up
<1>2. IInv /\ RollbackInv /\ RollbackInv' /\ ServedInv /\ [Next]_vars => ServedInv'
  BY NextServed
<1> QED
  BY <1>1, <1>2, Invariant, RollbackInvariant, PTL DEF Spec

-----------------------------------------------------------------------------
(* The safety properties *)

\* At rest nobody holds the lock, so that the disk is clean.
LEMMA CleanAtRest ==
    ASSUME RollbackInv, AtRest, TypeOK
    PROVE  \E c \in Prior : Clean(c)
  BY DEF RollbackInv, PhaseInv, AtRest, TypeOK, Held, TrySteps, UndoSteps

LEMMA CleanComplete ==
    ASSUME NEW c \in Prior, Clean(c)
    PROVE  Complete(c)
  BY DEF Clean, Complete, Prior

\* Nothing edits the catalog but the swap.
LEMMA CatalogLive ==
    EditInv => Live("catalog") = file["catalog"] /\ ~Spoilt("catalog") /\ "catalog" \in File
  BY DEF EditInv, Live, Spoilt, File

\* What every running worker has loaded, and what it would load now, are index
\* files that are on the disk, also during a swap or a roll-back, as long as no
\* edit of the admin process has met a swap.
THEOREM ServedComplete ==
    ASSUME Recoverable, KeepsLoaded
    PROVE  Spec => []ServedIsComplete
<1>1. ASSUME IInv, RollbackInv, ServedInv PROVE ServedIsComplete
  <2>1. SUFFICES ASSUME ~spoilt, up # {}
                 PROVE  /\ Complete(Live("mapfile"))
                        /\ \A w \in up : loaded[w] = Live("mapfile")
    BY DEF ServedIsComplete
  <2>2. CASE lock = None
    <3>1. PICK c \in Prior : Clean(c)
      BY <1>1, <2>2 DEF RollbackInv
    <3>2. Live("mapfile") = c
      BY <2>1, <3>1 DEF Clean, Spoilt, File
    <3> QED
      BY <1>1, <2>1, <2>2, <3>1, <3>2, CleanComplete DEF ServedInv
  <2>3. CASE lock # None
    <3> DEFINE p == lock
               m == Live("mapfile")
    <3>1. PICK c \in Prior : Swapping(p, c) /\ LoadedAt(p, c)
      BY <1>1, <2>1, <2>3 DEF ServedInv
    <3>2. InPlace(p, "mapfile", c) /\ pc[p] \in Held /\ phase = "running" /\ p \in Proc
      BY <1>1, <2>1, <2>3, <3>1
      DEF Swapping, FilesInv, Spoilt, File, PhaseInv, RollbackInv, IInv, TypeOK
    <3>3. /\ pc[p] \in KeptAt("mapfile") \union BackAt("mapfile") => m = c
          /\ pc[p] \in SwappedAt("mapfile") \union DroppedAt("mapfile") => m = gen[p]
      BY <3>2 DEF InPlace, Kept, Back, Swapped, Dropped
    <3>4. /\ \A w \in up :
                loaded[w] = IF pc[p] \in {"dropCatalog"} \union CommittedAt THEN gen[p] ELSE c
          /\ pc[p] \notin SwapSteps
          /\ pc[p] \in UndoFiles => m = c
      BY <2>1, <3>1, <3>2 DEF LoadedAt
    <3> HIDE DEF m
    <3>5. m = IF pc[p] \in {"dropCatalog"} \union CommittedAt THEN gen[p] ELSE c
      BY <3>2, <3>3, <3>4
      DEF Held, TrySteps, UndoSteps, KeptAt, BackAt, SwappedAt, DroppedAt, SwapSteps, UndoFiles,
          CommittedAt
    <3>6. CASE pc[p] \in {"dropCatalog"} \union CommittedAt
      <4>1. gen[p] \in Generation
        BY <1>1, <3>2, <3>6 DEF IInv, TypeOK, CommittedAt
      <4>2. pc[p] # "done" => pc[p] \in StagedAt /\ Busy(p)
        BY <3>6 DEF CommittedAt, StagedAt, TrySteps, Busy
      <4>3. dir[gen[p]] = "staged"
        BY <1>1, <3>1, <3>2, <4>2 DEF IInv, SwapInv, Swapping, DirsInv
      <4> QED
        BY <3>4, <3>5, <3>6, <4>1, <4>3 DEF Complete, m
    <3>7. CASE pc[p] \notin {"dropCatalog"} \union CommittedAt
      <4>1. c \in Generation => dir[c] = "staged"
        BY <3>1, <3>7 DEF Swapping, DirsInv, CommittedAt
      <4> QED
        BY <3>4, <3>5, <3>7, <4>1 DEF Complete, Prior, m
    <3> QED
      BY <3>6, <3>7
  <2> QED
    BY <2>2, <2>3
<1> QED
  BY <1>1, Invariant, RollbackInvariant, ServedInvariant, PTL

\* Between refreshes the catalog and the mapfile name the same generation, as
\* long as no edit of the admin process has met a swap.
THEOREM CatalogAgrees ==
    ASSUME Recoverable
    PROVE  Spec => []CatalogMatchesMapfile
<1>1. ASSUME IInv, RollbackInv PROVE CatalogMatchesMapfile
  <2>1. SUFFICES ASSUME AtRest PROVE spoilt \/ file["catalog"] = Live("mapfile")
    BY DEF CatalogMatchesMapfile
  <2>2. PICK c \in Prior : Clean(c)
    BY <1>1, <2>1, CleanAtRest DEF IInv
  <2> QED
    BY <1>1, <2>2, CatalogLive DEF IInv, Clean, Spoilt, File
<1> QED
  BY <1>1, Invariant, RollbackInvariant, PTL

\* Between refreshes a status of "ready" names the generation of the catalog,
\* and of the mapfile as long as no edit of it has met a swap.
THEOREM ReadyActive ==
    ASSUME Recoverable
    PROVE  Spec => []ReadyIsActive
<1>1. ASSUME IInv, RollbackInv PROVE ReadyIsActive
  <2>1. SUFFICES ASSUME AtRest, status.state = "ready"
                 PROVE  \A f \in File :
                           Spoilt(f) \/ (Live(f) = status.generation /\ Complete(Live(f)))
    BY DEF ReadyIsActive
  <2>2. PICK c \in Prior : Clean(c)
    BY <1>1, <2>1, CleanAtRest DEF IInv
  <2> QED
    BY <2>1, <2>2, CleanComplete DEF Clean
<1> QED
  BY <1>1, Invariant, RollbackInvariant, PTL

\* Between refreshes, failed ones included, no candidate, no backup and no
\* directory but the active generation's is left.
THEOREM NoLeak ==
    ASSUME Recoverable
    PROVE  Spec => []NothingLeaked
<1>1. ASSUME IInv, RollbackInv PROVE NothingLeaked
  <2>1. SUFFICES ASSUME AtRest
                 PROVE  /\ candidate = {}
                        /\ \A b \in DOMAIN backup : backup[b] = None
                        /\ \A g \in Generation : dir[g] # "absent" => g = file["catalog"]
    BY DEF NothingLeaked
  <2>2. PICK c \in Prior : Clean(c)
    BY <1>1, <2>1, CleanAtRest DEF IInv
  <2>3. DOMAIN backup = File \X Generation
    BY <1>1 DEF IInv, TypeOK
  <2> QED
    BY <1>1, <2>2, <2>3, CatalogLive DEF IInv, Clean, File
<1> QED
  BY <1>1, Invariant, RollbackInvariant, PTL

\* README.md:81, as far as it is true: a refresh that fails while its roll-back
\* works leaves the prior generation active, and complete, as long as no edit of
\* the admin process has met a swap.
THEOREM FailedKeepsPrior ==
    ASSUME Recoverable
    PROVE  Spec => []FailedRefreshKeepsPrior
<1>1. ASSUME IInv, RollbackInv PROVE FailedRefreshKeepsPrior
  <2>1. SUFFICES ASSUME AtRest
                 PROVE  spoilt \/ (file["catalog"] = Live("mapfile") /\ Complete(Live("mapfile")))
    BY DEF FailedRefreshKeepsPrior
  <2>2. PICK c \in Prior : Clean(c)
    BY <1>1, <2>1, CleanAtRest DEF IInv
  <2> QED
    BY <1>1, <2>2, CleanComplete, CatalogLive DEF IInv, Clean, Spoilt, File
<1> QED
  BY <1>1, Invariant, RollbackInvariant, PTL

-----------------------------------------------------------------------------
(* The refinement of AbstractRefresh *)

\* What the refinement mapping is, in terms of the holder's program counter.
Mapped ==
    IF lock = None
    THEN activeGeneration = file["catalog"] /\ pendingGeneration = None
    ELSE \A c \in Prior : pc[lock] \in Held /\ Swapping(lock, c) =>
            /\ activeGeneration = IF pc[lock] \in CommittedAt THEN gen[lock] ELSE c
            /\ pendingGeneration = IF pc[lock] \in Staged /\ dir[gen[lock]] = "staged"
                                   THEN gen[lock] ELSE None

LEMMA MappedHolds == EditInv => Mapped
<1> SUFFICES ASSUME EditInv PROVE Mapped
  OBVIOUS
<1>1. CASE lock = None
  BY <1>1 DEF Mapped, activeGeneration, pendingGeneration
<1>2. CASE lock # None
  <2> DEFINE p == lock
             m == file["catalog"]
             b == backup[<<"catalog", gen[p]>>]
  <2>1. SUFFICES ASSUME NEW c \in Prior, pc[p] \in Held, Swapping(p, c)
                 PROVE  /\ activeGeneration = IF pc[p] \in CommittedAt THEN gen[p] ELSE c
                        /\ pendingGeneration = IF pc[p] \in Staged /\ dir[gen[p]] = "staged"
                                               THEN gen[p] ELSE None
    BY <1>2 DEF Mapped
  <2>2. c # None /\ "catalog" \in File
    BY RefreshAssumption DEF Prior, File
  <2>3. InPlace(p, "catalog", c) /\ Live("catalog") = m
    BY <2>1, <2>2, CatalogLive DEF Swapping, FilesInv
  <2>4. /\ pc[p] \in KeptAt("catalog") => m = c /\ b = None
        /\ pc[p] \in MovedAt("catalog") => m = None /\ b = c
        /\ pc[p] \in SwappedAt("catalog") => m = gen[p] /\ b = c
        /\ pc[p] \in DroppedAt("catalog") => m = gen[p] /\ b = None
        /\ pc[p] \in OpenAt("catalog") =>
              (m = c /\ b = None) \/ (m = None /\ b = c) \/ (m = gen[p] /\ b = c)
        /\ pc[p] \in BackAt("catalog") => m = c /\ b = None
    BY <2>3 DEF InPlace, Kept, Moved, Swapped, Dropped, Back
  <2>5. activeGeneration = IF p # None /\ pc[p] \in Uncommitted /\ b # None THEN b ELSE m
    BY DEF activeGeneration
  <2> QED
    BY <1>2, <2>1, <2>2, <2>4, <2>5
    DEF pendingGeneration, Held, TrySteps, UndoSteps, Uncommitted, CommittedAt,
        KeptAt, MovedAt, SwappedAt, DroppedAt, OpenAt, BackAt
<1> QED
  BY <1>1, <1>2

LEMMA MappedNext == EditInv' => Mapped'
  BY MappedHolds, PTL

\* A step of the abstract controller, or none, over the mapped variables.
AbstractStep == [Abstract!Next]_(Abstract!vars)

LEMMA Stutter ==
    ASSUME UNCHANGED <<activeGeneration, pendingGeneration>>,
           \A h \in Generation : dir'[h] = "staged" <=> dir[h] = "staged"
    PROVE  AbstractStep
<1>1. {h \in Generation : dir[h] = "staged"}' = {h \in Generation : dir[h] = "staged"}
  OBVIOUS
<1> QED
  BY <1>1 DEF AbstractStep, Abstract!vars

LEMMA WorkRefines ==
    ASSUME TypeOK, EditInv, EditInv', Recoverable, NEW p \in Proc, lock = p, NEW c \in Prior,
           Swapping(p, c), Swapping(p, c)', pc[p] \in Held, pc'[p] \in Held, SwapInv(p), Work(p)
    PROVE  AbstractStep
<1> DEFINE g == gen[p]
<1>1. /\ lock' = p /\ p # None /\ gen'[p] = g /\ g \in Generation /\ g # None /\ c # None /\ c # g
  BY WorkFrame, RefreshAssumption DEF Prior, Swapping
<1>2. /\ activeGeneration = IF pc[p] \in CommittedAt THEN g ELSE c
      /\ pendingGeneration = IF pc[p] \in Staged /\ dir[g] = "staged" THEN g ELSE None
  BY <1>1, MappedHolds DEF Mapped
<1>3. /\ activeGeneration' = IF pc'[p] \in CommittedAt THEN g ELSE c
      /\ pendingGeneration' = IF pc'[p] \in Staged /\ dir'[g] = "staged" THEN g ELSE None
  BY <1>1, MappedNext DEF Mapped
<1> HIDE DEF g
<1> USE <1>1 DEF TypeOK, Goto, TrySteps, UndoSteps, Staged, CommittedAt
<1>4. CASE Begin(p)
  <2>1. /\ dir[g] = "absent" /\ dir'[g] = "partial" /\ \A h \in Generation \ {g} : dir'[h] = dir[h]
        /\ pc[p] = "begin" /\ pc'[p] = "prepare"
    BY <1>4 DEF Begin, Swapping, DirsInv, g
  <2> QED
    BY <1>2, <1>3, <2>1, Stutter
<1>5. CASE Prepare(p) \/ PrepareFails(p)
  <2>1. /\ pc[p] = "prepare" /\ pc'[p] \in {"generate", "undo"}
        /\ dir[g] = "partial" /\ \A h \in Generation \ {g} : dir'[h] = dir[h]
    BY <1>5 DEF Prepare, PrepareFails, RaiseAt, Swapping, DirsInv, g
  <2>2. CASE dir'[g] = "staged"
    <3>1. {h \in Generation : dir[h] = "staged"}' = {h \in Generation : dir[h] = "staged"} \union {g}
      BY <2>1, <2>2
    <3>2. PICK h \in Generation : h = g
      OBVIOUS
    <3>3. Abstract!Stage(h)
      BY <1>2, <1>3, <2>1, <2>2, <3>1, <3>2 DEF Abstract!Stage
    <3> QED
      BY <3>3 DEF AbstractStep, Abstract!Next
  <2>3. CASE dir'[g] # "staged"
    BY <1>2, <1>3, <2>1, <2>3, Stutter
  <2> QED
    BY <2>2, <2>3
<1>6. CASE Generate(p) \/ Stop(p) \/ Start(p) \/ BackupFiles(p) \/ InstallFiles(p)
  <2>1. /\ pc[p] \in Staged /\ pc'[p] \in Staged
        /\ pc[p] \notin CommittedAt /\ pc'[p] \notin CommittedAt
        /\ dir' = dir
    BY <1>6 DEF Generate, Stop, Start, BackupFiles, Backup, InstallFiles, Install, files
  <2> QED
    BY <1>2, <1>3, <2>1, Stutter
<1>7. CASE DropBackup(p, "catalog", "dropCatalog", "dropMapfile")
  <2>1. pc[p] = "dropCatalog" /\ pc'[p] = "dropMapfile" /\ dir' = dir
    BY <1>7 DEF DropBackup
  <2>2. dir[g] = "staged"
    BY <2>1 DEF SwapInv, StagedAt, g
  <2>3. Abstract!Commit
    BY <1>2, <1>3, <2>1, <2>2 DEF Abstract!Commit
  <2> QED
    BY <2>3 DEF AbstractStep, Abstract!Next
<1>8. CASE DropBackup(p, "mapfile", "dropMapfile", "collect") \/ Ready(p)
  <2>1. /\ pc[p] \in {"dropMapfile", "ready"} /\ pc'[p] \in {"collect", "done"} /\ dir' = dir
    BY <1>8 DEF DropBackup, Ready, files
  <2> QED
    BY <1>2, <1>3, <2>1, Stutter
<1>9. CASE Collect(p)
  <2>1. /\ pc[p] = "collect" /\ pc'[p] = "ready" /\ dir'[g] = dir[g]
        /\ \A h \in Generation : dir'[h] \in {dir[h], "absent"}
    BY <1>9 DEF Collect, Remove, Obsolete, g
  <2> DEFINE S == {h \in Generation : dir[h] = "staged"}
  <2>2. S' \in SUBSET S /\ (g \in S => g \in S')
    BY <2>1
  <2>3. activeGeneration = g /\ activeGeneration' = g /\ pendingGeneration = None /\ pendingGeneration' = None
    BY <1>2, <1>3, <2>1
  <2>4. None \notin S
    BY RefreshAssumption
  <2>5. Abstract!Delete
    BY <2>2, <2>3, <2>4 DEF Abstract!Delete
  <2> QED
    BY <2>5 DEF AbstractStep, Abstract!Next
<1>10. CASE UnlinkCandidates(p) \/ RestoreFiles(p)
  <2>1. /\ pc[p] \in {"undo", "restoreCatalog", "restoreMapfile"}
        /\ pc'[p] \in {"restoreCatalog", "restoreMapfile", "discard"}
        /\ dir' = dir
    BY <1>10 DEF UnlinkCandidates, RestoreFiles, Restore
  <2> QED
    BY <1>2, <1>3, <2>1, Stutter
<1>11. CASE Discard(p)
  <2>1. /\ pc[p] = "discard" /\ pc'[p] \in {"restart", "failed"}
        /\ \A h \in Generation : dir'[h] = IF h = g THEN "absent" ELSE dir[h]
    BY <1>11 DEF Discard, Remove, g
  <2>2. CASE dir[g] = "staged"
    <3>1. {h \in Generation : dir[h] = "staged"}' = {h \in Generation : dir[h] = "staged"} \ {g}
      BY <2>1
    <3>2. Abstract!Abandon
      BY <1>2, <1>3, <2>1, <2>2, <3>1 DEF Abstract!Abandon
    <3> QED
      BY <3>2 DEF AbstractStep, Abstract!Next
  <2>3. CASE dir[g] # "staged"
    BY <1>2, <1>3, <2>1, <2>3, Stutter
  <2> QED
    BY <2>2, <2>3
<1>12. CASE Restart(p) \/ Failed(p)
  <2>1. pc[p] \in {"restart", "failed"} /\ pc'[p] \in {"failed", "raised"} /\ dir' = dir
    BY <1>12 DEF Restart, Failed, files
  <2> QED
    BY <1>2, <1>3, <2>1, Stutter
<1>13. CASE Raise(p) \/ GenerateFails(p) \/ StopFails(p) \/ StartFails(p)
  <2>1. dir' = dir /\ pc[p] # "prepare"
    BY <1>13 DEF Raise, GenerateFails, StopFails, StartFails, RaiseAt, LeavingSteps
  <2>2. \/ pc[p] \in TrySteps \ {"prepare", "dropMapfile", "collect", "ready"} /\ pc'[p] = "undo"
        \/ pc[p] \in {"begin", "restart", "failed"} /\ pc'[p] = "raised"
    BY <1>13, <2>1, FaultFrame DEF Fault
  <2> QED
    BY <1>2, <1>3, <2>1, <2>2, Stutter
<1> QED
  BY <1>4, <1>5, <1>6, <1>7, <1>8, <1>9, <1>10, <1>11, <1>12, <1>13 DEF Work, Fault, DropBackups

\* Taking or dropping the lock changes nothing a request could see.
LEMMA LockRefines ==
    ASSUME IInv, IInv', RollbackInv, RollbackInv', NEW p \in Proc, Lock(p)
    PROVE  AbstractStep
<1>1. /\ lock = None /\ lock' = p /\ p # None
      /\ pc[p] = "lock" /\ pc'[p] = "begin" /\ UNCHANGED <<file, dir>>
  BY RefreshAssumption DEF Lock, LockFree, Goto, IInv, TypeOK, files
<1>2. PICK c \in Prior : Swapping(p, c)'
  BY <1>1 DEF RollbackInv
<1>3. activeGeneration = file["catalog"] /\ pendingGeneration = None
  BY <1>1, MappedHolds DEF Mapped, IInv
<1>4. activeGeneration' = c /\ pendingGeneration' = None
  BY <1>1, <1>2, MappedNext DEF Mapped, Held, CommittedAt, Staged, TrySteps, UndoSteps, IInv
<1>5. file'["catalog"] = c
  <2>1. EditInv' => Live("catalog")' = file'["catalog"] /\ ~Spoilt("catalog")' /\ "catalog" \in File
    BY DEF EditInv, Live, Spoilt, File
  <2>2. InPlace(p, "catalog", c)'
    BY <1>2, <2>1 DEF Swapping, FilesInv, IInv
  <2> QED
    BY <1>1, <2>1, <2>2 DEF InPlace, KeptAt, Kept, IInv
<1> QED
  BY <1>1, <1>3, <1>4, <1>5, Stutter

LEMMA ExitRefines ==
    ASSUME IInv, IInv', RollbackInv, NEW p \in Proc, lock = p, Exit(p)
    PROVE  AbstractStep
<1>1. /\ lock' = None /\ p # None /\ pc[p] \in {"done", "raised"} /\ UNCHANGED <<file, dir>>
  BY RefreshAssumption DEF Exit, files
<1>2. PICK c \in Prior : Swapping(p, c)
  BY <1>1 DEF RollbackInv
<1>3. /\ activeGeneration = IF pc[p] = "done" THEN gen[p] ELSE c
      /\ pendingGeneration = None
  BY <1>1, <1>2, MappedHolds DEF Mapped, Held, CommittedAt, Staged, TrySteps, UndoSteps, IInv
<1>4. activeGeneration' = file'["catalog"] /\ pendingGeneration' = None
  BY <1>1, MappedNext DEF Mapped, IInv
<1>5. file["catalog"] = IF pc[p] = "done" THEN gen[p] ELSE c
  <2>1. InPlace(p, "catalog", c) /\ Live("catalog") = file["catalog"]
    BY <1>2, CatalogLive DEF Swapping, FilesInv, IInv
  <2> QED
    BY <1>1, <2>1 DEF InPlace, DroppedAt, Dropped, BackAt, Back
<1> QED
  BY <1>1, <1>3, <1>4, <1>5, Stutter

\* Whoever does not hold the lock moves neither the catalog nor the holder.
LEMMA OthersRefine ==
    ASSUME UNCHANGED <<dir, lock>>, file'["catalog"] = file["catalog"],
           lock # None => /\ pc'[lock] = pc[lock] /\ gen'[lock] = gen[lock]
                          /\ backup'[<<"catalog", gen[lock]>>] = backup[<<"catalog", gen[lock]>>]
    PROVE  AbstractStep
  BY Stutter DEF activeGeneration, pendingGeneration

LEMMA NextRefines ==
    ASSUME Recoverable, IInv, IInv', RollbackInv, RollbackInv', [Next]_vars
    PROVE  AbstractStep
<1>1. TypeOK /\ EditInv /\ EditInv' /\ LockInv /\ PhaseInv
  BY DEF IInv, RollbackInv
<1>2. ASSUME NEW p \in Proc, Work(p) PROVE AbstractStep
  <2>1. lock = p /\ lock' = p /\ Busy(p) /\ p # None
    BY <1>1, <1>2, WorkFrame, RefreshAssumption DEF LockInv
  <2>2. PICK c \in Prior : Swapping(p, c)
    BY <2>1 DEF RollbackInv
  <2>3. SwapInv(p) /\ pc[p] \in Held /\ pc'[p] \in Held
    BY <1>1, <2>1 DEF IInv, PhaseInv, RollbackInv
  <2>4. Swapping(p, c)'
    BY <1>1, <1>2, <2>2, <2>3, WorkSwapping
  <2> QED
    BY <1>1, <1>2, <2>1, <2>2, <2>3, <2>4, WorkRefines
<1>3. ASSUME NEW p \in Proc, Lock(p) PROVE AbstractStep
  BY <1>3, LockRefines
<1>4. ASSUME NEW p \in Proc, StartContainer(p) \/ PostRefresh(p) \/ LockBusy(p) PROVE AbstractStep
  <2>1. pc[p] \in {"idle", "lock"} /\ UNCHANGED <<file, backup, dir, lock>>
    BY <1>4 DEF StartContainer, PostRefresh, Spawn, LockBusy, files
  <2>2. lock # None => lock # p /\ lock \in Proc
    BY <1>1, <2>1 DEF TypeOK, PhaseInv, Held, TrySteps, UndoSteps
  <2>3. lock # None => pc'[lock] = pc[lock] /\ gen'[lock] = gen[lock]
    BY <1>1, <1>4, <2>2 DEF StartContainer, PostRefresh, Spawn, LockBusy, Goto, TypeOK, locals
  <2> QED
    BY <2>1, <2>3, OthersRefine
<1>5. ASSUME NEW p \in Proc, Exit(p) PROVE AbstractStep
  <2>1. CASE lock = p
    BY <1>5, <2>1, ExitRefines
  <2>2. CASE lock # p
    <3>1. UNCHANGED <<file, backup, dir, lock, gen>> /\ \A q \in Proc : q # p => pc'[q] = pc[q]
      BY <1>1, <1>5, <2>2 DEF Exit, Goto, TypeOK, locals, files
    <3> QED
      BY <1>1, <2>2, <3>1, OthersRefine DEF TypeOK
  <2> QED
    BY <2>1, <2>2
<1>6. CASE AdminStep
  <2>1. UNCHANGED <<lock, pc, gen, dir>>
    BY <1>6
    DEF AdminStep, AdminRestart, PutSettings, ReadMapfile, TruncateMapfile, WriteMapfile,
        WriteFails, AdminStops, AdminStarts, locals, files
  <2>2. lock # None => lock \in Proc /\ gen[lock] \in Generation
    BY <1>1 DEF TypeOK, PhaseInv, Held, TrySteps, UndoSteps
  <2>3. /\ file'["catalog"] = file["catalog"]
        /\ \A h \in Generation : backup'[<<"catalog", h>>] = backup[<<"catalog", h>>]
    BY <1>1, <1>6, AdminLive DEF Spoilt, File
  <2> QED
    BY <2>1, <2>2, <2>3, OthersRefine
<1>7. CASE UNCHANGED vars
  BY <1>7, OthersRefine DEF vars
<1>8. ~KillContainer /\ \A p \in Proc : ~Kill(p)
  BY DEF KillContainer, Kill, Recoverable
<1> QED
  BY <1>2, <1>3, <1>4, <1>5, <1>6, <1>7, <1>8 DEF Next, Step, Work

\* A refresh whose roll-back works switches generations at once, by the unlink
\* of the catalog's backup, or not at all, and never deletes the active one.
THEOREM Refinement ==
    ASSUME Recoverable
    PROVE  Spec => ImplementsAbstract
<1>1. Init => Abstract!Init
  <2> SUFFICES ASSUME Init PROVE Abstract!Init
    OBVIOUS
  <2>1. activeGeneration = Seed /\ pendingGeneration = None
    BY MappedHolds, InitInv DEF Init, Mapped, File, IInv
  <2>2. {g \in Generation : dir[g] = "staged"} = {}
    BY DEF Init
  <2> QED
    BY <2>1, <2>2 DEF Abstract!Init
<1>2. IInv /\ IInv' /\ RollbackInv /\ RollbackInv' /\ [Next]_vars => [Abstract!Next]_(Abstract!vars)
  BY NextRefines DEF AbstractStep
<1>3. Spec => []IInv /\ []RollbackInv
  BY Invariant, RollbackInvariant
<1> QED
  BY <1>1, <1>2, <1>3, PTL DEF Spec, ImplementsAbstract, Abstract!Spec
=============================================================================
