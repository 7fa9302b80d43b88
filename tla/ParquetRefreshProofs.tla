------------------------ MODULE ParquetRefreshProofs ------------------------
(***************************************************************************)
(* Proofs about ParquetRefresh for every set of generations, processes and *)
(* workers, every set of failing steps and every disruption: the type      *)
(* invariant, that a catalog never names deleted files, and that a mapfile *)
(* does not until an edit of the admin process meets its swap.             *)
(***************************************************************************)
EXTENDS ParquetRefresh, TLAPS

-----------------------------------------------------------------------------
(* The inductive invariant *)

\* p is inside refresh().
Busy(p) == pc[p] \in {"begin"} \union TrySteps \union UndoSteps

\* Only the holder of the flock is inside refresh().
LockInv == \A p \in Proc : Busy(p) => lock = p

\* Every process has an id of its own, drawn before.
IdInv ==
    /\ \A p \in Proc : pc[p] # "idle" => gen[p] \in used
    /\ \A p, q \in Proc :
          p # q /\ pc[p] # "idle" /\ pc[q] # "idle" => gen[p] # gen[q]

\* Neither a file nor the text of an edit names generation g, and no backup is
\* named after it.
Untouched(g) ==
    \A f \in File :
        /\ file[f] # g /\ edit.text # g
        /\ backup[<<f, g>>] = None
        /\ \A h \in Generation : backup[<<f, h>>] # g

\* An id is in no file before its process has begun.
FreshInv ==
    /\ \A g \in Generation \ used : Untouched(g)
    /\ \A p \in Proc : pc[p] \in {"lock", "begin"} => Untouched(gen[p])

\* A file is open only while the admin process writes it, and until an edit has
\* met a swap it is the mapfile that was read.
EditInv ==
    /\ edit.text # Open
    /\ phase # "running" => edit.step = "none"
    /\ \A f \in File : file[f] = Open => f = "mapfile" /\ edit.step = "write"
    /\ \A f \in File, h \in Generation :
          backup[<<f, h>>] = Open => f = "mapfile" /\ edit.step = "write"
    /\ \/ spoilt
       \/ /\ \A h \in Generation : backup[<<"mapfile", h>>] # Open
          /\ edit.step = "truncate" => file["mapfile"] = edit.text
          /\ edit.step = "write" => file["mapfile"] = Open

\* What the holder of the lock relies on.
StagedAt == TrySteps \ {"prepare"}
NotInstalledAt(f) ==
    IF f = "catalog"
    THEN {"prepare", "generate", "stop", "backupCatalog", "backupMapfile", "installCatalog",
          "restoreMapfile", "discard", "restart", "failed"}
    ELSE {"prepare", "generate", "stop", "backupCatalog", "backupMapfile", "installCatalog",
          "installMapfile", "discard", "restart", "failed"}
InstalledAt(f) ==
    {"start", "dropCatalog", "dropMapfile", "collect", "ready"}
        \union (IF f = "catalog" THEN {"installMapfile"} ELSE {})
NoBackupAt(f) ==
    {"collect", "ready", "discard", "restart", "failed"}
        \union (IF f = "catalog" THEN {"dropMapfile", "restoreMapfile"} ELSE {})

HeldInv(p, f) ==
    /\ pc[p] \in NotInstalledAt(f) => Live(f) # gen[p]
    /\ pc[p] \in InstalledAt(f) => Live(f) = gen[p]
    /\ Live(f) = gen[p] => f \in replaced[p]
    /\ backup[<<f, gen[p]>>] # gen[p]
    /\ backup[<<f, gen[p]>>] \in Generation => dir[backup[<<f, gen[p]>>]] = "staged"

SwapInv(p) ==
    /\ pc[p] \in StagedAt => dir[gen[p]] = "staged"
    /\ \A f \in File : pc[p] \in NoBackupAt(f) => backup[<<f, gen[p]>>] = None
    /\ \A f \in File : Spoilt(f) \/ HeldInv(p, f)

IInv ==
    /\ TypeOK
    /\ LockInv
    /\ IdInv
    /\ FreshInv
    /\ EditInv
    /\ \A p \in Proc : Busy(p) => SwapInv(p)
    /\ NoDanglingPointer

-----------------------------------------------------------------------------
(* Types *)

LEMMA InitTypes == Init => TypeOK
<1> SUFFICES ASSUME Init PROVE TypeOK
  OBVIOUS
<1>1. edit \in [step : {"none", "read", "truncate", "write", "stop", "start"},
                text : Content, put : BOOLEAN]
  BY DEF Init, NoEdit, Content
<1> QED
  BY <1>1, RefreshAssumption DEF Init, TypeOK, Content, File, Steps

LEMMA StartsTypes == TypeOK => \A ws : Starts(ws) => loaded' \in [Worker -> Content \union {Down}]
  BY DEF TypeOK, Starts, Content, File

\* Each action of a process keeps the types.
LEMMA ProcessTypes ==
    ASSUME TypeOK, NEW p \in Proc,
           StartContainer(p) \/ PostRefresh(p) \/ Step(p) \/ Fault(p) \/ Kill(p)
    PROVE  TypeOK'
<1> USE DEF TypeOK, Goto, Content, Steps, TrySteps, UndoSteps, admin, locals, files
<1>1. CASE StartContainer(p)
  BY <1>1 DEF StartContainer, Spawn
<1>2. CASE PostRefresh(p)
  BY <1>2 DEF PostRefresh, Spawn
<1>3. CASE Lock(p) \/ LockBusy(p)
  BY <1>3 DEF Lock, LockBusy
<1>4. CASE Begin(p)
  BY <1>4 DEF Begin, GenerationPaths
<1>5. CASE Prepare(p)
  BY <1>5 DEF Prepare, File
<1>6. CASE Generate(p)
  BY <1>6 DEF Generate, File
<1>7. CASE Stop(p)
  BY <1>7 DEF Stop, Stops
<1>8. CASE BackupFiles(p)
  <2>1. PICK f \in File, step \in Steps \ {"idle"}, next \in Steps : Backup(p, f, step, next)
    BY <1>8 DEF BackupFiles, File
  <2>2. gen[p] \in Generation /\ spoilt' \in BOOLEAN
    BY <2>1 DEF Backup, Meets
  <2>3. <<f, gen[p]>> \in File \X Generation /\ file[f] \in Content
    BY <2>2
  <2>4. backup' \in [File \X Generation -> Content]
    BY <2>1, <2>3 DEF Backup
  <2> QED
    BY <2>1, <2>2, <2>4 DEF Backup
<1>9. CASE InstallFiles(p)
  <2>1. PICK f \in File, step \in Steps \ {"idle"}, next \in Steps : Install(p, f, step, next)
    BY <1>9 DEF InstallFiles, File
  <2>2. gen[p] \in Generation /\ spoilt' \in BOOLEAN
    BY <2>1 DEF Install, Meets
  <2> QED
    BY <2>1, <2>2 DEF Install
<1>10. CASE Start(p)
  BY <1>10, StartsTypes DEF Start, LoadsOpen
<1>11. CASE DropBackups(p)
  BY <1>11 DEF DropBackups, DropBackup, File
<1>12. CASE Collect(p)
  BY <1>12 DEF Collect, Remove
<1>13. CASE Ready(p)
  BY <1>13 DEF Ready
<1>14. CASE UnlinkCandidates(p)
  BY <1>14 DEF UnlinkCandidates
<1>15. CASE RestoreFiles(p)
  <2>1. PICK f \in File, step \in Steps \ {"idle"}, next \in Steps : Restore(p, f, step, next)
    BY <1>15 DEF RestoreFiles, File
  <2>2. gen[p] \in Generation /\ spoilt' \in BOOLEAN
    BY <2>1 DEF Restore, Meets
  <2>3. <<f, gen[p]>> \in File \X Generation /\ backup[<<f, gen[p]>>] \in Content
    BY <2>2
  <2>4. backup' \in [File \X Generation -> Content] /\ file' \in [File -> Content]
    BY <2>1, <2>3 DEF Restore
  <2> QED
    BY <2>1, <2>2, <2>4 DEF Restore
<1>16. CASE Discard(p)
  BY <1>16 DEF Discard, Remove
<1>17. CASE Restart(p)
  BY <1>17, StartsTypes DEF Restart, LoadsOpen
<1>18. CASE Failed(p)
  BY <1>18 DEF Failed
<1>19. CASE Exit(p)
  <2>1. edit' \in [step : {"none", "read", "truncate", "write", "stop", "start"},
                  text : Content, put : BOOLEAN]
    BY <1>19 DEF Exit, StartEdit, NoEdit
  <2>2. loaded' \in [Worker -> Content \union {Down}]
    BY <1>19, StartsTypes DEF Exit
  <2> QED
    BY <1>19, <2>1, <2>2 DEF Exit
<1>20. CASE Raise(p)
  BY <1>20, RefreshAssumption DEF Raise, RaiseAt, MayRaise
<1>21. CASE PrepareFails(p)
  BY <1>21 DEF PrepareFails, RaiseAt, File
<1>22. CASE GenerateFails(p)
  BY <1>22 DEF GenerateFails, RaiseAt, File
<1>23. CASE StopFails(p) \/ StartFails(p)
  <2>1. loaded' \in [Worker -> Content \union {Down}]
    BY <1>23, StartsTypes DEF StopFails, StartFails, Stops
  <2>2. spoilt' \in BOOLEAN
    BY <1>23 DEF StopFails, StartFails, LoadsOpen
  <2>3. PICK step \in Steps \ {"idle"} : RaiseAt(p, step) /\ UNCHANGED <<candidate, dir>>
    BY <1>23 DEF StopFails, StartFails
  <2> QED
    BY <2>1, <2>2, <2>3 DEF RaiseAt
<1>24. CASE Kill(p)
  BY <1>24 DEF Kill
<1> QED
  BY <1>1, <1>2, <1>3, <1>4, <1>5, <1>6, <1>7, <1>8, <1>9, <1>10, <1>11, <1>12,
     <1>13, <1>14, <1>15, <1>16, <1>17, <1>18, <1>19, <1>20, <1>21, <1>22, <1>23, <1>24
  DEF Step, Fault

\* A text that is written to an open file leaves the files typed.
LEMMA FillTypes ==
    ASSUME TypeOK, NEW text \in Content, Fill(text)
    PROVE  file' \in [File -> Content] /\ backup' \in [File \X Generation -> Content]
<1>1. file' \in [File -> Content]
  BY DEF TypeOK, Fill
<1>2. backup' \in [File \X Generation -> Content]
  BY DEF TypeOK, Fill
<1> QED
  BY <1>1, <1>2

\* So does each step of the admin process.
LEMMA AdminTypes == TypeOK /\ AdminStep => TypeOK'
<1> SUFFICES ASSUME TypeOK, AdminStep PROVE TypeOK'
  OBVIOUS
<1> USE DEF TypeOK, NoEdit, StartEdit, AfterEdit, locals, files
<1>1. CASE AdminRestart
  <2>1. Empty \in Content /\ None \in Content
    BY DEF Content
  <2>2. file' \in [File -> Content] /\ backup' \in [File \X Generation -> Content]
    BY <1>1, <2>1, FillTypes DEF AdminRestart, CutShort
  <2> QED
    BY <1>1, <2>1, <2>2 DEF AdminRestart, CutShort
<1>2. CASE PutSettings
  <2>1. edit' \in [step : {"none", "read", "truncate", "write", "stop", "start"},
                  text : Content, put : BOOLEAN]
    BY <1>2 DEF PutSettings, Content
  <2> QED
    BY <1>2, <2>1 DEF PutSettings
<1>3. CASE ReadMapfile
  BY <1>3 DEF ReadMapfile, Content, File
<1>4. CASE TruncateMapfile
  BY <1>4 DEF TruncateMapfile, Content
<1>5. CASE WriteMapfile
  <2>1. edit.text \in Content /\ None \in Content
    BY DEF Content
  <2>2. file' \in [File -> Content] /\ backup' \in [File \X Generation -> Content]
    BY <1>5, <2>1, FillTypes DEF WriteMapfile
  <2> QED
    BY <1>5, <2>1, <2>2 DEF WriteMapfile
<1>6. CASE WriteFails
  <2>1. Empty \in Content /\ None \in Content
    BY DEF Content
  <2>2. file' \in [File -> Content] /\ backup' \in [File \X Generation -> Content]
    BY <1>6, <2>1, FillTypes DEF WriteFails, CutShort
  <2> QED
    BY <1>6, <2>1, <2>2 DEF WriteFails, CutShort
<1>7. CASE AdminStops
  BY <1>7 DEF AdminStops, Stops
<1>8. CASE AdminStarts
  BY <1>8 DEF AdminStarts, Starts, Content, File
<1> QED
  BY <1>1, <1>2, <1>3, <1>4, <1>5, <1>6, <1>7, <1>8 DEF AdminStep

LEMMA NextTypes == TypeOK /\ [Next]_vars => TypeOK'
<1> SUFFICES ASSUME TypeOK, [Next]_vars PROVE TypeOK'
  OBVIOUS
<1>1. ASSUME NEW p \in Proc,
             StartContainer(p) \/ PostRefresh(p) \/ Step(p) \/ Fault(p) \/ Kill(p)
      PROVE  TypeOK'
  BY <1>1, ProcessTypes
<1>2. CASE AdminStep
  BY <1>2, AdminTypes
<1>3. CASE KillContainer
  BY <1>3 DEF KillContainer, Stops, CutShort, Fill, NoEdit, TypeOK, Content, Steps, locals
<1>4. CASE UNCHANGED vars
  BY <1>4 DEF vars, TypeOK
<1> QED
  BY <1>1, <1>2, <1>3, <1>4 DEF Next

\* Every variable of the refresh controller keeps its type.
THEOREM TypeCorrect == Spec => []TypeOK
  BY InitTypes, NextTypes, PTL DEF Spec

-----------------------------------------------------------------------------
(* Steps of the process inside refresh() *)

Work(p) ==
    \/ Begin(p) \/ Prepare(p) \/ Generate(p) \/ Stop(p) \/ BackupFiles(p) \/ InstallFiles(p)
    \/ Start(p) \/ DropBackups(p) \/ Collect(p) \/ Ready(p) \/ UnlinkCandidates(p)
    \/ RestoreFiles(p) \/ Discard(p) \/ Restart(p) \/ Failed(p) \/ Fault(p)

\* Where the content of files and backups can come from in such a step.
Moves(p) ==
    /\ edit' = edit /\ phase' = phase /\ (spoilt => spoilt')
    /\ \A f \in File :
          \/ file'[f] = file[f]
          \/ Meets(f) /\ file'[f] \in {None, gen[p], backup[<<f, gen[p]>>]}
    /\ \A f \in File, h \in Generation :
          \/ backup'[<<f, h>>] \in {backup[<<f, h>>], None}
          \/ Meets(f) /\ h = gen[p] /\ backup'[<<f, h>>] = file[f]

LEMMA UntouchedKept ==
    ASSUME NEW p, NEW g \in Generation, gen[p] \in Generation, g # gen[p],
           Untouched(g), Moves(p)
    PROVE  Untouched(g)'
<1> SUFFICES ASSUME NEW f \in File
             PROVE  /\ file'[f] # g /\ edit'.text # g
                    /\ backup'[<<f, g>>] = None
                    /\ \A h \in Generation : backup'[<<f, h>>] # g
  BY DEF Untouched
<1>1. file[f] # g /\ edit.text # g /\ backup[<<f, g>>] = None /\ g # None
  BY RefreshAssumption DEF Untouched
<1>2. \A h \in Generation : backup[<<f, h>>] # g
  BY DEF Untouched
<1>3. edit' = edit /\ file'[f] \in {file[f], None, gen[p], backup[<<f, gen[p]>>]}
  BY DEF Moves
<1>4. \A h \in Generation :
          \/ backup'[<<f, h>>] \in {backup[<<f, h>>], None}
          \/ h = gen[p] /\ backup'[<<f, h>>] = file[f]
  BY DEF Moves
<1> QED
  BY <1>1, <1>2, <1>3, <1>4

\* A file that a step moves holds nothing that an edit is about to write, or the
\* edit has met the swap.
LEMMA MovesEdit ==
    ASSUME EditInv, NEW p, gen[p] \in Generation, Moves(p)
    PROVE  /\ EditInv'
           /\ \A f \in File :
                 /\ Spoilt(f) => Spoilt(f)'
                 /\ file'[f] = file[f] => Live(f)' = Live(f)
                 /\ \/ Spoilt(f)'
                    \/ file'[f] = file[f]
                    \/ Live(f) = file[f] /\ Live(f)' = file'[f]
<1>1. edit' = edit /\ phase' = phase /\ (spoilt => spoilt')
  BY DEF Moves
<1>2. ASSUME NEW f \in File,
             file'[f] = Open \/ \E h \in Generation : backup'[<<f, h>>] = Open
      PROVE  f = "mapfile" /\ edit'.step = "write"
  <2>1. Open # None /\ Open # gen[p]
    BY RefreshAssumption
  <2>2. file[f] = Open \/ \E i \in Generation : backup[<<f, i>>] = Open
    BY <1>2, <2>1 DEF Moves
  <2> QED
    BY <1>1, <2>2 DEF EditInv
<1>3. \/ spoilt'
      \/ file'["mapfile"] = file["mapfile"]
      \/ ~Editing
  BY DEF Moves, Meets, File
<1>4. \/ spoilt'
      \/ ~Editing
      \/ /\ file'["mapfile"] = file["mapfile"]
         /\ \A h \in Generation :
               backup'[<<"mapfile", h>>] \in {backup[<<"mapfile", h>>], None}
  BY DEF Moves, Meets, File
<1>5. EditInv'
  <2>1. edit'.text # Open /\ (phase' # "running" => edit'.step = "none")
    BY <1>1 DEF EditInv
  <2>2. CASE spoilt'
    BY <1>2, <2>1, <2>2 DEF EditInv
  <2>3. CASE ~spoilt' /\ ~Editing
    <3>1. \A h \in Generation : backup'[<<"mapfile", h>>] # Open
      BY <1>1, <1>2, <2>3 DEF Editing, File
    <3>2. edit'.step # "truncate" /\ edit'.step # "write"
      BY <1>1, <2>3 DEF Editing
    <3> QED
      BY <1>2, <2>1, <3>1, <3>2 DEF EditInv
  <2>4. CASE ~spoilt' /\ Editing
    <3>1. /\ file'["mapfile"] = file["mapfile"] /\ ~spoilt
          /\ \A h \in Generation :
               backup'[<<"mapfile", h>>] \in {backup[<<"mapfile", h>>], None}
      BY <1>1, <1>4, <2>4
    <3>2. \A h \in Generation : backup'[<<"mapfile", h>>] # Open
      BY <3>1, RefreshAssumption DEF EditInv
    <3>3. /\ edit'.step = "truncate" => file'["mapfile"] = edit'.text
          /\ edit'.step = "write" => file'["mapfile"] = Open
      BY <1>1, <3>1 DEF EditInv
    <3> QED
      BY <1>2, <2>1, <3>2, <3>3 DEF EditInv
  <2> QED
    BY <2>2, <2>3, <2>4
<1>6. ASSUME NEW f \in File, file'[f] = file[f] PROVE Live(f)' = Live(f)
  BY <1>1, <1>6 DEF Live
<1>7. ASSUME NEW f \in File, file'[f] # file[f], ~Spoilt(f)'
      PROVE  Live(f) = file[f] /\ Live(f)' = file'[f]
  <2>1. Meets(f)
    BY <1>7 DEF Moves
  <2>2. f = "catalog" \/ edit.step # "write"
    BY <1>7, <2>1 DEF Meets, Spoilt, Editing, File
  <2>3. file[f] # Open
    BY <2>2 DEF EditInv
  <2>4. file'[f] # Open
    BY <1>1, <1>2, <2>2
  <2> QED
    BY <2>3, <2>4 DEF Live
<1>8. \A f \in File : Spoilt(f) => Spoilt(f)'
  BY <1>1 DEF Spoilt
<1> QED
  BY <1>5, <1>6, <1>7, <1>8

LEMMA WorkFrame ==
    ASSUME TypeOK, NEW p \in Proc, Work(p)
    PROVE  /\ Busy(p)
           /\ UNCHANGED <<lock, gen, used>>
           /\ \A q \in Proc : q # p => pc'[q] = pc[q]
           /\ pc'[p] \notin {"idle", "lock", "begin"}
           /\ gen[p] \in Generation
           /\ Moves(p)
<1> USE DEF TypeOK, Goto, Steps, TrySteps, UndoSteps, admin, locals, files, Busy, Moves
<1>1. CASE Begin(p) \/ Prepare(p) \/ Generate(p) \/ Stop(p) \/ Start(p)
  BY <1>1 DEF Begin, Prepare, Generate, Stop, Start, LoadsOpen
<1>2. CASE Collect(p) \/ Ready(p) \/ UnlinkCandidates(p) \/ Discard(p) \/ Restart(p) \/ Failed(p)
  BY <1>2 DEF Collect, Ready, UnlinkCandidates, Discard, Restart, Failed, LoadsOpen
<1>3. CASE BackupFiles(p)
  <2>1. PICK f \in File, step \in TrySteps, next \in Steps \ {"idle", "lock", "begin"} :
           Backup(p, f, step, next)
    BY <1>3 DEF BackupFiles, File
  <2>2. gen[p] \in Generation
    BY <2>1 DEF Backup
  <2>3. \A e \in File, h \in Generation :
            backup'[<<e, h>>] = IF e = f /\ h = gen[p] THEN file[f] ELSE backup[<<e, h>>]
    BY <2>1, <2>2 DEF Backup
  <2>4. Meets(f) /\ (spoilt => spoilt') /\ \A e \in File : e # f => file'[e] = file[e]
    BY <2>1 DEF Backup, Meets
  <2>5. file'[f] = None
    BY <2>1 DEF Backup
  <2>6. Moves(p)
    <3> HIDE DEF Moves
    <3>1. edit' = edit /\ phase' = phase
      BY <2>1 DEF Backup
    <3> QED
      BY <2>3, <2>4, <2>5, <3>1 DEF Moves
  <2> QED
    BY <2>1, <2>2, <2>6 DEF Backup
<1>4. CASE InstallFiles(p)
  <2>1. PICK f \in File, step \in TrySteps, next \in Steps \ {"idle", "lock", "begin"} :
           Install(p, f, step, next)
    BY <1>4 DEF InstallFiles, File
  <2>2. Meets(f) /\ (spoilt => spoilt') /\ file'[f] = gen[p]
    BY <2>1 DEF Install, Meets
  <2>3. \A e \in File : e # f => file'[e] = file[e]
    BY <2>1 DEF Install
  <2> QED
    BY <2>1, <2>2, <2>3 DEF Install
<1>5. CASE DropBackups(p)
  <2>1. PICK f \in File, step \in TrySteps, next \in Steps \ {"idle", "lock", "begin"} :
           DropBackup(p, f, step, next)
    BY <1>5 DEF DropBackups, File
  <2>2. \A e \in File, h \in Generation : backup'[<<e, h>>] \in {backup[<<e, h>>], None}
    BY <2>1 DEF DropBackup
  <2> QED
    BY <2>1, <2>2 DEF DropBackup
<1>6. CASE RestoreFiles(p)
  <2>1. PICK f \in File, step \in UndoSteps, next \in Steps \ {"idle", "lock", "begin"} :
           Restore(p, f, step, next)
    BY <1>6 DEF RestoreFiles, File
  <2>2. gen[p] \in Generation
    BY <2>1 DEF Restore
  <2>3. \A e \in File, h \in Generation :
            backup'[<<e, h>>] = IF e = f /\ h = gen[p] THEN None ELSE backup[<<e, h>>]
    BY <2>1, <2>2 DEF Restore
  <2>4. file' = file \/ file' = [file EXCEPT ![f] = backup[<<f, gen[p]>>]]
    BY <2>1 DEF Restore
  <2>5. Meets(f) /\ (spoilt => spoilt')
    BY <2>1 DEF Restore, Meets
  <2>6. \A e \in File :
           file'[e] = file[e] \/ (Meets(e) /\ file'[e] = backup[<<e, gen[p]>>])
    BY <2>4, <2>5
  <2>7. Moves(p)
    <3> HIDE DEF Moves
    <3>1. edit' = edit /\ phase' = phase
      BY <2>1 DEF Restore
    <3> QED
      BY <2>3, <2>5, <2>6, <3>1 DEF Moves
  <2> HIDE DEF Moves
  <2> QED
    BY <2>1, <2>2, <2>7 DEF Restore
<1>7. CASE Fault(p)
  BY <1>7, RefreshAssumption
  DEF Fault, Raise, PrepareFails, GenerateFails, StopFails, StartFails, RaiseAt, MayRaise, LoadsOpen
<1> QED
  BY <1>1, <1>2, <1>3, <1>4, <1>5, <1>6, <1>7 DEF Work

\* The holder's steps keep what it relies on, and point no file at deleted ones.
LEMMA WorkSwap ==
    ASSUME TypeOK, EditInv, NoDanglingPointer, NEW p \in Proc, SwapInv(p),
           pc[p] = "begin" => Untouched(gen[p]), Work(p)
    PROVE  (Busy(p)' => SwapInv(p)') /\ NoDanglingPointer'
<1> DEFINE g == gen[p]
<1>1. Busy(p) /\ gen'[p] = g /\ g \in Generation /\ g # None
  BY WorkFrame, RefreshAssumption
<1>2. \A f \in File :
         /\ Spoilt(f) => Spoilt(f)'
         /\ file'[f] = file[f] => Live(f)' = Live(f)
         /\ \/ Spoilt(f)'
            \/ file'[f] = file[f]
            \/ Live(f) = file[f] /\ Live(f)' = file'[f]
  BY <1>1, WorkFrame, MovesEdit
<1> HIDE DEF g
\* A step that moves no file and leaves the new generation alone.
<1>3. ASSUME UNCHANGED <<file, backup, replaced>>,
             \A h \in Generation : dir[h] = "staged" =>
                dir'[h] = "staged" \/ (h = g /\ pc'[p] \notin StagedAt)
                                  \/ (\A f \in File : ~Spoilt(f) => h # Live(f) /\ h # backup[<<f, g>>]),
             pc'[p] \in StagedAt => dir'[g] = "staged",
             \A f \in File :
                /\ pc'[p] \in NoBackupAt(f) => pc[p] \in NoBackupAt(f) \/ backup[<<f, g>>] = None
                /\ Spoilt(f) \/
                   /\ pc'[p] \in NotInstalledAt(f) => Live(f) # g
                   /\ pc'[p] \in InstalledAt(f) => Live(f) = g
                   /\ dir'[g] # "staged" => Live(f) # g
      PROVE  SwapInv(p)' /\ NoDanglingPointer'
  <2>1. \A f \in File : Live(f)' = Live(f) /\ (Spoilt(f) => Spoilt(f)')
    BY <1>2, <1>3
  <2>2. NoDanglingPointer'
    BY <1>1, <1>3, <2>1 DEF NoDanglingPointer
  <2>3. ASSUME NEW f \in File, ~Spoilt(f) PROVE HeldInv(p, f)'
    <3>1. HeldInv(p, f)
      BY <2>3 DEF SwapInv
    <3>2. Live(f)' = Live(f) /\ gen'[p] = g /\ g = gen[p]
      BY <1>1, <2>1 DEF g
    <3>3. pc'[p] \in NotInstalledAt(f) => Live(f)' # g
      BY <1>3, <2>3, <3>2
    <3>4. pc'[p] \in InstalledAt(f) => Live(f)' = g
      BY <1>3, <2>3, <3>2
    <3>5. backup[<<f, g>>] \in Generation => dir'[backup[<<f, g>>]] = "staged"
      BY <1>3, <2>3, <3>1, <3>2 DEF HeldInv
    <3> QED
      BY <1>3, <3>1, <3>2, <3>3, <3>4, <3>5 DEF HeldInv, NotInstalledAt, InstalledAt
  <2>4. \A f \in File : pc'[p] \in NoBackupAt(f) => backup'[<<f, gen'[p]>>] = None
    BY <1>1, <1>3 DEF SwapInv, g
  <2>5. \A f \in File : Spoilt(f)' \/ HeldInv(p, f)'
    BY <2>1, <2>3
  <2>6. pc'[p] \in StagedAt => dir'[gen'[p]] = "staged"
    BY <1>1, <1>3
  <2> QED
    BY <2>2, <2>4, <2>5, <2>6 DEF SwapInv, StagedAt, NoBackupAt
<1> USE DEF StagedAt, NotInstalledAt, InstalledAt, NoBackupAt, TrySteps, UndoSteps
\* What is relied on now, with g for the process's id.
<1>4. /\ g = gen[p]
      /\ pc[p] \in StagedAt => dir[g] = "staged"
      /\ \A f \in File : pc[p] \in NoBackupAt(f) => backup[<<f, g>>] = None
      /\ \A f \in File : Spoilt(f) \/
            /\ pc[p] \in NotInstalledAt(f) => Live(f) # g
            /\ pc[p] \in InstalledAt(f) => Live(f) = g
            /\ dir[g] # "staged" => Live(f) # g
            /\ Live(f) = g => f \in replaced[p]
            /\ backup[<<f, g>>] # g
            /\ backup[<<f, g>>] \in Generation => dir[backup[<<f, g>>]] = "staged"
  BY <1>1 DEF SwapInv, HeldInv, NoDanglingPointer, g
<1>5. CASE Generate(p) \/ Stop(p) \/ Start(p) \/ Ready(p)
  <2>1. /\ UNCHANGED <<file, backup, replaced, dir>>
        /\ \/ pc[p] = "generate" /\ pc'[p] \in {"stop", "backupCatalog"}
           \/ pc[p] = "stop" /\ pc'[p] = "backupCatalog"
           \/ pc[p] = "start" /\ pc'[p] = "dropCatalog"
           \/ pc[p] = "ready" /\ pc'[p] = "done"
    BY <1>5 DEF Generate, Stop, Start, Ready, Goto, TypeOK, locals, files
  <2> QED
    BY <1>3, <1>4, <2>1
<1>6. CASE UnlinkCandidates(p) \/ Restart(p) \/ Failed(p)
  <2>1. /\ UNCHANGED <<file, backup, replaced, dir>>
        /\ \/ pc[p] = "undo" /\ pc'[p] = "restoreCatalog"
           \/ pc[p] = "restart" /\ pc'[p] = "failed"
           \/ pc[p] = "failed" /\ pc'[p] = "raised"
    BY <1>6 DEF UnlinkCandidates, Restart, Failed, Goto, TypeOK, locals, files
  <2> QED
    BY <1>3, <1>4, <2>1
<1>7. CASE Raise(p) \/ GenerateFails(p) \/ StopFails(p) \/ StartFails(p)
  <2>1. UNCHANGED <<file, backup, replaced, dir>> /\ pc'[p] \in {"undo", "raised"}
    BY <1>7 DEF Raise, GenerateFails, StopFails, StartFails, RaiseAt, Goto, TypeOK, locals, files
  <2> QED
    BY <1>3, <1>4, <2>1
<1>8. CASE Begin(p)
  <2>1. /\ UNCHANGED <<file, backup, replaced>>
        /\ \A h \in Generation \ {g} : dir'[h] = dir[h]
        /\ pc'[p] = "prepare"
        /\ \A f \in File : file[f] # g /\ edit.text # g /\ backup[<<f, g>>] = None
    BY <1>4, <1>8 DEF Begin, Goto, TypeOK, Untouched
  <2>2. \A f \in File : Live(f) # g /\ backup[<<f, g>>] # g
    BY <1>1, <2>1 DEF Live
  <2> QED
    BY <1>3, <1>4, <2>1, <2>2
<1>9. CASE Prepare(p) \/ PrepareFails(p)
  <2>1. /\ UNCHANGED <<file, backup, replaced>>
        /\ pc[p] = "prepare" /\ pc'[p] \in {"generate", "undo"}
        /\ \A h \in Generation \ {g} : dir'[h] = dir[h]
        /\ pc'[p] = "generate" => dir'[g] = "staged"
        /\ dir'[g] \in {"partial", "staged"}
    BY <1>1, <1>4, <1>9 DEF Prepare, PrepareFails, RaiseAt, Goto, TypeOK, locals
  <2> QED
    BY <1>3, <1>4, <2>1
<1>10. CASE Collect(p)
  <2>1. /\ UNCHANGED <<file, backup, replaced>> /\ dir'[g] = dir[g]
        /\ pc[p] = "collect" /\ pc'[p] = "ready"
    BY <1>1, <1>4, <1>10 DEF Collect, Remove, Obsolete, Goto, TypeOK, locals
  <2>2. \A f \in File : backup[<<f, g>>] = None /\ (Spoilt(f) \/ Live(f) = g)
    BY <1>4, <2>1
  <2>3. \A h \in Generation : dir'[h] = dir[h] \/ (h # g /\ h # None)
    BY <2>1, RefreshAssumption
  <2> QED
    BY <1>3, <1>4, <2>1, <2>2, <2>3
<1>11. CASE Discard(p)
  <2>1. /\ UNCHANGED <<file, backup, replaced>>
        /\ \A h \in Generation \ {g} : dir'[h] = dir[h]
        /\ pc[p] = "discard" /\ pc'[p] \in {"restart", "failed"}
    BY <1>4, <1>11 DEF Discard, Remove, Goto, TypeOK, locals
  <2> QED
    BY <1>3, <1>4, <2>1
<1>12. CASE DropBackups(p)
  <2>1. UNCHANGED <<file, dir, replaced>>
    BY <1>12 DEF DropBackups, DropBackup, locals
  <2>2. PICK f \in File :
           /\ \A e \in File : backup'[<<e, g>>] = IF e = f THEN None ELSE backup[<<e, g>>]
           /\ \/ f = "catalog" /\ pc[p] = "dropCatalog" /\ pc'[p] = "dropMapfile"
              \/ f = "mapfile" /\ pc[p] = "dropMapfile" /\ pc'[p] = "collect"
    BY <1>4, <1>12 DEF DropBackups, DropBackup, Goto, TypeOK, File
  <2>3. \A e \in File : Live(e)' = Live(e) /\ (Spoilt(e) => Spoilt(e)')
    BY <1>2, <2>1
  <2>4. NoDanglingPointer'
    BY <2>1, <2>3 DEF NoDanglingPointer
  <2>5. \A e \in File : pc'[p] \in NoBackupAt(e) => backup'[<<e, g>>] = None
    BY <1>4, <2>2 DEF File
  <2>6. None \notin Generation
    BY RefreshAssumption
  <2>7. \A e \in File : Spoilt(e) \/ HeldInv(p, e)'
    BY <1>1, <1>4, <2>1, <2>2, <2>3, <2>6 DEF HeldInv, File
  <2>8. SwapInv(p)'
    BY <1>1, <1>4, <2>1, <2>2, <2>3, <2>5, <2>7 DEF SwapInv
  <2> QED
    BY <2>4, <2>8
<1>13. CASE BackupFiles(p)
  <2>1. PICK f \in File, step \in TrySteps, next \in {"backupMapfile", "installCatalog"} :
           Backup(p, f, step, next)
    BY <1>13 DEF BackupFiles, File
  <2>2. /\ dir' = dir /\ replaced' = replaced /\ pc'[p] = next /\ dir[g] = "staged"
        /\ file'[f] = None /\ \A e \in File : e # f => file'[e] = file[e]
    BY <1>4, <1>13, <2>1 DEF Backup, BackupFiles, Goto, TypeOK, locals
  <2>3. \A e \in File : backup'[<<e, g>>] = IF e = f THEN file[f] ELSE backup[<<e, g>>]
    BY <1>1, <1>4, <2>1 DEF Backup, TypeOK
  <2>4. \A e \in File : Spoilt(e) \/ Live(e) # g
    BY <1>4, <1>13 DEF BackupFiles, Backup, File
  <2>5. \A e \in File :
           \/ Spoilt(e)'
           \/ /\ ~Spoilt(e)
              /\ IF e = f THEN Live(e)' = None /\ (Live(e) = file[e] \/ file[e] = None)
                 ELSE Live(e)' = Live(e)
    <3>1. file'[f] # Open /\ (file[f] = None => file[f] # Open)
      BY <2>2, RefreshAssumption
    <3> QED
      BY <1>2, <2>2, <3>1 DEF Live
  <2>6. None \notin Generation
    BY RefreshAssumption
  <2>7. NoDanglingPointer'
    BY <2>2, <2>5, <2>6 DEF NoDanglingPointer
  <2>8. \A e \in File : Spoilt(e)' \/ HeldInv(p, e)'
    <3> SUFFICES ASSUME NEW e \in File, ~Spoilt(e)' PROVE HeldInv(p, e)'
      OBVIOUS
    <3>1. CASE e = f
      <4>1. Live(e)' = None /\ (backup'[<<e, g>>] = Live(e) \/ backup'[<<e, g>>] = None)
        BY <2>3, <2>5, <3>1
      <4>2. Live(e) # g /\ (Live(e) \in Generation => dir[Live(e)] = "staged")
        BY <2>4, <2>5 DEF NoDanglingPointer
      <4> QED
        BY <1>1, <2>2, <2>6, <4>1, <4>2 DEF HeldInv
    <3>2. CASE e # f
      <4>1. Live(e)' = Live(e) /\ backup'[<<e, g>>] = backup[<<e, g>>] /\ ~Spoilt(e)
        BY <2>3, <2>5, <3>2
      <4> QED
        BY <1>1, <1>4, <2>2, <2>4, <4>1 DEF HeldInv
    <3> QED
      BY <3>1, <3>2
  <2>9. SwapInv(p)'
    BY <1>1, <1>4, <2>2, <2>8 DEF SwapInv
  <2> QED
    BY <2>7, <2>9
<1>14. CASE InstallFiles(p)
  <2>1. PICK f \in File, next \in Steps :
           /\ Install(p, f, IF f = "catalog" THEN "installCatalog" ELSE "installMapfile", next)
           /\ next \in (IF f = "catalog" THEN {"installMapfile"} ELSE {"start", "dropCatalog"})
    BY <1>14 DEF InstallFiles, File, Steps
  <2>2. /\ UNCHANGED <<dir, backup>> /\ dir[g] = "staged"
        /\ file'[f] = g /\ \A e \in File : e # f => file'[e] = file[e]
        /\ \A e \in File : e \in replaced'[p] <=> e \in replaced[p] \/ e = f
    BY <1>4, <2>1 DEF Install, TypeOK, File
  <2>3. \/ f = "catalog" /\ pc[p] = "installCatalog" /\ pc'[p] = "installMapfile"
        \/ f = "mapfile" /\ pc[p] = "installMapfile" /\ pc'[p] \in {"start", "dropCatalog"}
    BY <2>1 DEF Install, Goto, TypeOK, File
  <2>4. \A e \in File :
           \/ Spoilt(e)'
           \/ ~Spoilt(e) /\ (IF e = f THEN Live(e)' = g ELSE Live(e)' = Live(e))
    <3>1. file'[f] # Open
      BY <1>1, <2>2, RefreshAssumption
    <3> QED
      BY <1>2, <2>2, <3>1 DEF Live
  <2>5. NoDanglingPointer'
    BY <2>2, <2>4 DEF NoDanglingPointer
  <2>6. \A e \in File : Spoilt(e)' \/ HeldInv(p, e)'
    BY <1>1, <1>4, <2>2, <2>3, <2>4 DEF HeldInv, File
  <2>7. SwapInv(p)'
    BY <1>1, <1>4, <2>2, <2>3, <2>6 DEF SwapInv, File
  <2> QED
    BY <2>5, <2>7
<1>15. CASE RestoreFiles(p)
  <2>1. PICK f \in File, step \in UndoSteps, next \in UndoSteps :
           /\ Restore(p, f, step, next)
           /\ \/ f = "catalog" /\ step = "restoreCatalog" /\ next = "restoreMapfile"
              \/ f = "mapfile" /\ step = "restoreMapfile" /\ next = "discard"
    BY <1>15 DEF RestoreFiles, File
  <2>2. \/ f = "catalog" /\ pc[p] = "restoreCatalog" /\ pc'[p] = "restoreMapfile"
        \/ f = "mapfile" /\ pc[p] = "restoreMapfile" /\ pc'[p] = "discard"
    BY <2>1 DEF Restore, Goto, TypeOK
  <2>3. /\ dir' = dir /\ replaced' = replaced
        /\ \A e \in File : backup'[<<e, g>>] = IF e = f THEN None ELSE backup[<<e, g>>]
    BY <1>1, <1>4, <2>1 DEF Restore, TypeOK, locals
  <2>4. IF backup[<<f, g>>] # None \/ f \in replaced[p]
        THEN file' = [file EXCEPT ![f] = backup[<<f, g>>]]
        ELSE file' = file
    BY <1>4, <2>1 DEF Restore, MustRestore
  <2>5. /\ \A e \in File : e # f => file'[e] = file[e]
        /\ file'[f] \in {file[f], backup[<<f, g>>]}
        /\ f \in replaced[p] => file'[f] = backup[<<f, g>>]
    BY <2>4 DEF TypeOK
  <2>6. \A e \in File :
           \/ Spoilt(e)'
           \/ /\ ~Spoilt(e)
              /\ e # f => Live(e)' = Live(e)
              /\ e = f => Live(e)' \in {Live(e), backup[<<f, g>>]} /\ Live(e)' # g
    <3> SUFFICES ASSUME NEW e \in File, ~Spoilt(e)'
                 PROVE  /\ ~Spoilt(e)
                        /\ e # f => Live(e)' = Live(e)
                        /\ e = f => Live(e)' \in {Live(e), backup[<<f, g>>]} /\ Live(e)' # g
      OBVIOUS
    <3>1. ~Spoilt(e) /\ (file'[e] = file[e] => Live(e)' = Live(e))
      BY <1>2
    <3>2. CASE e # f
      BY <2>5, <3>1, <3>2
    <3>3. CASE e = f /\ file'[f] = file[f]
      <4>1. Live(e)' = Live(e)
        BY <3>1, <3>3
      <4>2. f \in replaced[p] => Live(e)' # g
        <5>1. Live(e) = file[e] \/ file[f] = Open
          BY <3>3 DEF Live
        <5>2. f \in replaced[p] => file[f] = backup[<<f, g>>] /\ backup[<<f, g>>] # g
          BY <1>4, <2>5, <3>1, <3>3
        <5>3. f \in replaced[p] => file[f] # Open
          BY <1>1, <5>2, <3>1, <3>3 DEF EditInv, Spoilt, File
        <5> QED
          BY <3>3, <4>1, <5>1, <5>2, <5>3
      <4> QED
        BY <1>4, <3>1, <3>3, <4>1, <4>2
    <3>4. CASE e = f /\ file'[f] # file[f]
      <4>1. Live(e)' = file'[e] /\ file'[e] = backup[<<f, g>>]
        BY <1>2, <2>5, <3>4
      <4> QED
        BY <1>4, <3>1, <3>4, <4>1
    <3> QED
      BY <3>2, <3>3, <3>4
  <2>7. None \notin Generation
    BY RefreshAssumption
  <2>8. NoDanglingPointer'
    BY <1>4, <2>3, <2>6 DEF NoDanglingPointer
  <2>9. \A e \in File : Spoilt(e)' \/ HeldInv(p, e)'
    BY <1>1, <1>4, <2>2, <2>3, <2>6, <2>7 DEF HeldInv, File
  <2>10. SwapInv(p)'
    BY <1>1, <1>4, <2>2, <2>3, <2>9 DEF SwapInv, File
  <2> QED
    BY <2>8, <2>10
<1> QED
  BY <1>5, <1>6, <1>7, <1>8, <1>9, <1>10, <1>11, <1>12, <1>13, <1>14, <1>15 DEF Work, Fault

-----------------------------------------------------------------------------
(* The invariant *)

LEMMA InitInv == Init => IInv
<1> SUFFICES ASSUME Init PROVE IInv
  OBVIOUS
<1>1. TypeOK
  BY InitTypes
<1>2. \A g \in Generation : Untouched(g)
  BY RefreshAssumption DEF Init, Untouched, NoEdit
<1>3. \A p \in Proc : pc[p] = "idle" /\ ~Busy(p)
  BY DEF Init, Busy, TrySteps, UndoSteps
<1>4. NoDanglingPointer
  BY RefreshAssumption DEF Init, NoDanglingPointer, Live
<1>5. EditInv
  <2>1. /\ \A f \in File : file[f] = Seed
        /\ \A f \in File, h \in Generation : backup[<<f, h>>] = None
        /\ edit.step = "none" /\ edit.text = None
    BY DEF Init, NoEdit
  <2> QED
    BY <2>1, RefreshAssumption DEF EditInv, File
<1> QED
  BY <1>1, <1>2, <1>3, <1>4, <1>5 DEF IInv, LockInv, IdInv, FreshInv

LEMMA WorkInv ==
    ASSUME IInv, NEW p \in Proc, Work(p)
    PROVE  LockInv' /\ IdInv' /\ FreshInv' /\ EditInv' /\ (\A q \in Proc : Busy(q)' => SwapInv(q)')
           /\ NoDanglingPointer'
<1>1. TypeOK
  BY DEF IInv
<1>2. /\ Busy(p) /\ lock = p
      /\ UNCHANGED <<lock, gen, used>>
      /\ \A q \in Proc : q # p => pc'[q] = pc[q]
      /\ pc'[p] \notin {"idle", "lock", "begin"}
      /\ gen[p] \in Generation
      /\ Moves(p)
  BY <1>1, WorkFrame DEF IInv, LockInv
<1>3. LockInv' /\ \A q \in Proc : q # p => ~Busy(q)'
  BY <1>2 DEF LockInv, IInv, Busy
<1>4. pc[p] # "idle"
  BY <1>2 DEF Busy, TrySteps, UndoSteps
<1>5. IdInv'
  BY <1>2, <1>4 DEF IInv, IdInv
<1>6. FreshInv'
  <2>1. ASSUME NEW g \in Generation \ used PROVE Untouched(g)'
    <3>1. g # gen[p] /\ Untouched(g)
      BY <1>4 DEF IInv, IdInv, FreshInv
    <3> QED
      BY <1>2, <3>1, UntouchedKept
  <2>2. ASSUME NEW q \in Proc, pc'[q] \in {"lock", "begin"} PROVE Untouched(gen[q])'
    <3>1. q # p /\ pc[q] \in {"lock", "begin"}
      BY <1>2, <2>2
    <3>2. gen[q] # gen[p] /\ gen[q] \in Generation /\ Untouched(gen[q]) /\ gen'[q] = gen[q]
      BY <1>1, <1>2, <1>4, <3>1 DEF IInv, IdInv, FreshInv, TypeOK
    <3>3. \A g \in Generation : g = gen[q] => Untouched(g)'
      BY <1>2, <3>2, UntouchedKept
    <3> QED
      BY <3>2, <3>3 DEF Untouched
  <2> QED
    BY <1>2, <2>1, <2>2 DEF FreshInv
<1>7. (Busy(p)' => SwapInv(p)') /\ NoDanglingPointer'
  <2>1. pc[p] = "begin" => Untouched(gen[p])
    BY DEF IInv, FreshInv
  <2> QED
    BY <1>1, <1>2, <2>1, WorkSwap DEF IInv
<1>8. EditInv'
  BY <1>2, MovesEdit DEF IInv
<1> QED
  BY <1>3, <1>5, <1>6, <1>7, <1>8

\* A step outside refresh() moves no file.
Outside(p) ==
    StartContainer(p) \/ PostRefresh(p) \/ Lock(p) \/ LockBusy(p) \/ Exit(p) \/ Kill(p)

LEMMA OutsideLive ==
    ASSUME EditInv, TypeOK, NEW p \in Proc, Outside(p)
    PROVE  /\ UNCHANGED <<file, backup, dir, spoilt>>
           /\ \A f \in File : (Live(f)' = Live(f)) /\ (Spoilt(f)' <=> Spoilt(f))
           /\ EditInv'
           /\ edit'.text \in {edit.text, None}
<1>1. UNCHANGED <<file, backup, dir, spoilt>>
  BY DEF Outside, StartContainer, PostRefresh, Lock, LockBusy, Exit, Kill, files
<1>2. CASE edit' = edit
  <2>1. \A f \in File : (Live(f)' = Live(f)) /\ (Spoilt(f)' <=> Spoilt(f))
    BY <1>1, <1>2 DEF Live, Spoilt
  <2>2. phase' = "running" \/ phase # "running"
    BY <1>2 DEF Outside, StartContainer, PostRefresh, Lock, LockBusy, Exit, Kill, admin, Serving
  <2>3. EditInv'
    BY <1>1, <1>2, <2>2 DEF EditInv
  <2> QED
    BY <1>1, <1>2, <2>1, <2>3
<1>3. CASE edit' # edit
  <2>1. phase = "booting" /\ phase' = "running" /\ edit' = StartEdit
    BY <1>3 DEF Outside, StartContainer, PostRefresh, Lock, LockBusy, Exit, Kill, admin
  <2>2. \A f \in File : file[f] # Open /\ \A h \in Generation : backup[<<f, h>>] # Open
    BY <2>1 DEF EditInv
  <2>3. edit'.step = "read" /\ edit'.text = None /\ None # Open
    BY <2>1, RefreshAssumption DEF StartEdit, NoEdit
  <2>4. \A f \in File : (Live(f)' = Live(f)) /\ (Spoilt(f)' <=> Spoilt(f))
    BY <1>1, <2>2 DEF Live, Spoilt
  <2>5. EditInv'
    BY <1>1, <2>1, <2>2, <2>3 DEF EditInv, File
  <2> QED
    BY <1>1, <2>3, <2>4, <2>5
<1> QED
  BY <1>2, <1>3

LEMMA OutsideInv ==
    ASSUME IInv, NEW p \in Proc, Outside(p)
    PROVE  LockInv' /\ IdInv' /\ FreshInv' /\ EditInv' /\ (\A q \in Proc : Busy(q)' => SwapInv(q)')
           /\ NoDanglingPointer'
<1> USE DEF Goto
<1>1. /\ TypeOK /\ UNCHANGED <<file, backup, dir, spoilt>>
      /\ \A f \in File : (Live(f)' = Live(f)) /\ (Spoilt(f)' <=> Spoilt(f))
      /\ EditInv' /\ edit'.text \in {edit.text, None}
  BY OutsideLive DEF IInv
<1>2. /\ \A f \in File : (Live(f)' = Live(f)) /\ (Spoilt(f)' <=> Spoilt(f))
      /\ EditInv'
      /\ NoDanglingPointer'
      /\ \A g \in Generation : Untouched(g) => Untouched(g)'
  <2>1. NoDanglingPointer'
    BY <1>1 DEF IInv, NoDanglingPointer
  <2>2. \A g \in Generation : Untouched(g) => Untouched(g)'
    BY <1>1, RefreshAssumption DEF Untouched
  <2> QED
    BY <1>1, <2>1, <2>2
<1>3. CASE Spawn(p) /\ UNCHANGED lock
  <2>1. PICK g \in Generation \ used :
           /\ gen' = [gen EXCEPT ![p] = g] /\ used' = used \union {g}
           /\ pc' = [pc EXCEPT ![p] = "lock"] /\ pc[p] = "idle"
    BY <1>3 DEF Spawn
  <2>2. /\ gen'[p] = g /\ pc'[p] = "lock"
        /\ \A q \in Proc : q # p => gen'[q] = gen[q] /\ pc'[q] = pc[q]
    BY <1>1, <2>1 DEF TypeOK
  <2>3. \A q \in Proc : Busy(q)' => q # p /\ Busy(q)
    BY <2>2 DEF Busy, TrySteps, UndoSteps
  <2>4. \A q \in Proc : q # p => replaced'[q] = replaced[q]
    BY <1>1, <1>3 DEF Spawn, TypeOK
  <2>5. \A q \in Proc : Busy(q)' => SwapInv(q)'
    BY <1>1, <1>2, <2>2, <2>3, <2>4 DEF IInv, SwapInv, HeldInv
  <2>6. LockInv'
    BY <1>3, <2>3 DEF IInv, LockInv
  <2>7. IdInv'
    BY <2>1, <2>2 DEF IInv, IdInv
  <2>8. FreshInv'
    <3>1. \A h \in Generation \ used' : Untouched(h)'
      BY <1>2, <2>1 DEF IInv, FreshInv
    <3>2. Untouched(g)'
      BY <1>2, <2>1 DEF IInv, FreshInv
    <3>3. ASSUME NEW q \in Proc, pc'[q] \in {"lock", "begin"} PROVE Untouched(gen[q])'
      <4>1. CASE q = p
        BY <2>2, <3>2, <4>1 DEF Untouched
      <4>2. CASE q # p
        <5>1. gen[q] \in Generation /\ gen'[q] = gen[q] /\ Untouched(gen[q])
          BY <1>1, <2>2, <3>3, <4>2 DEF IInv, FreshInv, TypeOK
        <5> QED
          BY <1>2, <5>1 DEF Untouched
      <4> QED
        BY <4>1, <4>2
    <3> QED
      BY <3>1, <3>3 DEF FreshInv
  <2> QED
    BY <1>2, <2>5, <2>6, <2>7, <2>8
<1>4. CASE Lock(p)
  <2>1. /\ lock = None /\ lock' = p /\ UNCHANGED <<gen, used, replaced>>
        /\ pc[p] = "lock" /\ pc'[p] = "begin"
        /\ \A q \in Proc : q # p => pc'[q] = pc[q]
    BY <1>1, <1>4 DEF Lock, LockFree, TypeOK, locals
  <2>2. \A q \in Proc : ~Busy(q)
    BY <2>1, RefreshAssumption DEF IInv, LockInv
  <2>3. \A q \in Proc : Busy(q)' => q = p
    BY <2>1, <2>2 DEF Busy
  <2>4. LockInv'
    BY <2>1, <2>3 DEF LockInv
  <2>5. IdInv'
    BY <2>1 DEF IInv, IdInv
  <2>6. \A q \in Proc : pc'[q] \in {"lock", "begin"} => pc[q] \in {"lock", "begin"}
    BY <2>1
  <2>7. FreshInv'
    <3>1. \A q \in Proc : pc'[q] \in {"lock", "begin"} =>
              gen[q] \in Generation /\ gen'[q] = gen[q] /\ Untouched(gen[q])
      BY <1>1, <2>1, <2>6 DEF IInv, FreshInv, TypeOK
    <3>2. \A q \in Proc : pc'[q] \in {"lock", "begin"} => Untouched(gen[q])'
      BY <1>2, <3>1 DEF Untouched
    <3> QED
      BY <1>2, <2>1, <3>2 DEF IInv, FreshInv
  <2>8. SwapInv(p)'
    <3>1. Untouched(gen[p]) /\ gen[p] \in Generation
      BY <1>1, <2>1 DEF IInv, FreshInv, TypeOK
    <3> QED
      BY <1>1, <1>2, <2>1, <3>1, RefreshAssumption
      DEF SwapInv, HeldInv, Untouched, Live, StagedAt, NotInstalledAt, InstalledAt, NoBackupAt,
          TrySteps
  <2> QED
    BY <1>2, <2>3, <2>4, <2>5, <2>7, <2>8
<1>5. CASE LockBusy(p) \/ Exit(p) \/ Kill(p)
  <2>1. /\ UNCHANGED <<gen, used, replaced>>
        /\ pc[p] # "idle" /\ pc'[p] \in {"idle", "raised"}
        /\ \A q \in Proc : q # p => pc'[q] = pc[q]
        /\ lock' = lock \/ (lock = p /\ lock' = None)
    BY <1>1, <1>5 DEF LockBusy, Exit, Kill, TypeOK, locals
  <2>2. \A q \in Proc : Busy(q)' => q # p /\ Busy(q)
    BY <2>1 DEF Busy, TrySteps, UndoSteps
  <2>3. LockInv'
    BY <2>1, <2>2 DEF IInv, LockInv
  <2>4. IdInv'
    BY <2>1 DEF IInv, IdInv
  <2>5. \A q \in Proc : pc'[q] \in {"lock", "begin"} => pc[q] \in {"lock", "begin"}
    BY <2>1
  <2>6. FreshInv'
    <3>1. \A q \in Proc : pc'[q] \in {"lock", "begin"} =>
              gen[q] \in Generation /\ gen'[q] = gen[q] /\ Untouched(gen[q])
      BY <1>1, <2>1, <2>5 DEF IInv, FreshInv, TypeOK
    <3>2. \A q \in Proc : pc'[q] \in {"lock", "begin"} => Untouched(gen[q])'
      BY <1>2, <3>1 DEF Untouched
    <3> QED
      BY <1>2, <2>1, <3>2 DEF IInv, FreshInv
  <2>7. \A q \in Proc : Busy(q)' => SwapInv(q)'
    BY <1>1, <1>2, <2>1, <2>2 DEF IInv, SwapInv, HeldInv
  <2> QED
    BY <1>2, <2>3, <2>4, <2>6, <2>7
<1> QED
  BY <1>3, <1>4, <1>5 DEF Outside, StartContainer, PostRefresh

\* A step of the admin process leaves a mapfile as it is, but for the moment of
\* its write, or spoils it.
LEMMA AdminLive ==
    ASSUME EditInv, TypeOK, AdminStep \/ KillContainer
    PROVE  /\ EditInv'
           /\ spoilt => spoilt'
           /\ \A f \in File : Spoilt(f)' \/ (~Spoilt(f) /\ Live(f)' = Live(f))
           /\ \A f \in File, h \in Generation :
                 /\ backup[<<f, h>>] # Open => backup'[<<f, h>>] = backup[<<f, h>>]
                 /\ backup'[<<f, h>>] \in {backup[<<f, h>>], edit.text, Empty}
                 /\ Spoilt(f)' \/ backup'[<<f, h>>] = backup[<<f, h>>]
           /\ \A f \in File : /\ file'[f] \in {file[f], edit.text, Empty, Open}
                              /\ f # "mapfile" => file'[f] = file[f]
           /\ edit'.text \in {edit.text, file["mapfile"], None}
           /\ file["catalog"] # Open
<1> USE RefreshAssumption DEF TypeOK, File
<1>1. file["catalog"] # Open /\ \A h \in Generation : backup[<<"catalog", h>>] # Open
  BY DEF EditInv
<1>2. ASSUME UNCHANGED <<file, backup>>, spoilt => spoilt',
             edit.step # "write" /\ edit'.step \notin {"truncate", "write"},
             phase' = "running" \/ edit'.step = "none", edit'.text = None \/ edit'.text = edit.text
      PROVE  EditInv' /\ \A f \in File : Spoilt(f)' \/ (~Spoilt(f) /\ Live(f)' = Live(f))
  <2>1. \A f \in File : file[f] # Open /\ \A h \in Generation : backup[<<f, h>>] # Open
    BY <1>2 DEF EditInv
  <2> QED
    BY <1>2, <2>1 DEF EditInv, Live, Spoilt
\* The text is written, wherever the open file is by now.
<1>3. ASSUME NEW text, text \in {edit.text, Empty}, Fill(text),
             edit'.step \notin {"truncate", "write"},
             phase' = "running" \/ edit'.step = "none", edit'.text = None,
             \/ text = edit.text /\ edit.step = "write" /\ (spoilt => spoilt')
             \/ spoilt' = (spoilt \/ edit.step = "write")
      PROVE  /\ EditInv'
             /\ \A f \in File : Spoilt(f)' \/ (~Spoilt(f) /\ Live(f)' = Live(f))
             /\ \A f \in File, h \in Generation :
                   /\ backup[<<f, h>>] # Open => backup'[<<f, h>>] = backup[<<f, h>>]
                   /\ backup'[<<f, h>>] \in {backup[<<f, h>>], edit.text, Empty}
                   /\ Spoilt(f)' \/ backup'[<<f, h>>] = backup[<<f, h>>]
             /\ \A f \in File : /\ file'[f] \in {file[f], edit.text, Empty}
                                /\ f # "mapfile" => file'[f] = file[f]
  <2>1. /\ \A f \in File : file'[f] = IF file[f] = Open THEN text ELSE file[f]
        /\ \A f \in File, h \in Generation :
              backup'[<<f, h>>] = IF backup[<<f, h>>] = Open THEN text ELSE backup[<<f, h>>]
    BY <1>3 DEF Fill
  <2>2. text # Open
    BY <1>3 DEF EditInv
  <2>3. EditInv'
    BY <1>3, <2>1, <2>2 DEF EditInv
  <2>4. ASSUME NEW f \in File
        PROVE  /\ Spoilt(f)' \/ (~Spoilt(f) /\ Live(f)' = Live(f))
               /\ \A h \in Generation : Spoilt(f)' \/ backup'[<<f, h>>] = backup[<<f, h>>]
    <3>1. CASE file[f] # Open /\ \A h \in Generation : backup[<<f, h>>] # Open
      <4>1. file'[f] = file[f] /\ \A h \in Generation : backup'[<<f, h>>] = backup[<<f, h>>]
        BY <2>1, <3>1
      <4> QED
        BY <1>3, <3>1, <4>1 DEF Live, Spoilt
    <3>2. CASE ~(file[f] # Open /\ \A h \in Generation : backup[<<f, h>>] # Open)
      <4>1. f = "mapfile" /\ edit.step = "write"
        BY <3>2 DEF EditInv
      <4>2. CASE spoilt'
        BY <4>1, <4>2 DEF Spoilt
      <4>3. CASE ~spoilt' /\ ~spoilt /\ text = edit.text
        <5>1. file[f] = Open /\ \A h \in Generation : backup[<<f, h>>] # Open
          BY <4>1, <4>3 DEF EditInv
        <5>2. file'[f] = edit.text /\ \A h \in Generation : backup'[<<f, h>>] = backup[<<f, h>>]
          BY <2>1, <4>3, <5>1
        <5> QED
          BY <2>2, <4>1, <4>3, <5>1, <5>2 DEF Live, Spoilt
      <4> QED
        BY <1>3, <4>1, <4>2, <4>3
    <3> QED
      BY <3>1, <3>2
  <2> QED
    BY <1>1, <1>3, <2>1, <2>3, <2>4
<1>4. CASE AdminRestart
  BY <1>1, <1>3, <1>4 DEF AdminRestart, CutShort, StartEdit, NoEdit
<1>5. CASE WriteFails
  BY <1>1, <1>3, <1>5 DEF WriteFails, CutShort, NoEdit
<1>6. CASE KillContainer
  BY <1>1, <1>3, <1>6 DEF KillContainer, CutShort, NoEdit
<1>7. CASE WriteMapfile
  BY <1>1, <1>3, <1>7 DEF WriteMapfile, AfterEdit, NoEdit, EditInv
<1>8. CASE PutSettings \/ AdminStops \/ AdminStarts
  <2>1. /\ UNCHANGED <<file, backup, phase>> /\ (spoilt => spoilt')
        /\ edit.step # "write" /\ edit'.step \notin {"truncate", "write"}
        /\ phase = "running" \/ edit.step # "none"
        /\ edit'.text = None \/ edit'.text = edit.text
    <3>1. CASE PutSettings
      BY <3>1 DEF PutSettings, NoEdit, files
    <3>2. CASE AdminStops
      BY <3>2 DEF AdminStops, files
    <3>3. CASE AdminStarts
      BY <3>3 DEF AdminStarts, NoEdit, files
    <3> QED
      BY <1>8, <3>1, <3>2, <3>3
  <2>2. phase' = "running"
    BY <2>1 DEF EditInv
  <2> QED
    BY <1>1, <1>2, <2>1, <2>2
<1>9. CASE ReadMapfile
  <2>1. CASE file["mapfile"] = None
    BY <1>1, <1>2, <1>9, <2>1 DEF ReadMapfile, AfterEdit, NoEdit, files, EditInv
  <2>2. CASE file["mapfile"] # None
    <3>1. /\ UNCHANGED <<phase, file, backup, spoilt>> /\ edit.step = "read"
          /\ edit'.step = "truncate" /\ edit'.text = file["mapfile"]
      BY <1>9, <2>2 DEF ReadMapfile, files
    <3>2. \A f \in File : file[f] # Open /\ \A h \in Generation : backup[<<f, h>>] # Open
      BY <3>1 DEF EditInv
    <3>3. EditInv'
      BY <3>1, <3>2 DEF EditInv
    <3> QED
      BY <1>1, <3>1, <3>2, <3>3 DEF Live, Spoilt
  <2> QED
    BY <2>1, <2>2
<1>10. CASE TruncateMapfile
  <2>1. /\ UNCHANGED <<phase, backup, spoilt>> /\ edit.step = "truncate"
        /\ edit'.step = "write" /\ edit'.text = edit.text
        /\ file' = [file EXCEPT !["mapfile"] = Open]
    BY <1>10 DEF TruncateMapfile
  <2>2. \A f \in File : file[f] # Open /\ \A h \in Generation : backup[<<f, h>>] # Open
    BY <2>1 DEF EditInv
  <2>3. EditInv'
    BY <2>1, <2>2 DEF EditInv
  <2>4. spoilt \/ Live("mapfile")' = Live("mapfile")
    BY <2>1, <2>2 DEF Live, EditInv
  <2>5. Live("catalog")' = Live("catalog")
    BY <2>1, <2>2 DEF Live
  <2> QED
    BY <1>1, <2>1, <2>2, <2>3, <2>4, <2>5 DEF Spoilt
<1> QED
  BY <1>4, <1>5, <1>6, <1>7, <1>8, <1>9, <1>10 DEF AdminStep

LEMMA AdminInv ==
    ASSUME IInv, AdminStep \/ KillContainer
    PROVE  LockInv' /\ IdInv' /\ FreshInv' /\ EditInv' /\ (\A q \in Proc : Busy(q)' => SwapInv(q)')
           /\ NoDanglingPointer'
<1>1. TypeOK /\ EditInv
  BY DEF IInv
<1>2. /\ UNCHANGED <<gen, used, replaced, dir>>
      /\ (pc' = pc /\ lock' = lock) \/ pc' = [q \in Proc |-> "idle"]
  BY DEF AdminStep, AdminRestart, PutSettings, ReadMapfile, TruncateMapfile, WriteMapfile,
         WriteFails, AdminStops, AdminStarts, KillContainer, locals, files
<1>3. \A g \in Generation : Untouched(g) => Untouched(g)'
  <2> SUFFICES ASSUME NEW g \in Generation, Untouched(g), NEW f \in File
               PROVE  /\ file'[f] # g /\ edit'.text # g
                      /\ backup'[<<f, g>>] = None
                      /\ \A h \in Generation : backup'[<<f, h>>] # g
    BY DEF Untouched
  <2>1. /\ file[f] # g /\ edit.text # g /\ file["mapfile"] # g
        /\ backup[<<f, g>>] = None /\ \A h \in Generation : backup[<<f, h>>] # g
    BY DEF Untouched, File
  <2>2. g # None /\ g # Empty /\ g # Open /\ None # Open
    BY RefreshAssumption
  <2>3. /\ file'[f] \in {file[f], edit.text, Empty, Open}
        /\ edit'.text \in {edit.text, file["mapfile"], None}
        /\ \A h \in Generation :
              /\ backup[<<f, h>>] # Open => backup'[<<f, h>>] = backup[<<f, h>>]
              /\ backup'[<<f, h>>] \in {backup[<<f, h>>], edit.text, Empty}
    BY <1>1, AdminLive
  <2> QED
    BY <2>1, <2>2, <2>3
<1>4. NoDanglingPointer'
  BY <1>1, <1>2, AdminLive DEF IInv, NoDanglingPointer
<1>5. \A q \in Proc : pc'[q] = pc[q] \/ pc'[q] = "idle"
  BY <1>2
<1>6. \A q \in Proc : Busy(q)' => Busy(q) /\ pc' = pc /\ lock' = lock
  BY <1>2 DEF Busy, TrySteps, UndoSteps
<1>7. LockInv' /\ IdInv'
  BY <1>2, <1>5, <1>6 DEF IInv, LockInv, IdInv
<1>8. FreshInv'
  <2>1. \A q \in Proc : pc'[q] \in {"lock", "begin"} =>
            gen[q] \in Generation /\ gen'[q] = gen[q] /\ Untouched(gen[q])
    BY <1>1, <1>2, <1>5 DEF IInv, FreshInv, TypeOK
  <2>2. \A q \in Proc : pc'[q] \in {"lock", "begin"} => Untouched(gen[q])'
    BY <1>3, <2>1 DEF Untouched
  <2> QED
    BY <1>2, <1>3, <2>2 DEF IInv, FreshInv
<1>9. ASSUME NEW q \in Proc, Busy(q)' PROVE SwapInv(q)'
  <2>1. SwapInv(q) /\ pc' = pc /\ gen[q] \in Generation /\ gen' = gen
    BY <1>1, <1>2, <1>6, <1>9 DEF IInv, TypeOK, Busy, TrySteps, UndoSteps
  <2>2. \A f \in File :
            /\ Spoilt(f)' \/ (~Spoilt(f) /\ Live(f)' = Live(f))
            /\ backup[<<f, gen[q]>>] # Open => backup'[<<f, gen[q]>>] = backup[<<f, gen[q]>>]
            /\ Spoilt(f)' \/ backup'[<<f, gen[q]>>] = backup[<<f, gen[q]>>]
    BY <1>1, <2>1, AdminLive
  <2>3. \A f \in File : Spoilt(f)' \/ HeldInv(q, f)'
    BY <1>2, <2>1, <2>2 DEF SwapInv, HeldInv, NotInstalledAt, InstalledAt
  <2> QED
    BY <1>2, <2>1, <2>2, <2>3, RefreshAssumption DEF SwapInv, StagedAt, NoBackupAt
<1>10. EditInv'
  BY <1>1, AdminLive
<1> QED
  BY <1>4, <1>7, <1>8, <1>9, <1>10

LEMMA NextInv == IInv /\ [Next]_vars => IInv'
<1> SUFFICES ASSUME IInv, [Next]_vars PROVE IInv'
  OBVIOUS
<1>1. TypeOK'
  BY NextTypes DEF IInv
<1>2. ASSUME NEW p \in Proc, Work(p) PROVE IInv'
  BY <1>1, <1>2, WorkInv DEF IInv
<1>3. ASSUME NEW p \in Proc, Outside(p) PROVE IInv'
  BY <1>1, <1>3, OutsideInv DEF IInv
<1>4. CASE AdminStep \/ KillContainer
  BY <1>1, <1>4, AdminInv DEF IInv
<1>5. CASE UNCHANGED vars
  BY <1>1, <1>5
  DEF vars, IInv, LockInv, IdInv, FreshInv, EditInv, Untouched, Busy, SwapInv, HeldInv,
      NoDanglingPointer, Live, Spoilt
<1> QED
  BY <1>2, <1>3, <1>4, <1>5 DEF Next, Step, Work, Outside

THEOREM Invariant == Spec => []IInv
  BY InitInv, NextInv, PTL DEF Spec

\* Whatever steps fail and whatever is killed, with any number of processes and
\* refreshes, the catalog only ever names generations whose index files are
\* complete on the disk; so does the mapfile, as long as no edit of the admin
\* process has met its swap.
THEOREM NoDangling == Spec => []NoDanglingPointer
<1>1. IInv => NoDanglingPointer
  BY DEF IInv
<1> QED
  BY <1>1, Invariant, PTL

\* Two processes are never inside refresh() at once, also when an orphan of a
\* restarted admin process is still at work.
THEOREM OneRefresh == Spec => [](\A p, q \in Proc : Busy(p) /\ Busy(q) => p = q)
<1>1. IInv => \A p, q \in Proc : Busy(p) /\ Busy(q) => p = q
  BY DEF IInv, LockInv
<1> QED
  BY <1>1, Invariant, PTL
=============================================================================
