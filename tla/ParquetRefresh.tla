--------------------------- MODULE ParquetRefresh ---------------------------
(***************************************************************************)
(* The GeoParquet refresh controller: etc/parquet_refresh.py, the launcher *)
(* in etc/admin_api.py, and the part of etc/entrypoint.sh that runs it     *)
(* before supervisord.  A refresh stages a new immutable generation of     *)
(* index files, stops the MapServer workers, swaps collections.json and    *)
(* mapfile.map by renames, starts the workers, deletes the old generation  *)
(* and records the outcome in a status file; any exception runs the        *)
(* roll-back of its "except" branch.  Beside it the admin process edits    *)
(* mapfile.map, when it starts and when settings change: it reads the      *)
(* text, and later truncates the file and writes the text back.            *)
(*                                                                         *)
(* A file's content is the generation its entries name: the text of a      *)
(* catalog or a mapfile matters here only for the index files it points    *)
(* at.  Seed is the content bundled in the image, which names none.        *)
(***************************************************************************)

CONSTANTS
    Generation,  \* uuid4().hex ids a refresh may draw; the bound on the number of refreshes
    Proc,        \* slots for parquet_refresh.py processes; the bound on how many coexist
    Worker,      \* the mapserver fcgi processes of supervisord.conf
    Seed,        \* content of the files bundled in the image
    None,        \* no file, no process, no generation
    Open,        \* a file that the admin process has truncated and is writing
    Empty,       \* a file that was truncated and never written
    Down,        \* in place of what a worker has loaded: it does not run
    FaultSteps,  \* the steps of refresh() that may raise
    Disruptions  \* what else may happen, of the kinds below

File == {"catalog", "mapfile"}
Content == Generation \union {Seed, None, Open, Empty}

\* adminRestart: the admin process dies and is started again; settings: requests
\* that change them; partialStart: a failing start leaves some workers running.
Disruption == {"adminRestart", "settings", "kill", "partialStart"}

\* The statements of refresh() inside "try", in order.
TrySteps == {"prepare", "generate", "stop", "backupCatalog", "backupMapfile",
             "installCatalog", "installMapfile", "start",
             "dropCatalog", "dropMapfile", "collect", "ready"}
\* The statements of its "except" branch, in order.
UndoSteps == {"undo", "restoreCatalog", "restoreMapfile", "discard", "restart", "failed"}
\* Program counters of a process; "idle" is no process.
Steps == {"idle", "lock", "begin", "done", "raised"} \union TrySteps \union UndoSteps

\* Steps that can raise: LOCK_NB's failure is LockBusy, rmtree ignores errors.
MayRaise == ({"begin"} \union TrySteps \union UndoSteps) \ {"collect", "discard"}
\* Steps whose failure leaves more behind than an exception.
LeavingSteps == {"prepare", "generate", "stop", "start", "restart"}

ASSUME RefreshAssumption ==
    /\ {Seed, None, Open, Empty} \intersect Generation = {}
    /\ Seed # None /\ Open # Seed /\ Open # None
    /\ Empty # Seed /\ Empty # None /\ Empty # Open
    /\ Down \notin Content
    /\ None \notin Proc
    /\ FaultSteps \subseteq MayRaise
    /\ Disruptions \subseteq Disruption

VARIABLES
    phase,      \* the container: "down", "booting" (entrypoint.sh) or "running" (supervisord)
    loaded,     \* the mapfile each running worker has loaded when it started
    thread,     \* _PARQUET_REFRESH_THREAD: the process it waits for
    status,     \* the status file
    lock,       \* the process holding flock(LOCK_FILE)
    pc,         \* next step of each process
    gen,        \* generation_id of each process
    old,        \* old_generation_paths
    stopped,    \* workers_stopped
    replaced,   \* collections_replaced, mapfile_replaced
    file,       \* COLLECTIONS_FILE and MAPFILE
    candidate,  \* candidate_collections and candidate_mapfile files that exist
    backup,     \* content of backup_collections and backup_mapfile
    dir,        \* the generation directories
    used,       \* ids drawn so far: uuid4 does not repeat
    edit,       \* the admin process's edit of the mapfile: what is next, and its text
    spoilt      \* history: an edit of the mapfile met its swap, or was cut short

files  == <<file, candidate, backup, dir>>
locals == <<gen, old, stopped, replaced, used>>
admin  == <<phase, thread, edit>>
vars   == <<phase, loaded, thread, status, lock, pc, gen, old, stopped, replaced,
            file, candidate, backup, dir, used, edit, spoilt>>

up == {w \in Worker : loaded[w] # Down}

NoEdit == [step |-> "none", text |-> None, put |-> FALSE]

TypeOK ==
    /\ phase \in {"down", "booting", "running"}
    /\ loaded \in [Worker -> Content \union {Down}]
    /\ thread \in Proc \union {None}
    /\ status \in [state : {"not-run", "refreshing", "ready", "failed"},
                   generation : Generation \union {None}]
    /\ lock \in Proc \union {None}
    /\ pc \in [Proc -> Steps]
    /\ gen \in [Proc -> Generation \union {None}]
    /\ \A p \in Proc : pc[p] # "idle" => gen[p] \in Generation
    /\ old \in [Proc -> SUBSET Generation]
    /\ stopped \in [Proc -> BOOLEAN]
    /\ replaced \in [Proc -> SUBSET File]
    /\ file \in [File -> Content]
    /\ candidate \subseteq File \X Generation
    /\ backup \in [File \X Generation -> Content]
    /\ dir \in [Generation -> {"absent", "partial", "staged"}]
    /\ used \subseteq Generation
    /\ edit \in [step : {"none", "read", "truncate", "write", "stop", "start"},
                 text : Content, put : BOOLEAN]
    /\ spoilt \in BOOLEAN

Init ==
    /\ phase = "down" /\ thread = None /\ lock = None
    /\ loaded = [w \in Worker |-> Down]
    /\ status = [state |-> "not-run", generation |-> None]
    /\ pc = [p \in Proc |-> "idle"]
    /\ gen = [p \in Proc |-> None]
    /\ old = [p \in Proc |-> {}]
    /\ stopped = [p \in Proc |-> FALSE]
    /\ replaced = [p \in Proc |-> {}]
    /\ file = [f \in File |-> Seed]
    /\ candidate = {}
    /\ backup = [b \in File \X Generation |-> None]
    /\ dir = [g \in Generation |-> "absent"]
    /\ used = {}
    /\ edit = NoEdit
    /\ spoilt = FALSE

-----------------------------------------------------------------------------
(* The workers: supervisord leaves those alone that already run *)

Starts(ws) ==
    loaded' = [w \in Worker |->
                  IF w \in ws /\ loaded[w] = Down THEN file["mapfile"] ELSE loaded[w]]
Stops(ws) == loaded' = [w \in Worker |-> IF w \in ws THEN Down ELSE loaded[w]]

-----------------------------------------------------------------------------
(* The admin process's edits of the mapfile *)

\* It has read a text and not yet written it back.
Editing == edit.step \in {"truncate", "write"}

\* What it writes goes to the file it has opened, wherever that has been moved.
Fill(text) ==
    /\ file' = [f \in File |-> IF file[f] = Open THEN text ELSE file[f]]
    /\ backup' = [b \in File \X Generation |-> IF backup[b] = Open THEN text ELSE backup[b]]

\* The edit ends before the text is written: the file stays truncated.
CutShort ==
    /\ Fill(Empty)
    /\ spoilt' = (spoilt \/ edit.step = "write")

\* supervisord starts admin_api.py, which edits the mapfile before it serves.
\* If one ran before, its thread and its edit are gone; its refresh is not.
StartEdit == [NoEdit EXCEPT !.step = "read"]
Serving == phase = "running" /\ (edit.step = "none" \/ edit.put)

AdminRestart ==
    /\ "adminRestart" \in Disruptions
    /\ phase = "running"
    /\ thread' = None
    /\ edit' = StartEdit
    /\ CutShort
    /\ UNCHANGED <<phase, loaded, status, lock, pc, locals, candidate, dir>>

\* PUT /runtime with a changed MapServer setting, and PUT /numprocs, which
\* replaces the group and leaves the mapfile alone; one at a time.
PutSettings ==
    /\ "settings" \in Disruptions
    /\ phase = "running" /\ edit.step = "none"
    /\ \E step \in {"read", "stop"} : edit' = [NoEdit EXCEPT !.step = step, !.put = TRUE]
    /\ UNCHANGED <<phase, loaded, thread, status, lock, pc, locals, files, spoilt>>

\* A request goes on to restart the workers, the start of the process ends.
AfterEdit == IF edit.put THEN [NoEdit EXCEPT !.step = "stop", !.put = TRUE] ELSE NoEdit

\* apply_mapfile_runtime: without a mapfile there is nothing to do.
ReadMapfile ==
    /\ edit.step = "read"
    /\ edit' = IF file["mapfile"] = None
               THEN AfterEdit
               ELSE [edit EXCEPT !.step = "truncate", !.text = file["mapfile"]]
    /\ UNCHANGED <<phase, loaded, thread, status, lock, pc, locals, files, spoilt>>

\* write_text opens the file, which truncates or creates it, ...
TruncateMapfile ==
    /\ edit.step = "truncate"
    /\ edit' = [edit EXCEPT !.step = "write"]
    /\ file' = [file EXCEPT !["mapfile"] = Open]
    /\ UNCHANGED <<phase, loaded, thread, status, lock, pc, locals, candidate, backup, dir, spoilt>>

\* ... and writes the text; only CONFIG lines differ from what was read.
WriteMapfile ==
    /\ edit.step = "write"
    /\ edit' = AfterEdit
    /\ Fill(edit.text)
    /\ UNCHANGED <<phase, loaded, thread, status, lock, pc, locals, candidate, dir, spoilt>>

\* A request whose write fails is answered 500; a starting process dies of it
\* (AdminRestart).
WriteFails ==
    /\ edit.step = "write" /\ edit.put
    /\ edit' = NoEdit
    /\ CutShort
    /\ UNCHANGED <<phase, loaded, thread, status, lock, pc, locals, candidate, dir>>

\* restart_mapserver_group: the result of the stop is ignored, ...
AdminStops ==
    /\ edit.step = "stop"
    /\ edit' = [edit EXCEPT !.step = "start"]
    /\ \E ws \in SUBSET Worker : Stops(ws)
    /\ UNCHANGED <<phase, thread, status, lock, pc, locals, files, spoilt>>

\* ... a failing start is answered 500.  A refresh that has stopped the workers
\* for its swap does not notice that they run again.
AdminStarts ==
    /\ edit.step = "start"
    /\ edit' = NoEdit
    /\ \E ws \in SUBSET Worker : Starts(ws)
    /\ spoilt' = (spoilt \/ (lock # None /\ stopped[lock]))
    /\ UNCHANGED <<phase, thread, status, lock, pc, locals, files>>

AdminStep ==
    \/ AdminRestart \/ PutSettings \/ ReadMapfile \/ TruncateMapfile \/ WriteMapfile
    \/ WriteFails \/ AdminStops \/ AdminStarts

-----------------------------------------------------------------------------
(* Starting a refresh *)

\* A fresh process of parquet_refresh.py; its id is drawn here although
\* refresh() draws it a few statements later, which nobody can observe.
Spawn(p) ==
    /\ pc[p] = "idle"
    /\ pc' = [pc EXCEPT ![p] = "lock"]
    /\ \E g \in Generation \ used :
          /\ gen' = [gen EXCEPT ![p] = g]
          /\ used' = used \union {g}
    /\ old' = [old EXCEPT ![p] = {}]
    /\ stopped' = [stopped EXCEPT ![p] = FALSE]
    /\ replaced' = [replaced EXCEPT ![p] = {}]

\* entrypoint.sh: "parquet_refresh.py startup" before supervisord exists.
StartContainer(p) ==
    /\ phase = "down" /\ phase' = "booting"
    /\ Spawn(p)
    /\ UNCHANGED <<loaded, thread, status, lock, files, edit, spoilt>>

\* start_parquet_refresh: POST /parquet-refresh, under the thread lock.
PostRefresh(p) ==
    /\ Serving
    /\ thread = None
    /\ status' = [state |-> "refreshing", generation |-> None]
    /\ thread' = p
    /\ Spawn(p)
    /\ UNCHANGED <<phase, loaded, lock, files, edit, spoilt>>

-----------------------------------------------------------------------------
(* main() and refresh() *)

Goto(p, step) == pc' = [pc EXCEPT ![p] = step]

NoLock(p) == TRUE  \* faulty: no flock
LockFree(p) == lock = None

\* flock(LOCK_EX | LOCK_NB): taken, or BlockingIOError.
Lock(p) ==
    /\ pc[p] = "lock"
    /\ LockFree(p)
    /\ lock' = p
    /\ Goto(p, "begin")
    /\ UNCHANGED <<admin, spoilt, loaded, status, locals, files>>

LockBusy(p) ==
    /\ pc[p] = "lock"
    /\ lock # None
    /\ Goto(p, "raised")
    /\ UNCHANGED <<admin, spoilt, loaded, status, lock, locals, files>>

AnyPaths(content) == {content}  \* faulty: paths outside GENERATIONS_DIR too
\* generation_paths: the generations a catalog's tile indexes lie in.
GenerationPaths(content) == {content} \intersect Generation

\* selection_document, read the old catalog, make the generation directory.
Begin(p) ==
    /\ pc[p] = "begin"
    /\ old' = [old EXCEPT ![p] = GenerationPaths(file["catalog"])]
    /\ dir' = [dir EXCEPT ![gen[p]] = "partial"]
    /\ Goto(p, "prepare")
    /\ UNCHANGED <<admin, spoilt, loaded, status, lock, gen, stopped, replaced, used,
                   file, candidate, backup>>

\* prepare_parquet_backend.py: stage every index, then write the catalog.
Prepare(p) ==
    /\ pc[p] = "prepare"
    /\ dir' = [dir EXCEPT ![gen[p]] = "staged"]
    /\ candidate' = candidate \union {<<"catalog", gen[p]>>}
    /\ Goto(p, "generate")
    /\ UNCHANGED <<admin, spoilt, loaded, status, lock, locals, file, backup>>

\* "startup" runs before the workers exist: only "refresh" stops and starts them.
RestartWorkers == phase = "running"

\* faulty: workers are stopped before the mapfile is generated
GenerateLater(p) ==
    /\ pc[p] = "generate" /\ Goto(p, "stop")
    /\ UNCHANGED <<admin, spoilt, loaded, status, lock, locals, files>>

\* mapfile_generator.py on the candidate catalog.
Generate(p) ==
    /\ pc[p] = "generate"
    /\ candidate' = candidate \union {<<"mapfile", gen[p]>>}
    /\ Goto(p, IF RestartWorkers THEN "stop" ELSE "backupCatalog")
    /\ UNCHANGED <<admin, spoilt, loaded, status, lock, locals, file, backup, dir>>

\* faulty: the workers go on during the swap
StopNobody(p) ==
    /\ pc[p] = "stop" /\ Goto(p, "backupCatalog")
    /\ UNCHANGED <<admin, spoilt, loaded, status, lock, locals, files>>

\* supervisorctl stop mapserver:
Stop(p) ==
    /\ pc[p] = "stop"
    /\ Stops(Worker)
    /\ stopped' = [stopped EXCEPT ![p] = TRUE]
    /\ Goto(p, "backupCatalog")
    /\ UNCHANGED <<admin, spoilt, status, lock, gen, old, replaced, used, files>>

\* The text that the admin process holds is no longer that of the file.
Meets(f) == spoilt' = (spoilt \/ (f = "mapfile" /\ Editing))

\* if the file exists, os.replace(file, backup)
Backup(p, f, step, next) ==
    /\ pc[p] = step
    /\ file' = [file EXCEPT ![f] = None]
    /\ backup' = [backup EXCEPT ![<<f, gen[p]>>] = file[f]]
    /\ Meets(f)
    /\ Goto(p, next)
    /\ UNCHANGED <<admin, loaded, status, lock, locals, candidate, dir>>

\* os.replace(candidate, file)
Install(p, f, step, next) ==
    /\ pc[p] = step
    /\ file' = [file EXCEPT ![f] = gen[p]]
    /\ candidate' = candidate \ {<<f, gen[p]>>}
    /\ replaced' = [replaced EXCEPT ![p] = @ \union {f}]
    /\ Meets(f)
    /\ Goto(p, next)
    /\ UNCHANGED <<admin, loaded, status, lock, gen, old, stopped, used, backup, dir>>

\* Workers that start while the admin process writes the mapfile read part of it.
LoadsOpen == spoilt' = (spoilt \/ file["mapfile"] = Open)

\* supervisorctl start mapserver:
Start(p) ==
    /\ pc[p] = "start"
    /\ Starts(Worker)
    /\ LoadsOpen
    /\ stopped' = [stopped EXCEPT ![p] = FALSE]
    /\ Goto(p, "dropCatalog")
    /\ UNCHANGED <<admin, status, lock, gen, old, replaced, used, files>>

\* backup.unlink(missing_ok=True)
DropBackup(p, f, step, next) ==
    /\ pc[p] = step
    /\ backup' = [backup EXCEPT ![<<f, gen[p]>>] = None]
    /\ Goto(p, next)
    /\ UNCHANGED <<admin, spoilt, loaded, status, lock, locals, file, candidate, dir>>

RemoveAll(gs) == dir' = [g \in Generation |-> "absent"]  \* faulty: rmtree of the parent
Remove(gs) == dir' = [g \in Generation |-> IF g \in gs THEN "absent" ELSE dir[g]]

Current(p) == GenerationPaths(file["catalog"])  \* faulty: reads the catalog after the swap
Obsolete(p) == old[p] \ {gen[p]}

\* rmtree of every old generation but the new one
Collect(p) ==
    /\ pc[p] = "collect"
    /\ Remove(Obsolete(p))
    /\ Goto(p, "ready")
    /\ UNCHANGED <<admin, spoilt, loaded, status, lock, locals, file, candidate, backup>>

Ready(p) ==
    /\ pc[p] = "ready"
    /\ status' = [state |-> "ready", generation |-> gen[p]]
    /\ Goto(p, "done")
    /\ UNCHANGED <<admin, spoilt, loaded, lock, locals, files>>

-----------------------------------------------------------------------------
(* Exceptions and the roll-back *)

\* An exception at step, with the files and the workers already changed as
\* the conjunct beside it says.  Inside "try" control passes to "except".
RaiseAt(p, step) ==
    /\ pc[p] = step
    /\ step \in FaultSteps
    /\ Goto(p, IF step \in TrySteps THEN "undo" ELSE "raised")
    /\ UNCHANGED <<admin, status, lock, locals, file, backup>>

\* A statement that raises before it changes anything.
Raise(p) ==
    /\ \E step \in FaultSteps \ LeavingSteps : RaiseAt(p, step)
    /\ UNCHANGED <<loaded, candidate, dir, spoilt>>

\* The preparation subprocess fails on a download, an index or the catalog.
PrepareFails(p) ==
    /\ RaiseAt(p, "prepare")
    /\ \E s \in {"partial", "staged"} : dir' = [dir EXCEPT ![gen[p]] = s]
    /\ candidate' \in {candidate, candidate \union {<<"catalog", gen[p]>>}}
    /\ UNCHANGED <<loaded, spoilt>>

GenerateFails(p) ==
    /\ RaiseAt(p, "generate")
    /\ candidate' \in {candidate, candidate \union {<<"mapfile", gen[p]>>}}
    /\ UNCHANGED <<loaded, dir, spoilt>>

\* supervisorctl exits non-zero with some of the workers stopped.
StopFails(p) ==
    /\ RaiseAt(p, "stop")
    /\ \E ws \in SUBSET Worker : Stops(ws)
    /\ UNCHANGED <<candidate, dir, spoilt>>

\* supervisorctl exits non-zero, with some of the workers started.
StartFails(p) ==
    /\ \/ RaiseAt(p, "start") /\ Starts({})
       \/ /\ RaiseAt(p, "restart") \/ (RaiseAt(p, "start") /\ "partialStart" \in Disruptions)
          /\ \E ws \in SUBSET Worker : Starts(ws)
    /\ LoadsOpen
    /\ UNCHANGED <<candidate, dir>>

OneCandidate(p) == {<<"catalog", gen[p]>>}  \* faulty: forgets the mapfile
Candidates(p) == File \X {gen[p]}

\* faulty: deletes the new generation before the old files are back
DiscardFirst(p) ==
    /\ pc[p] = "undo" /\ Goto(p, "restoreCatalog")
    /\ Remove({gen[p]})
    /\ UNCHANGED <<admin, spoilt, loaded, status, lock, locals, file, candidate, backup>>

UnlinkCandidates(p) ==
    /\ pc[p] = "undo"
    /\ candidate' = candidate \ Candidates(p)
    /\ Goto(p, "restoreCatalog")
    /\ UNCHANGED <<admin, spoilt, loaded, status, lock, locals, file, backup, dir>>

InstalledOnly(p, f) == f \in replaced[p]  \* faulty: ignores a file moved away but not replaced
MustRestore(p, f) == backup[<<f, gen[p]>>] # None \/ f \in replaced[p]

\* os.replace(backup, file) if there is a backup, else unlink what was installed
Restore(p, f, step, next) ==
    /\ pc[p] = step
    /\ file' = IF MustRestore(p, f)
               THEN [file EXCEPT ![f] = backup[<<f, gen[p]>>]]
               ELSE file
    /\ backup' = [backup EXCEPT ![<<f, gen[p]>>] = None]
    /\ Meets(f)
    /\ Goto(p, next)
    /\ UNCHANGED <<admin, loaded, status, lock, locals, candidate, dir>>

NeverRestart(p) == FALSE  \* faulty: the roll-back leaves the workers stopped
NeedsRestart(p) == stopped[p]

\* rmtree of the new generation
Discard(p) ==
    /\ pc[p] = "discard"
    /\ Remove({gen[p]})
    /\ Goto(p, IF NeedsRestart(p) THEN "restart" ELSE "failed")
    /\ UNCHANGED <<admin, spoilt, loaded, status, lock, locals, file, candidate, backup>>

Restart(p) ==
    /\ pc[p] = "restart"
    /\ Starts(Worker)
    /\ LoadsOpen
    /\ Goto(p, "failed")
    /\ UNCHANGED <<admin, status, lock, locals, files>>

\* faulty: raises without recording the failure
FailedSilently(p) ==
    /\ pc[p] = "failed" /\ Goto(p, "raised")
    /\ UNCHANGED <<admin, spoilt, loaded, status, lock, locals, files>>

Failed(p) ==
    /\ pc[p] = "failed"
    /\ status' = [state |-> "failed", generation |-> gen[p]]
    /\ Goto(p, "raised")
    /\ UNCHANGED <<admin, spoilt, loaded, lock, locals, files>>

-----------------------------------------------------------------------------
(* The end of a process *)

\* The process ends: the kernel drops its flock, the launcher's thread returns,
\* and entrypoint.sh (set -e) goes on to supervisord or stops the container.
Exit(p) ==
    /\ pc[p] \in {"done", "raised"}
    /\ Goto(p, "idle")
    /\ lock' = IF lock = p THEN None ELSE lock
    /\ thread' = IF thread = p THEN None ELSE thread
    /\ IF phase = "booting"
       THEN IF pc[p] = "done"
            THEN phase' = "running" /\ Starts(Worker) /\ edit' = StartEdit
            ELSE phase' = "down" /\ UNCHANGED <<loaded, edit>>
       ELSE UNCHANGED <<phase, loaded, edit>>
    /\ UNCHANGED <<status, locals, files, spoilt>>

\* SIGKILL, by the OOM killer or an operator: no handler runs.
Kill(p) ==
    /\ "kill" \in Disruptions
    /\ pc[p] \notin {"idle", "done", "raised"}
    /\ Goto(p, "raised")
    /\ UNCHANGED <<admin, spoilt, loaded, status, lock, locals, files>>

\* The container dies and keeps its file system (docker restart).
KillContainer ==
    /\ "kill" \in Disruptions
    /\ phase # "down" /\ phase' = "down"
    /\ Stops(Worker)
    /\ thread' = None /\ edit' = NoEdit
    /\ CutShort
    /\ lock' = None
    /\ pc' = [p \in Proc |-> "idle"]
    /\ UNCHANGED <<status, locals, candidate, dir>>

-----------------------------------------------------------------------------
BackupFiles(p) ==
    \/ Backup(p, "catalog", "backupCatalog", "backupMapfile")
    \/ Backup(p, "mapfile", "backupMapfile", "installCatalog")
InstallFiles(p) ==
    \/ Install(p, "catalog", "installCatalog", "installMapfile")
    \/ Install(p, "mapfile", "installMapfile",
               IF RestartWorkers THEN "start" ELSE "dropCatalog")
DropBackups(p) ==
    \/ DropBackup(p, "catalog", "dropCatalog", "dropMapfile")
    \/ DropBackup(p, "mapfile", "dropMapfile", "collect")
RestoreFiles(p) ==
    \/ Restore(p, "catalog", "restoreCatalog", "restoreMapfile")
    \/ Restore(p, "mapfile", "restoreMapfile", "discard")

\* What a running process does next.
Step(p) ==
    \/ Lock(p) \/ LockBusy(p) \/ Begin(p) \/ Prepare(p) \/ Generate(p) \/ Stop(p)
    \/ BackupFiles(p) \/ InstallFiles(p) \/ Start(p) \/ DropBackups(p)
    \/ Collect(p) \/ Ready(p)
    \/ UnlinkCandidates(p) \/ RestoreFiles(p) \/ Discard(p) \/ Restart(p) \/ Failed(p)
    \/ Exit(p)
Fault(p) ==
    Raise(p) \/ PrepareFails(p) \/ GenerateFails(p) \/ StopFails(p) \/ StartFails(p)

Next ==
    \/ \E p \in Proc : StartContainer(p) \/ PostRefresh(p) \/ Step(p) \/ Fault(p) \/ Kill(p)
    \/ AdminStep
    \/ KillContainer

Spec == Init /\ [][Next]_vars

\* A process that runs keeps running: the operating system schedules it, and
\* each subprocess it waits for ends one way or the other.
FairSpec == Spec /\ \A p \in Proc : WF_vars(Step(p) \/ Fault(p))

-----------------------------------------------------------------------------
(* Properties *)

AtRest == \A p \in Proc : pc[p] = "idle"
\* Index files a worker can open: the image's own, or a fully staged generation.
Complete(content) ==
    content = Seed \/ (content \in Generation /\ dir[content] = "staged")

\* What a file holds, but for the moment in which an edit writes it back.
Live(f) == IF file[f] = Open THEN edit.text ELSE file[f]

\* The admin process's edits are ordered with a refresh by nothing.  What is said
\* of the mapfile holds until one meets the swap: it holds a text read before a
\* rename, is cut short, is what starting workers read, or starts the workers
\* that a refresh has stopped.  The catalog is not edited.
Spoilt(f) == f = "mapfile" /\ spoilt

\* A generation's directory is deleted only once neither the catalog nor the
\* mapfile names it, whatever failed or was killed before: the order of
\* collect, restore and discard in refresh() (parquet_refresh.py:162-191).
NoDanglingPointer ==
    \A f \in File : Spoilt(f) \/ (Live(f) \in Generation => dir[Live(f)] = "staged")

\* The index files of the mapfile that a running worker has loaded are complete,
\* and so are those of the mapfile it would load now: workers are stopped around
\* the swap (parquet_refresh.py:140-160) and the roll-back restores before it
\* deletes.
ServedIsComplete ==
    spoilt \/ \A w \in up : Complete(loaded[w]) /\ Complete(Live("mapfile"))

\* When no refresh is in progress, the catalog and the mapfile agree: the two
\* renames of the swap are undone or completed together (parquet_refresh.py:146-190).
CatalogMatchesMapfile ==
    AtRest /\ phase = "running" => spoilt \/ file["catalog"] = Live("mapfile")

\* A status of "ready" names the generation that is active, also when an
\* orphan of a restarted admin process wrote it (parquet_refresh.py:169-178).
ReadyIsActive ==
    AtRest /\ status.state = "ready" =>
        \A f \in File : Spoilt(f) \/ (Live(f) = status.generation /\ Complete(Live(f)))

\* After a refresh, failed or not, and whatever the admin process wrote beside
\* it, no candidate or backup file and no directory but the active generation's
\* is left on the disk (parquet_refresh.py:162-191).
NothingLeaked ==
    AtRest =>
        /\ candidate = {}
        /\ \A b \in DOMAIN backup : backup[b] = None
        /\ \A g \in Generation : dir[g] # "absent" => g = file["catalog"]

\* README.md:81: a failed refresh leaves the prior generation active, so there
\* is a complete one to serve from.
FailedRefreshKeepsPrior ==
    AtRest /\ phase = "running" /\ status.state = "failed" =>
        spoilt \/ (file["catalog"] = Live("mapfile") /\ Complete(Live("mapfile")))

\* Whatever is killed or fails in the swap or the roll-back, a copy of a mapfile
\* whose index files are complete stays on the disk, but for the moment in which
\* an edit writes it back (parquet_refresh.py:147-154).
SurvivingCopy ==
    \/ spoilt
    \/ Complete(Live("mapfile"))
    \/ \E g \in Generation : Complete(backup[<<"mapfile", g>>])

\* README.md:79-81: a refresh takes workers down only once its generation, its
\* catalog and its mapfile are all staged.  A change of settings restarts them
\* too, by a step of its own.
StagedBeforeStop ==
    [][~(up \subseteq up') /\ phase' = "running" /\ edit' = edit =>
          \E p \in Proc : /\ lock = p /\ dir[gen[p]] = "staged"
                         /\ File \X {gen[p]} \subseteq candidate]_vars

\* Once a refresh has stopped the workers, all of them are started again, by its
\* last step or by its roll-back (parquet_refresh.py:156-160 and 192-198).
WorkersReturn == \A p \in Proc : stopped[p] /\ pc[p] = "backupCatalog" ~> up = Worker

\* A refresh that has got as far as its "try" is reported as ready or failed,
\* under its own id (parquet_refresh.py:178 and 199-206).
OutcomeIsReported ==
    \A p \in Proc : pc[p] = "prepare" ~>
        status.state \in {"ready", "failed"} /\ status.generation = gen[p]

-----------------------------------------------------------------------------
(* The abstract specification.  A generation becomes active when the backup *)
(* of the catalog is unlinked: up to there every failure is rolled back.    *)

Uncommitted == {"backupMapfile", "installCatalog", "installMapfile", "start", "dropCatalog",
                "undo", "restoreCatalog"}
Staged == (TrySteps \union UndoSteps) \
              {"prepare", "dropMapfile", "collect", "ready", "restart", "failed"}

activeGeneration ==
    IF lock # None /\ pc[lock] \in Uncommitted /\ backup[<<"catalog", gen[lock]>>] # None
    THEN backup[<<"catalog", gen[lock]>>]
    ELSE file["catalog"]
pendingGeneration ==
    IF lock # None /\ pc[lock] \in Staged /\ dir[gen[lock]] = "staged"
    THEN gen[lock] ELSE None

Abstract == INSTANCE AbstractRefresh WITH
                active <- activeGeneration,
                pending <- pendingGeneration,
                stored <- {g \in Generation : dir[g] = "staged"}

\* A refresh switches the catalog's generation at once or not at all, and never
\* deletes the active one (README.md:79-82; parquet_refresh.py:132-207).  The
\* invariants above say when the mapfile goes with the catalog.
ImplementsAbstract == Abstract!Spec
=============================================================================
