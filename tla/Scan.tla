---------------------------------- MODULE Scan ----------------------------------
(***************************************************************************)
(* A scan of one collection, from POST /scan to the workers that draw it:  *)
(* the job records and threads of etc/admin_api.py, the scanner process    *)
(* scripts/scan_cog_collection.py, the FlatGeobuf files and PostGIS rows   *)
(* it writes, the layers that etc/mapfile_generator.py makes of the entry, *)
(* and the delete request that removes all of it again.                    *)
(*                                                                         *)
(* What a scan finds is a set of COGs: a key, the EPSG code that GDAL can  *)
(* tell, None when it cannot, and whether the footprint in Web Mercator is *)
(* finite.  PostGIS is shared with other tasks of the service, which have  *)
(* files, a catalog and job records of their own: of what they do, only    *)
(* the rows are seen here.  How catalog writes of several collections      *)
(* interleave, and the copy of the catalog in S3, are the subject of       *)
(* Catalog.                                                                *)
(***************************************************************************)
EXTENDS Naturals, FiniteSets

CONSTANTS
    MaxJobs,     \* the bound on scans started
    Epsg,        \* EPSG codes of source files
    Contents,    \* what a listing of the bucket and prefix may hold
    FaultSteps,  \* the steps that may fail
    Disruptions, \* subset of {"kill", "restart", "delete", "payload", "tasks"}
    None,        \* no EPSG, no file, no entry, nobody
    Torn         \* a catalog that was truncated and not written again

Job == 1 .. MaxJobs
Cog == [key : UNION {{c.key : c \in cogs} : cogs \in Contents},
        epsg : Epsg \union {None}, finite : BOOLEAN]

ASSUME ScanAssumption ==
    /\ MaxJobs \in Nat
    /\ Epsg \subseteq Nat \ {0} /\ None \notin Nat
    \* A listing names a key once.
    /\ \A cogs \in Contents :
          cogs \subseteq Cog /\ \A c, d \in cogs : c.key = d.key => c = d

Base == 0  \* <id>_tileindex.fgb; <id>_tileindex_<epsg>.fgb is the code itself
Deletion == 0  \* the delete request, where jobs are numbered from 1
Live == {"survey", "write", "unlink", "rename", "wrote", "delete", "commit",
         "truncate", "upsert"}

VARIABLES
    backend,  \* whether DB_HOST is set: "postgis" or "ogr"
    status,   \* _JOBS: "none" before the request, "lost" when the record is gone
    well,     \* whether the job's payload makes a command line that Popen takes
    thread,   \* what the job's thread does: "off" when there is none
    scanner,  \* the job's scanner: where it is, how it ended, "off" before
    orphan,   \* the jobs whose scanner has outlived the thread that reads it
    foreign,  \* the jobs of other tasks
    found,    \* the COGs each scan has read
    left,     \* the EPSG groups still to be written or loaded
    doomed,   \* the rows that the DELETE of an open transaction has seen
    fgb,      \* the index files
    tmp,      \* the index files with a .tmp directory beside them
    rows,     \* the collection's rows in cog_index
    entry,    \* its entry in collections.json, Torn when no entry can be read
    mapfile,  \* its raster layers in mapfile.map
    served,   \* and in the mapfile the workers started with
    deleter,  \* what the delete request does: "done" when acknowledged
    target,   \* the entry it removes
    owner,    \* history: the last scan or delete, None once another overlapped it
    ignored,  \* history: the failures it went on after
    crossed   \* history: the scans whose loads overlapped

index   == <<fgb, tmp, rows>>
jobs    == <<status, well, thread>>
scans   == <<scanner, orphan, foreign, found, left, doomed>>
layers  == <<mapfile, served>>
delete  == <<deleter, target>>
history == <<owner, ignored, crossed>>
vars    == <<backend, jobs, scans, index, entry, layers, delete, history>>

-----------------------------------------------------------------------------
(* What a scan makes of the COGs it has found *)

\* faulty: the missing code counts as one
WithNone(cogs) == {c.epsg : c \in cogs}
Resolved(cogs) == {c.epsg : c \in cogs} \ {None}
OneGroup(cogs) == \E e \in Epsg : Resolved(cogs) = {e}

\* faulty: the missing code is not filled in
NoLabel(cogs) == cogs
\* A single code in the whole scan is taken for the COGs that have none.  A
\* job passes no --source-epsg, so nothing else fills it in.
Label(cogs) ==
    IF OneGroup(cogs)
    THEN {[c EXCEPT !.epsg = CHOOSE e \in Epsg : Resolved(cogs) = {e}] : c \in cogs}
    ELSE cogs

\* group_features_by_epsg: a COG still without a code is in no group.
Group(cogs, e) == {c \in Label(cogs) : c.epsg = e}
\* faulty: the groups of a collection share one file
SharedPath(cogs, e) == Base
Path(cogs, e) == IF OneGroup(cogs) THEN Base ELSE e

File(j, e) == [job |-> j, epsg |-> e, keys |-> {c.key : c \in Group(found[j], e)}]
\* A COG without a finite web footprint gets no row.
RowsOf(j, e) == {[job |-> j, key |-> c.key, epsg |-> e] :
                    c \in {x \in Group(found[j], e) : x.finite}}
Row == [job : Job, key : {c.key : c \in Cog}, epsg : Epsg]
EntryOf(j, on) == [job |-> j, enabled |-> on, postgis |-> backend = "postgis",
                   groups |-> {[epsg |-> e, path |-> Path(found[j], e)] : e \in Resolved(found[j])}]
IndexFile == [job : Job, epsg : Epsg, keys : SUBSET {c.key : c \in Cog}]
Layer == [epsg : Epsg, path : Epsg \union {Base}, postgis : BOOLEAN]
Entry == [job : Job, enabled : BOOLEAN, postgis : BOOLEAN,
          groups : SUBSET [epsg : Epsg, path : Epsg \union {Base}]]
ASSUME NoneAssumption == None \notin IndexFile /\ Entry \intersect {None, Torn} = {}

\* The raster layers of an enabled entry, one for each group.
Layers(e) == IF e = None \/ ~e.enabled THEN {}
             ELSE {[epsg |-> g.epsg, path |-> g.path, postgis |-> e.postgis] : g \in e.groups}

\* What the tile index of a layer selects: in PostGIS every row of the
\* collection, otherwise the features of one file.
Selected(l) ==
    IF l.postgis THEN {[job |-> r.job, key |-> r.key, epsg |-> r.epsg] : r \in rows}
    ELSE IF fgb[l.path] = None THEN {}
    ELSE {[job |-> fgb[l.path].job, key |-> k, epsg |-> fgb[l.path].epsg] : k \in fgb[l.path].keys}

-----------------------------------------------------------------------------
TypeOK ==
    /\ backend \in {"postgis", "ogr"}
    /\ status \in [Job -> {"none", "running", "failed", "complete", "lost"}]
    /\ well \in [Job -> BOOLEAN]
    /\ thread \in [Job -> {"off", "spawn", "stream", "render", "restart"}]
    /\ scanner \in [Job -> Live \union {"off", "failed", "exited"}]
    /\ orphan \subseteq Job /\ foreign \subseteq Job
    /\ found \in [Job -> SUBSET Cog]
    /\ left \in [Job -> SUBSET Epsg]
    /\ doomed \in [Job -> SUBSET Row]
    /\ fgb \in [Epsg \union {Base} -> IndexFile \union {None}]
    /\ tmp \subseteq Epsg \union {Base} /\ rows \subseteq Row
    /\ entry \in Entry \union {None, Torn} /\ target \in Entry \union {None}
    /\ mapfile \subseteq Layer /\ served \subseteq Layer
    /\ deleter \in {"idle", "rows", "truncate", "catalog", "files", "render",
                   "restart", "done"}
    /\ owner \in Job \union {Deletion, None}
    /\ ignored \subseteq {"stop", "files"} /\ crossed \subseteq Job

Init ==
    /\ backend \in {"postgis", "ogr"}
    /\ status = [j \in Job |-> "none"] /\ well = [j \in Job |-> TRUE]
    /\ thread = [j \in Job |-> "off"]
    /\ scanner = [j \in Job |-> "off"] /\ orphan = {} /\ foreign = {}
    /\ found = [j \in Job |-> {}] /\ left = [j \in Job |-> {}]
    /\ doomed = [j \in Job |-> {}]
    /\ fgb = [p \in Epsg \union {Base} |-> None] /\ tmp = {} /\ rows = {}
    /\ entry = None /\ mapfile = {} /\ served = {}
    /\ deleter = "idle" /\ target = None
    /\ owner = None /\ ignored = {} /\ crossed = {}

Scanning(j) == scanner[j] \in Live
Deleting == deleter \notin {"idle", "done"}
Quiet == ~Deleting /\ \A j \in Job : thread[j] = "off" /\ ~Scanning(j)

-----------------------------------------------------------------------------
(* The job, in the admin process *)

\* Job ids are taken in order.
Unused(j) == status[j] = "none" /\ \A i \in Job : i < j => status[i] # "none"
\* start_scan refuses a collection with a running job in the records of this
\* task, and knows nothing of the other tasks.
Startable(j) == Unused(j) /\ \A i \in Job : status[i] # "running"

StartScan(j) ==
    /\ Startable(j)
    /\ status' = [status EXCEPT ![j] = "running"]
    /\ \E w \in {TRUE} \union (IF "payload" \in Disruptions THEN {FALSE} ELSE {}) :
          well' = [well EXCEPT ![j] = w]
    /\ thread' = [thread EXCEPT ![j] = "spawn"]
    /\ owner' = IF Quiet THEN j ELSE None
    /\ ignored' = {}
    /\ deleter' = IF deleter = "done" THEN "idle" ELSE deleter
    /\ UNCHANGED <<backend, scans, index, entry, layers, target, crossed>>

ThreadGoes(j, next) == thread' = [thread EXCEPT ![j] = next] /\ UNCHANGED status
JobEndsAs(j, s) ==
    /\ status' = [status EXCEPT ![j] = s]
    /\ thread' = [thread EXCEPT ![j] = "off"]
\* faulty: the thread returns and leaves the job running
ForgetsToFail(j, step) == step \in FaultSteps /\ ThreadGoes(j, "off")
JobFails(j, step) == step \in FaultSteps /\ JobEndsAs(j, "failed")

\* A number that does not parse and a value that is no string raise what is
\* not caught: the thread ends and the job stays "running".
Spawn(j) ==
    /\ thread[j] = "spawn"
    /\ \/ ~well[j] /\ ThreadGoes(j, "off") /\ UNCHANGED scanner
       \/ /\ well[j]
          /\ \/ ThreadGoes(j, "stream") /\ scanner' = [scanner EXCEPT ![j] = "survey"]
             \/ JobFails(j, "spawn") /\ UNCHANGED scanner
    /\ UNCHANGED <<backend, well, orphan, foreign, found, left, doomed, index, entry, layers, delete, history>>

\* The loop over the output raises, for a line that cannot be decoded: the
\* thread ends, the job stays "running", and nobody reads the scanner.
StreamBreaks(j) ==
    /\ "stream" \in FaultSteps /\ thread[j] = "stream" /\ Scanning(j)
    /\ ThreadGoes(j, "off")
    /\ orphan' = orphan \union {j}
    /\ UNCHANGED <<backend, well, scanner, foreign, found, left, doomed, index, entry, layers, delete, history>>

\* The output of the scanner has ended and wait() gives its exit code.
Collect(j) ==
    /\ thread[j] = "stream"
    /\ \/ scanner[j] = "failed" /\ JobEndsAs(j, "failed")
       \/ scanner[j] = "exited" /\ ThreadGoes(j, "render")
    /\ UNCHANGED <<backend, well, scans, index, entry, layers, delete, history>>

\* mapfile_generator.main: a mapfile that is truncated and not written has no layer.
MakesMapfile == entry # Torn /\ mapfile' = Layers(entry)
LeavesMapfile == mapfile' \in {mapfile, {}}

\* The mapfile is made of the catalog as it is now; the upload to S3 follows.
Render(j) ==
    /\ thread[j] = "render"
    /\ \/ MakesMapfile /\ (ThreadGoes(j, "restart") \/ JobFails(j, "sync"))
       \/ entry = Torn /\ JobEndsAs(j, "failed") /\ UNCHANGED mapfile
       \/ JobFails(j, "render") /\ LeavesMapfile
    /\ UNCHANGED <<backend, well, scans, index, entry, served, delete, history>>

\* restart_mapserver_group.  The exit code of the stop is ignored, and workers
\* that have not stopped keep what they serve: their start has nothing to do.
Restarts == served' = mapfile /\ UNCHANGED ignored
StopIgnored == "stop" \in FaultSteps /\ ignored' = ignored \union {"stop"} /\ UNCHANGED served
\* A start that fails leaves the workers stopped: it can only fail for those.
StartFails == served' = {} /\ UNCHANGED ignored

Restart(j) ==
    /\ thread[j] = "restart"
    /\ \/ (Restarts \/ StopIgnored) /\ JobEndsAs(j, "complete")
       \/ StartFails /\ JobFails(j, "restart")
    /\ UNCHANGED <<backend, well, scans, index, entry, mapfile, delete, owner, crossed>>

-----------------------------------------------------------------------------
(* The scanner, a process of its own *)

ScannerGoes(j, next) == scanner' = [scanner EXCEPT ![j] = next]
ScannerFails(j, step) == step \in FaultSteps /\ ScannerGoes(j, "failed")
\* A line of output: without a reader at the other end of the pipe it raises.
Prints(j, next) == ScannerGoes(j, IF j \in orphan THEN "failed" ELSE next)

\* The bucket is listed and every COG opened, which touches nothing else.
\* A request that fails ends the scan, as does a scan in which no COG has an
\* EPSG code.  The files that another task writes are its own.
Survey(j) ==
    /\ scanner[j] = "survey"
    /\ \/ \E cogs \in Contents :
             /\ found' = [found EXCEPT ![j] = cogs]
             /\ left' = [left EXCEPT ![j] = Resolved(cogs)]
             /\ Prints(j, IF Resolved(cogs) = {} THEN "failed"
                          ELSE IF j \in foreign THEN "delete" ELSE "write")
       \/ ScannerFails(j, "survey") /\ UNCHANGED <<found, left>>
    /\ UNCHANGED <<backend, jobs, orphan, foreign, doomed, index, entry, layers, delete, history>>

First(groups) == CHOOSE e \in groups : \A x \in groups : e <= x
Current(j) == First(left[j])
CurrentPath(j) == Path(found[j], Current(j))

\* write_tileindex_fgb: the new file is complete beside the old one, which is
\* removed before the new one takes its name.  GDAL makes a directory of a name
\* in .tmp, and the unlink of one that is there already raises.
Write(j) ==
    /\ scanner[j] = "write"
    /\ \/ CurrentPath(j) \notin tmp /\ tmp' = tmp \union {CurrentPath(j)} /\ ScannerGoes(j, "unlink")
       \/ CurrentPath(j) \in tmp /\ ScannerGoes(j, "failed") /\ UNCHANGED tmp
    /\ UNCHANGED <<backend, jobs, orphan, foreign, found, left, doomed, fgb, rows, entry, layers, delete, history>>

Unlink(j) ==
    /\ scanner[j] = "unlink"
    /\ \/ fgb' = [fgb EXCEPT ![CurrentPath(j)] = None] /\ ScannerGoes(j, "rename")
       \/ ScannerFails(j, "write") /\ UNCHANGED fgb
    /\ UNCHANGED <<backend, jobs, orphan, foreign, found, left, doomed, tmp, rows, entry, layers, delete, history>>

\* The directory is removed after the file in it has been moved out.
Rename(j) ==
    /\ scanner[j] = "rename"
    /\ fgb' = [fgb EXCEPT ![CurrentPath(j)] = File(j, Current(j))]
    /\ \/ /\ tmp' = tmp \ {CurrentPath(j)}
          /\ left' = [left EXCEPT ![j] = @ \ {Current(j)}]
          /\ ScannerGoes(j, IF left[j] = {Current(j)} THEN "wrote" ELSE "write")
       \/ ScannerFails(j, "write") /\ UNCHANGED <<tmp, left>>
    /\ UNCHANGED <<backend, jobs, orphan, foreign, found, doomed, rows, entry, layers, delete, history>>

Wrote(j) ==
    /\ scanner[j] = "wrote"
    /\ Prints(j, IF backend = "postgis" THEN "delete" ELSE "truncate")
    /\ left' = [left EXCEPT ![j] = Resolved(found[j])]
    /\ UNCHANGED <<backend, jobs, orphan, foreign, found, doomed, index, entry, layers, delete, history>>

\* faulty: no group deletes what an earlier scan has loaded
NeverFirst(j) == FALSE
DeleteFirst(j) == left[j] = Resolved(found[j])

\* From the first DELETE to the last commit of a scan.
Loading(j) == scanner[j] = "commit" \/ (scanner[j] = "delete" /\ ~DeleteFirst(j))
Others(j) == {i \in Job \ {j} : Loading(i)}

\* load_into_postgis: the DELETE sees what is committed when it runs, and
\* nothing of another transaction that commits after it.
BeginLoad(j) ==
    /\ scanner[j] = "delete"
    /\ \/ /\ doomed' = [doomed EXCEPT ![j] = IF DeleteFirst(j) THEN rows ELSE {}]
          /\ crossed' = IF Others(j) = {} THEN crossed ELSE crossed \union {j} \union Others(j)
          /\ ScannerGoes(j, "commit")
       \/ ScannerFails(j, "load") /\ UNCHANGED <<doomed, crossed>>
    /\ UNCHANGED <<backend, jobs, orphan, foreign, found, left, index, entry, layers, delete, owner, ignored>>

\* The table takes a location once: the INSERT fails when another
\* transaction has committed a row for it since the DELETE.
Conflict(j) == \E r \in rows \ doomed[j] : \E s \in RowsOf(j, Current(j)) : r.key = s.key

\* The commit of the INSERT; after a failure the DELETE is undone with it.
Commit(j) ==
    /\ scanner[j] = "commit"
    /\ doomed' = [doomed EXCEPT ![j] = {}]
    /\ \/ /\ ~Conflict(j)
          /\ rows' = (rows \ doomed[j]) \union RowsOf(j, Current(j))
          /\ left' = [left EXCEPT ![j] = @ \ {Current(j)}]
          /\ IF left[j] # {Current(j)} THEN ScannerGoes(j, "delete")
             ELSE Prints(j, IF j \in foreign THEN "exited" ELSE "truncate")
       \/ Conflict(j) /\ ScannerGoes(j, "failed") /\ UNCHANGED <<rows, left>>
       \/ ScannerFails(j, "load") /\ UNCHANGED <<rows, left>>
    /\ UNCHANGED <<backend, jobs, orphan, foreign, found, fgb, tmp, entry, layers, delete, history>>

\* upsert_collection: the catalog is read, which fails for one that is torn,
\* truncated and written, and then a line is printed.
Truncate(j) ==
    /\ scanner[j] = "truncate"
    /\ \/ entry # Torn /\ entry' = Torn /\ ScannerGoes(j, "upsert")
       \/ entry = Torn /\ ScannerGoes(j, "failed") /\ UNCHANGED entry
    /\ UNCHANGED <<backend, jobs, orphan, foreign, found, left, doomed, index, layers, delete, history>>

\* Whether the collection is enabled is what the payload of the request says.
Upsert(j) ==
    /\ scanner[j] = "upsert"
    /\ \/ (\E on \in BOOLEAN : entry' = EntryOf(j, on)) /\ Prints(j, "exited")
       \/ ScannerFails(j, "upsert") /\ UNCHANGED entry
    /\ UNCHANGED <<backend, jobs, orphan, foreign, found, left, doomed, index, layers, delete, history>>

-----------------------------------------------------------------------------
(* Kills, other tasks and the delete request *)

KillScanner(j) ==
    /\ "kill" \in Disruptions /\ Scanning(j)
    /\ ScannerGoes(j, "failed")
    /\ UNCHANGED <<backend, jobs, orphan, foreign, found, left, doomed, index, entry, layers, delete, history>>

\* supervisord restarts the admin process: its records and threads are gone,
\* the scanners go on.
AdminRestart ==
    /\ "restart" \in Disruptions
    /\ \/ Deleting
       \/ \E j \in Job : status[j] \in {"running", "failed", "complete"}
    /\ status' = [j \in Job |-> IF status[j] = "none" THEN "none" ELSE "lost"]
    /\ thread' = [j \in Job |-> "off"]
    /\ orphan' = orphan \union {j \in Job \ foreign : Scanning(j)}
    /\ deleter' = "idle" /\ target' = None
    /\ UNCHANGED <<backend, well, scanner, foreign, found, left, doomed, index, entry, layers, history>>

\* Another task has no record of what runs here.
ScanElsewhere(j) ==
    /\ "tasks" \in Disruptions /\ backend = "postgis" /\ Unused(j)
    /\ status' = [status EXCEPT ![j] = "lost"]
    /\ scanner' = [scanner EXCEPT ![j] = "survey"]
    /\ foreign' = foreign \union {j}
    /\ owner' = None
    /\ UNCHANGED <<backend, well, thread, orphan, found, left, doomed, index, entry, layers, delete,
                   ignored, crossed>>

DeleteElsewhere ==
    /\ {"tasks", "delete"} \subseteq Disruptions /\ rows # {}
    /\ rows' = {} /\ owner' = None
    /\ UNCHANGED <<backend, jobs, scans, fgb, tmp, entry, layers, delete, ignored, crossed>>

DeleteGoes(next) == deleter' = next /\ UNCHANGED target
\* An exception is answered 500 and the request ends where it is.
DeleteEnds == deleter' = "idle" /\ target' = None
DeleteFails(step) == step \in FaultSteps /\ DeleteEnds

DeleteStart ==
    /\ "delete" \in Disruptions /\ ~Deleting /\ entry \notin {None, Torn}
    /\ target' = entry /\ deleter' = "rows"
    /\ owner' = IF Quiet THEN Deletion ELSE None
    /\ ignored' = {}
    /\ UNCHANGED <<backend, jobs, scans, index, entry, layers, crossed>>

DeleteRows ==
    /\ deleter = "rows"
    /\ \/ rows' = {} /\ DeleteGoes("truncate")
       \/ DeleteFails("rows") /\ UNCHANGED rows
    /\ UNCHANGED <<backend, jobs, scans, fgb, tmp, entry, layers, history>>

\* The catalog is truncated and written; the upload follows.
DeleteCatalog ==
    /\ \/ deleter = "truncate" /\ entry' = Torn /\ DeleteGoes("catalog")
       \/ deleter = "catalog" /\ DeleteFails("catalog") /\ UNCHANGED entry
       \/ deleter = "catalog" /\ entry' = None /\ (DeleteGoes("files") \/ DeleteFails("sync"))
    /\ UNCHANGED <<backend, jobs, scans, index, layers, history>>

\* faulty: only the first group's file is removed
FirstArtifact(e) == IF e.groups = {} THEN {} ELSE {(CHOOSE g \in e.groups : TRUE).path}
\* _collection_artifact_paths: the files that the removed entry names
Artifacts(e) == {g.path : g \in e.groups}

\* The files, of which those that cannot be removed are skipped, then the
\* records of jobs that do not run.
DeleteFiles ==
    /\ deleter = "files"
    /\ \E kept \in IF "files" \in FaultSteps THEN SUBSET Artifacts(target) ELSE {{}} :
          /\ fgb' = [p \in DOMAIN fgb |-> IF p \in Artifacts(target) \ kept THEN None ELSE fgb[p]]
          /\ ignored' = IF kept = {} THEN ignored ELSE ignored \union {"files"}
    /\ status' = [j \in Job |-> IF status[j] \in {"failed", "complete"} THEN "lost" ELSE status[j]]
    /\ DeleteGoes("render")
    /\ UNCHANGED <<backend, well, thread, scans, tmp, rows, entry, layers, owner, crossed>>

DeleteRender ==
    /\ deleter = "render"
    /\ \/ MakesMapfile /\ DeleteGoes("restart")
       \/ entry = Torn /\ DeleteEnds /\ UNCHANGED mapfile
       \/ DeleteFails("render") /\ LeavesMapfile
    /\ UNCHANGED <<backend, jobs, scans, index, entry, served, history>>

DeleteRestart ==
    /\ deleter = "restart"
    /\ \/ (Restarts \/ StopIgnored) /\ DeleteGoes("done")
       \/ StartFails /\ DeleteFails("restart")
    /\ UNCHANGED <<backend, jobs, scans, index, entry, mapfile, owner, crossed>>

-----------------------------------------------------------------------------
ThreadStep(j) == Spawn(j) \/ Collect(j) \/ Render(j) \/ Restart(j)
ScannerStep(j) ==
    \/ Survey(j) \/ Write(j) \/ Unlink(j) \/ Rename(j) \/ Wrote(j)
    \/ BeginLoad(j) \/ Commit(j) \/ Truncate(j) \/ Upsert(j)
DeleteStep ==
    \/ DeleteStart \/ DeleteRows \/ DeleteCatalog
    \/ DeleteFiles \/ DeleteRender \/ DeleteRestart

Next ==
    \/ \E j \in Job : \/ StartScan(j) \/ ThreadStep(j) \/ StreamBreaks(j)
                     \/ ScannerStep(j) \/ KillScanner(j) \/ ScanElsewhere(j)
    \/ AdminRestart \/ DeleteStep \/ DeleteElsewhere

\* Threads and processes are scheduled, and no wait of theirs is without an end.
Work == \E j \in Job : ThreadStep(j) \/ ScannerStep(j)
Spec == Init /\ [][Next]_vars /\ WF_vars(Work)

-----------------------------------------------------------------------------
(* Properties *)

\* The layers that the workers serve draw each COG of scan j once, in its own
\* coordinate system, and nothing else.
Draws(j) ==
    /\ \A c \in Label(found[j]) :
          \E l \in served : \A m \in served :
             (\E s \in Selected(m) : s.key = c.key) <=> m = l
    /\ \A l \in served : \A s \in Selected(l) :
          [key |-> s.key, epsg |-> l.epsg] \in {[key |-> c.key, epsg |-> c.epsg] : c \in Label(found[j])}

\* Scan j is the last thing that happened to the collection, in any task, its
\* failures were all reported, and it is complete.
Settled(j) == status[j] = "complete" /\ owner = j /\ ~Deleting /\ ignored = {}
Labelled(j) == OneGroup(found[j]) \/ \A c \in found[j] : c.epsg # None
Finite(j) == \A c \in found[j] : c.finite

\* A complete job draws what it has found, or nothing when its payload asks
\* for a disabled collection, whatever earlier scans, killed scanners and
\* deletes have left behind, unless a scan or delete, here or in another task,
\* overlapped it, or the workers did not stop for it.  Three kinds of listing are
\* excluded, for the code does not draw them: COGs without a code beside COGs
\* of several codes, which are in no group; and in PostGIS several codes, where
\* every layer selects the rows of all, and footprints that are not finite.
CompleteIsDrawn ==
    \A j \in Job :
        Settled(j) /\ Labelled(j) /\ (backend = "postgis" => OneGroup(found[j]) /\ Finite(j))
        => /\ entry \in Entry /\ entry.job = j
           /\ IF entry.enabled THEN Draws(j) ELSE served = {}

\* The log and a comment of the scanner: a COG dropped from the web overlay
\* stays in the native tile index, so its imagery is drawn.
DroppedFootprintIsDrawn ==
    \A j \in Job : Settled(j) /\ OneGroup(found[j]) /\ entry.enabled => Draws(j)

\* The rows of a scan with one source CRS are in cog_index all or none at every
\* moment, however scanners are killed and scans of this and other tasks
\* overlap: a load is one transaction.  Rows of two scans are there together
\* only when a scan whose load overlapped another's has left some of them.
AllRows(j) == UNION {RowsOf(j, e) : e \in Resolved(found[j])}
RowsAreWhole ==
    /\ \A r \in rows : OneGroup(found[r.job]) => AllRows(r.job) \subseteq rows
    /\ (\A r \in rows : r.job \notin crossed) => \A r, s \in rows : r.job = s.job

\* An acknowledged delete that nothing overlapped, here or in another task, leaves
\* no row, no entry, no layer in the mapfile, and no record of a job whose
\* thread has not died under it; it leaves no file that the entry named unless
\* an unlink failed, which is ignored, and no layer in the workers unless they
\* did not stop, which is ignored too.
DeletedLeavesNothing ==
    deleter = "done" /\ owner = Deletion =>
        /\ rows = {} /\ entry = None /\ mapfile = {}
        /\ "stop" \notin ignored => served = {}
        /\ "files" \notin ignored => \A g \in target.groups : fgb[g.path] = None
        /\ \A j \in Job : \/ status[j] \in {"none", "lost"}
                          \/ ~well[j] \/ j \in orphan

\* Every accepted job ends, and with it the refusal of further scans, on every
\* path but two: a malformed payload, and output that the thread cannot read.
JobEnds ==
    \A j \in Job : (status[j] = "running" /\ well[j]) ~> (status[j] # "running" \/ j \in orphan)
=============================================================================
