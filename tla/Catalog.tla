------------------------------- MODULE Catalog -------------------------------
(***************************************************************************)
(* The collection catalog: the requests of etc/admin_api.py that change    *)
(* collections.json (enable, disable, delete, make active), the scan job   *)
(* that adds a collection (its thread in admin_api.py and the last part of *)
(* scripts/scan_cog_collection.py), and a task's start in                  *)
(* etc/entrypoint.sh.  Everything runs in the deployed configuration:      *)
(* COLLECTIONS_S3_URI and DB_HOST are set, each Fargate task has a file    *)
(* system of its own, and the durable copy in S3 and the PostGIS rows are  *)
(* shared.  No lock orders the requests: ThreadingHTTPServer gives each    *)
(* one a thread.                                                           *)
(*                                                                         *)
(* An entry matters by its "enabled" flag alone.  Every request is a       *)
(* script of the statements that read or change state, in their order in   *)
(* the source; a thread performs the steps of its script one at a time.    *)
(***************************************************************************)
EXTENDS Naturals, Sequences, FiniteSets

CONSTANTS
    Collection, \* collection ids
    Task,       \* Fargate tasks
    Thread,     \* request and scan threads: the bound on how many run at once
    Home,       \* the task of each thread
    Bundled,    \* collections of the catalog in the image, all enabled
    FaultSteps, \* the steps that may fail, and "download" for a task's start
    Torn,       \* content of a file that write_text has truncated, not yet written
    None        \* no object, no collection

Entry    == {"absent", "off", "on"}
Catalogs == [Collection -> Entry]
Enabled(cat) == {c \in Collection : cat[c] = "on"}
Seed == [c \in Collection |-> IF c \in Bundled THEN "on" ELSE "absent"]

\* collection_id is resolved, the file is truncated and then written, the
\* copy in S3 follows, the mapfile is rebuilt by a process that reads the
\* file again, and the workers are stopped and started.
Rebuild == <<"layers", "clear", "render", "stop", "start", "reply">>
ToggleScript == <<"truncate", "write", "sync", "runtime">> \o Rebuild
DeleteUnsynced == <<"rows", "truncate", "write", "runtime">> \o Rebuild  \* faulty: no upload
DeleteScript == <<"rows", "truncate", "write", "sync", "runtime">> \o Rebuild
\* faulty: the workers are restarted before the mapfile is rebuilt
EarlyRestart == <<"index", "read", "truncate", "write", "stop", "start", "layers", "clear",
                  "render", "sync", "reply">>
\* A scan writes the index in the scanner process, which also upserts.
ScanScript == <<"index", "read", "truncate", "write", "layers", "clear", "render",
                "sync", "stop", "start", "reply">>
ActivateScript == <<"runtime", "reply">>

Script == [toggle |-> ToggleScript, delete |-> DeleteScript,
           scan |-> ScanScript, activate |-> ActivateScript]
Kind   == DOMAIN Script
Request == [kind : Kind, target : Collection, value : Entry]
StepName == UNION {{Script[k][i] : i \in DOMAIN Script[k]} : k \in Kind}
Fallible == StepName \ {"reply"}

ASSUME CatalogAssumption ==
    /\ Bundled \subseteq Collection
    /\ Home \in [Thread -> Task]
    /\ FaultSteps \subseteq Fallible \union {"download"}
    /\ None \notin Collection \union Request
    /\ None \notin Catalogs /\ Torn \notin Catalogs \union {None}

VARIABLES
    running,  \* the tasks whose supervisord runs
    catalog,  \* COLLECTIONS_FILE of each task
    mapfile,  \* the collections that have layers in each task's mapfile.map; a truncated
              \* one has none
    served,   \* the mapfile its workers started with
    up,       \* the tasks whose workers run
    active,   \* runtime_config activeCollection of each task
    s3,       \* the object at COLLECTIONS_S3_URI
    rows,     \* the collections that have rows in cog_index
    todo,     \* what each thread still has to do
    req,      \* its request: the kind, the collection and the entry asked for
    doc,      \* the catalog it has read
    layers,   \* the layers its mapfile generator has computed
    reply,    \* how its last request ended
    possible, \* history: the values each entry may have after the requests so far
    cut       \* history: the tasks whose catalog a failed write or a restart left truncated

files   == <<catalog, mapfile, served, up, active>>
vars    == <<running, catalog, mapfile, served, up, active, s3, rows, todo, req, doc,
             layers, reply, possible, cut>>

TypeOK ==
    /\ running \subseteq Task
    /\ catalog \in [Task -> Catalogs \union {Torn}]
    /\ mapfile \in [Task -> SUBSET Collection]
    /\ served \in [Task -> SUBSET Collection] /\ up \subseteq running
    /\ active \in [Task -> Collection \union {None}]
    /\ s3 \in Catalogs \union {Torn, None}
    /\ rows \subseteq Collection
    /\ \A t \in Thread : todo[t] = << >> \/ Head(todo[t]) \in StepName
    /\ \A t \in Thread : IF req[t] = None THEN todo[t] = << >> ELSE req[t] \in Request
    /\ doc \in [Thread -> Catalogs]
    /\ layers \in [Thread -> SUBSET Collection]
    /\ reply \in [Thread -> {"none", "ok", "noop", "error"}]
    /\ possible \in [Collection -> SUBSET Entry]
    /\ cut \subseteq running

Init ==
    /\ running = {}
    /\ catalog = [k \in Task |-> Seed]
    /\ mapfile = [k \in Task |-> {}]
    /\ served = [k \in Task |-> {}] /\ up = {}
    /\ active = [k \in Task |-> None]
    /\ s3 = None /\ rows = {}
    /\ todo = [t \in Thread |-> << >>]
    /\ req = [t \in Thread |-> None]
    /\ doc = [t \in Thread |-> Seed]
    /\ layers = [t \in Thread |-> {}]
    /\ reply = [t \in Thread |-> "none"]
    /\ possible = [c \in Collection |-> {Seed[c]}]
    /\ cut = {}

Busy(t) == todo[t] # << >>
ThreadsOf(k) == {t \in Thread : Home[t] = k}
\* What a task started now would find.
Durable == IF s3 = None THEN Seed ELSE s3

-----------------------------------------------------------------------------
(* A task starts and is replaced *)

\* entrypoint.sh: the catalog comes from S3; without an object, or when the
\* download fails, the bundled file stays.  The generator fails on a
\* truncated one, and "set -e" ends the container.
Start(k) ==
    /\ k \notin running
    /\ \E cat \in {Durable} \union (IF "download" \in FaultSteps THEN {Seed} ELSE {}) :
          /\ cat # Torn
          /\ catalog' = [catalog EXCEPT ![k] = cat]
          /\ mapfile' = [mapfile EXCEPT ![k] = Enabled(cat)]
          /\ served' = [served EXCEPT ![k] = Enabled(cat)]
    /\ running' = running \union {k} /\ up' = up \union {k}
    /\ UNCHANGED <<active, s3, rows, todo, req, doc, layers, reply, possible, cut>>

\* The threads in ts end, with this reply.  Their local variables are gone,
\* and after a failure nothing refers to the request either.
End(ts, how) ==
    /\ req' = [t \in Thread |-> IF t \in ts /\ how # "ok" THEN None ELSE req[t]]
    /\ todo' = [t \in Thread |-> IF t \in ts THEN << >> ELSE todo[t]]
    /\ doc' = [t \in Thread |-> IF t \in ts THEN Seed ELSE doc[t]]
    /\ layers' = [t \in Thread |-> IF t \in ts THEN {} ELSE layers[t]]
    /\ reply' = [t \in Thread |-> IF t \in ts THEN how ELSE reply[t]]

\* ECS stops the task: its threads and its file system are gone.
Replace(k) ==
    /\ k \in running
    /\ running' = running \ {k} /\ up' = up \ {k}
    /\ catalog' = [catalog EXCEPT ![k] = Seed]
    /\ mapfile' = [mapfile EXCEPT ![k] = {}]
    /\ served' = [served EXCEPT ![k] = {}]
    /\ active' = [active EXCEPT ![k] = None]
    /\ End(ThreadsOf(k), "none")
    /\ cut' = cut \ {k}
    /\ UNCHANGED <<s3, rows, possible>>

\* A thread of the task is between the truncation and the write of the catalog.
BeingWritten(k) == \E t \in ThreadsOf(k) : Busy(t) /\ Head(todo[t]) = "write"

\* The save of runtime_config.json that t has before it may leave it truncated:
\* then no collection is the active one.
MayForget(t) == {active, [active EXCEPT ![Home[t]] = None]}

\* supervisord restarts admin_api.py; the task's files stay as they are.
AdminRestart(k) ==
    /\ k \in running
    /\ \E t \in ThreadsOf(k) : Busy(t)
    /\ End(ThreadsOf(k), "none")
    /\ cut' = IF BeingWritten(k) THEN cut \union {k} ELSE cut
    /\ \/ UNCHANGED active
       \/ \E t \in ThreadsOf(k) : Busy(t) /\ Head(todo[t]) = "runtime" /\ active' \in MayForget(t)
    /\ UNCHANGED <<running, catalog, mapfile, served, up, s3, rows, possible>>

-----------------------------------------------------------------------------
(* A request arrives.  One for a collection that _read_collections does not *)
(* find is answered 400 and changes nothing, and so is any request while    *)
(* the file is truncated.                                                   *)

Accept(t, op, c, v) ==
    /\ Home[t] \in running /\ ~Busy(t)
    /\ todo' = [todo EXCEPT ![t] = Script[op]]
    /\ req' = [req EXCEPT ![t] = [kind |-> op, target |-> c, value |-> v]]
    /\ reply' = [reply EXCEPT ![t] = "none"]
    /\ UNCHANGED <<running, files, s3, rows, layers, cut>>

Known(t, c) == LET cat == catalog[Home[t]] IN cat # Torn /\ cat[c] # "absent"
Ask(c, v) == possible' = [possible EXCEPT ![c] = @ \union {v}]
ReadDoc(t) == doc' = [doc EXCEPT ![t] = catalog[Home[t]]]

\* set_collection_enabled with a new value.
Toggle(t, c, v) ==
    /\ v \in {"on", "off"}
    /\ Known(t, c) /\ catalog[Home[t]][c] # v
    /\ Accept(t, "toggle", c, v)
    /\ Ask(c, v) /\ ReadDoc(t)

\* set_collection_enabled with the value the entry has: answered at once.
NoOp(t, c, v) ==
    /\ Home[t] \in running /\ ~Busy(t)
    /\ v \in {"on", "off"}
    /\ Known(t, c) /\ catalog[Home[t]][c] = v
    /\ req' = [req EXCEPT ![t] = [kind |-> "toggle", target |-> c, value |-> v]]
    /\ reply' = [reply EXCEPT ![t] = "noop"]
    /\ UNCHANGED <<running, files, s3, rows, todo, doc, layers, possible, cut>>

Delete(t, c) ==
    /\ Known(t, c)
    /\ Accept(t, "delete", c, "absent")
    /\ Ask(c, "absent") /\ ReadDoc(t)

\* start_scan: the only check is that no scan of c runs in this process.
StartScan(t, c, v) ==
    /\ v \in {"on", "off"}
    /\ \A u \in ThreadsOf(Home[t]) : ~(Busy(u) /\ req[u].kind = "scan" /\ req[u].target = c)
    /\ Accept(t, "scan", c, v)
    /\ Ask(c, v) /\ UNCHANGED doc

\* set_active_collection accepts a disabled collection too.
Activate(t, c) ==
    /\ Known(t, c)
    /\ Accept(t, "activate", c, catalog[Home[t]][c])
    /\ UNCHANGED <<doc, possible>>

Arrive(t) == \E c \in Collection :
    \/ Delete(t, c) \/ Activate(t, c)
    \/ \E v \in Entry : Toggle(t, c, v) \/ NoOp(t, c, v) \/ StartScan(t, c, v)

-----------------------------------------------------------------------------
(* The steps of the scripts *)

\* Thread t performs the next step of its script, which is s.
At(t, s) ==
    /\ Busy(t) /\ Head(todo[t]) = s
    /\ todo' = [todo EXCEPT ![t] = Tail(@)]
    /\ UNCHANGED <<running, req>>

\* delete_postgis_collection, before the catalog is written.
DeleteRows(t) ==
    /\ At(t, "rows")
    /\ rows' = rows \ {req[t].target}
    /\ UNCHANGED <<files, s3, doc, layers, reply, possible, cut>>

\* The scanner writes the tile index and loads cog_index.
Index(t) ==
    /\ At(t, "index")
    /\ rows' = rows \union {req[t].target}
    /\ UNCHANGED <<files, s3, doc, layers, reply, possible, cut>>

\* faulty: upsert_collection goes on with a file it cannot parse
ReadTorn(t) ==
    /\ At(t, "read") /\ ReadDoc(t)
    /\ UNCHANGED <<files, s3, rows, layers, reply, possible, cut>>
\* upsert_collection parses the file; json.loads fails on a truncated one.
ReadForUpsert(t) ==
    /\ At(t, "read")
    /\ catalog[Home[t]] # Torn /\ ReadDoc(t)
    /\ UNCHANGED <<files, s3, rows, layers, reply, possible, cut>>

Truncate(t) ==
    /\ At(t, "truncate")
    /\ catalog' = [catalog EXCEPT ![Home[t]] = Torn]
    /\ UNCHANGED <<mapfile, served, up, active, s3, rows, doc, layers, reply, possible, cut>>

OnlyThis(t) == [Seed EXCEPT ![req[t].target] = req[t].value]  \* faulty: drops the others
NewDoc(t) == [doc[t] EXCEPT ![req[t].target] = req[t].value]
WriteCatalog(t) ==
    /\ At(t, "write")
    /\ catalog' = [catalog EXCEPT ![Home[t]] = NewDoc(t)]
    /\ cut' = cut \ {Home[t]}
    /\ UNCHANGED <<mapfile, served, up, active, s3, rows, doc, layers, reply, possible>>

\* sync_collections_catalog uploads the file as it is now.
Sync(t) ==
    /\ At(t, "sync")
    /\ s3' = catalog[Home[t]]
    /\ UNCHANGED <<files, rows, doc, layers, reply, possible, cut>>

\* runtime_config.json: a collection that goes is no longer the active one.
ForgetDisabled(t) == req[t].value = "off" /\ active[Home[t]] = req[t].target  \* faulty
Forget(t) == req[t].value # "on" /\ active[Home[t]] = req[t].target
NewActive(t) == IF req[t].kind = "activate" THEN req[t].target
                ELSE IF Forget(t) THEN None ELSE active[Home[t]]
SaveRuntime(t) ==
    /\ At(t, "runtime")
    /\ active' = [active EXCEPT ![Home[t]] = NewActive(t)]
    /\ UNCHANGED <<catalog, mapfile, served, up, s3, rows, doc, layers, reply, possible, cut>>

\* mapfile_generator.py reads the catalog ...
ReadLayers(t) ==
    /\ At(t, "layers")
    /\ catalog[Home[t]] # Torn
    /\ layers' = [layers EXCEPT ![t] = Enabled(catalog[Home[t]])]
    /\ UNCHANGED <<files, s3, rows, doc, reply, possible, cut>>

\* ... truncates the mapfile ...
Clear(t) ==
    /\ At(t, "clear")
    /\ mapfile' = [mapfile EXCEPT ![Home[t]] = {}]
    /\ UNCHANGED <<catalog, served, up, active, s3, rows, doc, layers, reply, possible, cut>>

\* ... and writes it.
Render(t) ==
    /\ At(t, "render")
    /\ mapfile' = [mapfile EXCEPT ![Home[t]] = layers[t]]
    /\ UNCHANGED <<catalog, served, up, active, s3, rows, doc, layers, reply, possible, cut>>

\* restart_mapserver_group ignores what became of the stop.
StopGroup(t) ==
    /\ At(t, "stop")
    /\ up' \in {up \ {Home[t]}} \union (IF "stop" \in FaultSteps THEN {up} ELSE {})
    /\ UNCHANGED <<catalog, mapfile, served, active, s3, rows, doc, layers, reply, possible, cut>>

\* Workers that start read the mapfile; those that run are left alone.
Started(k) ==
    /\ up' = up \union {k}
    /\ served' = IF k \in up THEN served ELSE [served EXCEPT ![k] = mapfile[k]]
StartGroup(t) ==
    /\ At(t, "start")
    /\ Started(Home[t])
    /\ UNCHANGED <<catalog, mapfile, active, s3, rows, doc, layers, reply, possible, cut>>

\* 200, or a job that is complete.  The entry now has the value asked for,
\* unless another request for the same collection is under way.
Settles(t) ==
    /\ req[t].kind # "activate"
    /\ \A u \in Thread \ {t} : ~(Busy(u) /\ req[u].target = req[t].target)
Reply(t) ==
    /\ Busy(t) /\ Head(todo[t]) = "reply"
    /\ End({t}, "ok")
    /\ possible' = IF Settles(t) THEN [possible EXCEPT ![req[t].target] = {req[t].value}]
                                 ELSE possible
    /\ UNCHANGED <<running, files, s3, rows, cut>>

\* An exception ends the request with 500, or the job as failed; nothing is
\* rolled back.  What the failing step leaves behind:
Failing(t, s) ==
    /\ Busy(t) /\ Head(todo[t]) = s
    /\ \/ s \in FaultSteps \ {"stop"}
       \/ s \in {"read", "layers"} /\ catalog[Home[t]] = Torn
Leaves(t, s) ==
    /\ rows' \in IF s = "index" THEN {rows, rows \union {req[t].target}} ELSE {rows}
    /\ s3' \in IF s = "sync" THEN {s3, catalog[Home[t]]} ELSE {s3}
    /\ active' \in IF s = "runtime" THEN MayForget(t) ELSE {active}
    /\ cut' = IF s = "write" THEN cut \union {Home[t]} ELSE cut
    /\ \/ UNCHANGED <<served, up>>
       \/ s = "start" /\ Started(Home[t])
Fail(t) ==
    /\ \E s \in StepName : Failing(t, s) /\ Leaves(t, s)
    /\ End({t}, "error")
    /\ UNCHANGED <<running, catalog, mapfile, possible>>

Step(t) ==
    \/ DeleteRows(t) \/ Index(t) \/ ReadForUpsert(t) \/ Truncate(t) \/ WriteCatalog(t)
    \/ Sync(t) \/ SaveRuntime(t) \/ ReadLayers(t) \/ Clear(t) \/ Render(t)
    \/ StopGroup(t) \/ StartGroup(t) \/ Reply(t)

Next ==
    \/ \E k \in Task : Start(k) \/ Replace(k) \/ AdminRestart(k)
    \/ \E t \in Thread : Arrive(t) \/ Step(t) \/ Fail(t)

Spec == Init /\ [][Next]_vars

-----------------------------------------------------------------------------
(* Properties *)

\* What a replacement task would start from is, for each collection, a value
\* that the requests so far allow: an acknowledged scan, enable, disable or
\* delete is never lost, whatever failed or was replaced since.
AcknowledgedIsDurable ==
    Durable # Torn /\ \A c \in Collection : Durable[c] \in possible[c]

\* A task's catalog is there, and its entries are values that the requests so
\* far allow: no request undoes another one.  Only a write that is under way,
\* or that failed or was cut short, leaves it truncated.
CatalogKeepsAcknowledged ==
    \A k \in running \ cut : ~BeingWritten(k) =>
        /\ catalog[k] # Torn
        /\ \A c \in Collection : catalog[k][c] \in possible[c]

\* When the last request of a task was acknowledged, its workers run and
\* serve the enabled collections of its catalog.
AcknowledgedIsServed ==
    \A t \in Thread : ~Busy(t) /\ reply[t] = "ok" =>
        \/ req[t].kind = "activate"
        \/ Home[t] \in up /\ served[Home[t]] = Enabled(catalog[Home[t]])

\* A collection whose delete was acknowledged has left every part of the
\* system: no rows, no layer in the running workers, not the active one.
DeletedIsGone ==
    \A c \in Collection : possible[c] = {"absent"} =>
        /\ c \notin rows
        /\ \A k \in up : active[k] # c /\ c \notin served[k]

\* A request repeated after a failure and answered as a no-op describes the
\* durable catalog, not only the local file.
RepeatIsDurable ==
    \A t \in Thread : ~Busy(t) /\ reply[t] = "noop" => Durable[req[t].target] = req[t].value
=============================================================================
