-------------------------------- MODULE Runtime --------------------------------
(***************************************************************************)
(* The settings of a running container: PUT /runtime, /collections/active  *)
(* and /numprocs of etc/admin_api.py, the requests that make the mapfile   *)
(* anew, the processes under supervisord that read the result, and the     *)
(* starts of the admin process and of the container.                       *)
(*                                                                         *)
(* The settings are two values: tune, which MapServer reads from the       *)
(* mapfile (gdalCacheMaxMb, vsiCacheSizeMb, mapserverDebug), and cache,    *)
(* which nginx reads from its files.  The active collection is kept in the *)
(* same file and applied to nothing: a request that changes it is one that *)
(* changes neither value.  Every request has a thread; no lock orders them.*)
(***************************************************************************)
EXTENDS Naturals, Sequences, FiniteSets

CONSTANTS
    Thread,      \* request threads: the bound on how many run at once
    Setting,     \* the values of each of the two settings
    Payloads,    \* what a settings request may name
    Default,     \* DEFAULT_RUNTIME, and what the generator takes from the environment
    Layout,      \* what the enabled collections of the catalog may be
    Shipped,     \* what they are in a new container
    MaxRequests, \* the bound on requests
    Procs,       \* numbers of workers, 1 .. MAX_WORKERS
    EnvProcs,    \* MAPSERVER_NUMPROCS
    FaultSteps,  \* the steps that may fail
    Disruptions, \* subset of {"admin", "container"}
    Keep,        \* a setting that a request leaves alone
    Torn,        \* runtime_config.json or mapfile.map when it is truncated and not
                 \*   yet written, and the text that a request reads from it then
    None         \* no request

ASSUME RuntimeAssumption ==
    /\ Default \in Setting /\ Keep \notin Setting
    /\ Payloads \subseteq [tune : Setting \union {Keep}, cache : Setting \union {Keep}]
    /\ EnvProcs \in Procs /\ MaxRequests \in Nat
    /\ Shipped \in Layout

Config  == [tune : Setting, cache : Setting]
Mapfile == [layers : Layout, tune : Setting]

VARIABLES
    catalog,    \* the enabled collections
    conf,       \* runtime_config.json
    mapfile,    \* mapfile.map: its layers and its CONFIG lines, or Torn
    serving,    \* the mapfile the workers started with
    up,         \* whether the mapserver group runs
    boot,       \* whether supervisord has still to start it for the first time
    nginxConf,  \* the cache settings in nginx's files
    nginx,      \* the cache settings nginx runs with
    numprocs,   \* supervisord.conf
    workers,    \* the size of the group that supervisord knows
    admin,      \* whether the admin process serves requests
    todo,       \* the steps each thread has still to take
    request,    \* its request
    previous,   \* the settings it has read
    text,       \* the mapfile it is about to write
    arrived,    \* the number of requests so far
    alone,      \* history: the requests no other has overlapped
    cut         \* history: the workers may lack what is in the mapfile, since a write
                \*   of it, a start or an update of the group has failed, or the
                \*   admin process or the workers started in between

files   == <<conf, mapfile, nginxConf, numprocs>>
running == <<serving, up, boot, nginx, workers>>
local   == <<todo, request, previous, text>>
vars    == <<catalog, files, running, admin, local, arrived, alone, cut>>

\* faulty: the workers are not restarted
OnlyWrites == <<"read map", "clear map", "write map">>
TuneScript  == <<"read map", "clear map", "write map", "stop", "start">>
NginxScript == <<"write nginx", "reload nginx">>
Script == [settings |-> <<"read", "truncate", "save", "reply">>,
           rebuild  |-> <<"generate", "clear map", "write map", "stop", "start", "reply">>,
           numprocs |-> <<"write numprocs", "update", "reply">>]
Step == {"read", "truncate", "save", "reply", "generate", "read map", "clear map", "write map",
         "stop", "start", "write nginx", "reload nginx", "write numprocs", "update"}
Request == [kind : {"settings"}, set : Payloads] \union [kind : {"rebuild"}, set : Layout]
             \union [kind : {"numprocs"}, set : Procs]

ASSUME NoneAssumption == None \notin Request

TypeOK ==
    /\ catalog \in Layout /\ conf \in Config \union {Torn}
    /\ mapfile \in Mapfile \union {Torn} /\ serving \in Mapfile \union {Torn}
    /\ up \in BOOLEAN /\ boot \in BOOLEAN /\ admin \in BOOLEAN /\ cut \in BOOLEAN
    /\ nginxConf \in Setting /\ nginx \in Setting
    /\ numprocs \in Procs /\ workers \in Procs
    /\ \A t \in Thread : \A i \in DOMAIN todo[t] : todo[t][i] \in Step
    /\ \A t \in Thread : IF request[t] = None THEN todo[t] = << >> ELSE request[t] \in Request
    /\ previous \in [Thread -> Config \union {None}]
    /\ text \in [Thread -> Mapfile \union {Torn, None}] /\ arrived \in 0 .. MaxRequests
    /\ alone \subseteq Thread

Defaults == [tune |-> Default, cache |-> Default]
\* The generator takes its CONFIG lines from the environment.
Generated(layers) == [layers |-> layers, tune |-> Default]

\* A new container, before its processes have started.
Init ==
    /\ catalog = Shipped /\ conf = Defaults
    /\ mapfile = Generated(catalog) /\ serving = mapfile
    /\ up = FALSE /\ boot = TRUE /\ admin = FALSE
    /\ nginxConf = Default /\ nginx = Default
    /\ numprocs = EnvProcs /\ workers = EnvProcs
    /\ todo = [t \in Thread |-> << >>] /\ request = [t \in Thread |-> None]
    /\ previous = [t \in Thread |-> None] /\ text = previous /\ arrived = 0
    /\ alone = {} /\ cut = FALSE

-----------------------------------------------------------------------------
(* Requests *)

Busy(t) == todo[t] # << >>
Quiet == \A t \in Thread : ~Busy(t)
At(t, step) == Busy(t) /\ Head(todo[t]) = step
Goes(t) == todo' = [todo EXCEPT ![t] = Tail(@)] /\ UNCHANGED <<request, arrived>>
Ends(t) == /\ todo' = [todo EXCEPT ![t] = << >>]
           /\ request' = [request EXCEPT ![t] = None]
           /\ previous' = [previous EXCEPT ![t] = None]
           /\ text' = [text EXCEPT ![t] = None]
           /\ alone' = alone \ {t} /\ UNCHANGED arrived
\* An exception is answered 500; the steps that follow are not taken.
Fails(t, step) == At(t, step) /\ step \in FaultSteps /\ Ends(t)

Arrive(t) ==
    /\ admin /\ ~Busy(t)
    /\ arrived < MaxRequests /\ arrived' = arrived + 1
    /\ \E r \in Request :
          /\ request' = [request EXCEPT ![t] = r]
          /\ todo' = [todo EXCEPT ![t] = Script[r.kind]]
          /\ catalog' = IF r.kind = "rebuild" THEN r.set ELSE catalog
    /\ alone' = IF Quiet THEN {t} ELSE {}
    /\ UNCHANGED <<files, running, admin, previous, text, cut>>

Reply(t) ==
    /\ At(t, "reply") /\ Ends(t)
    /\ UNCHANGED <<catalog, files, running, admin, cut>>

-----------------------------------------------------------------------------
(* PUT /runtime and PUT /collections/active *)

\* faulty: what the file does not say gets no default
NoDefaults(c) == IF c = Torn THEN [tune |-> None, cache |-> None] ELSE c
\* runtime_config: a file that does not parse counts as absent.
Load(c) == IF c = Torn THEN Defaults ELSE c
\* faulty: keys the payload leaves out get their default
Overwrite(c, set) == [k \in DOMAIN c |-> IF set[k] = Keep THEN Default ELSE set[k]]
Update(c, set) == [k \in DOMAIN c |-> IF set[k] = Keep THEN c[k] ELSE set[k]]

ReadConfig(t) ==
    /\ At(t, "read") /\ Goes(t)
    /\ previous' = [previous EXCEPT ![t] = Load(conf)]
    /\ UNCHANGED <<catalog, files, running, admin, text, alone, cut>>

TruncateConfig(t) ==
    /\ At(t, "truncate") /\ Goes(t)
    /\ conf' = Torn
    /\ UNCHANGED <<catalog, mapfile, nginxConf, numprocs, running, admin, previous, text, alone, cut>>

\* The settings that a request saves and then applies.
Saved(t) == Update(previous[t], request[t].set)

\* What has changed decides what is applied.
Changes(old, new) ==
    (IF old.tune # new.tune THEN TuneScript ELSE << >>) \o
    (IF old.cache # new.cache THEN NginxScript ELSE << >>)

SaveConfig(t) ==
    /\ At(t, "save")
    /\ conf' = Saved(t)
    /\ todo' = [todo EXCEPT ![t] = Changes(previous[t], Saved(t)) \o <<"reply">>]
    /\ UNCHANGED <<catalog, mapfile, nginxConf, numprocs, running, admin, request, previous, text, arrived, alone, cut>>

\* replace_or_insert_config: the CONFIG lines are replaced, or follow the line
\* MAP; a truncated text has neither and stays as it is.
Edited(map, tune) == IF map = Torn THEN Torn ELSE [map EXCEPT !.tune = tune]

\* apply_mapfile_runtime: the file is read, its CONFIG lines are replaced and
\* the whole of it is written back.
ReadMapfile(t) ==
    /\ At(t, "read map") /\ Goes(t)
    /\ text' = [text EXCEPT ![t] = Edited(mapfile, Saved(t).tune)]
    /\ UNCHANGED <<catalog, files, running, admin, previous, alone, cut>>

WriteNginx(t) ==
    /\ At(t, "write nginx") /\ Goes(t)
    /\ nginxConf' = Saved(t).cache
    /\ UNCHANGED <<catalog, conf, mapfile, numprocs, running, admin, previous, text, alone, cut>>

\* faulty: the answer does not wait for nginx to take the files
NoReload(t) ==
    /\ At(t, "reload nginx") /\ Goes(t)
    /\ UNCHANGED <<catalog, files, running, admin, previous, text, alone, cut>>
\* The test of the files and the reload; either may refuse.
ReloadNginx(t) ==
    /\ At(t, "reload nginx") /\ Goes(t)
    /\ nginx' = nginxConf
    /\ UNCHANGED <<catalog, files, serving, up, boot, workers, admin, previous, text, alone, cut>>

-----------------------------------------------------------------------------
(* The mapfile made anew, and the workers *)

\* mapfile_generator.py: the text is made from the catalog.
Generate(t) ==
    /\ At(t, "generate") /\ Goes(t)
    /\ text' = [text EXCEPT ![t] = Generated(catalog)]
    /\ UNCHANGED <<catalog, files, running, admin, previous, alone, cut>>

\* write_text, here and in apply_mapfile_runtime: the file is truncated, and
\* then the text is written.
ClearMapfile(t) ==
    /\ At(t, "clear map") /\ Goes(t)
    /\ mapfile' = Torn
    /\ UNCHANGED <<catalog, conf, nginxConf, numprocs, running, admin, previous, text, alone, cut>>

WriteMapfile(t) ==
    /\ At(t, "write map") /\ Goes(t)
    /\ mapfile' = text[t]
    /\ text' = [text EXCEPT ![t] = None]
    /\ UNCHANGED <<catalog, conf, nginxConf, numprocs, running, admin, previous, alone, cut>>

\* faulty: the group is not stopped
NoStop(t) ==
    /\ At(t, "stop") /\ Goes(t)
    /\ UNCHANGED <<catalog, files, running, admin, previous, text, alone, cut>>
\* restart_mapserver_group does not look at the result of the stop.
Stop(t) ==
    /\ At(t, "stop") /\ Goes(t)
    /\ up' = FALSE \/ ("stop" \in FaultSteps /\ up' = up)
    /\ UNCHANGED <<catalog, files, serving, boot, nginx, workers, admin, previous, text, alone, cut>>

\* A group that runs already is left as it is, and that is no error.
Start(t) ==
    /\ At(t, "start") /\ Goes(t)
    /\ up' = TRUE
    /\ serving' = IF up THEN serving ELSE mapfile
    /\ cut' = (cut /\ up)
    /\ UNCHANGED <<catalog, files, boot, nginx, workers, admin, previous, text, alone>>

\* A write that fails leaves the file truncated; an update that fails may
\* have stopped the group.
Fail(t) ==
    /\ \E step \in Step : Fails(t, step)
    /\ up' = up \/ (At(t, "update") /\ up' = FALSE)
    /\ cut' = (cut \/ At(t, "write map") \/ At(t, "start") \/ At(t, "update"))
    /\ UNCHANGED <<catalog, files, serving, boot, nginx, workers, admin>>

-----------------------------------------------------------------------------
(* PUT /numprocs *)

WriteNumprocs(t) ==
    /\ At(t, "write numprocs") /\ Goes(t)
    /\ numprocs' = request[t].set
    /\ UNCHANGED <<catalog, conf, mapfile, nginxConf, running, admin, previous, text, alone, cut>>

\* supervisorctl reread and update: a group whose section has changed is
\* stopped, removed and started in its new size.  The update runs, too, when
\* the reread has failed and the request is answered 500.
UpdateGroup(t) ==
    /\ At(t, "update")
    /\ \/ Goes(t) /\ UNCHANGED <<previous, text, alone>>
       \/ "reread" \in FaultSteps /\ Ends(t)
    /\ workers' = numprocs
    /\ IF workers = numprocs THEN UNCHANGED <<up, serving, boot, cut>>
       ELSE up' = TRUE /\ serving' = mapfile /\ boot' = FALSE /\ cut' = FALSE
    /\ UNCHANGED <<catalog, files, nginx, admin>>

-----------------------------------------------------------------------------
(* Starts of the processes *)

\* The group starts with the container, once: beside the admin process, which
\* may be writing the mapfile back.
Autostart ==
    /\ boot /\ boot' = FALSE
    /\ up' = TRUE
    /\ \/ serving' = (IF up THEN serving ELSE mapfile) /\ cut' = (cut /\ up)
       \/ ~admin /\ ~up /\ serving' = Torn /\ cut' = TRUE
    /\ UNCHANGED <<catalog, files, nginx, workers, admin, local, arrived, alone>>

ThreadsEnd ==
    /\ todo' = [t \in Thread |-> << >>] /\ request' = [t \in Thread |-> None]
    /\ previous' = [t \in Thread |-> None] /\ text' = previous'
    /\ alone' = {}

\* The admin process ends, and supervisord will start it again.
AdminEnds ==
    /\ "admin" \in Disruptions /\ admin
    /\ admin' = FALSE
    /\ ThreadsEnd /\ cut' = (cut \/ ~Quiet)
    /\ UNCHANGED <<catalog, files, running, arrived>>

\* It normalises the settings and applies them to the files, not to the
\* processes that have read them.
AdminStart ==
    /\ ~admin /\ admin' = TRUE
    /\ conf' = Load(conf)
    /\ mapfile' = Edited(mapfile, Load(conf).tune)
    /\ nginxConf' = Load(conf).cache
    /\ cut' = (cut \/ mapfile' # mapfile)
    /\ UNCHANGED <<catalog, numprocs, running, local, arrived, alone>>

\* It ends in the middle of that, with one of the files truncated.
AdminStartEnds ==
    /\ Disruptions # {} /\ ~admin
    /\ \/ conf' = Torn /\ UNCHANGED <<mapfile, cut>>
       \/ conf' = Load(conf) /\ mapfile' = Torn /\ cut' = TRUE
    /\ UNCHANGED <<catalog, nginxConf, numprocs, running, admin, local, arrived, alone>>

\* entrypoint.sh on the files of the stopped container.
ContainerRestart ==
    /\ "container" \in Disruptions
    /\ admin' = FALSE
    /\ ThreadsEnd /\ cut' = FALSE
    /\ numprocs' = EnvProcs /\ workers' = EnvProcs
    /\ mapfile' = Generated(catalog)
    /\ up' = FALSE /\ boot' = TRUE /\ nginx' = nginxConf
    /\ UNCHANGED <<catalog, conf, nginxConf, serving, arrived>>

-----------------------------------------------------------------------------
RequestStep(t) ==
    \/ Reply(t) \/ ReadConfig(t) \/ TruncateConfig(t) \/ SaveConfig(t)
    \/ ReadMapfile(t) \/ Generate(t) \/ ClearMapfile(t) \/ WriteMapfile(t) \/ Stop(t) \/ Start(t)
    \/ WriteNginx(t) \/ ReloadNginx(t) \/ WriteNumprocs(t) \/ UpdateGroup(t) \/ Fail(t)

Next ==
    \/ \E t \in Thread : Arrive(t) \/ RequestStep(t)
    \/ Autostart \/ AdminEnds \/ AdminStart \/ AdminStartEnds \/ ContainerRestart

\* A request that has arrived is worked on, and supervisord starts what it
\* has to start.
Spec ==
    /\ Init /\ [][Next]_vars
    /\ \A t \in Thread : WF_vars(RequestStep(t))
    /\ WF_vars(Autostart)

-----------------------------------------------------------------------------
(* Properties *)

\* What a request that no other overlapped is about to answer 200 for holds
\* of the processes, whatever earlier requests, failures and restarts have left
\* behind: each setting it names is saved, a changed tuning is what the
\* workers run with, a changed cache setting is what nginx runs with; the
\* layers of the catalog are served; supervisord has the number of workers.
\* One thing is beyond a settings request: a mapfile that was truncated when
\* it came has no line to put the tuning in; a rebuild makes it whole.
AcknowledgedIsApplied ==
    \A t \in alone : todo[t] = <<"reply">> =>
        CASE request[t].kind = "settings" ->
                /\ \A k \in DOMAIN conf : conf[k] = IF request[t].set[k] = Keep THEN previous[t][k]
                                                     ELSE request[t].set[k]
                /\ conf.tune # previous[t].tune =>
                      up /\ serving = mapfile /\ (mapfile # Torn => mapfile.tune = conf.tune)
                /\ conf.cache # previous[t].cache => nginx = conf.cache
          [] request[t].kind = "rebuild" -> up /\ serving.layers = request[t].set
          [] request[t].kind = "numprocs" -> workers = request[t].set

\* When no request is under way, the workers run and have the mapfile that is
\* on disk, in whatever order requests have read it, truncated it, written it
\* and stopped and started the group; except after a failed write, start or
\* update, or a start of the admin process or of the container in between.
QuietIsServed == Quiet /\ ~boot /\ ~cut => up /\ serving = mapfile

\* A mapfile that is written is served some time later, by workers that run,
\* unless the write, the start or the update fails or the admin process ends
\* or starts in between.
MapfileIsServed == ~(up /\ serving = mapfile) ~> (up /\ serving = mapfile) \/ cut
=============================================================================
