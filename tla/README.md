# Verification of the cloud-native MapServer container

This directory holds TLA+ models of the program in `src/`: a container image in which MapServer
draws imagery from Cloud Optimized GeoTIFFs in S3, with the Python processes that index the
imagery, rewrite MapServer's configuration while it runs, and sign its reads. TLC checks the
models on small instances and TLAPS proves the most important facts for every instance.

`PROJECT.json` lists the runs, the properties each checks, the source lines of every definition,
the hazards of the code and the disagreements found.

## 1. Inventory

### Components, their state and operations

| Component (source) | State | Operations |
|---|---|---|
| Refresh controller (`etc/parquet_refresh.py`) | `collections.json`, `mapfile.map`, candidates and backups of both, generation directories, status file, `flock` file | `startup` (before supervisord), `runtime` (a refresh of a live container) |
| Index preparation (`etc/prepare_parquet_backend.py`) | one generation directory, one candidate catalog | download, convert, write the catalog |
| Admin API (`etc/admin_api.py`) | `runtime_config.json`, `_JOBS`, `_PARQUET_REFRESH_THREAD`; rewrites the catalog, mapfile, nginx and supervisor files | GET status, config, jobs; POST refresh, scan, benchmark; PUT runtime, numprocs, active, enabled; DELETE collection |
| COG scanner (`scripts/scan_cog_collection.py`) | FlatGeobuf indexes, `cog_index` rows in PostGIS, one catalog entry | a scan: list, read headers, group by EPSG, write, load, upsert |
| Mapfile generator (`etc/mapfile_generator.py`) | `mapfile.map` | rebuild it from the catalog |
| SigV4 signer (`etc/s3_sigv4_proxy.py`) | cached credential, time until which none is looked for | sign and forward one request |
| nginx (`etc/nginx`) | the range cache on disk | GET and HEAD, lock, bypass for the scanner |
| supervisord and the MapServer workers | which workers run, and the mapfile they were started with | stop, start, update |
| Entrypoint (`etc/entrypoint.sh`, `fetch_startup_config.py`) | none of its own | download the catalog, first refresh or first mapfile, start supervisord |
| Benchmark, lambdas, admin and viewer pages, CDK stack | see `PROJECT.json` | |

### How they interact

* The admin API starts the refresh controller, the scanner and the generator as **processes** and
  waits for them in a request or job thread. Its HTTP server is a `ThreadingHTTPServer`: every
  request has a thread, and no lock orders them, but for one around the job table and one around
  the launch of a refresh.
* The controller, the scanner, the generator and the admin API **share files**: the catalog and
  the mapfile. The controller replaces them by renames; the others truncate and write them.
* The controller and the admin API **stop and start the workers** through `supervisorctl`.
  supervisord restarts the admin process when it dies; a refresh it had started goes on as an
  orphan.
* In the deployed stack every Fargate task has its own file system. It downloads the catalog from
  **S3** when it starts and uploads it after each change. PostGIS is shared.
* GDAL inside the workers reads through nginx, nginx through the signer, the signer from S3.

### What is hard

Roll-back after a failure at each of a dozen steps; kills between renames; an orphaned refresh
beside a new one; whole-file read-modify-write by several writers; an upload that fails after the
local change; several tasks with one durable catalog; credentials that age while they are cached,
with sources that fail or are read half written. The list with lines is `hazards` in
`PROJECT.json`.

### What makes each component correct

* *Refresh*: the served pair of catalog and mapfile changes at once or not at all, only to a
  complete generation; nothing names deleted files, even after a kill; workers come back; the
  status is the truth; nothing is left behind. Where the admin process's own edits of the mapfile
  break this, the properties say so.
* *Catalog*: an acknowledged request is in the catalog, in S3, in the mapfile and in the workers;
  a request changes one collection; a deleted one is gone everywhere.
* *Scan*: a complete job is drawn, each image once and in its own coordinate system; the rows of a
  scan are there all or none; a delete leaves nothing; a job ends.
* *Runtime*: an acknowledged setting is in force; however requests interleave their stops and
  starts, the workers end up with the mapfile on disk.
* *Signer*: no dead signature when a live credential is at hand and says when it expires; an
  outage does not outlast its cause; `required` is required.
* *Cache*: an entry is what S3 holds.

## 2. Plan

| Order | Module | Contents | State |
|---|---|---|---|
| 1 | `ParquetRefresh` | controller, launcher, startup | done |
| 2 | `AbstractRefresh` | what a refresh promises; `ParquetRefresh` implements it | done |
| 3 | `ParquetRefreshProofs` | types, pointer safety, mutual exclusion, for all instances | done |
| 4 | `ParquetRollbackProofs` | all or nothing, the refinement, when the roll-back works | done |
| 5 | `ParquetSurvivalProofs` | what survives any failure and any kill | done |
| 6 | `Catalog` | admin requests, scans as writers, several tasks, S3 | done |
| 7 | `CatalogProofs` | types; durable, served, complete, when requests do not overlap | done |
| 8 | `Signer` | credential cache | done |
| 9 | `SignerProofs` | types, live signatures, the pause, the modes, the refreshed file | done |
| 10 | `Scan` | jobs and scanner processes, EPSG groups, FlatGeobuf files, PostGIS transactions, entry, layers, delete | done |
| 11 | `ScanProofs` | types; rows, layers and deletes, for any contents of the bucket | done |
| 12 | `Runtime` | settings, rebuild and numprocs requests that overlap; mapfile, nginx and workers; restarts of the admin process and the container | done |
| 13 | `RuntimeProofs` | the workers end up with the mapfile on disk | done |
| 14 | `RuntimeAppliedProofs` | types; what is acknowledged is in force | done |

Dropped from an earlier plan: a model of nginx's range cache (what it caches and when is nginx's
algorithm; the repository has two declarative files), of the viewer's aborted requests
(rendering), and of tile arithmetic and layer extents (floating-point geometry).

Every safety property that a passing run checks is now a theorem. What could follow: an abstract
specification of `Catalog` (a request takes effect at once or not at all, up to its answer) and of
`Runtime` with their refinements, and theorems for requests that overlap on different collections.
All modules are free of recursive operators for that reason.

## 3. The modules

### `ParquetRefresh`

One process of `parquet_refresh.py` is an element of `Proc` with a program counter; each statement
of `refresh()` that changes state is one action, in source order (`TrySteps`), and each statement
of the `except` branch another (`UndoSteps`). `RaiseAt`/`Raise` is the jump from a failing
statement; `PrepareFails`, `GenerateFails`, `StopFails` and `StartFails` are the statements whose
failure leaves something behind. `Kill` ends one process, `KillContainer` all of them, between any
two statements. `StartContainer` is the run before supervisord, `PostRefresh` the admin endpoint.

The admin process writes the mapfile, too: `apply_mapfile_runtime` reads it, edits its CONFIG
lines and writes it back whole, when the process starts (`AdminRestart`, `StartContainer`) and in
PUT /runtime, which then stops and starts the workers, as PUT /numprocs does (`PutSettings`).
`edit` is where it is and the text it holds; between truncation and write the file is `Open`, and
`Empty` when the edit ends there. Nothing orders an edit with a refresh. A text read before a swap
that is written after it names the old generation, which the refresh deletes, and a start of the
workers may come between a refresh's stop and its renames. `spoilt` is history: an edit has met a
swap in such a way, or was cut short. The properties about the mapfile are stated until then,
since the code promises nothing afterwards; those about the catalog, the disk and the status hold
whatever is edited. The collection requests are not among the writers: the stack refuses them with
the GeoParquet backend (`cdk/mapserver_stack.py:362`).

A file's content is the generation its entries name (`Seed` for the bundled files, `None` for no
file). `loaded` is what each worker has read when it started. `lock` is the `flock`, which the
kernel releases with the process. Abstractions to know: a process's id is drawn when it is
launched, not a few statements later; a kill happens between statements (renames and unlinks are
atomic, and the other statements write files nobody reads yet); one edit is under way at a time; a
crash of a single worker, which supervisord repairs, is left out.

### `AbstractRefresh`

Three variables: the generation that is `active`, those `pending`, those `stored`. A refresh
starts, activates its generation, or fails and leaves `active` as it was.
`ParquetRefresh!ImplementsAbstract` maps the concrete state to it; the active generation is the
catalog's.

### `Catalog`

A request is a *script*: the sequence of its statements that read or change state. A thread has
the rest of its script in `todo` and performs its head; `Fail` ends it at a step of `FaultSteps`,
with what that step leaves behind, and nothing is rolled back, as in the code. The catalog's data
is one of `absent`, `off`, `on` per collection; `write_text` is two steps, with the content `Torn`
in between. The generator reads in one step, truncates the mapfile in another and writes it in a
third. The stop and the start of the workers are two steps: the result of the stop is ignored
(`StopGroup`), and workers that run are left alone by the start (`Started`). `Start` is the
entrypoint, `Replace` the loss of a task with its file system, `AdminRestart` that of its threads.
`possible` is history: the values each entry may have, given the requests that were made, failed
and acknowledged; `cut` the tasks whose catalog a failed or interrupted write has left truncated.

Left out: the artifacts, rows and job records of a scan, which `Scan` models; the 403 of a
read-only deployment, which changes nothing; a scanner that survives the admin process, which
`Scan` models; two overlapping writes whose texts mix in one file, where the model keeps the later
one.

### `Signer`

`credentials()` is `Answer` (what the lock protects and no load is needed for) or `BeginLoad` and
`Loaded`/`LoadFails`. The clock counts minutes; it does not move while the lock is held, since
every load is bounded by `METADATA_TIMEOUT` (1 s), and moves at most once between the answer and
S3's look at the signature (the connection timeout is 30 s). A credential has a true expiry and
the one the signer knows: they are the same for the endpoint and for a file that states an
Expiration (`"file"`); a file that states none (`"undated"`) and the environment have `Never`. The
script checks the two keys only before it copies the file, so that it may copy an undated one.

### `Scan`

One collection, from POST /scan to the workers that draw it. A job has three parts in the code and
here: its record in `_JOBS` (`status`), its thread in the admin process (`thread`: spawn, read the
scanner's output, rebuild and upload, restart) and its scanner, a process of its own (`scanner`).
What a scan finds is a set of COGs: a key, the EPSG code GDAL can tell or `None`, and whether the
Web Mercator footprint is finite. `Label` and `Group` are the grouping by code, `Path` the choice
of a file per group, `EntryOf` what `main()` writes to the catalog, with the `enabled` flag of the
payload, `Layers` what the generator makes of it, `Selected` what MapServer's tile index then
finds in a file or in `cog_index`.

`Write`, `Unlink` and `Rename` are the replacement of an index file: GDAL makes a directory of a
name that ends in `.tmp`, and one that an earlier scanner has left there (`tmp`) makes every later
scan of that file fail. `BeginLoad` and `Commit` are the DELETE and the INSERT of a transaction
per group. Under READ COMMITTED the DELETE sees the rows that are committed when it runs, and the
unique key on (collection, location) makes the later of two overlapping loads fail (`Conflict`).
`Truncate` and `Upsert` are the two halves of the catalog's write.

`_JOBS` keeps one task from two scans of a collection; another task, which shares the rows only,
is not kept from it (`ScanElsewhere`, `DeleteElsewhere`). `AdminRestart` loses the records and
threads and leaves the scanner as an orphan, which goes on until it next prints to its closed pipe
(`Prints`). `KillScanner` ends it anywhere. `Spawn` and `StreamBreaks` have the exceptions that
`_run_scan` does not catch: the thread is gone and the job stays "running". The delete request
runs beside all that; it skips the files it cannot remove, and it ignores, as a job does, a stop
of the workers that fails (`ignored`). `owner` is history: the scan or delete that nothing, here
or in another task, has overlapped so far, which is the one that the properties make promises
about; `crossed` are the scans whose loads have overlapped.

Left out: what another task's delete does beyond the rows; the counters parsed from the scanner's
output; the refusal of artifact paths outside `/usr/src/mapfiles`, which a scanned entry has none
of; the moment in which the generator has truncated the mapfile, which `Runtime` and `Catalog`
have.

### `Runtime`

The settings of a running container. A request is a script, as in `Catalog`: settings (PUT
/runtime and PUT /collections/active), rebuild (enable, disable, delete and the end of a scan, as
far as mapfile and workers are concerned) and PUT /numprocs. The settings are two values, the one
that MapServer reads from the mapfile (`tune`) and the one that nginx reads (`cache`); what has
changed decides which steps follow the save (`Changes`). Both `runtime_config.json` and
`mapfile.map` are `Torn` between truncation and write, stay so after a write that fails or is cut
off, and are read so by a request that overlaps. A torn configuration is read as the defaults; a
torn mapfile has no line to edit and is written back as it is (`Edited`). `Start` leaves a running
group as it is, as supervisorctl does; `Stop` may fail unseen; `UpdateGroup` is reread and update,
which replaces the group when its size has changed, and an update that fails may have stopped it.
`AdminStart` is the normalisation at the start of the admin process, which writes the files and
restarts nothing, and `AdminStartEnds` its end in the middle of that; `ContainerRestart` is the
entrypoint on the files of the stopped container. `alone` is history, the request that no other
overlaps; `cut` says that a write, a start or an update failed, or the admin process ended or
started, in between, so that nobody may be left to give the workers what is on disk.

Left out: two overlapping writes whose texts mix in one file; nginx's own files, which are written
in one step; a group that update has removed and not added again.

## 4. The runs

| Run | Question | Instance |
|---|---|---|
| `refresh_safe` | Is a refresh all or nothing when any step that its roll-back can undo raises, beside restarts and edits of the admin process? | 3 generations, 2 processes, 2 workers |
| `refresh_crash` | What survives kills at any step, failures inside the roll-back and partial starts? | 3 generations, 2 processes, 1 worker, kills |
| `refresh_live` | Do the workers come back and is a refresh reported once it has begun? | 2 generations, 2 processes, 2 workers, all failures outside the roll-back |
| `refresh_late_fault` | Does a failed refresh leave the prior generation active? **No** | the status write fails |
| `catalog_safe` | Is an acknowledged request durable, served, complete? | 2 collections, 1 task, 1 thread; every step but the stop may fail |
| `catalog_retry` | Is a repeated request durable? **No** | the upload fails |
| `catalog_two_writers` | Does a request change one collection only? **No** | 2 threads in a task |
| `signer` | Are the endpoint's signatures alive, what may hide the refreshed file, does signing resume? | 2 requests, 10 minutes, file with and without an Expiration, endpoint |
| `signer_env` | Is the refreshed file picked up? **No** | file and environment |
| `scan` | Is a complete scan drawn, are a scan's rows there all or none, does a delete leave nothing, does a job end? | 2 scans in one task or two, deletes, 2 EPSG codes, 2 listings |
| `scan_dropped` | Is imagery without a finite web footprint drawn? **No** | 1 scan, no failures |
| `runtime` | Is an acknowledged setting in force, and what is on disk served? | 2 threads, 3 requests, restarts |

### Bounds

Three generations are a prior one, one that replaces it and one that fails or follows; two
processes are an orphan and its rival, and the lock admits one of any number. Two workers suffice
for a partial stop; `refresh_crash`, whose properties are about the disk, has one. Ids, processes
and workers are interchangeable (`SYMMETRY`); both runs then have about 0.9 million states. The
failing steps of `refresh_safe` leave out the file operations of the `except` branch, the two
unlinks of backups and the last status write, which are what `refresh_crash`, `refresh_live` and
`refresh_late_fault` are about.

The catalog runs have no bound on the number of requests, failures or replacements: the state
space is finite (1.8 million states). Two collections are one that a request names and one that it
must not touch; `catalog_safe` starts from an empty bundled catalog, which makes them
interchangeable. Its single thread is what `catalog_two_writers` relaxes; `catalog_retry` is the
same system with a client that repeats a failed request. The stop is left out of its failing
steps: the code ignores its result and acknowledges the request with the old mapfile served, and a
collection that was deleted stays in the workers. `Scan` has that step.

In `Signer` the lifetime of a credential is scaled from 60 minutes to 7, still longer than the
margin of 5, so that the clock can pass several lifetimes' ends within 10 minutes (1.4 million
states).

Two scans in `scan` are an orphan and the scan beside it, two of different tasks, or a scan and
the one that replaces it. One listing has two source CRSs, the other one of them alone, for other
COGs, of which one has no code: with both, a scan goes from several codes to one and back, keeps a
COG, loses one and finds a new one. `scan_dropped` has the COG without a finite footprint. The
failing steps are those of `AllSteps`, among them a failed stop, a skipped unlink, and output that
breaks off (716,000 states). In `runtime` two threads are two overlapping requests and three
requests one that comes after them; each setting has its default and another value (423,000
states). The failing steps leave out `"stop"`, whose result the code ignores: with it
`QuietIsServed` does not hold.

### Fairness

`refresh_live` assumes that each process eventually takes its next step or its failure (weak
fairness of the step of each process). It is a single process with no waiting but on subprocesses,
all of which end; nothing is assumed of new requests, kills, edits or admin restarts.
`ParquetRefresh` never waits for its lock (`LOCK_NB`), so no stronger fairness is needed.
`OutcomeIsReported` is stated from the `try` block on: an exception in lines 110-123, before it,
leaves "refreshing" for good, and so does one in the `except` branch, which the failing steps of
the run leave out.

`scan` (`JobEnds`) assumes weak fairness of `Work`, the steps of threads and scanners: a thread
waits for its scanner only, and a scanner for S3 and PostGIS with timeouts or errors. It leaves
out the two ways in which the thread dies of an exception that nobody catches. `runtime`
(`MapfileIsServed`) assumes weak fairness of the steps of each request, which wait for
supervisorctl and nginx, and of the start of the workers by supervisord. Neither assumes a new
request, a restart or a success.

### Deadlock

Where `CHECK_DEADLOCK FALSE` stands, the system may stop: a container whose startup refresh
failed, ids, jobs or requests exhausted by the bound, or, in `catalog_two_writers`, a truncated
catalog in S3 with which no task starts.

## 5. The proofs

All theorems hold for every value of the constants that the named assumptions of the module allow
(`RefreshAssumption`, `CatalogAssumption`, `SignerAssumption`, `ScanAssumption`,
`RuntimeAssumption`, and two named `NoneAssumption`, that the value for "nothing" is no value).
TLC evaluates them in each run. `ScanAssumption` says of a listing that it has each key once,
which S3 guarantees. Whatever else a theorem needs is a hypothesis in its statement. TLC checked
each inductive invariant on the instance of its run before it was proved.

### The refresh

`ParquetRefreshProofs`: any generations, processes and workers, any failing steps, with kills and
restarts.

* `TypeCorrect`: `Spec => []TypeOK`;
* `Invariant`: `Spec => []IInv`;
* `NoDangling`: `Spec => []NoDanglingPointer`, what `refresh_crash` checks on its instance: of the
  catalog always, of the mapfile until an edit meets a swap (`spoilt`);
* `OneRefresh`: at most one process is inside `refresh()`.

`NoDanglingPointer` (the catalog and the mapfile name complete generations only) is not inductive.
`IInv` adds: `LockInv`, that a process inside `refresh()` holds the lock, so the locals of one
process describe the files; `IdInv`, that ids are drawn once; `FreshInv`, that an undrawn id has
no directory, backup or candidate, so that a new generation cannot be an old one; `EditInv`, that
a file is truncated only while the admin process writes it and that, until `spoilt`, the text of
an edit is the mapfile's; and `SwapInv`, that until the swap the files are the old ones and do not
name the new generation, that an installed file names a staged one, and that a directory is
removed only when neither file names it.

`ParquetRollbackProofs`: under the hypothesis `Recoverable`, that the file operations of the
`except` branch, the unlink of the mapfile's backup and the last status write do not raise and
that nobody is killed (the instance of `refresh_safe` satisfies it; the admin process restarts and
edits).

* `ServedComplete`, `CatalogAgrees`, `ReadyActive`, `NoLeak`: the invariants of `refresh_safe`.
  `ServedComplete` is about what the workers have loaded as well as what is on disk, and needs
  `KeepsLoaded` besides: that the unlink of the catalog's backup does not raise and that a failing
  start leaves no worker running. Otherwise the roll-back removes the new generation below workers
  that it does not restart, since `workers_stopped` is already or still `False`;
* `FailedKeepsPrior`: README.md:81, a failed refresh leaves the prior generation active. The run
  `refresh_late_fault` refutes it when the last status write may fail;
* `Refinement`: `Spec => ImplementsAbstract`, with the edits among the steps. The mapping takes
  for the active generation what the catalog names, or its backup while the swap can still be
  rolled back, and for the pending one the holder's, while it is staged and not yet active. The
  mapfile goes with it as far as `CatalogAgrees` says.

The invariant `RollbackInv` says that with the lock free the disk is `Clean` (one generation or
the bundled content, in both files, and nothing else), and otherwise that it stands where the next
statement of the holder expects it (`Swapping`): per file, before each statement, whether it is
still in place (`Kept`), moved away (`Moved`), replaced (`Swapped`), committed (`Dropped`) or
restored (`Back`), with what that means for directories, candidates, workers and status. Each
statement moves one file from one of these to the next, and a failure jumps to `undo`, where any
of the first three is possible. For the refinement, `Prepare` maps to `Stage`, the unlink of the
catalog's backup to `Commit`, the removal of the new directory to `Abandon` and that of old ones
to `Delete`; every other step is a stutter (`WorkRefines`).

`ParquetSurvivalProofs`: any failing step, those of the roll-back included, any kill.

* `StagedFirst` (`StagedBeforeStop`), without a hypothesis, of every stop but that of a settings
  request;
* `MapfileSurvives` (`SurvivingCopy`), if the last status write does not fail, which runs when the
  old generation is gone, and until an edit meets a swap or is cut short. Its invariant says which
  copy is spared: until the backup is unlinked, a complete mapfile, live or moved away, that does
  not need the new generation; afterwards the new one, which is staged.

### The catalog

`CatalogProofs`: any collections, tasks and threads.

* `TypeCorrect`, without a hypothesis;
* `ServedAfterReply` (`AcknowledgedIsServed`): one thread per task, any tasks, any failures but
  that of the stop, whose result the code ignores;
* `Durability` (`AcknowledgedIsDurable`): one thread, any tasks and replacements, any failing step
  but the download of the catalog at a start;
* `NothingUndone` (`CatalogKeepsAcknowledged`) and `DeleteIsComplete` (`DeletedIsGone`): the same
  with one task, the latter with a stop that does not fail. A catalog is truncated only by a write
  that is under way, or that failed or was cut short (`TornInv`): then its local entries are lost,
  and those in S3 are not.

The hypotheses say that requests do not overlap, which nothing in the code ensures; the run
`catalog_two_writers` shows what happens otherwise, and a failed download is the first of the
limits in section 6. `catalog_safe` satisfies them. `Shape` and `Following` describe what a script
has left by the order of its steps, so that a thread before a step has taken those before it. The
invariants add what that means for the files: `ServedInv` that the mapfile, once rendered, has the
layers of the catalog; `DurableInv` that what S3 has, and what a thread will upload, are among the
values that `possible` allows; `GoneInv` where a deleted collection still is before each step of
the delete.

### Scans

`ScanProofs`: any jobs, EPSG codes, contents of the bucket, failures, kills and restarts; no
hypothesis beyond the assumptions.

* `TypeCorrect`: also that a scanner never asks for a group that does not exist;
* `RowsWhole` (`RowsAreWhole`): in `rows`, and in what an open transaction is about to delete,
  every row is one its scan makes, and a scan with one source CRS has all of its rows or none
  (`WholeIn`), whatever scans of this and other tasks overlap; nothing is loaded before the survey
  is over (`NotLoaded`); scans that load at once have `crossed`, and only such scans add rows
  between the DELETE of a scan's first group and the end of its load (`LoadsAlone`);
* `NothingLeft` (`DeletedLeavesNothing`): what is gone after each stage of a delete that nothing
  overlaps; of files and workers, unless an unlink or the stop has failed, which the code ignores;
* `CompleteDraws` (`CompleteIsDrawn`): what the owning scan has put in place at each stage of its
  scanner and its job (`Progress`): files of the groups before the next one, rows of the groups
  loaded, then entry, then layers. The formula excludes the listings that the code does not draw:
  COGs without a code beside several codes, and in PostGIS several codes or a footprint that is
  not finite. It rests on lemmas about the operators: groups partition the kept COGs by their
  label, and two groups have different files (`LabelKeys`, `LabelGroup`, `PathsDiffer`).

### The running container

`RuntimeProofs` proves `EventuallyServed` (`QuietIsServed`) for any threads, settings, payloads,
layers and failing steps without `"stop"`: when no request is under way the workers run with the
mapfile on disk, unless a write, a start or an update has failed or the admin process has started
or ended in between (`cut`). Its invariant is a debt: unless `cut`, the mapfile is served, or a
thread is about to write it or to stop the workers, or they are down and somebody is about to
start them (`OwedInv`). That a thread pays it is a property of the scripts: what truncates the
mapfile is followed by its write, that by a stop and that by a start (`Shape`), in each script, in
what `Changes` puts together, and in what is left after a step.

`RuntimeAppliedProofs` proves `TypeCorrect` without a hypothesis and `AppliedBeforeReply`
(`AcknowledgedIsApplied`) for failing steps without `"stop"`: its result is ignored by
`restart_mapserver_group`, and with it TLC finds an acknowledged setting that the workers do not
have. A busy thread follows a plan, which the save replaces by the steps for what has changed
(`Plan`, `InOrder`); a settings request has read the configuration it compares with, and before
`write map` the mapfile it changes, which may be torn (`ThreadInv`): then the tuning has no line
to go to and the property promises nothing of it. `AppliedInv` then says for the request that no
other overlaps what it has done before each of its steps: saved, written, stopped or started
since, reloaded. Between its stop and its start supervisord may start the group, with the mapfile
that is then on disk.

### The signer

`SignerProofs` proves for any clock bound, lifetimes, margin, sources and number of requests:

* `TypeCorrect`, `NoDeadSignature` (`SignedAlive`), `SigningResumes` (`UnsignedMeansFailed`) and
  `NeverUnsigned` (`RequiredIsSigned`);
* `OnlyUndatedKept` (`KeptOnlyUndated`): a dead credential hides a live one in the file only if it
  stated no Expiration, as the environment's and an undated file's do;
* `FilePickedUp` (`FileIsPickedUp`) under the hypothesis that no credential comes from the
  environment and that the file always states its Expiration; the run `signer_env` shows what
  happens without the first.

None of these is inductive. The invariant adds what each credential in the cache or with a request
may be: from the endpoint or a file with an Expiration its expiry is the one the signer knows
(`KnownExpiry`), one that a request carries was usable when it was given (`AliveInv`), and a pause
lies at most its length ahead of the clock (`PauseInv`). `SignedAlive` then follows from the
margin being longer than the minute in which a request is sent.

### Model-checked only

* Liveness: `WorkersReturn`, `OutcomeIsReported`, `JobEnds`, `MapfileIsServed`. Liveness under
  fairness and `ENABLED` are out of the prover's reach.
* What the violation runs refute: without their hypotheses the theorems above do not hold, and
  `RepeatIsDurable` and `DroppedFootprintIsDrawn` do not hold at all.

No proof uses induction over data, which the installed provers cannot do.

## 6. Disagreements found

1. `refresh_late_fault`: the last status write is inside the `try` block, after the backups and
   the old generation are gone; its failure removes catalog, mapfile and the new generation.
   README: "A failed refresh leaves the prior generation active."
2. `catalog_retry`: an enable or disable whose upload failed is answered 200 as a no-op when
   repeated, and never uploaded.
3. `catalog_two_writers`: unlocked read-modify-write loses an acknowledged change. The same
   instance also reaches a truncated object in S3.
4. `signer_env`: a credential from the environment never expires for the signer and hides the
   refreshed file.
5. `scan_dropped`: a COG without a finite web footprint gets no row at all, so with PostGIS its
   imagery is not drawn. Comment: "Native geom is still usable for the raster TILEINDEX"; log:
   "dropped from web overlay only".

### Limits that the models made visible

They contradict no test, or a document only by a word, and have no run of their own:

* The admin process writes `mapfile.map` back whole beside a running refresh, at its start and in
  PUT /runtime: the text may name the generation that the refresh deletes (`spoilt`).
* A refresh whose first unlink of a backup fails, or whose start fails half way, removes the new
  generation below workers that have loaded it and are not restarted. One that fails before its
  `try` block, or in its `except` branch, leaves the status "refreshing".
* Any failed catalog download at start counts as a missing object; the first request then uploads
  the bundled catalog over the durable one (`entrypoint.sh`). Up to four tasks upload their own
  whole catalog.
* A write of the catalog or the mapfile that fails or is cut off leaves the file truncated.
  Requests then answer 400 until the task is replaced; a settings request finds no line to put the
  tuning in and is acknowledged.
* `write_tileindex_fgb` removes the old index before the rename, although its docstring calls it
  atomic; a process that ends in between leaves no index until the next scan. One that ends
  earlier leaves a directory in `.tmp`, which every later scan of that file fails on.
* A rescan overwrites `enabled` and the zooms of an entry (`{**existing, **entry}`), although the
  comment above leaves them out of what the scanner owns.
* With PostGIS, a collection with several EPSG codes is loaded in a transaction per code, and each
  layer's tile index selects the rows of all of them. COGs without a code beside COGs of several
  codes are in no index, and the job is complete.
* Two tasks may scan one collection at once; rows of both may stay.
* A collection that changes from one code to several, or back, leaves index files that no delete
  removes; a file that cannot be unlinked is left by an acknowledged delete.
* A rebuilt mapfile takes its tuning from the environment, not from `runtime_config.json`; a
  settings request that failed after the save is a no-op when repeated; overlapping settings
  requests lose one of the updates.
* The result of the stop is ignored: when it fails, the request is acknowledged and the workers
  keep the old mapfile.
* A payload whose numbers do not parse or whose texts are no strings ends the job's thread and
  leaves the job "running", as does a line of output that cannot be decoded.
* The signer looks at its pause before its cache: a load that fails in the last five minutes of a
  credential sends requests unsigned for a minute, although the cached one is still accepted.
* `db_init` waits up to 635 s where its comment gives 90 s.

## 7. Not modelled

GDAL, PostgreSQL, nginx, S3 and supervisord are external and appear as what the code sees of them.
Not modelled, since they keep no state the properties could be about: the pages of an S3 listing,
bounding boxes, zooms and other floating-point geometry, the canonical request of the signature (a
hash over strings), the streaming of a response, the benchmark, the performance lambda, the retry
loop of the database lambda around its idempotent DDL. The CDK stack, image and policies are
declarative; the pages are rendering; the range cache is nginx's own. The components marked
`partly` in `PROJECT.json` say what is missing.
