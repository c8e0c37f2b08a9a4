# Formal models of the LDaCA Wordflow backend

TLA+ specifications of the control of this backend, the TLC configurations that
model-check them, and TLAPS proofs of the properties that matter most for every
number of users, Analyses, runners, requests and faults. Source paths below are
relative to `src/src/ldaca_wordflow/`.

The backend is one Python process with one event loop. Tasks interleave only
where the code awaits. Long computations run in worker processes, durable state
is a directory of JSON and Parquet files per Workspace, one JSON record per file
import and one SQLite database. What is hard here is therefore not shared memory
but ordering: a record is committed, a gate is released, a scheduler is told, a
process is started, and a cancellation, a close, a crash or a shutdown may come
between any two of these. The second half of the difficulty is ownership: who
returns a slot, a reservation, a temporary file or a directory when an operation
is left at any of its awaits.

## Inventory

| Part | State it keeps | Operations | Talks to | Hard behaviour | What makes it correct |
|---|---|---|---|---|---|
| Fair user queue (`services/fair_queue.py`) | lists of items per user, deque of users, last user served | add, pop, remove, clear | both schedulers | rotation under removals and users that come back | nobody is served twice while another waits |
| Analysis scheduler (`services/analysis_scheduler.py`) | queue, active keys, flags, wake and idle events | enqueue, cancel, cancel_workspace, stop_dispatch, wait_idle, dispatch loop | execution runtime | look, sleep and event replacement are separate steps | no lost wake-up, each item handed on once, shutdown drains |
| Analysis records (`domain/workspace/analysis.py`) | state, cancellation request, result or failure | transitions of the record | analysis service | several records move in one commit | life cycle; a group ends with its sources |
| Analysis service (`services/analyses.py`) | records inside the Workspace graph | submit, cancel, clear and delete Tab, admit, progress, complete, confirm, fail, interrupt, reconcile | gate, scheduler, executor, quota | commits and signals are separate; groups have no runner of their own | nothing accepted is lost; truthful ends |
| Execution runtime (`services/analysis_execution.py`) | one runner task per active key | run, fallback, work-removed callback, close | service, executor, Workspace service | errors in the last commit; ordered shutdown | a runner leaves a terminal record; shutdown leaves no active record |
| Process executor (`services/analysis_executor.py`) | launch entries, processes, closing flag | reserve, execute, cancel, close | worker processes | cancellation before the process exists | no process without entry and monitor |
| Files of Analyses (`services/analysis_preparation.py`, `analysis_artifacts.py`, `analysis_results.py`) | private directories, artifacts, retained inputs | prepare, run, publish, roll back, collect, read, reconcile | store, gate, response slots | workers and readers go on without the gate | inputs last as long as the work, results as long as the record, nothing else stays |
| Workspace service, gate, lifecycle (`services/workspace.py`, `services/workspace_lifecycle.py`) | one slot per Workspace, gates, open capacity | open, create, mutate, close, delete, install | store, scheduler, quota | deferred close, deletion under work, catalogue without a gate | one open Workspace per user, exact capacity, memory is what is committed |
| Workspace graph (`domain/workspace/graph.py`, `tabs.py`, `nodes.py`) | Tabs, Analyses, Data Blocks with histories | tree edits | services | detached trees | trees removed once they are terminal |
| Workspace store (`infrastructure/storage/workspace_store.py`) | generations of files, `workspace.json` | commit, load, collect, rebase | file system | crash between two replacements | the committed generation always loads |
| Archives (`services/workspace_archives.py`) | slots, uploads, staging and export trees | import, export | Workspace service, store, response slots | a ZIP is made from hard links while others commit | only what is well formed is installed; an export is one generation |
| Quota and storage admission (`services/quota.py`, `services/storage_admission.py`) | reservations per user and in total | reserve, recheck, release | file system, settings | the policy and the files change under a scan | limits hold, accounts balance |
| User files and snapshots (`services/user_files.py`, `services/response_snapshots.py`) | files, locks per user, slots of responses | upload, folder, move, delete, download | admission | cancellation at every await | every request ends and holds nothing |
| User file imports (`services/user_file_import*.py`, `services/sample_data.py`, `services/data_portal.py`) | durable record, staging, second scheduler and executor | submit, run, cancel, delete, shut down, restart | fair queue, admission | runner, request and shutdown end the same import | stages last as long as the work in them; the history is truthful |
| Event hub (`services/events.py`, `api/events.py`) | bounded queue per stream | subscribe, publish, close, close_session | browser streams | overflow, session end during registration | a lost event is always announced |
| Sessions and OAuth (`services/sessions.py`, `services/oauth.py`, `infrastructure/database.py`) | user, session, credential and state rows, discovery cache | login, callback, issue, validate, revoke, clean up | database, providers | several callbacks with one proof; crash between two transactions | a proof signs in once; a call acts for a live session |
| Composition root and launcher (`runtime.py`, `server_launcher.py`, `services/maintenance.py`, `infrastructure/process_watchdog.py`) | exit stack, task group, startup record | start, serve, shut down, watch the parent | everything | failure after any step of start-up; deadlines | nothing outlives what it uses; an exit is clean |
| Nodes, provenance, SQL; workers; providers; HTTP routes; vendored code | various | | | mostly data and I/O | see `PROJECT.json`, `components` |

## Modules

| Module | Models | Checked by |
|---|---|---|
| `FairQueue` | `FairUserQueue` under an arbitrary caller | `fair_scheduler` |
| `FairScheduler` | `AnalysisScheduler`, composed with `FairQueue` by extension | `fair_scheduler` |
| `AnalysisLifecycle` | abstract specification: what the records promise to a reader | refined by `AnalysisExecution` |
| `AnalysisExecution` | one Workspace and the Analyses of one Tab through service, scheduler, runtime, executor, gate, shutdown and restart | `execution_disturbed`, `execution_ends` |
| `AnalysisFiles` | the private directories of the Analyses of one Workspace: preparation, workers, publication, rollback, collection, readers, restart | `analysis_files` |
| `EventHub` | event hub, the streams of `GET /events`, logout and expiry of sessions | `event_streams` |
| `WorkspaceAtomic` | abstract specification: a Workspace as one value that changes as a whole | refined by `WorkspaceStore` |
| `WorkspaceStore` | one Workspace on disk and in memory: commands with their plan history, staged commit, collection, rollback, restoration, crash and restart | `workspace_store` |
| `WorkspaceRuntime` | which Workspaces of which users exist and are open, the gates and the open capacity | `workspaces` |
| `ArchiveFormat` | what an archive is, its checks, its compilation and what an export writes, as operators | `archives` |
| `WorkspaceArchives` | imports and exports as requests, over `ArchiveFormat` | `archives` |
| `StorageAdmission` | quota and headroom of the disk | `user_files` |
| `UserFiles` | requests on the files of users and response snapshots, over `StorageAdmission` | `user_files` |
| `UserFileImports` | imports into the files of a user, with their scheduler, executor, shutdown and restart | `user_file_imports` |
| `Access` | logins, sessions and calls with a cookie | `access` |
| `Server` | start-up, serving, shutdown, launcher and watchdog of one process | `server` |
| `Sums` | the sum of a counter over a set, as the number of its units | used by `UserFiles`, `WorkspaceRuntime`, `WorkspaceArchives` |
| `SumTheorems` | what a step does to a sum | the proof system |
| `ProcessProofs` | theorems about `FairQueue`, `FairScheduler` and `Server` | the proof system |
| `AnalysisExecutionProofs` | theorems about `AnalysisExecution`, with the refinement of `AnalysisLifecycle` | the proof system |
| `AnalysisFilesProofs` | theorems about `AnalysisFiles` | the proof system |
| `SessionProofs` | theorems about `Access` and `EventHub` | the proof system |
| `WorkspaceProofs` | theorems about `WorkspaceStore`, with the refinement of `WorkspaceAtomic`, and `WorkspaceRuntime` | the proof system |
| `WorkspaceArchivesProofs` | theorems about `WorkspaceArchives` | the proof system |
| `UserFileProofs` | theorems about `UserFiles` with `StorageAdmission`, and `UserFileImports` | the proof system |
| `MC*` | instances for TLC | |

A module of proofs is about one part of the backend. Where that is two components, their
modules name their definitions apart (`StoreNext` and `RuntimeNext`, `AccessInit` and
`HubInit`), so that one module can extend both.

How they fit together: `FairScheduler` extends `FairQueue` and `UserFiles` extends
`StorageAdmission`, so their runs check the composition. `AnalysisExecution` uses the
scheduler as two sets, which `FairScheduler` justifies; `WorkspaceRuntime` has the
admitted work of a Workspace as one flag, which `AnalysisExecution` refines in
detail; `AnalysisFiles` and `WorkspaceStore` are two views of one commit, of
private directories and of plans. The shutdown of `Server` closes the execution
owners whose insides are the shutdowns of `AnalysisExecution` and
`UserFileImports`.

### FairQueue and FairScheduler

An item is its rank in the order key `(created_at, id)`, which is unique, so a
list that the code re-sorts after every `append` is a set whose head is its least
member. `items` is `_items`, `order` is `_user_order`, `lastUser` is
`_last_user`. `passed` is a history variable: for each waiting user, who was
selected since it began to wait. `Add`, `Pop`, `Remove` and `Clear` are the four
methods; `Rotated` is the extra turn at the start of `pop`.

Every public method of the scheduler holds its lock to the end and is one action.
The dispatch loop is three places, `check`, `wait` and `reset`, because it
releases the lock before it waits for the wake event and takes it again to
replace the event. `wait_idle` is the little process `waiter`. `fate` is a
history variable: what became of each item.

### AnalysisExecution

| Variable | Code |
|---|---|
| `rec` | state, `cancellation_requested_at` and Tab link of each record in the Workspace graph; as durable as it is visible, because `mutation_context` rolls back what it cannot persist |
| `unscheduled`, `undo` | requests in `submit` between the commit and `enqueue`, and the compensating cancel of a group |
| `pending`, `active` | the scheduler's queue and active keys (which one is next is `FairScheduler`'s matter) |
| `pc` | where the runner task of `AnalysisExecutionRuntime._run_one` is |
| `entry`, `proc` | the executor's launch entry and the worker process |
| `signals`, `callbacks` | cancellations that are committed but not yet passed on; `_work_removed` calls that have not run |
| `gate`, `ws` | the Workspace gate when it is held over more than one step; the runtime state of the slot |
| `phase`, `interrupts`, `selected` | how far `close` of the runtime has come, and whom it has still to fail |
| `faults`, `restarts` | counters of the bounds `MaxFaults` and `MaxRestarts` |

A section under the gate that commits before it releases it is one action.
Admission (`AdmitReserves`, then `AdmitCommits` or `AdmitRollsBack`) and deletion
(`DeleteBegin`, then `DeleteEnd` or `DeleteFails`) hold the gate over two,
because they act on the executor first. Mutations of several records are
composed from operators on the map of records (`Supersede`, `FinalizeGroup`,
`DropDetached`, `Settle`) in the order in which the code applies them.

`Stimuli` names the disturbances of a run: `clear` (clear or delete the Tab),
`close`, `delete`, `badProgress`, `stop`, `crash`.

Choices made nondeterministic: which input is missing and whether preparation,
the launch reservation, the process start, storage admission, a commit, the
removal of a directory or a worker fails. Simplified: terminating a process
succeeds, and in the same step as its entry is flagged (the code escalates from
terminate to kill and joins); a crash also stands for a shutdown that reaches
its deadline. Left out: the restoring of a Workspace from disk after a rejected
mutation fails (`_restore_slot`), the cancellation of a request handler by the
server, live progress apart from an invalid report, and the special linear
replacement of earlier Annotation Analyses on submit.

### EventHub

Every method of the hub runs under its lock without awaiting, so each is one
action; `CloseSubscriptions` is `_close_subscription` for a set of streams.
`seq`, `subscribers`, `queue`, `closed` and `hubClosed` are the hub's fields, with
a subscription named by its stream. A hint is its sequence number: payloads do
not influence the hub. `at` is where the generator `_events` is; `sending` is the
number of the event it yielded last. A logout is two steps, as in
`delete_session`: `RevokeSession` commits to the database and `CloseSessionStreams`
follows. `Recheck` is the second look at the session, after the registration.
`TimesOut` may win against an event that has just been queued, which then stays in
the queue. `Disconnect` may happen wherever the generator waits, and may skip its
`finally` clause, since a request that is cancelled again at that `await` never
unsubscribes. Numbers of the resynchronisations of one publication are distinct and
in any order, because the order of the subscribers does not matter. `owed` is a
history variable: the numbers published to the stream's user since it registered
that the stream has not taken.

### WorkspaceAtomic and WorkspaceStore

| Variable | Code |
|---|---|
| `metadata`, `files`, `sources` | `workspace.json`; the plan and record files of all generations beside it; the Parquet files under `data/` |
| `staging` | the staged metadata of `stage_snapshot`, or what a commit in place at startup is writing |
| `generation`, `used` | names are fresh UUIDs: generations are numbered, Data Blocks and Parquet files are never reused |
| `slotState`, `heldRevision` | the Workspace is being looked after at startup (`down`), closed or open; the revision its slot holds |
| `plan`, `undo`, `redo` | the graph in memory: the current plan of each Data Block or record of each Tab, and the two bounded histories of a `Node` |
| `phase`, `before`, `rollback`, `own` | the command in progress: where it is, `before_node_histories`, `lease.rollback_paths`, and the file an import unlinks itself when it fails |
| `unlinking` | files that requests of failed imports have still to unlink, after they gave up the gate |
| `errors` | history variable: whether an I/O error hit after the commit point or during a rollback |

A plan is the set of Parquet files it scans and the generation in which it was
made; this is what loading, collection and undo can tell apart. Each command
(`Import`, `PublishBlock`, `PublishAnnotation`, `Derive`, `Edit`, `Undo`, `Redo`,
`Delete`, `WriteTab`) is one step up to the point where it asks to persist,
because no one sees the graph while the gate is held. Persisting is one step per
file: `Stage`, `Move` for each plan and record, `PublishMetadata`, `Flush`,
`CollectFile` and `CollectSource`, `Finish`; a crash or an error may come between
any two. `ProceedIfReadable` is the row count a command makes of its result.

Left out: the records of Analyses, which are moved and collected as Tabs are, and
their private directories (`AnalysisFiles`); the limits on bytes, nodes and storage,
which only reject a command (`Refuse`, `Abandon`); power loss, after which directory
entries that were not flushed may be missing; the catalogue scan (`WorkspaceRuntime`). A service check that a Data Block is not
reserved by an Analysis is a reason to refuse and needs no state here.

### WorkspaceRuntime

An operation is one request (`open`, `create`, `import`, `mutate`, `close`, `delete`)
and `pc` is the await it is at. A directory is a size and a revision (`live`,
`size`, `revision`); a slot is the aggregate in memory (`slot`, `slotSize`,
`slotRevision`). `gate` and `userGate` are the gate of a Workspace and the lifecycle
gate of a user, `capacity` is `_open_capacity_bytes` and `held` what an operation has
reserved of it. The steps `scan` and `look` are the two halves of `list_workspaces`, which reads
metadata and then plan files without a gate. Admitted work is the flag `work`, with
`unfinished` for the record it leaves on disk and `finalizing` for the moment between
the end of a runner and `finalize_close_if_idle`. Two history variables say where the
code falls short of what it maintains: `lost` counts capacity that was given back
without having been taken, `missed` the open Workspaces a listing took for corrupt.

### ArchiveFormat and WorkspaceArchives

`ArchiveFormat` has the checks and the compilation of an archive as operators in the
order of the code (members, manifest, graph, forest, Tabs), what an export writes
(`ExportedArchive`), and, for the comparison, what an archive is meant to be: `WellFormed`
and `WellOrdered` are stated by quantifiers. They judge the graph, the forest and the
order of nodes and Analyses independently of the loops the code runs; what is a plain
check in the code (`Opens`, `ValidManifest`, `GraphIsDeclared`, and `FitsTheStore`, the
store's limits on nodes and on the bytes of a snapshot, which the compiler's commit
applies) is the same operator on both sides, and says nothing there beyond itself.
Whether an export that has query inputs would be accepted is not judged, since the code
fails to write one (see below).
In `WorkspaceArchives` an import goes through `reserve`, `upload`, `extract`, `compile`,
`prepare`, `recheck`, `publish`, `rebase` and `finally`, an export through `gate`, `link`,
`leave`, `rebase`, `slot`, `produce` and `send`. A plan file is an inode whose scan
sources are absolute paths (`sources`): a hard link of it is the same plan, so
rebasing a link in place would change the live one. The exported Workspace is mutated
meanwhile, with one step per file (`WritePlan`, `WriteMetadata`, `RemoveOldPlan`).
Each import has a history variable `harm`: "unread" when the disk failed while the
archive was read or compiled, which the code answers as an invalid archive (`Misjudge`),
and "torn" when the Workspace is left moved into place and not rebased, by a crash in
between or because the move could not be made durable (the third outcome of `Publish`).
No step of the model writes `sources`, since the code rebases a copy of a plan and
replaces the link by it; the conjunct of `ExportIsOneGeneration` about `sources` therefore
states how the model is built, and `TreeIsComplete` is the part that could fail.

### StorageAdmission and UserFiles

`StorageAdmission` has the reservations of `QuotaService` (`reservedByUser`, `quota`)
and of `StorageAdmissionService` (`reservedTotal`, `physical`), and the scan of a user's
directories as two steps, because other requests move files while it runs. `UserFiles`
drives it with uploads, new folders, moves, deletions, downloads and exports. The
tree of a user is a root, one folder and one name in each, which is where these
operations meet; sizes are in allocation units. `lock` is the user's lock in
`UserFileStore`, `freeSlots` are the response slots. A cancellation is remembered
(`cancelled`) and noticed at the next await that is not shielded. History variables:
`ceiling` (a policy that was lowered does not remove files), `hidden` (a file moved from a
directory not yet counted to one that has been), `unbacked` (a folder made without a
reservation, `user_files.py`), and `leaked` (a reservation a cancelled request
raised and does not hold).

### UserFileImports

`mem` is the record in memory, `disk` the one that is saved, `staging`, `reserved` and
`proc` what an import holds outside, `owner` whose marker the published directory has.
Four actors act on one import: its submission (`submit`), its runner (`run`, leaving
its work with `outcome`), a request that cancels or deletes it (`user`) and the
shutdown (`interrupt`, `phase`). A runner is cancelled at any await outside a shield.
The child process of a portal import outlives a crash (`OrphanEnds`). A failure of
storage after which the code retries nothing puts an import in `faulted`.

### Access

Accounts, credentials and state tokens are model values with what the provider says of
them (`AccountOf`, `EmailOf`, `ExpiryOf`). The rows are `users`, `sessions`, `spent`
and `transactions`; `roots` are the directories of users, `config` and `fetching` the
discovery cache and its lock. Every transaction is one step (`BEGIN IMMEDIATE`), every
wait for a provider or a worker thread ends one. `now` is the clock in units in which
credentials, states and sessions expire; each comparison has the direction it has in
the code. `uses` and `late` are history variables: how often a proof signed in, at
whatever time, and the calls that arrived after a logout had been answered.
`ProofsAreUsedOnce` says of a state that it signs in once for good, and of a Google
credential that it has signed in at most once as long as it has not expired; the replay
that the code admits afterwards is among the disagreements below.

### Server

`runtime_context` is the sequence `Startup` of awaits, with what each puts on the exit
stack (`Opens`) and which task it starts (`Starts`); leaving the stack is `Unwind`
(readiness, admission, stop event, execution owners), `CancelGroup`, `Joined` and one
`CloseResource` per entry. Uvicorn is external and modelled by how the launcher and
the lifespan use it: it serves, waits for its connections, and then runs the shutdown,
unless it is forced. `profile` is the entry point: `run_server` with its signals, or
`start_async_server` with a caller that holds a handle. `Probe` is the watchdog
thread; `wrong` is a history variable counting wrong answers about a living parent.

### AnalysisFiles

`mem` and `disk` are the records, Tab lists and Data Blocks of the open and of the
committed Workspace; `dirs` is what is in the private directory of each Analysis
(`input`, `output`, `artifacts`, `query`), `data` the Parquet files of Data Blocks. A
table publishes artifacts, a block a Data Block made of its parent's artifacts, a
preview keeps its input for queries. A command moves files into place (`rollback`),
commits, is undone when the commit fails, and collects afterwards, each a step with the gate
held. A worker reads its input and its parent's artifacts without the gate; a reader
copies under the gate and works on the copy. The block of a concordance reads the
artifacts of its parent's sources, which come and go with the group: the parent stands
for them (`ParentIsReadable`). `Unchecked` are the blocks whose creation is accepted while
the parent still works (topic modelling); they are turned away at preparation
(`ParentHasResult`). `Scenes` are the sets of Analyses and readers that a run puts
together. `hurt`, `messy` and `lost` remember what
the code is known not to repair: a success whose last flush failed after the commit, a
removal that failed, a download that was cancelled on leaving the gate.

## Runs

All runs finish in at most about three minutes on two workers; the properties named
are those of the configuration. A type invariant is a conjunct of the first safety
property of each module.

| Run | Instance | Shows |
|---|---|---|
| `fair_scheduler` | 2 users, 3 Workspaces, 4 items, capacity 2 | the loop sleeps only without work, nobody is served twice ahead of a waiter, waiting work moves |
| `execution_disturbed` | group, source and page Analysis, capacity 1; clear, close, delete, invalid progress, crash; 1 failed commit, 1 restart | the inductive invariant `IInv`, every process is wanted, a deferred close is awaited, `AnalysisLifecycle` is implemented |
| `execution_ends` | group with a source, and a plain Analysis the group supersedes; clear, delete, shutdown, crash; 1 restart | no work is lost, every submission ends, shutdown is truthful |
| `event_streams` | 2 streams of 1 session, queues of 2 events, numbers to 5 | losses are announced, a logged-out stream is closed, streams of ended sessions end |
| `workspace_store` | 2 Data Blocks, 1 Tab, 2 Parquet files, histories of 1 plan, 3 generations, symmetry | the committed snapshot loads, `WorkspaceAtomic` is implemented |
| `workspaces` | 4 Workspaces of 2 users, 3 requests, sizes 1 and 3 under a limit of 3, 1 submission of work, 1 failure | the capacity is exact, one Workspace is open, memory is what is committed, closing ends |
| `archives` | 512 graphs, 54 forests and 38 single deviations for one import, with 3 nodes and 6 units of snapshot at most; two imports for one slot; two exports for one response slot; 3 generations, 2 failures | what is installed is what is well formed and within limits, nothing is left behind but torn imports and what cancelled exports keep, an export is one generation, every request ends |
| `user_files` | 3 requests of 2 users on a disk of 7 units with 2 to be kept free; quotas 3, 4 and none; 1 response slot; 1 disturbance | limits hold, accounts balance, every request ends |
| `user_file_imports` | a sample and a portal import for one destination, capacity 2, 2 failures, 1 restart | stages last as long as their work, the history is truthful, ended records last, every import ends |
| `access` | 2 accounts, 2 credentials, 2 states, 7 requests in 4 constellations, clock to 3, 1 crash | calls are entitled, states and unexpired credentials are used once, logins end and dead sessions go |
| `server` | both entry points, 2 clients, threshold 3, 2 failing steps | nothing outlives what it uses, an exit is clean, a shutdown ends |
| `analysis_files` | a table, a block derived from it and a preview that supersedes it; the table and either of the others with 2 readers for 1 slot; 1 disturbance | inputs last, results are there, nothing is left, everything ends |

Bounds. Four items of two users in three Workspaces make every case of `pop`,
`remove` and the loop happen: a user alone, users that take turns, a user that
leaves and returns, a full capacity with work waiting. In `AnalysisExecution` the
interactions the code provides for are between a root and its children, and between a
superseding Analysis and a superseded tree; each run has one of them whole and the
disturbances that can meet it. One failing commit reaches each error path. One
restart is enough, because a restart forgets everything but the records, and
reconciliation leaves no active record for a second one to find. Two streams with
queues of two events overflow together and apart. In `WorkspaceStore` three
generations allow a commit, one that fails or changes the first, and one after it; a
crash is not bounded. In `WorkspaceRuntime` a size of 1 fits three times and one of 3
once, so that capacity is both shared and exhausted; three requests are one that
opens, one that closes or deletes and one that changes, and a user with three
Workspaces has siblings to close. In `UserFiles` a third request fills the disk the
other two share. In `UserFileImports` two imports meet at a destination and in the
scheduler, one failure may be followed by another in the way back. Of archives, every
graph of three nodes over eight lists of parents contains each kind of cycle, gap and
duplicate the compiler's loops distinguish. In `Access` three callbacks present two
credentials of one account and two present one state; the clock passes the expiry of
each. In `Server` a threshold of three tells wrong answers in a row from wrong answers
in all. In `AnalysisFiles` the three Analyses are the three ways in which one depends
on the files of another, and two readers for the one slot make a download wait for a slot
while it holds the gate, and lose it for the other. A reader changes no file of an
Analysis, so that it meets two of the three at a time. Neither run of `AnalysisExecution`
that has invalid progress or a deferred close has a superseded Analysis
(`NothingSuperseded` in `execution_disturbed`): supersession is in `execution_ends`, and what
`execution_disturbed` checks is shown of it by the theorems of `AnalysisExecutionProofs` alone.

Fairness. Weak fairness of every task that is ready to run is what the event loop gives.
Beyond that: a worker process ends (its runner escalates from terminate to
kill), the gate is handed on in the order of the requests (`anyio.Lock`), which in
`AnalysisFiles` is strong fairness of the steps that wait for it; a request to a provider
times out; the maintenance loop comes round; a supervisor starts an imports service
that has ended; the watchdog's probes of a dead parent are not inconclusive for ever.
In `UserFiles` it is enough that some request can go on. In `Server`, `ShutdownEnds` assumes
that clients leave once the server is asked to exit. Nothing is assumed of
clients otherwise: no fairness on submission, cancellation, closing, clearing or
stopping. Deadlock is not checked, except in `workspace_store`: an idle backend, or one that
was shut down, stops legitimately.

Exceptions. Some properties except what a history variable remembers (`hurt`,
`messy`, `lost`, `leaked`, `missed`, `hidden`, `unbacked`, `faulted`, `faults`, `errors`, `harm`),
`ProofsAreUsedOnce` excepts credentials that have expired, and `NothingIsLeft` of the
archives excepts exports that were cancelled. Each
stands for a place where the code does not repair what went wrong, listed below, and
claims nothing of the state it damaged; without such an event the property holds
unconditionally, and the event itself can only come about by the step that is listed.

## What is proved

`ProcessProofs` has the queue first, for any set of users and items and any
caller that adds an item at most once. The promise "nobody is served twice while another waits" is
not inductive as it stands, because `pop` turns the deque by one user. `QInv`
adds what makes that turn harmless: the user at the head, if it was the last one
served, is waited for by nobody who was passed over since
(`LastServedWaitsForNobody`), and a user without items has no history
(`WaitingBeginsWithItems`). With it, the turned deque keeps everyone's turn
(`RotatedInTurn`), and each operation keeps `QInv`. Theorems: `QueueInvariance`,
`DequeMatchesItems`, `Rotation`, `FairRotation`.

Then the scheduler: it implements the queue's specification
(`UsesTheQueue`), so the queue's theorems hold of it (`SchedulerIsFair`). Its
own inductive invariant `SchedulerInv` ties active and waiting items to their fates, and
the flags of shutdown to an empty queue. Theorems: `SchedulerInvariance`,
`SchedulerTypes`, `NoLostWakeUp`, `CapacityIsKept`, `ShutdownIsQuiet`. Used:
`Owner` maps items to users, `Capacity` is positive.

`AnalysisExecutionProofs`, for any Analyses, capacity, disturbances and bounds
that satisfy the module's assumptions. `IInv` is the conjunction of named parts.
The safety properties are not inductive because they speak of processes only,
while a process is born in three steps. `WorkspaceHolds` therefore speaks of
processes that may still be started (`MayLive`); `RecordsAgree` says how far a
record is while its runner is at a place; `RunnersAgree`, `GroupsAreRoots` and
`ScheduledOnce` keep the executor, the runner and the scheduler in step, so that a
signal reaches what it is meant for. That a mutation of several records leaves
the record of a running process alone is the relation `Spares`, which the lemmas
prove of each operator and compose. Theorems: `Invariance`, `TypeCorrect`,
`WorkspaceSafety`, `CancellationSafety`.

The other theorems about `AnalysisExecution` build on `IInv`, each with the part it needs:

- `Refinement`: the records live by `AnalysisLifecycle`. Each operator on the map of records
  makes every record move as its life cycle allows (`Lives`), and operators that follow one
  another compose. That a group ends with its sources needs `RecordsHold`, what the
  records say of groups, sources and requested cancellations, which `RecordsInvariance`
  carries along.
- `ProcessesWanted`: a live process has an active runner that monitors it, and a running
  record or somebody about to stop it.
- `ClosingAwaited`: while a Workspace waits to close there is work or a callback whose end
  looks again; it is needed that an item leaves `pending` and `active` only with a callback.
- `NoWorkLost` and `ShutdownTruthful`: `WorkIsHeld` follows a record through everybody who may
  hold it. Both assume that no client closes the Workspace (`"close" \notin Stimuli`): one that
  is closed between the commit of a submission and its enqueueing does lose it
  (see the disagreements), and the theorems would be false. `NoWorkIsLost` speaks of states
  after commits that succeeded (`faults = 0`), and a deletion in progress has dropped the
  queued items of records it is about to remove.

`SessionProofs` on the event hub, for any streams, sessions and users and queues of any size. `HInv`
says of every stream that its queue is in the order of the numbers and newer than
what was yielded (`Ordered`), and that a stream that has not registered has no
subscription (`Fresh`), besides the properties themselves: without `Fresh` a
registration could reopen a closed subscription, and without the second look at
the session a logout that falls before the registration would break
`LoggedOutStreamsAreClosed` at the step into the loop. `Untouched` says that a
step that leaves a stream's own state alone keeps its part, so each step is
proved for one stream. Theorems: `HubInvariance`, `HubTypes`, `NoSilentLoss`,
`ClosingWakes`, `LogoutIsRaceFree`, `YieldsInOrder`.

`WorkspaceProofs` on the store, for any Data Blocks, Tabs, Parquet files, generations and
lengths of the histories. `SInv` holds whatever fails: who may be in which phase
(`PhaseOK`), that a staged generation is the graph in memory under names of its
own (`StagedOK`), that the metadata names older generations (`MetadataOK`) and
that an open Workspace at rest holds what is committed (`ShownOK`). It is enough
for the revisions and for the refinement. That the committed snapshot loads is
not inductive by itself: `Safe` adds that files which a failed command will
remove, or a failed import unlink, are in no committed plan, that plans on the
histories, which later commands bring back, do not scan them either, and that a
command about to persist scans files that exist. It is claimed until an error
after the commit point or during a rollback, which the code takes for a failed commit
(see the disagreements). Theorems: `StoreInvariance`, `StoreTypes`,
`RevisionsAdvanceByOne`, `StoreIsAtomic`, `StoreIsSafe`, `CommittedAlwaysLoads`.
Used: Data Blocks are neither Tabs nor Parquet files and `NoPlan` is no plan, file,
snapshot or content.

`SessionProofs` on logins, for any accounts, credentials, states, requests, visits and calls, any clock
and number of crashes. `AInv` says that a credential that has signed in is in `spent`
until it is invalid, that a state that has signed in has no row and will not get one
(the login that drew it has answered), that a session is issued by a callback that is
over and to a user with directories, and that a late call belongs to a session that has
ended. The last part is why a session that is revoked cannot come back: its row is
written by one request, once. Theorems: `AccessInvariance`, `ProofsSignInOnce`,
`CallsActByRight`. Used: `StatesAreFresh`, that every login draws a state of its own.

`ProcessProofs` on the server, for any clients, threshold and number of failing steps. `SInv` ties the
parts together: how many start-up steps are done says what the exit stack holds
(`StackOK`), where Uvicorn is says where the lifespan is (`WebOK`), a launcher that has
ended has an exited server and a closed socket (`LauncherOK`), and the count of misses about a
living parent is the number of wrong answers in a row (`WatchdogOK`). The clause that
carries the first theorem is that a task runs only after the eighth step and only until the
group is joined; the start-up order of `runtime_context` then puts everything it uses
below it on the stack. The clause that carries the second is that an exited Uvicorn
was forced, has seen the lifespan go down, or failed to publish. Theorems:
`ServerInvariance`, `TasksEndBeforeTheirResources`, `ExitsLeaveNothing`.

`WorkspaceProofs` on what is open, for any users, Workspaces, requests, sizes, limit and number of
failures. Neither property is inductive: what is in memory is wrong for a while when a commit
fails after it was published, and two Workspaces could become open from a state in which one
operation has yet to load what another has not closed. `RInv` therefore says that an operation
between its steps holds the gate of its Workspace (`GateOf`) or of its user
(`UserGateOf`), and whoever holds a gate is at such a step (`HolderOf`); that memory is
committed unless the holder is about to restore it, and that what is being loaded still has a
directory (`MemoryOf`); that an opening past its listing has closed the open siblings, has them
on its list, or has missed them (`SiblingsOf`). The two lemmas `MemoryElsewhere` and
`MemoryWhenHeld` leave each step with its own Workspace to look at. Theorems:
`RuntimeInvariance`, `OpenIsCommitted`, `OneOpenPerUser`. Used: there is a Workspace name
and `OwnerOf` is total (`RuntimeAssumption`).

`CapacityExact` is about a sum over Workspaces and requests, and what a sum over a set is would
be an induction over finite sets, which is out of reach. The models that add up what their
operations hold therefore count: `Sum` is the cardinality of the set of the units (`Units`, pairs
of an index and a number up to its size), and what a step does to a sum is what it does to that
set, by the library's facts about cardinality. `SumTheorems` says it once: a sum changes by what
one number changes by (`SumChanges`) and is monotonic (`SumOrder`). That the sets of units are
finite is not derived from the sets of names being finite but kept as a part of the
invariants. `CapInv` says that the counter is exact (`Exact`), which place of an operation has
reserved how much (`ReservedBy`) and that a slot that is not in memory takes nothing (`Vacant`).
Theorems: `RuntimeAccounting`, `CapacityExact`.

`UserFileProofs` on the files of users, for any requests, users, quotas, sizes, slots and
disturbances. `LimitsHold` relates what is on disk to a policy that was read
before the write, by a scan that saw half of the tree at a time; nothing of it is
inductive. `UserFilesInv` says of each request where it may be with which lock and gate
(`PlaceOf`) and what it may hold there (`HoldsOf`); of each user (`UserInv`) that what
is owned and what writers may still add (`PendOf`) stays within the largest quota, and that a
scan that has counted the root accounts, with what is reserved, for the root and all that may
still be added to it; and of the disk (`DiskInv`) that owned, temporary, copied and left
over units and those still owed to writers (`OwedAt`) add up to what the disk has.
The clause about the scan is the heart of it: a decision compares two halves of a tree
that were counted at different times, and it is right because whoever wrote in between
had reserved what it wrote, or is counted in `hidden`. A step concerns one request,
and `OpKeeps` derives the invariant from what the step does to the sums of its user
(`QuotaKept`) and of the disk (`DiskKept`). Theorems: `UserFilesInvariance`, `LimitsAlwaysHold`,
`AccountsAlwaysBalance`. Used (`UserFilesAssumption`): finitely many users have a folder at first
and the disk has room for those folders; nothing is assumed of the number of requests or users.

`UserFileProofs` on imports, for any imports of either kind, destinations, capacity and bounds. A
step concerns one import, or is an event of the process that treats all alike, so
the invariant relates the variables of one import (`Import`) and a step is no step for the others
(`AsideKeeps`). The three properties speak of imports at which nothing is at work; the invariant
says what each of its four actors has done where it stands. `SubmitOf`: before an import is
accepted only its submission touches it, and how much it has made. `GateOf`: who has the gate of an import,
and that nobody else is then at a step that needs it. `RunOf`: what runs or waits has
what was prepared for it. `RecordOf`: how the record on disk may be ahead of memory. `EndOf`:
whoever ends an import has removed the stage before it returns the room, or has left this to
another who is there. Theorems: `ImportsInvariance`, `StageLasts`, `HistoryTruthful`, `EndedLast`.

`AnalysisFilesProofs`, for any forest of Analyses of the three kinds, readers, slots and
disturbances. `FilesInv` has a part for each actor. `GateInv`: who holds the gate is at a
step that needs it, and records in memory differ from the committed ones only under a command.
`RecordInv`, of both: a record that works has a parent that has succeeded, and a success has
its files, unless it is hurt. `StageInv`: a worker that has still to read has its inputs.
`RollbackInv`: what an undo may remove belongs to no committed success, and no worker reads it.
`LeftInv`: what no committed record owns is on the list of an undo, or is the private directory of a
runner that has still to clean it. `ReaderInv`: what a reader holds where it stands. `StartInv` and `NewInv`
are about restarts and Analyses to come. Operators on the records are composed as in the code, and
`Thins` is the relation they have in common: records go, or end without success, and a record
that works keeps its parent. Theorems: `FilesInvariance`, `InputsAlwaysLast`,
`ResultsAreAlwaysThere`, `NothingIsEverLeft`. Used: a parent is a table (`KindsAreKnown`;
preparation resolves the artifacts of the parent, which only tables publish) and that names of
Analyses, readers and users differ (`NamesDiffer`).

`WorkspaceArchivesProofs`, for any imports, exports, archives, contents, limits and
disturbances. `ArchiveInv` says of an import (`ImportInv`) and of an export (`ExportInv`) what it
holds at each place, of the exported directory (`LiveInv`) that the committed plan is there and has
live sources, and of the reservations (`RoomInv`) that they add up and fit. It takes one clause
that no property mentions: an import that has not begun to upload has received nothing. That an
import has installed a whole Workspace or none is proved of all but the torn ones, and of
those that they were lost in a crash or answered as failed (`NothingIsEverLeft`). Theorems:
`ArchivesInvariance`, `NothingIsEverLeft`, `ExportsAreOneGeneration`. `JudgedInv` follows the archive of
an import and the content of an export through the requests: only what the compiler accepts
is installed, only what it does not accept is refused after a complete upload, unless the disk
failed while it was read (`TheCompilerDecides`). That the compiler accepts what is well formed, and lists parents first,
is the formula `CompilerIsRight` about constants: the folds of the compiler against a
definition by quantifiers, an induction over data. The run `archives` evaluates both sides on its six
hundred archives; `TheWellFormedAreAccepted` has it as a hypothesis, and shows that the
requests around the compiler add nothing to it and take nothing away.
Used: there is a first content (`ArchivesAssumption`).

Properties that are proved and not checked by a run of their own: types, agreement of the deque and the lists, capacity and quiet shutdown
of the scheduler, closed streams wake, numbers grow, revisions advance by one, no
process without a Workspace, cancelled records have no process.

Only model-checked: liveness and everything under fairness, which is out of the prover's
reach (`WaitingWorkMoves`, `EverySubmissionEnds`, `EndedStreamsEnd`, `EveryImportEnds`, `ClosingEnds`,
`LoginsEndAndDeadSessionsGo`, `ShutdownEnds`, `EverythingEnds` and the two `EveryRequestEnds`), and
`CompilerIsRight`. Every invariant and every action property that a run checks is stated by a theorem;
`AcceptsTheWellFormed` under that hypothesis, `NoWorkIsLost` and `TruthfulShutdown` for
Workspaces that nobody closes: with `close` among the disturbances they do not hold.

## Disagreements seen while modelling

The models have the steps below as the code has them. They are excepted where a property
would forbid them, or left out of a run by the choice of `Stimuli` and `Analyses`, and
described here so that nobody takes the exceptions for oversights.

Analyses:

- clearing the Tab of a Run All group whose sources are all still queued cancels the
  sources at once and only requests the cancellation of the root. The root has no
  runner, nothing finalises it, and it stays running, detached, until the next start
  (`services/analyses.py:743`); `EverySubmissionEnds` excepts detached groups;
- a Workspace closed between the commit of a submission and its enqueueing closes at
  once, and the runner then finds no open Workspace to commit to
  (`services/analyses.py:416`);
- an invalid progress report of the last child of a group fails the child without
  finalising the group (`services/analyses.py:909`), so that only `execution_disturbed`,
  without liveness, has `badProgress`;
- a page Analysis under a running group is counted among its children: when it ends
  last nothing finalises the group, and when it ends first the last source cannot
  build the group's result (`services/analyses.py:1101`);
- a group refused by a stopping scheduler while its Workspace is closed keeps its
  root running until the restart;
- deletion that fails after `cancel_workspace` has dropped queued items leaves their
  records queued (`services/workspace.py:1655`).

Workspaces and their store:

- a command whose flush, or whose removal of the staging directory, fails after
  `workspace.json` was replaced is rolled back as if it had not been committed: files
  the published commit names are removed, and the artifacts of a committed success go
  too (`services/workspace.py:1346`, `infrastructure/storage/workspace_store.py:1467`);
- an annotation replaces a Data Block's plan and commits; the collection of that commit
  removes the Parquet file only the plan on the undo stack scans, so undo is offered
  and fails (`services/nodes.py:335`);
- an annotation has replaced the data of a node in memory before a check that may
  still fail (`services/analysis_artifacts.py:350`);
- a commit in place at startup discards the generation it has just published when
  the flush after it fails (`infrastructure/storage/workspace_store.py:599`);
- when removing a rollback path fails, the graph is not restored
  (`services/workspace.py:1346`);
- an import of a Data Block cancelled after its commit unlinks the file that is
  committed (`services/nodes.py:177`);
- open capacity that was never reserved is released when its reservation is refused
  (`services/workspace.py:768`); the variable `lost`;
- the catalogue scan may take a healthy Workspace for corrupt while a commit collects
  the files it has just read about, and opening then leaves it open beside its sibling
  (`services/workspace.py:499`); the variable `missed`;
- directories of new Tabs and Analyses are created without flushing their parents.

Storage, files and archives:

- a request cancelled on leaving the gate of its user has raised the user's reserved
  sum and returns nothing (`services/quota.py:186`); the variable `leaked`;
- a download cancelled on leaving the lock of its user, or of an artifact on leaving the gate,
  loses its snapshot and its slot for good (`services/user_files.py:504`,
  `services/analysis_results.py:147`), and so does an export that is cancelled between
  its tree and its ZIP (`services/workspace_archives.py:219`);
- an import is moved into place and then rebased, two steps. A crash between them leaves a
  Workspace that is listed and opened while its plans scan the staging directory, which
  is no longer there; and when the move cannot be made durable the import is answered
  as failed with the same Workspace left (`services/workspace.py:1787`, `:1788`).
  The code says "Atomically install a validated archive as one closed Workspace."
  (`services/workspace.py:1688`) and that "any failure rolls back temporary and installed
  paths" (`services/workspace_archives.py:17`). The variable `harm`, "torn";
  `NothingIsLeft` of the archives excepts these and nothing else of an import;
- a disk that fails while an archive is read or compiled is answered as an invalid archive
  (`services/workspace_archives.py:357`, `:812`), so that a sound archive is
  refused with the wrong reason. The variable `harm`, "unread";
  `AcceptsTheWellFormed` excepts it;
- the export of a Workspace with retained query snapshots fails, since a snapshot
  is not readable by the rule that reads it (`services/analysis_artifacts.py:105`,
  `services/workspace_archives.py:995`), where
  `tests/unit/test_workspace_archive_service.py:359` says it is written;
- a shutdown may overwrite a success that was saved and not yet seen in memory
  (`services/user_file_imports.py:348`).

Sign-in:

- a Google credential may sign in twice around its expiry. Two callbacks verify it in its last
  second (`services/oauth.py:56`); one consumes it; the clock passes; the transaction of
  the other first forgets expired credentials (`infrastructure/database.py:197`), this one among
  them, and its insertion succeeds (`infrastructure/database.py:199`). The code says "Atomically
  consume one verified Google credential hash exactly once."
  (`infrastructure/database.py:191`). The model has this behaviour and `uses` counts it;
  `ProofsAreUsedOnce` claims once as long as the credential has not expired, which is
  when a replay by somebody who found it would verify.

Process:

- a graceful exit waits for open event streams for as long as a client keeps one
  (`server_launcher.py:36`), where `README.md:39` of the repository speaks of a bounded
  graceful shutdown; `ShutdownEnds` assumes that clients leave;
- a failure to write the ready record publishes no failure record, because the
  server has started (`server_launcher.py:121`);
- a cancelled `start_async_server` waits for its serving task, which nobody stops
  (`server_launcher.py:249`).

## Not modelled

- The text-analysis algorithms, the request and result schemas and the workers that run
  them: data, no control of the backend.
- Data-frame operations, provenance texts and SQL: only that a command changes a plan and
  its files is modelled (`WorkspaceStore`). The order of Data Blocks, renaming and
  colours do not interact with anything.
- The projection of results into pages, listings and previews: they read.
- Annotation and quotation providers are external HTTP services; preferences and
  credentials are small documents written in one step.
- Middleware, settings, headers and the translation of the remaining routes to one
  service call each.
- Power loss: the store flushes files and directories, and which unflushed entries
  survive is a matter of the file system.
- Cryptography, cookies and redirect URLs of the logins.
- Vendored rules, resources and the packaged frontend.

## Plan

Written in this order: `FairQueue`, `FairScheduler`, `AnalysisLifecycle`,
`AnalysisExecution`, `EventHub`, `WorkspaceAtomic` and `WorkspaceStore` with their
proofs; then `StorageAdmission` and `UserFiles`, `UserFileImports`, `WorkspaceRuntime`,
`ArchiveFormat` and `WorkspaceArchives`, `Access`, `Server`, `AnalysisFiles`; then the
proofs of `Access`, `Server` and `WorkspaceRuntime`, the refinement and the remaining safety
properties of `AnalysisExecution`, the open capacity, and the proofs of `UserFileImports`; then
`Sums`, and the proofs of `AnalysisFiles`, `UserFiles` and `WorkspaceArchives`.

Next:

1. The annotation kind in `AnalysisFiles`, with its replacement of a node's data.
2. The order and the provenance of Data Blocks in `WorkspaceStore`.
3. A history of what an undo may bring back, for the Parquet file an annotation's commit collects.
