# A verification of K2 Lab's control plane and workspace agent

K2 Lab (`k2_region_lab`) generates images on rented GPUs. A *control plane*
(`src/src/k2_region_lab/web/`) rents pods from RunPod, keeps their leases and
moves workspaces between pods; in each pod a *workspace agent*
(`src/src/k2_region_lab/agent/`) runs generation jobs in a worker process
(`src/src/k2_region_lab/worker/`), downloads models and stores files. Both are
asyncio programs: what can go wrong is what two coroutines do between each
other's awaits, what a crash leaves in files and rows, and what a provider does
with a request that was never answered.

This directory holds TLA+ modules for those parts, TLC configurations that check
them on small instances, and TLAPS proofs. `PROJECT.json` maps each definition
to the lines of the source it models and lists the runs, the theorems, the known
disagreements between code and documents, and the hazards.

To repeat the work: `tlc -workers 2 -config <X>.cfg <MC module>` for a run of the
table below, and `tlapm <M>.tla` for each of the proof modules
`JobManagerProofs`, `JobWorkerProofs`, `DownloadQueueProofs`, `UploadsProofs`,
`WorkspaceLifecycleProofs`, `MigrationProofs`, `RegionalPlanProofs` and
`WorkerRuntimeProofs`.

## 1. Inventory

| Component | State it keeps | Operations | What it needs to be correct |
|---|---|---|---|
| Generation jobs, `agent/jobs.py` | job and event files; in memory the tasks, `_worker_lock`, `_cancelled`, `_executors`, the resident executor | submit, cancel, `_run_job`, close, release_worker_memory, recovery | one worker process at a time and none lost; results that stand; no cancelled job reported as complete; one job per `command_id`; every task ends |
| GPU worker, `worker/entrypoint.py` | the model loaded, its pipe | probe, load_model, generate and its kin, end of input | never works on another request's model; leaves nothing in the pipe |
| The worker's runtime, `worker/runtime.py` | the three components, the clone that samples, the memory floors, what is on the GPU | load, the steps of generate, edit_image, refine_faces, image2image, validate_loras, recovery from an out-of-memory error | what a kept worker gives the next job is what a fresh one would; the memory floors stay in order; an edit leaves the rest of the image alone |
| Regional prompting, `regional_prompting.py`, `regional_lora.py`, `spatial_attention.py` | none: functions of the request | compile the prompt, bind the plan to tokens, route LoRAs, partition attention | what the targets of a region's LoRA change are its own tokens, and nobody else reads its text |
| Provider downloads, `agent/downloads.py` | transfer files, staged parts; in memory the queue, its worker, the cancel events | start, resume, cancel, the queue worker with two kinds of operation, close, recovery | no transfer stranded but by a failed write, then one; nothing overwritten; spliced only what no checksum can tell; completed means installed |
| Uploads and inventory, `agent/transfers.py`, `storage.py` | sessions, chunk files, `inventory/files.json`, the files | create, chunk, complete, cancel, move, delete, index | a file is recorded if and only if it is whole and in its place |
| Agent API, `agent/app.py` | the rate-limit window | routes, seal middleware | nothing writes to a sealed workspace |
| Migration in the agent, `agent/migrations.py` | the seal, manifests, staged chunks | seal, unseal, manifest, read, import | an imported file is the one in the manifest |
| Workspace lifecycle, `web/runpod_backend.py` | rows, vault secrets, the operation journal | create, start, stop, terminate, status, extend, startup reconciliation | one workspace per plan; no pod that runs unknown; deleted means terminated |
| Lease reaper, `web/lease_reaper.py` | nothing | list expired workspaces, stop each | an expired workspace stops costing money |
| Migration, `web/runpod_backend.py` | migration rows, two pods, two credentials | create, resume, confirm, abort by a stop | the switch and the deletion of the original only after a verified copy |
| State store, `web/state_store.py` | tables of PostgreSQL or SQLite | transactions of one or a few statements | claims exclude each other |
| Sessions, limits, vault, HTTP clients, local and development backends | see `PROJECT.json` | | |
| Sampling, projector, model catalogs | none, or tensors on the GPU | | |
| Browser client, `web/client/src` | React state | uploads and request lanes | |

How they interact. The browser calls the control plane; the control plane calls
RunPod's API (one request at a time, `_provider_request_lock`) and the agents of
its pods; the agent spawns a worker process and talks to it over stdin and
stdout; the reaper calls the backend as a client does. They share: the SQL
rows (every save writes the whole row a call has read before), the vault, the
pods, and inside the agent the files of the workspace, the worker lock, and the
seal.

What is hard here: coroutines interleave at every await and work on copies read
before it; a request may have had its effect although it failed; a restart can
come between any two of provider request, journal entry, credential and row;
executors, transfers and pods are stopped while somebody else starts them.

## 2. The modules

| Module | Models | Used by |
|---|---|---|
| `JobManager` | JobManager, SubprocessWorkerExecutor and the worker process, composed over a pipe | `MCJobManager`, `JobManagerProofs`, `JobWorkerProofs` |
| `JobService` | what the agent promises of its jobs: the abstract specification | `JobManager` (`INSTANCE JobService WITH`), `JobManagerProofs` |
| `DownloadQueue` | RemoteDownloadManager with the installation of TransferManager | `MCDownloadQueue`, `DownloadQueueProofs` |
| `Uploads` | TransferManager: uploads, the inventory, deletions, moves, saves | `MCUploads`, `UploadsProofs` |
| `WorkspaceLifecycle` | one workspace: clients' calls, the reaper, startup, the provider | `MCWorkspaceLifecycle`, `WorkspaceLifecycleProofs` |
| `Migration` | one workspace's migrations: calls of the control plane, the agents of source and target, a client that writes | `MCMigration`, `MigrationProofs` |
| `RegionalPlan` | how a request with regions becomes a prompt, spans, LoRA routes, masks and an attention partition: functions | `WorkerRuntime`, `RegionalPlanProofs` |
| `WorkerRuntime` | the worker's process over the commands of one agent | `MCWorkerRuntime`, `WorkerRuntimeProofs` |

Conventions in all of them:

* A step is the code between two awaits that can really suspend. An asyncio lock
  that is never held across such an await needs no variable (`JobManager._lock`,
  `RemoteDownloadManager._lock`); one that is has a holder and a FIFO queue
  (`_worker_lock`: `holder`, `lockQueue`).
- What survives a restart and what does not are separate groups of variables;
  the restart action (`AgentRestart`, `Crash`, `Restart`) resets the second
  and applies what the code does at startup to the first.
- A request to another party is either answered, or fails with or without
  having had its effect.
- Contents are names: a file is whole, of another source, or broken; a chunk is
  torn or not; a pod is running, exited or terminated.
- An operator `X_Y` beside `X`, marked "mutant", is a variant of `X` with a
  plausible bug. No specification uses it: it exists to show that a property
  fails when the code has that bug (`mutants` in `PROJECT.json`).

### JobManager

`state`, `command`, `outputs`, `logged` are the job and event files. `task[j]`
says where `_run_job` of `j` is suspended: waiting for the lock, in the payload,
dropping the resident executor, spawning, reading the pipe, indexing an output,
awaiting a kill, done. An executor is named by the job whose task created it,
because the factory is called at most once a job. The worker has a position
(`pos`), the job it serves, the key of the model loaded, and a bounded pipe
(`out`); it writes, the agent reads, both at their own pace. `admin` is the
coroutine of close() or release_worker_memory(), with the snapshot it took of
the tasks. A worker may die at any time (`WorkerKilled`).

### JobService

The abstract specification of `JobManager`: one server that takes those who ask
in the order in which they asked, each job at most once; a result is given by the
job's turn and stands; a withdrawal (a cancel) keeps it from being given; the
operator (close, release_worker_memory) queues up like a job. It has no
processes, pipes or files. The mapping is in `JobManager`: `result` is what the
job's file says, `order` the FIFO queue of the worker lock, `server` its holder,
`withdrawn` the set `_cancelled`. It shows what the
detailed model is for: that spawning, killing, the resident worker and what
becomes of it change none of this. What the service does allow is telling too:
`Reopen` (a late event makes a cancelled job look alive) and `Abandon` (a
shutdown withdraws without a word) are steps of the code that no reader of its
API would expect.

### DownloadQueue

One task drains a queue of operations; `op` and `phase` are the running one and
the await it is suspended at (metadata, stream, library fetch, verification,
installation). A transfer is for a page (`source[t]`), and each operation
selects one of the page's offers anew (`file[t]`): a resumption may name another
file, and a page without a version resolves to the newest one. The code refuses a
file of another name and compares nothing else. `part[t]` is the staged file as a
count of blocks with the set of files they are of, which is what resumption by
ranges, a 416 answer and an oversized body act on; `Broken` among them stands for
a wrong or misplaced block. Installation is checked for all names, then moves file
by file, and a restart may leave any subset in place. `cancel[t]` is the
`asyncio.Event` of the transfer: a resume makes a new one, so an operation still
running looks at the new one.

`faults` counts writes of a transfer's own state that fail, as on a full volume.
The worker takes an operation off the queue before the first of them: `DrainFails`
is its failure, after which the handler's FAILED write succeeds, or fails too and
kills the worker; `OperationRaises` is the same at each later await, `CancelRaises`
a cancel() whose write fails behind the event it has set. A failing write of
`_prepare_transfer` queues nothing and changes nothing. A failing write of
`_recover_interrupted` keeps the agent from starting, so that only a restart in
which recovery is complete is a step.

### Uploads

A file is its contents and its stamp (`mtime_ns`); the index has for each path a
checksum, the stamp under which it was taken, and an id. A call works under
`TransferManager._lock`, so it is one step that leaves the last of a sequence of
volumes, one after each file the call writes, and a crash leaves any of them
(`Work`, `Crash`). Two calls use what they read before they waited:
create_upload looks at its destination outside the lock, and move_file takes the
lock twice, to resolve its source and then to look at the destination and move
(`CreateWaits`, `MoveWaits`, `Enter`); they wait while a scan of the inventory holds
the lock in a thread, and anything may come between. `crossed`
remembers that a move took another file than the one it had looked up.

### WorkspaceLifecycle

`record` is the row, `journal` the entry of the creation, `deletes` those of
deletions, `secret` whether the vault holds the agent's credential, `pods` the
provider's view. `call[c]` has the operation, the await it is at and the copy of
the row it works on; `Save` writes that copy, whatever the row is by then. The
reaper is one more caller. `control` says whether the program is up or in which
part of its startup; calls exist only when it is up. A lease is live, overdue
or unlimited; `LeaseExpires` is the clock.

consume_plan is two steps: `PlanRead` is SELECT ... FOR UPDATE, `Create` the
DELETE with its commit and what follows up to the next await that matters. Whether
a second request may read the plan between them is the database's: `RowLocks` is
true where FOR UPDATE locks the row (PostgreSQL) and false where it is ignored
(SQLite). With it false the model of one workspace is right up to the second
`Create`, which would make another workspace: `PlanMakesOneWorkspace` is violated
there, by two requests that read the plan before either deletes it. That is what
SQLite allows, the database the launcher creates (`web/local_runpod.py:150`), so the
property is claimed with `RowLocks` only; `test_workspace_plan_is_single_use` sends
one request after the other.
claim_workspace_transition, which also reads a row for update and writes it, is
one step, as it is under row locks.

### Migration

`row` and `mig` are the rows, with a migration's two manifests, progress and
state; `secret` and `tsecrets` the vault; `agent[p]` the seal and files on a
pod's volume, `staged` the chunks of the target's staging directory. The content
of a file is the pod that wrote it last, if one did, so that a later write to
either pod shows. `writer` is a request of a client that passed the agent's seal
test and has not landed. The create, resume and confirm calls and the abort
inside a stop are step sequences as in WorkspaceLifecycle. A chunk may be sent
twice, its answer lost, or written in part. The target's volume is new or one the
account has, named by the request or left by an aborted migration: `CreatesTarget`
lets it hold, under each path of the source or beside them, nothing, what the
source holds too (`Old`) or something else (`Prior`), and be sealed already.

### RegionalPlan and WorkerRuntime

`RegionalPlan` has the pure functions: boxes in pixels and the image tokens they
cover, the compiled prompt as a sequence of tokens tagged with the part and the
region they come from, the effective role of each region, the LoRA routes with
their strengths and the streams and matrices they change, the keys each query
may attend to, the masks of a local edit, and the assignment of faces to
regions. Soft fields and finite biases, which weigh a key without hiding it, are
reduced to where they are positive.

`WorkerRuntime` is the process: `load` and `floors` are its settings and the free
memory it insists on, `active` and `gpu` the clone that is remembered and the
one whose weights are on the GPU, `overridden` the models whose options hold an
attention override, `job` the command with the phase it is in. Each phase may
fail, run out of GPU memory or meet the system memory guard; `Recover` is the
one retry. The functions of RegionalPlan are applied to the job's request, so a
property can say of the step that samples which tokens the installed adapters
reach. Memory is in hundredths of GiB.

## 3. The runs

| Run | Configuration | Question and result |
|---|---|---|
| `job_safety` | two jobs of any of three control paths, cancel, close, release, worker deaths | One worker process at a time, none leaked; no executor, model, or event of one job reaches another; cancelled jobs are not reported as complete; a completed job has its output; one job per command. Holds. |
| `job_liveness` | two jobs, close, release, one restart, fairness | JobManager implements JobService, each task ends, each administrative call returns. Holds. |
| `job_cancel_stops` | two jobs, cancel | "The isolated worker was stopped": violated. A cancel between the STARTING write and the spawn stops nothing; the worker starts and runs the job. |
| `job_kept_image2image` | one image2image job that keeps the model | Each task ends: violated. Its failure leaves worker and agent waiting for each other. |
| `downloads` | a transfer of a Civitai page, with files of two names and hashes or with a hashed and an unhashed version of one name, beside one of a repository in conflict with each of these; a restart or a failed state write, fairness | A failed write strands one transfer at most and nothing else does; no file is replaced; what is completed is in place, and is the selected file where a SHA-256 says so; a broken file is installed only where no SHA-256 is declared, and of a declared size only when blocks of two files were staged; each queued transfer is settled unless such a write killed the worker; close() returns. Holds. |
| `upload_safety` | two uploads of one name and two kinds, moves, deletions and saves, one call that waits, a restart | A fresh index entry is true, a completed upload is stored, no model file is replaced. Holds, but for what follows a move that took another file. |
| `workspace_calls` | two calls at a time, two pods, both modes, two restarts, two faults, row locks | One workspace per plan, no journaled orphan, no deletion with a pod left, a ready pod has its credential. Holds. |
| `workspace_reaper` | one client beside the reaper, two restarts, a fault, fairness | The pod of an overdue workspace is stopped, unless its row says so already. Holds. |
| `workspace_expiry` | one client beside the reaper, no fault | Without that exception: violated. The reaper takes a starting workspace for an expired one; its stale save hides the new pod. |
| `migration_calls` | two calls at a time over one migration, a volume that is empty or not, two chunks, a write, one fault or restart | The workspace is on the target, and the original deleted, only if the target has what the manifest lists; a listed file becomes the manifest's, whatever was there;  recorded progress was received. Holds. |
| `migration_writes` | two calls, one write | No accepted write is lost by the switch: violated. The seal is tested before the handler's awaits. |
| `worker_runtime` | four jobs in a row of five requests and all kinds, four settings of the load, failures in every phase | A job starts from a clean baseline, the memory floors hold, a standard regional LoRA changes its own tokens only and its text is hidden from others, an edit changes no pixel outside its mask. Holds; the only run that also shows the absence of deadlock. |

Why the bounds are enough. The hazards are races of two: two tasks for one lock,
two transfers for one queue or one path, two calls on one row; a third adds no
new pair of steps that touch the same state, only a longer queue. Two chunks are
the least with a first, a last and a partial file; two blocks the same. One or
two restarts reach the restart in each phase and, where a run has two, the crash
during recovery. A fault budget of one reaches every single failure in every
phase. Counters that the code does not bound are bounded by `MaxRestarts`,
`MaxFaults`, `MaxTroubles`, `MaxCrashes`, `MaxQueue`, `MaxWrites`, `MaxJobs`,
`PipeCapacity`, each named at its constant. Every action of every module fires
in some passing run. Where a bound is tight, a proof goes beyond it: downloads
run with one operation waiting behind the running one and one restart or failed
write, migrations with one file of two chunks and one fault, and both modules'
safety is proved for any number. All
versions of a Civitai file have the same number of blocks: that is where the
declared size cannot tell them apart, the worst case for a splice. A wrong block
arrives only from pages that declare a SHA-256 for each file, and a block too many
only where a size is declared: without them nothing could notice, and no property
could hold. `Wanted` gives each transfer its pages: two transfers meet in the queue and
in the destinations only, which the Civitai transfer and the repository's share.

The worker's instance is scaled, not cut: twelve layers of the text encoder
become seven and a token of sixteen pixels one of four, so that a canvas of
twelve by eleven pixels, three columns and three rows of tokens of which the
last is cut off, has boxes on and off token boundaries, overlapping, reaching
over the edge, and with priorities that contradict the list. The first
request has as many text tokens as there are layers, since the override tells
the streams of attention apart by lengths; the fourth and fifth have a LoRA for
no active region, of strength zero, or global. What depends on the request alone
is tabulated once (`PlanOf`, `CompiledOf`, `BoundOf`), which changes the
evaluation and not the meaning.

Symmetry is used for jobs, commands, transfers, pods and client calls, which the
modules treat alike, and only in runs without a liveness property.

Deadlock checking is off where the program really may stop: each job may be
finished, each transfer settled, each upload over, the workspace deleted. The
worker's loop has an end of its own (`Done`), so there it is on.

### Fairness

* `JobManager`: ready coroutines run, the worker computes, a process that was
  sent SIGTERM ends (the code sends SIGKILL after three seconds). No fairness
  for clients' calls, worker deaths, progress events, restarts.
* `DownloadQueue`: network answers and threads end. This is an assumption about
  providers: the code sets no timeout on a stream (`timeout=None`).
* `WorkspaceLifecycle`: a call in progress goes on, since each provider request
  has a timeout of 30 s; the reaper's loop and the startup go on. No client has
  to call, no lease to expire, no pod to go.
* `Migration`, `Uploads`, `WorkerRuntime` state safety only.

## 4. What is proved

`JobManagerProofs` proves for every number of jobs, commands and keys, every set
of requests and calls, every pipe capacity of two or more and every number of
restarts:

| Theorem | Statement |
|---|---|
| `TypeCorrect` | `Spec => []TypeOK` |
| `ExecutorIsOfHolder` | `Spec => []ExecutorOfHolder` |
| `LiveInvariant` | a task that has not returned has an unfinished or cancelled job |
| `CancelledNeverCompletesAlways` | `Spec => []CancelledNeverCompletes` |
| `ResultAlwaysStands` | `Spec => ResultStands` |
| `CompletedIsAlwaysClean` | `Spec => []CompletedIsClean` |
| `OneJobPerCommandAlways` | `Spec => []OneJobPerCommand` |

They assume only the module's named assumptions: requests are records of the
three kinds, names differ, bounds are natural numbers.

The argument. The base invariant `BaseInv` is `TypeOK` with two facts that type
correctness needs: a task has a request and, from the spawn on, an executor, and
a live process serves a job that was submitted (`ServingInv`); what
release_worker_memory() still has to cancel are jobs whose task was started
(`TodoInv`). Each action preserves it, with one step of the proof per action.
Over it, `LockInv` (a task inside the lock is its holder) and `RegisterInv`
(only such a task has an executor registered) are inductive and together give
`ExecutorOfHolder`. `LiveInv` says that the job of a running task is active or
cancelled; `CancelledNeverCompletes`, `ResultStands` and `CompletedIsClean` are
not inductive without it, because the steps that report a result do not look at
the state in the file. `OneJobPerCommand` is inductive with `BaseInv`.

The end of `JobManagerProofs` proves `JobServiceImplemented`,
`Spec => ImplementsJobService`: under the mapping, the initial states of `JobManager` are those of `JobService`
and each of its steps is a step of the service or none, for any jobs, requests
and pipe and any number of restarts. The argument: with `BaseInv`, `LockInv` and
`LiveInv` from above, a step either ends a task that holds the lock (`Settles`),
is one of the other actions the service sees (`Loud`), or leaves what it sees alone
(`Quiet`). The one fact the mapping needs beyond them is `MarkInv`: a job whose
file reads CANCELLED while its task is not over is in `_cancelled`, so that its
end maps to `Leave` and never to an answer.

`JobWorkerProofs` proves, under the same assumptions, what `JobManager` promises of
its worker processes:

| Theorem | Statement |
|---|---|
| `WorkerInvariant` | the strengthening below |
| `OneWorkerAtATime` | `Spec => []OneLiveWorker` |
| `NoWorkerOrphaned` | `Spec => []NoOrphanWorker` |
| `EventsReachTheirReader` | `Spec => []EventsOfReader` |
| `ModelIsAlwaysRight` | `Spec => []RightModelLoaded` |

The argument. None of the four is inductive, because a process outlives the task
that started it: it may be resident, in use by a later task, or on its way to be
killed by a task or by an administrative call. `LocatedInv` says that a live
process is always in one of these places (`Located`), and that an executor about
to be spawned has none. `EngagedInv` says who may hold them at once: a task that
uses an executor has taken the resident one, with its own key, or found none,
and whoever drops an executor has forgotten it first; so two places never hold
two executors. `PipeInv` is about the whole pipe, not its head: every event in
it is of the job that the process serves, a "resident" event is the last and
from a process that waits for commands, and a resident process nobody uses has
an empty pipe, which is why the next job reads nothing of the last one.
`ModelInv` ties the model loaded to the job served, through the event loop of the
worker, and for a resident process to the key recorded for it.

`WorkspaceLifecycleProofs` proves for every number of calls and pods, both modes,
and every number of restarts and faults, all but `TypeCorrect` under
`ASSUME RowLocks`, a store that locks rows:

| Theorem | Statement |
|---|---|
| `TypeCorrect` | `Spec => []TypeOK` |
| `PlanAlwaysMakesOneWorkspace` | `Spec => []PlanMakesOneWorkspace` |
| `JournaledPodAlwaysStopped` | `Spec => []JournaledPodIsStopped` |
| `DeletedAlwaysTerminated` | `Spec => []DeletedMeansTerminated` |
| `PodAlwaysHasCredential` | `Spec => []PodHasCredential` |

They assume besides that `None` is no pod, that the reaper is no client's call, and the
types of modes, leases and bounds.

The argument. What makes stale whole-row saves hard is that a property of the row
depends on every copy in flight, so the invariant speaks about the copies.
`CreationInv` adds to the first properties: only calls on a workspace that exists
have a copy of a row, and no call is in progress during a startup (`CallInv`);
at most one call holds the plan's row, the plan is there as long as it does, and
nothing else has begun (`PlanInv`); the journal names the
pod of the creation before the row is saved and for good (`JournalInv`). It is
inductive by itself (`CreationInvariant`). Over it, `PersistentInv` is: in a
persistent workspace the row and all copies name that pod or none (`OnePodInv`);
wherever a copy, the row or a journaled deletion says "deleted" or "no pod", the
pod is terminated, and a terminated pod stays so (`GoneInv`); and a creation in
progress has its credential (`SecretInv`). A portable workspace has no such
invariant: there a stale save may hide a pod, which is what `workspace_expiry`
shows.

`DownloadQueueProofs` proves for any transfers, sources and names, any number of
blocks, any length of the queue and any number of restarts and failed writes:

| Theorem | Statement |
|---|---|
| `TypesHold` | `Spec => []TypeOK` |
| `NoneStrandedInFlight` | `Spec => []ActiveIsOwned` |
| `NoneForgotten` | `Spec => []FaultStrandsOne` |
| `SplicedOnlyUnhashed` | `Spec => InstalledIsWhole` |
| `CompletedForGood` | `Spec => []CompletedIsInstalled` |
| `NoFileReplaced` | `Spec => NoOverwrite` |

The argument. `QueueInv` says what the queue, its worker and the running
operation have to do with each other, and that each failed write has left at most
one stranded transfer (`Stranded`): a step that ends an operation or drops a queue
entry strands only the transfer it is about. `FileInv` is what is left of a
resumption that compares names: staged blocks are of the page's files unless each
of these declares a SHA-256, with which a wrong block can be told; and in the
installation phase a Civitai file has been compared with what the selected offer
declares, so that the check is not one that may have been made of other blocks
(`Verified(op)` in the phase "install"). So a broken file that passes has no
SHA-256, and with a declared size it has all its blocks, of two files. An
operation is in one phase at a time and owns its staged part, which is where the
single queue worker enters.
Assumed: a page has a provider and some offers, each of a file at least and from
Civitai of one (`SourcesAssumption`), names differ, the bounds are natural numbers.

`UploadsProofs` proves for any calls, sessions, names, kinds, contents and stamps,
and any number of chunks, writes and restarts:

| Theorem | Statement |
|---|---|
| `StampsAgree` | the strengthening below |
| `TypeCorrect` | `Spec => []TypeOK` |
| `FreshEntriesAreTrue` | `Spec => []FreshEntryIsTrue` |
| `CompletedUploadsAreStored` | `Spec => CompletedIsStored` |
| `ModelFilesAreNotReplaced` | `Spec => NoOverwrite` |

The argument. That a record whose stamp is the file's tells the file's checksum is
not inductive alone: a rename brings a file under a record made of another one.
`Agree` says it across paths: files with one stamp have the same contents
(`FilesAgree`), a record with the stamp of any file has that file's checksum
(`RecordsAgree`), the id of a record was made with its stamp (`IdsAgree`), and a
move that waits is right about what it has found (`MoveAgrees`). A call leaves one
of a sequence of volumes, its last or, in a crash, any; the proof shows of each
operation that all of them are in `Left(v, a)`: no model file is replaced, and
unless a move crosses another, the volume still agrees and a session newly
completed has its file. Assumed: names differ and the bounds are natural numbers.
A write takes a stamp that no file, record or waiting call has: the code relies on
`mtime_ns` to grow, and so does the proof.

`MigrationProofs` proves for any number of calls, migrations, files, chunks,
writes and faults:

| Theorem | Statement |
|---|---|
| `TypeCorrect` | `Spec => []TypeOK` |
| `SwitchAlwaysVerified` | `Spec => []SwitchIsVerified` |
| `ImportedAlwaysManifested` | `Spec => ImportedIsManifested` |
| `ProgressAlwaysReceived` | `Spec => []ProgressIsReceived` |

The argument. Records are saved whole from copies that calls have read, so a
newer record may be replaced by an older one at any time; what saves the
properties is that a record's claims only ever become truer. The invariant says
of every record, the stored one, the copy of each call and each entry in the
list of a stop, that it is `Sound`: its target exists, what it counts as copied
is on the target or staged (`Received`), what it has as the target's manifest
was there and still is, up to files imported since (`Scanned`), and if it says
AWAITING_CONFIRMATION the target is `Proven`. What a new target's volume holds is
arbitrary, so nothing is said of it beyond its claims; from then on each step
leaves every volume at least as full, and changes a listed file to the manifest's
only (`Grows`, `OnlyImported`), so soundness of a copy survives the steps of others
(`SoundStays`, `CallStays`). A call past the comparison of manifests, a row on a
target and a deleted original all stand for a proven target; that the comparison
implies it, although the scan was made long before, is `MatchProves`. `TargetInv`
adds that a target pod is created by one call and once. Assumed: contents, pods
and `None` differ (`NamesAssumption`, `ManifestsAssumption`), and bounds are
natural numbers.

`WorkerRuntimeProofs` proves for any requests and settings and any number of jobs:

| Theorem | Statement |
|---|---|
| `TypeCorrect` | `Spec => []TypeOK` |
| `JobAlwaysStartsClean` | `Spec => []JobStartsClean` |
| `MemoryFloorsAlwaysHold` | `Spec => []MemoryFloorsHold` |
| `EditsStayInMask` | `Spec => []EditStaysInMask` |
| `DeltasAreTokenLocal` | `Spec => []DeltaIsTokenLocal` |

The argument. `JobInv` ties the phase to the kind of the command, `LoadInv` the
components to the process's state (all three are there whenever a command may
come, and a second attempt has its VAE on the CPU), `FloorsInv` bounds the floors
over any number of recoveries, and `ModelInv` says at each phase which clone may
hold an override or be remembered, so that nothing is left when the process is
waiting again. A step ends the command, retries it or moves it to its next phase
(`Ended`, `Retries`, `Moves`). `LoadsAssumption` asks that memory sizes are
natural numbers.

`EditsStayInMask` is geometry for every canvas, feather, padding and face:
`MaskGrows` shows that a mask only grows from the edit to what is composited,
`CropAxis` and `RefinedCrop` that a face's crop, grown, moved into the image and
rounded to its alignment, still contains the face, and `FaceTargetsOf` that the
faces to refine are among those found.

`DeltasAreTokenLocal` is the deepest of them, since it follows a region's LoRA from
the request to the keys a query may read. `SpansOfPrompt` shows that the compiled
prompt has each region's clause where its span says, that no two spans meet and
that a span's image tokens lie under the region's box (`Spanned`); it needs where
the k-th sequence is in a flattened one (`Flattened`), which tokens a box covers
(`CoveredTokens`) and that two subjects never get one owner number
(`SubjectNumbers`). `StreamsAreRecognized` shows that the override never takes one
stream of attention for another although it knows them by their lengths only, and
`DeltaOfRoute` that what a route changes stays at its tokens, and that their text,
and an image key or value that a target changes, is hidden from the queries of
others. It claims no more than `regional_lora.py:78-86`: the query and output
deltas that a standard route keeps change the hidden states of the box's tokens,
and since image-to-image attention is unmodified, other image tokens read keys
made of those from the next block on. The state enters by `ReadyInv`: from the step that routes
the LoRAs until the last sampling, through retries, the routes were accepted, the
model is the clone that carries them and the override is installed on it.

`RequestsAssumption` says of requests what the program ensures before it plans:
* regions and edits have ids of their own: a project and an edit with a repeated
  id are refused (`project.py:294-296`, `image_edit.py:91`, `:104`). That a region
  of the project and one of the edit differ is not tested, but rests on the
  browser, which makes ids with `crypto.randomUUID` (`RegionCanvas.tsx:162`). Two
  regions with one id would share a span, and the theorem would be false of them;
* an image has more tokens than the encoder has layers: canvases have 256 to 4096
  pixels a side, at least 256 tokens, against twelve layers. With fewer, the
  override could take the image stream for the layerwise one;
* faces lie in the image and have at least two pixels a side, four where the edge
  of the crop fades: a detected face has eight or more (`face_detail.py:458`), a
  drawn one two (`runtime.py:2566`), and the edge fades for detected ones only;
* padding and scale are in the ranges of the settings (`FaceDetailSettings`).

`RegionalPlanProofs` has the lemmas on the functions, none of which mentions a
state. Where they need induction over data, `SetInduction` replaces the library's
theorems, which take an operator: a property becomes the set of naturals that
have it, and the least one without it is found by the well-foundedness of `<`.
What a recursive function computes is stated by a witness, a sequence of its
partial results (`Enumeration` for the ranks of a sort, `Joins` for flattening).

Each strengthening was checked by TLC under the bounds of its module's run
before it was proved.

Only model-checked: liveness. `EveryTaskEnds`, `AdminCallReturns`,
`PendingSettles`, `CloseEnds` and `OverdueIsStopped` rest on fairness and
ENABLED, which are out of the prover's reach. Every safety property of a passing
run is a theorem. What a store without row locks does is not proved. No module uses a RECURSIVE operator.

## 5. What is not modelled, and why

* Adoption and reconnection of foreign pods, volumes, credentials: adoption looks
  for a row and saves one, without a claim in between, and two at once meet only
  in the table's unique `pod_id`; in `WorkspaceLifecycle` these calls would
  multiply the copies in flight beyond what TLC explores, and no document says
  what two of them should do.
* Several workspaces at once: what they share is the reaper's list, the startup
  that one orphan can stop, and the provider lock; a model of two has the square
  of the states of one. The hazard is listed with its line.
* Failures of the database, sessions and rate limits, plans, prices and GPU
  choice, project files and catalogs: single transactions or functions of one
  caller, which unit tests reach.
* A stop that overlaps a migration's switch: `Migration` reaches states in which
  each later stop fails at the same request (the source is stopped, or the
  target gone, so that the abort's first request is refused). It is listed as a
  hazard and no run of its own.
* Tensor arithmetic, finite attention biases, HTTP details, rendering, the
  browser client, deployment: numbers, formats and pixels without state that
  another actor changes.

`PROJECT.json` gives the reason for each component. What would come next, in
this order: abstract specifications of the downloads and of the migration (a
switch that happens at once, after a whole copy) with proofs that the modules
implement them, as `JobService` is for `JobManager`; a stop that overlaps the
switch as a run of its own; two workspaces with one startup.
