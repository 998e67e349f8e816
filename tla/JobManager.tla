------------------------------ MODULE JobManager ------------------------------
(***************************************************************************)
(* The generation jobs of the workspace agent: JobManager and              *)
(* SubprocessWorkerExecutor (agent/jobs.py) composed with the worker       *)
(* process they drive (worker/entrypoint.py).                              *)
(*                                                                         *)
(* The agent is one asyncio loop.  A step below is the code between two    *)
(* awaits that can really suspend; JobManager._lock is never held across   *)
(* such an await, so a run of `async with self._lock` sections is part of  *)
(* the step around it.  The worker process runs in parallel and talks to   *)
(* the agent through its stdout pipe.                                      *)
(*                                                                         *)
(* An executor object is named by the job whose task created it: the       *)
(* factory is called at most once per job.                                 *)
(***************************************************************************)
EXTENDS Integers, Sequences, FiniteSets

CONSTANTS
  Jobs,           \* the job identifiers that may be allocated
  Commands,       \* the command_ids clients send
  Keys,           \* resident cache keys (model files and memory settings)
  Requests,       \* the requests clients send: [kind, keep, key]
  Calls,          \* bound: the calls explored beside submit()
  MaxRestarts,    \* bound: agent restarts explored
  PipeCapacity,   \* bound: events the stdout pipe holds
  None,           \* no command, no executor, nobody
  Admin           \* the coroutine of close() or release_worker_memory()

(* edit_image and refine_faces take the same control path as generate.     *)
Kinds == {"generate", "image2image", "validate_loras"}

ASSUME RequestsAssumption == Requests \subseteq [kind : Kinds, keep : BOOLEAN, key : Keys]
ASSUME NamesAssumption == None \notin Jobs \cup Commands \cup Requests \cup Keys \cup {Admin}
                          /\ Admin \notin Jobs
ASSUME BoundsAssumption == Calls \subseteq {"cancel", "close", "release"}
                           /\ MaxRestarts \in Nat /\ PipeCapacity \in Nat \ {0, 1}

VARIABLES
  \* state/jobs/*.json and state/jobs/events/*.jsonl: survive a restart
  state,       \* job -> "none" or the JobState in its file
  command,     \* job -> the command_id it was submitted for
  outputs,     \* job -> its file lists at least one output
  logged,      \* job -> which of the events "error" and "cancelled" its file holds
  \* memory of the agent
  request,     \* job -> the request its task runs
  task,        \* job -> where its _run_job task is suspended
  holder,      \* who holds _worker_lock
  lockQueue,   \* who waits for it, in FIFO order
  cancelled,   \* _cancelled
  executors,   \* _executors: job -> registered executor
  resident,    \* _resident_executor
  residentKey, \* _resident_key
  ready,       \* what the readiness callback said last
  produced,    \* job -> output_ids is not empty
  \* who awaits the end of which executor's process inside executor.cancel()
  apiKill,     \* job -> executor awaited by the cancel() call for this job
  taskKill,    \* job -> executor awaited by the job's own task
  admin,       \* [op, phase, todo, job, kill] of close() or release_worker_memory()
  \* SubprocessWorkerExecutor and its process
  proc,        \* executor -> "none" (no process, or one that was reaped), "up",
               \* or "exit0", "exit1": ended and not reaped yet
  serving,     \* executor -> the job whose commands were written last
  pos,         \* executor -> the command the worker handles next
  loaded,      \* executor -> the key its process loaded the model for, or None
  out,         \* executor -> events in the stdout pipe
  restarts

diskVars == <<state, command, outputs, logged>>
lockVars == <<holder, lockQueue>>
taskVars == <<request, task, cancelled, executors, resident, residentKey, produced>>
killVars == <<apiKill, taskKill, admin>>
procVars == <<proc, serving, pos, loaded, out>>
vars == <<diskVars, lockVars, taskVars, ready, killVars, procVars, restarts>>

Executors == Jobs
ActiveStates == {"queued", "starting", "running"}
FinalStates == {"completed", "failed", "cancelled"}
Phases == {"none", "waiting", "payload", "dropping", "spawning", "reading",
           "indexing", "raising", "done"}
(* The phases of a task inside `async with self._worker_lock`.             *)
Holding == Phases \ {"none", "waiting", "done"}
EventTypes == {"running", "output", "error", "resident"}
WorkerEvents == [job : Jobs, type : EventTypes]
AdminRecords ==
  [op : {"none", "close", "release"},
   phase : {"idle", "cancelling", "killing", "gather", "lock", "dropping"},
   todo : SUBSET Jobs, job : Jobs \cup {None}, kill : Executors \cup {None}]
IdleAdmin == [op |-> "none", phase |-> "idle", todo |-> {}, job |-> None, kill |-> None]

DiskTypes ==
  /\ state \in [Jobs -> {"none"} \cup ActiveStates \cup FinalStates]
  /\ command \in [Jobs -> Commands \cup {None}]
  /\ outputs \in [Jobs -> BOOLEAN]
  /\ logged \in [Jobs -> SUBSET {"error", "cancelled"}]

TaskTypes ==
  /\ request \in [Jobs -> Requests \cup {None}]
  /\ task \in [Jobs -> Phases]
  /\ holder \in Jobs \cup {Admin, None}
  /\ lockQueue \in Seq(Jobs \cup {Admin})
  /\ cancelled \subseteq Jobs
  /\ executors \in [Jobs -> Executors \cup {None}]
  /\ resident \in Executors \cup {None}
  /\ residentKey \in Keys \cup {None}
  /\ ready \in BOOLEAN
  /\ produced \in [Jobs -> BOOLEAN]

KillTypes ==
  /\ apiKill \in [Jobs -> Executors \cup {None}]
  /\ taskKill \in [Jobs -> Executors \cup {None}]
  /\ admin \in AdminRecords

ProcTypes ==
  /\ proc \in [Executors -> {"none", "up", "exit0", "exit1"}]
  /\ serving \in [Executors -> Jobs \cup {None}]
  /\ pos \in [Executors -> {"idle", "probe", "load", "main", "busy"}]
  /\ loaded \in [Executors -> Keys \cup {None}]
  /\ out \in [Executors -> Seq(WorkerEvents)]
  /\ restarts \in 0 .. MaxRestarts

TypeOK == DiskTypes /\ TaskTypes /\ KillTypes /\ ProcTypes

(* payload["keep_model_loaded"]: forced off for validate_loras.            *)
Keep(j) == request[j].keep /\ request[j].kind # "validate_loras"

(* _resident_cache_key(payload).                                           *)
CacheKey_Kind(j) == request[j].kind      \* mutant: not the settings
CacheKey(j) == request[j].key

(* _tasks: the done callback removes a task that returned.                 *)
LiveTasks_All == {j \in Jobs : task[j] # "none"}     \* mutant: no callback
LiveTasks == {j \in Jobs : task[j] \notin {"none", "done"}}

(* The executors whose process has been sent SIGTERM, and SIGKILL after 3s. *)
Dying == {e \in Executors :
            \/ \E j \in Jobs : e \in {apiKill[j], taskKill[j]}
            \/ e = admin.kill}

Init ==
  /\ state = [j \in Jobs |-> "none"]
  /\ command = [j \in Jobs |-> None]
  /\ outputs = [j \in Jobs |-> FALSE]
  /\ logged = [j \in Jobs |-> {}]
  /\ request = [j \in Jobs |-> None]
  /\ task = [j \in Jobs |-> "none"]
  /\ holder = None
  /\ lockQueue = <<>>
  /\ cancelled = {}
  /\ executors = [j \in Jobs |-> None]
  /\ resident = None
  /\ residentKey = None
  /\ ready = FALSE
  /\ produced = [j \in Jobs |-> FALSE]
  /\ apiKill = [j \in Jobs |-> None]
  /\ taskKill = [j \in Jobs |-> None]
  /\ admin = IdleAdmin
  /\ proc = [e \in Executors |-> "none"]
  /\ serving = [e \in Executors |-> None]
  /\ pos = [e \in Executors |-> "idle"]
  /\ loaded = [e \in Executors |-> None]
  /\ out = [e \in Executors |-> <<>>]
  /\ restarts = 0

Log(j, kind) == logged' = [logged EXCEPT ![j] = @ \cup {kind}]

-----------------------------------------------------------------------------
(* The client's calls.                                                     *)

(* submit(): a command_id that has a job already is answered with that job. *)
FindCommand_Active(c) ==                 \* mutant: only unfinished jobs
  \E j \in Jobs : command[j] = c /\ state[j] \in ActiveStates
FindCommand(c) == \E j \in Jobs : command[j] = c

Submit(j, c, r) ==
  /\ state[j] = "none"
  /\ ~FindCommand(c)
  /\ command' = [command EXCEPT ![j] = c]
  /\ state' = [state EXCEPT ![j] = "queued"]
  /\ request' = [request EXCEPT ![j] = r]
  /\ task' = [task EXCEPT ![j] = "waiting"]
  /\ lockQueue' = Append(lockQueue, j)
  /\ UNCHANGED <<outputs, logged, holder, cancelled, executors, resident, residentKey,
                 ready, produced, killVars, procVars, restarts>>

(* The first half of cancel(): the job is marked, then executor.cancel()   *)
(* is entered; it returns at once when there is no process to stop.        *)
MarkCancelled(j) ==
  /\ cancelled' = cancelled \cup {j}
  /\ state' = [state EXCEPT ![j] = "cancelled"]

Finished_NotFailed(j) == state[j] \in {"completed", "cancelled"}     \* mutant
Finished(j) == state[j] \in FinalStates

Stoppable_Never(e) == FALSE              \* mutant: the process is left alone
Stoppable(e) == e # None /\ proc[e] # "none"

Cancel(j) ==
  /\ "cancel" \in Calls
  /\ state[j] # "none" /\ ~Finished(j)
  /\ apiKill[j] = None          \* bound: one call per job in flight
  /\ MarkCancelled(j)
  /\ IF Stoppable(executors[j])
       THEN apiKill' = [apiKill EXCEPT ![j] = executors[j]] /\ UNCHANGED logged
       ELSE Log(j, "cancelled") /\ UNCHANGED apiKill
  /\ UNCHANGED <<command, outputs, lockVars, request, task, executors, resident,
                 residentKey, ready, produced, taskKill, admin, proc, serving,
                 pos, loaded, out, restarts>>

(* A process that ended is forgotten, with what its pipe still held.       *)
Reap(e) ==
  /\ proc' = [proc EXCEPT ![e] = "none"]
  /\ serving' = [serving EXCEPT ![e] = None]
  /\ pos' = [pos EXCEPT ![e] = "idle"]
  /\ out' = [out EXCEPT ![e] = <<>>]
  /\ loaded' = [loaded EXCEPT ![e] = None]

(* The second half: the process has ended, executor._process becomes None. *)
CancelReturns(j) ==
  /\ apiKill[j] # None
  /\ proc[apiKill[j]] # "up"
  /\ Reap(apiKill[j])
  /\ apiKill' = [apiKill EXCEPT ![j] = None]
  /\ Log(j, "cancelled")
  /\ UNCHANGED <<state, command, outputs, lockVars, taskVars, ready, taskKill, admin,
                 restarts>>

-----------------------------------------------------------------------------
(* _run_job, from the worker lock to executor.run.                         *)

(* The task returns: its locals are gone, its executor is unregistered.    *)
TaskEnds_NoPop(j) ==                     \* mutant: _executors.pop is missing
  /\ task' = [task EXCEPT ![j] = "done"]
  /\ produced' = [produced EXCEPT ![j] = FALSE]
  /\ holder' = None /\ UNCHANGED executors

TaskEnds(j) ==
  /\ task' = [task EXCEPT ![j] = "done"]
  /\ executors' = [executors EXCEPT ![j] = None]
  /\ produced' = [produced EXCEPT ![j] = FALSE]
  /\ holder' = None

RunJobStart(j) ==
  /\ task[j] = "waiting"
  /\ holder = None
  /\ lockQueue # <<>> /\ Head(lockQueue) = j
  /\ lockQueue' = Tail(lockQueue)
  /\ IF j \in cancelled
       THEN TaskEnds(j) /\ UNCHANGED state
       ELSE /\ holder' = j
            /\ task' = [task EXCEPT ![j] = "payload"]
            /\ state' = [state EXCEPT ![j] = "starting"]
            /\ UNCHANGED <<executors, produced>>
  /\ UNCHANGED <<command, outputs, logged, request, cancelled, resident, residentKey,
                 ready, killVars, procVars, restarts>>

(* `except JobError / TransferError / Exception`: a cancelled job is left   *)
(* as it is; the executor stays recorded as resident if it was.            *)
Fail(j) ==
  /\ TaskEnds(j)
  /\ IF j \in cancelled
       THEN UNCHANGED <<state, ready>>
       ELSE state' = [state EXCEPT ![j] = "failed"] /\ ready' = FALSE
  /\ UNCHANGED <<command, outputs, logged, lockQueue, request, cancelled, resident,
                 residentKey, apiKill, admin, restarts>>

(* Registers executor e for job j and enters executor.run: a live process  *)
(* gets the three commands, otherwise a new one is spawned first.          *)
WriteCommands(j, e) ==
  /\ serving' = [serving EXCEPT ![e] = j]
  /\ pos' = [pos EXCEPT ![e] = "probe"]

EnterRun(j, e) ==
  /\ executors' = [executors EXCEPT ![j] = e]
  /\ IF proc[e] = "up"
       THEN WriteCommands(j, e) /\ task' = [task EXCEPT ![j] = "reading"]
       ELSE task' = [task EXCEPT ![j] = "spawning"] /\ UNCHANGED <<serving, pos>>

MustDropResident_AnyKey(j) == resident # None /\ ~Keep(j)     \* mutant
MustDropResident(j) == resident # None /\ (~Keep(j) \/ residentKey # CacheKey(j))

(* _job_payload raises: a file is gone, a LoRA is not bound.               *)
PayloadFails(j) ==
  /\ task[j] = "payload"
  /\ Fail(j)
  /\ UNCHANGED <<taskKill, procVars>>

(* _drop_resident_executor is entered when there is a process to wait for. *)
DropResident(j) ==
  /\ task[j] = "payload"
  /\ MustDropResident(j) /\ Stoppable(resident)
  /\ task' = [task EXCEPT ![j] = "dropping"]
  /\ taskKill' = [taskKill EXCEPT ![j] = resident]
  /\ resident' = None /\ residentKey' = None
  /\ UNCHANGED <<diskVars, lockVars, request, cancelled, executors, ready, produced,
                 apiKill, admin, procVars, restarts>>

UseExecutor(j) ==
  /\ task[j] = "payload"
  /\ IF MustDropResident(j)
       THEN ~Stoppable(resident) /\ resident' = None /\ residentKey' = None
       ELSE UNCHANGED <<resident, residentKey>>
  /\ EnterRun(j, IF resident' = None THEN j ELSE resident')
  /\ UNCHANGED <<diskVars, lockVars, request, cancelled, ready, produced, killVars,
                 proc, loaded, out, restarts>>

(* _drop_resident_executor returns: the next executor is a new one.        *)
ResidentDropped(j) ==
  /\ task[j] = "dropping"
  /\ proc[taskKill[j]] # "up"
  /\ Reap(taskKill[j])
  /\ taskKill' = [taskKill EXCEPT ![j] = None]
  /\ executors' = [executors EXCEPT ![j] = j]
  /\ task' = [task EXCEPT ![j] = "spawning"]
  /\ UNCHANGED <<diskVars, lockVars, request, cancelled, resident, residentKey, ready,
                 produced, apiKill, admin, restarts>>

(* No interpreter at worker_python, or the fork failed.                    *)
SpawnFails(j) ==
  /\ task[j] = "spawning"
  /\ Fail(j)
  /\ UNCHANGED <<taskKill, procVars>>

(* Whoever waits for the end of the executor's last process resumes in the *)
(* loop turn that sees it end, before a spawn can complete.                *)
Spawn(j) ==
  LET e == executors[j] IN
  /\ task[j] = "spawning"
  /\ e \notin Dying
  /\ proc' = [proc EXCEPT ![e] = "up"]
  /\ WriteCommands(j, e)
  /\ loaded' = [loaded EXCEPT ![e] = None]
  /\ out' = [out EXCEPT ![e] = <<>>]
  /\ task' = [task EXCEPT ![j] = "reading"]
  /\ UNCHANGED <<diskVars, lockVars, request, cancelled, executors, resident,
                 residentKey, ready, produced, killVars, restarts>>

-----------------------------------------------------------------------------
(* executor.run reading the pipe, and what follows it in _run_job.         *)

(* `if job_id in self._cancelled: return`                                  *)
Abandoned_Never(j) == FALSE              \* mutant: no such check
Abandoned(j) == j \in cancelled

Succeeded_ExitCode(j, rc) ==             \* mutant: worker_errors is not looked at
  rc = "exit0" /\ (produced[j] \/ request[j].kind = "validate_loras")
Succeeded(j, rc) ==
  /\ rc = "exit0" /\ "error" \notin logged[j]
  /\ produced[j] \/ request[j].kind = "validate_loras"

(* run() returned: from here to the end of the task nothing suspends.      *)
Finish(j, rc, isResident) ==
  LET e == executors[j] IN
  /\ TaskEnds(j)
  /\ IF Keep(j) /\ isResident
       THEN resident' = e /\ residentKey' = CacheKey(j)
       ELSE IF resident = e
         THEN resident' = None /\ residentKey' = None
         ELSE UNCHANGED <<resident, residentKey>>
  /\ IF Abandoned(j)
       THEN UNCHANGED <<state, outputs, ready>>
       ELSE /\ state' = [state EXCEPT ![j] = IF Succeeded(j, rc) THEN "completed" ELSE "failed"]
            /\ outputs' = [outputs EXCEPT ![j] = Succeeded(j, rc) /\ produced[j]]
            /\ ready' = Succeeded(j, rc)
  /\ UNCHANGED <<command, logged, lockQueue, request, cancelled, killVars, restarts>>

(* readline: the loop takes one event off the pipe.                        *)
ReadEvent(j, type) ==
  LET e == executors[j] IN
  /\ task[j] = "reading"
  /\ proc[e] # "none" /\ out[e] # <<>> /\ Head(out[e]).type = type
  /\ out' = [out EXCEPT ![e] = Tail(@)]
  /\ UNCHANGED <<proc, serving, pos, loaded>>

(* on_event for a "running" line writes RUNNING whatever the file says.    *)
HandleRunning(j) ==
  /\ ReadEvent(j, "running")
  /\ state' = [state EXCEPT ![j] = "running"]
  /\ ready' = TRUE
  /\ UNCHANGED <<command, outputs, logged, lockVars, taskVars, killVars, restarts>>

(* worker_errors is not empty from now on.                                 *)
HandleError(j) ==
  /\ ReadEvent(j, "error")
  /\ Log(j, "error")
  /\ UNCHANGED <<state, command, outputs, lockVars, taskVars, ready, killVars, restarts>>

HandleOutput(j) ==
  /\ ReadEvent(j, "output")
  /\ task' = [task EXCEPT ![j] = "indexing"]
  /\ UNCHANGED <<diskVars, lockVars, request, cancelled, executors, resident, residentKey,
                 produced, ready, killVars, restarts>>

(* "complete" for the terminal command_id with resident set: run returns 0 *)
(* and the process stays; for another command_id the loop goes on.         *)
HandleResident(j) ==
  /\ ReadEvent(j, "resident")
  /\ IF Head(out[executors[j]]).job = j
       THEN Finish(j, "exit0", TRUE)
       ELSE UNCHANGED <<diskVars, lockVars, taskVars, ready, killVars, restarts>>

(* index_existing_file waits for the transfers lock and hashes the file.   *)
OutputIndexed(j) ==
  /\ task[j] = "indexing"
  /\ produced' = [produced EXCEPT ![j] = TRUE]
  /\ task' = [task EXCEPT ![j] = "reading"]
  /\ UNCHANGED <<diskVars, lockVars, request, cancelled, executors, resident, residentKey,
                 ready, killVars, procVars, restarts>>

(* The file is gone or not a plain file: run() stops its own process.      *)
OutputRejected_NoStop(j) ==              \* mutant: no cancel() before the raise
  task[j] = "indexing" /\ Fail(j) /\ UNCHANGED <<taskKill, procVars>>

OutputRejected(j) ==
  /\ task[j] = "indexing"
  /\ task' = [task EXCEPT ![j] = "raising"]
  /\ taskKill' = [taskKill EXCEPT ![j] = executors[j]]
  /\ UNCHANGED <<diskVars, lockVars, request, cancelled, executors, resident, residentKey,
                 produced, ready, apiKill, admin, procVars, restarts>>

(* `except BaseException: await self.cancel(); raise` has stopped it.      *)
RunRaised(j) ==
  /\ task[j] = "raising"
  /\ proc[taskKill[j]] # "up"
  /\ Reap(taskKill[j])
  /\ taskKill' = [taskKill EXCEPT ![j] = None]
  /\ Fail(j)

(* A cancel() that finished set _process to None under the reading loop:   *)
(* its next use of self._process raises AttributeError.                    *)
ReadAfterCancel(j) ==
  /\ task[j] = "reading"
  /\ proc[executors[j]] = "none"
  /\ Fail(j)
  /\ UNCHANGED <<taskKill, procVars>>

ReadEof(j) ==
  LET e == executors[j] IN
  /\ task[j] = "reading"
  /\ proc[e] \in {"exit0", "exit1"} /\ out[e] = <<>>
  /\ Finish(j, proc[e], FALSE)
  /\ Reap(e)

-----------------------------------------------------------------------------
(* The worker process: worker/entrypoint.py main().                        *)

Room(e, n) == Len(out[e]) + n <= PipeCapacity
Event(e, type) == [job |-> serving[e], type |-> type]
Emit(e, type) == out' = [out EXCEPT ![e] = Append(@, Event(e, type))]
Exit(e, code) == proc' = [proc EXCEPT ![e] = code]
Goto(e, p) == pos' = [pos EXCEPT ![e] = p]
agentVars == <<diskVars, lockVars, taskVars, ready, killVars, serving, restarts>>

(* A failed probe is reported and the loop goes on.                        *)
WorkerProbe(e) ==
  /\ proc[e] = "up" /\ pos[e] = "probe" /\ Room(e, 1)
  /\ Goto(e, "load")
  /\ \/ UNCHANGED out
     \/ Emit(e, "error")
  /\ UNCHANGED <<agentVars, proc, loaded>>

WorkerLoad(e) ==
  /\ proc[e] = "up" /\ pos[e] = "load" /\ Room(e, 1)
  /\ \/ /\ Goto(e, "main")
        /\ loaded' = [loaded EXCEPT ![e] = IF @ = None THEN CacheKey(serving[e]) ELSE @]
        /\ UNCHANGED <<out, proc>>
     \/ /\ loaded[e] = None
        /\ Goto(e, "idle") /\ Emit(e, "error") /\ Exit(e, "exit1")
        /\ UNCHANGED loaded
  /\ UNCHANGED agentVars

WorkerBegin(e) ==
  /\ proc[e] = "up" /\ pos[e] = "main" /\ Room(e, 1)
  /\ Goto(e, "busy")
  /\ IF request[serving[e]].kind = "validate_loras" THEN UNCHANGED out ELSE Emit(e, "running")
  /\ UNCHANGED <<agentVars, proc, loaded>>

(* A denoising step; bound: the pipe is empty.                             *)
WorkerProgress(e) ==
  /\ proc[e] = "up" /\ pos[e] = "busy" /\ out[e] = <<>>
  /\ request[serving[e]].kind # "validate_loras"
  /\ Emit(e, "running")
  /\ UNCHANGED <<agentVars, proc, pos, loaded>>

(* The image, then finish_job: retain_baseline_model_if_safe decides       *)
(* whether the process stays; validate_loras goes back to the loop.        *)
EmitFinal_CompleteFirst(e) ==            \* mutant
  out' = [out EXCEPT ![e] = Append(Append(@, Event(e, "resident")), Event(e, "output"))]
EmitFinal(e) ==
  out' = [out EXCEPT ![e] = Append(Append(@, Event(e, "output")), Event(e, "resident"))]

WorkerDone(e) ==
  /\ proc[e] = "up" /\ pos[e] = "busy" /\ Room(e, 2)
  /\ Goto(e, "idle")
  /\ \/ request[serving[e]].kind = "validate_loras" /\ UNCHANGED <<out, proc>>
     \/ /\ request[serving[e]].kind # "validate_loras"
        /\ \/ Keep(serving[e]) /\ EmitFinal(e) /\ UNCHANGED proc
           \/ Emit(e, "output") /\ Exit(e, "exit0")
  /\ UNCHANGED <<agentVars, loaded>>

(* `except Exception`: the listed command kinds return 1, image2image and  *)
(* validate_loras go back to reading stdin.                                *)
StaysAfterError_Generate == {"image2image", "validate_loras", "generate"}     \* mutant
StaysAfterError == {"image2image", "validate_loras"}

WorkerError(e) ==
  /\ proc[e] = "up" /\ pos[e] = "busy" /\ Room(e, 1)
  /\ Goto(e, "idle")
  /\ Emit(e, "error")
  /\ IF request[serving[e]].kind \in StaysAfterError THEN UNCHANGED proc ELSE Exit(e, "exit1")
  /\ UNCHANGED <<agentVars, loaded>>

(* stdin was closed after the commands unless the model is to be kept.     *)
WorkerStdinEof(e) ==
  /\ proc[e] = "up" /\ pos[e] = "idle"
  /\ serving[e] # None /\ ~Keep(serving[e])
  /\ Exit(e, "exit0")
  /\ UNCHANGED <<agentVars, pos, loaded, out>>

(* SIGTERM or SIGKILL from the agent, or the kernel's OOM killer.          *)
WorkerKilled(e) ==
  /\ proc[e] = "up"
  /\ Exit(e, "exit1")
  /\ UNCHANGED <<agentVars, pos, loaded, out>>

-----------------------------------------------------------------------------
(* close() and release_worker_memory().                                    *)

adminFrame == <<command, outputs, request, task, executors, produced, apiKill, taskKill,
                restarts>>

(* close(): every task is marked, the registered executor (there is never  *)
(* more than one) is stopped; then the tasks that are left are awaited.    *)
Close ==
  /\ "close" \in Calls
  /\ admin = IdleAdmin
  /\ cancelled' = cancelled \cup LiveTasks
  /\ LET busy == {e \in Executors : Stoppable(e) /\ \E j \in Jobs : executors[j] = e} IN
     \/ /\ busy = {}
        /\ admin' = [IdleAdmin EXCEPT !.op = "close", !.phase = "gather", !.todo = LiveTasks]
     \/ \E e \in busy :
          admin' = [IdleAdmin EXCEPT !.op = "close", !.phase = "killing", !.kill = e]
  /\ UNCHANGED <<adminFrame, state, logged, lockVars, resident, residentKey, ready, procVars>>

CloseGathers ==
  /\ admin.phase = "killing"
  /\ proc[admin.kill] # "up"
  /\ Reap(admin.kill)
  /\ admin' = [admin EXCEPT !.phase = "gather", !.todo = LiveTasks, !.kill = None]
  /\ UNCHANGED <<adminFrame, state, logged, lockVars, cancelled, resident, residentKey, ready>>

Release ==
  /\ "release" \in Calls
  /\ admin = IdleAdmin
  /\ admin' = [IdleAdmin EXCEPT !.op = "release", !.phase = "cancelling", !.todo = LiveTasks]
  /\ UNCHANGED <<adminFrame, state, logged, lockVars, cancelled, resident, residentKey,
                 ready, procVars>>

(* One turn of release_worker_memory's loop: cancel(job_id), which returns *)
(* a finished job as it is.  (In any order; the code's is that of _tasks.) *)
ReleaseCancels(j) ==
  /\ admin.phase = "cancelling" /\ admin.job = None /\ j \in admin.todo
  /\ \/ /\ Finished(j)
        /\ admin' = [admin EXCEPT !.todo = @ \ {j}]
        /\ UNCHANGED <<cancelled, state, logged>>
     \/ /\ ~Finished(j)
        /\ MarkCancelled(j)
        /\ IF Stoppable(executors[j])
             THEN admin' = [admin EXCEPT !.job = j, !.kill = executors[j]] /\ UNCHANGED logged
             ELSE admin' = [admin EXCEPT !.todo = @ \ {j}] /\ Log(j, "cancelled")
  /\ UNCHANGED <<adminFrame, lockVars, resident, residentKey, ready, procVars>>

ReleaseCancelReturns ==
  /\ admin.phase = "cancelling" /\ admin.job # None
  /\ proc[admin.kill] # "up"
  /\ Reap(admin.kill)
  /\ admin' = [admin EXCEPT !.job = None, !.kill = None, !.todo = @ \ {admin.job}]
  /\ Log(admin.job, "cancelled")
  /\ UNCHANGED <<adminFrame, state, lockVars, cancelled, resident, residentKey, ready>>

ReleaseGathers ==
  /\ admin.phase = "cancelling" /\ admin.todo = {}
  /\ admin' = [admin EXCEPT !.phase = "gather", !.todo = LiveTasks]
  /\ UNCHANGED <<adminFrame, state, logged, lockVars, cancelled, resident, residentKey,
                 ready, procVars>>

(* Awaits the tasks that were left, then the worker lock in its turn.      *)
AdminAwaitsLock ==
  /\ admin.phase = "gather" /\ admin.todo \cap LiveTasks = {}
  /\ admin' = [admin EXCEPT !.phase = "lock", !.todo = {}]
  /\ lockQueue' = Append(lockQueue, Admin)
  /\ UNCHANGED <<adminFrame, state, logged, holder, cancelled, resident, residentKey,
                 ready, procVars>>

AdminReturns ==
  /\ holder' = None
  /\ admin' = IdleAdmin
  /\ ready' = IF admin.op = "release" THEN FALSE ELSE ready

AdminDropsResident ==
  /\ admin.phase = "lock" /\ holder = None
  /\ lockQueue # <<>> /\ Head(lockQueue) = Admin
  /\ lockQueue' = Tail(lockQueue)
  /\ resident' = None /\ residentKey' = None
  /\ IF Stoppable(resident)
       THEN /\ holder' = Admin
            /\ admin' = [admin EXCEPT !.phase = "dropping", !.kill = resident]
            /\ UNCHANGED ready
       ELSE AdminReturns
  /\ UNCHANGED <<adminFrame, state, logged, cancelled, procVars>>

AdminDropped ==
  /\ admin.phase = "dropping"
  /\ proc[admin.kill] # "up"
  /\ Reap(admin.kill)
  /\ AdminReturns
  /\ UNCHANGED <<adminFrame, state, logged, lockQueue, cancelled, resident, residentKey>>

-----------------------------------------------------------------------------
(* The container stops and starts again: the files are what is left, and   *)
(* _recover_interrupted closes the jobs that were active.                  *)
Recovered_All(s) == IF s = "none" THEN s ELSE "failed"     \* mutant
Recovered(s) == IF s \in ActiveStates THEN "failed" ELSE s

AgentRestart ==
  /\ restarts < MaxRestarts
  /\ restarts' = restarts + 1
  /\ state' = [j \in Jobs |-> Recovered(state[j])]
  /\ task' = [j \in Jobs |-> IF task[j] = "none" THEN "none" ELSE "done"]
  /\ holder' = None /\ lockQueue' = <<>>
  /\ cancelled' = {}
  /\ executors' = [j \in Jobs |-> None]
  /\ resident' = None /\ residentKey' = None
  /\ ready' = FALSE
  /\ produced' = [j \in Jobs |-> FALSE]
  /\ apiKill' = [j \in Jobs |-> None]
  /\ taskKill' = [j \in Jobs |-> None]
  /\ admin' = IdleAdmin
  /\ proc' = [e \in Executors |-> "none"]
  /\ serving' = [e \in Executors |-> None]
  /\ pos' = [e \in Executors |-> "idle"]
  /\ loaded' = [e \in Executors |-> None]
  /\ out' = [e \in Executors |-> <<>>]
  /\ UNCHANGED <<command, outputs, logged, request>>

-----------------------------------------------------------------------------
TaskStep(j) ==
  \/ RunJobStart(j) \/ PayloadFails(j) \/ DropResident(j) \/ UseExecutor(j)
  \/ ResidentDropped(j) \/ SpawnFails(j) \/ Spawn(j)
  \/ HandleRunning(j) \/ HandleError(j) \/ HandleOutput(j) \/ HandleResident(j)
  \/ OutputIndexed(j) \/ OutputRejected(j) \/ RunRaised(j)
  \/ ReadAfterCancel(j) \/ ReadEof(j)

WorkerStep(e) ==
  \/ WorkerProbe(e) \/ WorkerLoad(e) \/ WorkerBegin(e) \/ WorkerDone(e)
  \/ WorkerError(e) \/ WorkerStdinEof(e)

AdminStep ==
  \/ \E j \in Jobs : ReleaseCancels(j)
  \/ ReleaseCancelReturns \/ ReleaseGathers \/ CloseGathers
  \/ AdminAwaitsLock \/ AdminDropsResident \/ AdminDropped

Next ==
  \/ \E j \in Jobs, c \in Commands, r \in Requests : Submit(j, c, r)
  \/ \E j \in Jobs : Cancel(j) \/ CancelReturns(j) \/ TaskStep(j)
  \/ \E e \in Executors : WorkerStep(e) \/ WorkerProgress(e) \/ WorkerKilled(e)
  \/ Close \/ Release \/ AdminStep
  \/ AgentRestart

(* Ready coroutines run, the worker computes, and a process that was sent  *)
(* SIGTERM ends (SIGKILL follows after three seconds).  Nothing makes a    *)
(* client call, a denoising loop go on, a worker die or the agent restart. *)
Fairness ==
  /\ \A j \in Jobs : WF_vars(TaskStep(j)) /\ WF_vars(CancelReturns(j))
  /\ \A e \in Executors : WF_vars(WorkerStep(e)) /\ WF_vars(e \in Dying /\ WorkerKilled(e))
  /\ WF_vars(AdminStep)

Spec == Init /\ [][Next]_vars
FairSpec == Spec /\ Fairness
-----------------------------------------------------------------------------
(* Properties.                                                             *)

(* Two worker processes never share the GPU: an executor whose process is  *)
(* live is the only one, through drops, cancellations, failures and reuse. *)
OneLiveWorker ==
  \A d, e \in Executors : proc[d] = "up" /\ proc[e] = "up" => d = e

(* No worker process is leaked: a live one is kept as resident, registered *)
(* by the running task, or being stopped, so that close() can reach it.    *)
NoOrphanWorker ==
  \A e \in Executors : proc[e] = "up" =>
    e = resident \/ e \in Dying \/ \E j \in Jobs : executors[j] = e

(* Only the task that holds the worker lock has an executor registered:    *)
(* cancel() of one job can never stop the executor of another task.        *)
ExecutorOfHolder ==
  \A j \in Jobs : executors[j] # None => holder = j

(* Whatever is left in the pipe belongs to the job being read: a job never *)
(* gets the events, and so the output files, of an earlier job on the      *)
(* same resident process.                                                  *)
EventsOfReader ==
  \A j \in Jobs : task[j] = "reading" =>
    \A i \in DOMAIN out[executors[j]] : out[executors[j]][i].job = j

(* A worker never runs a job on a model loaded under other model files or  *)
(* memory settings than the job asks for.                                  *)
RightModelLoaded ==
  \A e \in Executors : pos[e] \in {"main", "busy"} => loaded[e] = CacheKey(serving[e])

(* A job that was cancelled, or whose task close() abandoned, is never     *)
(* reported as completed or failed by the agent that cancelled it.         *)
CancelledNeverCompletes ==
  \A j \in cancelled : state[j] \notin {"completed", "failed"}

(* A completed job ran without a worker error and lists its output.        *)
CompletedIsClean ==
  \A j \in Jobs : state[j] = "completed" =>
    "error" \notin logged[j] /\ (outputs[j] \/ request[j].kind = "validate_loras")

(* One job per command_id, for life: a client may repeat a submission.     *)
OneJobPerCommand ==
  \A j, k \in Jobs : command[j] # None /\ command[j] = command[k] => j = k

(* Completed and failed are final, whatever calls and events come later.   *)
ResultStands ==
  [][\A j \in Jobs : state[j] \in {"completed", "failed"} => state'[j] = state[j]]_vars

(* The whole is a server of JobService: jobs get the worker in the order   *)
(* of their submissions and at most once, and a result comes from the turn *)
(* of its job only, is final, and is not given to one that was cancelled,  *)
(* whatever the executors, the pipe, close() and restarts do meanwhile.    *)
Result(s) == IF s \in ActiveStates THEN "open" ELSE s
Service == INSTANCE JobService WITH
  Operator <- Admin, result <- [j \in Jobs |-> Result(state[j])],
  order <- lockQueue, server <- holder, withdrawn <- cancelled
ImplementsJobService == Service!Spec

(* Every submitted job gets the worker and its task ends.                  *)
EveryTaskEnds == \A j \in Jobs : task[j] = "waiting" ~> task[j] = "done"

(* close() and release_worker_memory() return.                             *)
AdminCallReturns == admin.phase # "idle" ~> admin.phase = "idle"

(* What the CANCELLED event says: "the isolated worker was stopped".       *)
CancelledMeansStopped ==
  \A j \in Jobs : "cancelled" \in logged[j] =>
    ~\E e \in Executors : proc[e] = "up" /\ serving[e] = j /\ pos[e] # "idle"
=============================================================================
