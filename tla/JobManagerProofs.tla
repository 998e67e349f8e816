--------------------------- MODULE JobManagerProofs ---------------------------
(***************************************************************************)
(* Theorems about JobManager, for any sets of jobs, commands and requests, *)
(* any pipe capacity and any number of restarts.                           *)
(***************************************************************************)
EXTENDS JobManager, TLAPS

(* A task inside `async with self._worker_lock` is the holder of the lock, *)
(* and so is close() while it waits for the resident process to end.       *)
LockInv ==
  /\ \A j \in Jobs : task[j] \in Holding => holder = j
  /\ admin.phase = "dropping" => holder = Admin

(* A task has a request and, from executor.run on, an executor; a live     *)
(* process has the commands of a job that was submitted.                   *)
ServingInv ==
  /\ \A j \in Jobs : state[j] # "none" <=> request[j] \in Requests
  /\ \A j \in Jobs : task[j] # "none" => state[j] # "none"
  /\ \A j \in Jobs : task[j] \in {"spawning", "reading", "indexing", "raising"} =>
       executors[j] \in Executors
  /\ \A e \in Executors : proc[e] = "up" => serving[e] \in Jobs
  /\ \A e \in Executors : serving[e] \in Jobs => state[serving[e]] # "none"

(* Only a task inside the lock has an executor registered.                 *)
RegisterInv ==
  \A j \in Jobs : executors[j] # None => task[j] \in Holding

(* A task that runs has a job that is neither completed nor failed.        *)
LiveInv ==
  \A j \in Jobs : task[j] \in Holding \cup {"waiting"} =>
    state[j] \in ActiveStates \cup {"cancelled"}

(* release_worker_memory() cancels jobs whose task was started.            *)
TodoInv ==
  \A j \in admin.todo : task[j] # "none"

BaseInv == TypeOK /\ ServingInv /\ TodoInv

(* The ends of a sequence, and a sequence one longer, have its elements.   *)
LEMMA SeqTypes ==
  ASSUME NEW S, NEW s \in Seq(S)
  PROVE  /\ <<>> \in Seq(S)
         /\ \A x \in S : Append(s, x) \in Seq(S)
         /\ s # <<>> => Head(s) \in S /\ Tail(s) \in Seq(S)
  OBVIOUS

(* The pipe, after an event is read, emitted, or the process is reaped.    *)
LEMMA PipeTypes ==
  ASSUME out \in [Executors -> Seq(WorkerEvents)], NEW e,
         NEW q \in Seq(WorkerEvents), out' = [out EXCEPT ![e] = q]
  PROVE  out' \in [Executors -> Seq(WorkerEvents)]
  OBVIOUS

LEMMA EventType ==
  ASSUME NEW e \in Executors, serving[e] \in Jobs, NEW type \in EventTypes
  PROVE  Event(e, type) \in WorkerEvents
  BY DEF Event, WorkerEvents

LEMMA ReapTypes ==
  ASSUME ProcTypes, NEW e, Reap(e), restarts' = restarts
  PROVE  ProcTypes'
<1>1. out' \in [Executors -> Seq(WorkerEvents)]
  BY SeqTypes, PipeTypes DEF ProcTypes, Reap
<1>. QED
  BY <1>1 DEF ProcTypes, Reap

LEMMA EmitTypes ==
  ASSUME ProcTypes, NEW e \in Executors, serving[e] \in Jobs,
         \/ \E type \in EventTypes : Emit(e, type)
         \/ EmitFinal(e)
  PROVE  out' \in [Executors -> Seq(WorkerEvents)]
<1>1. out[e] \in Seq(WorkerEvents)
  BY DEF ProcTypes
<1>2. ASSUME NEW type \in EventTypes, Emit(e, type)
      PROVE  out' \in [Executors -> Seq(WorkerEvents)]
  <2>1. Append(out[e], Event(e, type)) \in Seq(WorkerEvents)
    BY <1>1, EventType, SeqTypes
  <2>. QED
    BY <2>1, <1>2, PipeTypes DEF ProcTypes, Emit
<1>3. ASSUME EmitFinal(e)
      PROVE  out' \in [Executors -> Seq(WorkerEvents)]
  <2>1. Event(e, "output") \in WorkerEvents /\ Event(e, "resident") \in WorkerEvents
    BY EventType DEF EventTypes
  <2>2. Append(Append(out[e], Event(e, "output")), Event(e, "resident")) \in Seq(WorkerEvents)
    BY <1>1, <2>1, SeqTypes
  <2>. QED
    BY <2>2, <1>3, PipeTypes DEF ProcTypes, EmitFinal
<1>. QED
  BY <1>2, <1>3

LEMMA ReadTypes ==
  ASSUME ProcTypes, NEW j \in Jobs, NEW type, ReadEvent(j, type), executors[j] \in Executors,
         restarts' = restarts
  PROVE  ProcTypes'
<1>1. Tail(out[executors[j]]) \in Seq(WorkerEvents)
  BY SeqTypes DEF ProcTypes, ReadEvent
<1>2. out' \in [Executors -> Seq(WorkerEvents)]
  BY <1>1, PipeTypes DEF ProcTypes, ReadEvent
<1>. QED
  BY <1>2 DEF ProcTypes, ReadEvent

(* Every step keeps the types.                                             *)
LEMMA TypeStep ==
  ASSUME TypeOK, ServingInv, [Next]_vars
  PROVE  TypeOK'
<1> USE RequestsAssumption, NamesAssumption, BoundsAssumption DEF Executors, Phases, Holding, ActiveStates, FinalStates
<1>1. ASSUME NEW j \in Jobs, NEW c \in Commands, NEW r \in Requests,
             Submit(j, c, r)
      PROVE  TypeOK'
  <2>1. DiskTypes'
    BY <1>1 DEF TypeOK, DiskTypes, Submit, FindCommand, killVars, procVars
  <2>2. TaskTypes'
    BY <1>1 DEF TypeOK, TaskTypes, ServingInv, KillTypes, IdleAdmin, Submit,
       FindCommand, killVars, procVars
  <2>3. KillTypes'
    BY <1>1 DEF TypeOK, KillTypes, AdminRecords, TaskTypes, IdleAdmin, Submit,
       FindCommand, killVars, procVars
  <2>4. ProcTypes'
    BY <1>1 DEF TypeOK, ProcTypes, ServingInv, TaskTypes, Submit, FindCommand,
       killVars, procVars
  <2>. QED
    BY <2>1, <2>2, <2>3, <2>4 DEF TypeOK
<1>2. ASSUME NEW j \in Jobs, Cancel(j)
      PROVE  TypeOK'
  <2>1. DiskTypes'
    BY <1>2 DEF TypeOK, DiskTypes, Cancel, MarkCancelled, Log, Finished,
       Stoppable, lockVars
  <2>2. TaskTypes'
    BY <1>2 DEF TypeOK, TaskTypes, ServingInv, KillTypes, IdleAdmin, Cancel,
       MarkCancelled, Log, Finished, Stoppable, lockVars
  <2>3. KillTypes'
    BY <1>2 DEF TypeOK, KillTypes, AdminRecords, TaskTypes, IdleAdmin, Cancel,
       MarkCancelled, Log, Finished, Stoppable, lockVars
  <2>4. ProcTypes'
    BY <1>2 DEF TypeOK, ProcTypes, ServingInv, TaskTypes, Cancel,
       MarkCancelled, Log, Finished, Stoppable, lockVars
  <2>. QED
    BY <2>1, <2>2, <2>3, <2>4 DEF TypeOK
<1>3. ASSUME NEW j \in Jobs, CancelReturns(j)
      PROVE  TypeOK'
  <2>1. DiskTypes'
    BY <1>3 DEF TypeOK, DiskTypes, CancelReturns, Reap, Log, lockVars,
       taskVars
  <2>2. TaskTypes'
    BY <1>3 DEF TypeOK, TaskTypes, ServingInv, KillTypes, IdleAdmin,
       CancelReturns, Reap, Log, lockVars, taskVars
  <2>3. KillTypes'
    BY <1>3 DEF TypeOK, KillTypes, AdminRecords, TaskTypes, IdleAdmin,
       CancelReturns, Reap, Log, lockVars, taskVars
  <2>4. ProcTypes'
    BY <1>3, ReapTypes DEF TypeOK, CancelReturns
  <2>. QED
    BY <2>1, <2>2, <2>3, <2>4 DEF TypeOK
<1>4. ASSUME NEW j \in Jobs, RunJobStart(j)
      PROVE  TypeOK'
  <2>1. DiskTypes'
    BY <1>4 DEF TypeOK, DiskTypes, RunJobStart, TaskEnds, killVars, procVars
  <2>2. TaskTypes'
    <3>1. lockQueue' \in Seq(Jobs \cup {Admin}) /\ holder' \in {j, None}
      BY <1>4, SeqTypes DEF TypeOK, TaskTypes, RunJobStart, TaskEnds
    <3>2. task' \in [Jobs -> Phases] /\ executors' \in [Jobs -> Executors \cup {None}]
          /\ produced' \in [Jobs -> BOOLEAN]
      BY <1>4 DEF TypeOK, TaskTypes, RunJobStart, TaskEnds
    <3>3. UNCHANGED <<request, cancelled, resident, residentKey, ready>>
      BY <1>4 DEF RunJobStart
    <3>. QED
      BY <3>1, <3>2, <3>3 DEF TypeOK, TaskTypes
  <2>3. KillTypes'
    BY <1>4 DEF TypeOK, KillTypes, AdminRecords, TaskTypes, IdleAdmin,
       RunJobStart, TaskEnds, killVars, procVars
  <2>4. ProcTypes'
    BY <1>4 DEF TypeOK, ProcTypes, ServingInv, TaskTypes, RunJobStart,
       TaskEnds, killVars, procVars
  <2>. QED
    BY <2>1, <2>2, <2>3, <2>4 DEF TypeOK
<1>5. ASSUME NEW j \in Jobs, PayloadFails(j)
      PROVE  TypeOK'
  <2>1. DiskTypes'
    BY <1>5 DEF TypeOK, DiskTypes, PayloadFails, Fail, TaskEnds, procVars
  <2>2. TaskTypes'
    BY <1>5 DEF TypeOK, TaskTypes, ServingInv, KillTypes, IdleAdmin,
       PayloadFails, Fail, TaskEnds, procVars
  <2>3. KillTypes'
    BY <1>5 DEF TypeOK, KillTypes, AdminRecords, TaskTypes, IdleAdmin,
       PayloadFails, Fail, TaskEnds, procVars
  <2>4. ProcTypes'
    BY <1>5 DEF TypeOK, ProcTypes, ServingInv, TaskTypes, PayloadFails, Fail,
       TaskEnds, procVars
  <2>. QED
    BY <2>1, <2>2, <2>3, <2>4 DEF TypeOK
<1>6. ASSUME NEW j \in Jobs, DropResident(j)
      PROVE  TypeOK'
  <2>1. DiskTypes'
    BY <1>6 DEF TypeOK, DiskTypes, DropResident, MustDropResident, Stoppable,
       diskVars, lockVars, procVars
  <2>2. TaskTypes'
    BY <1>6 DEF TypeOK, TaskTypes, ServingInv, KillTypes, IdleAdmin, Keep,
       CacheKey, DropResident, MustDropResident, Stoppable, diskVars,
       lockVars, procVars
  <2>3. KillTypes'
    BY <1>6 DEF TypeOK, KillTypes, AdminRecords, TaskTypes, IdleAdmin,
       DropResident, MustDropResident, Stoppable, diskVars, lockVars, procVars
  <2>4. ProcTypes'
    BY <1>6 DEF TypeOK, ProcTypes, ServingInv, TaskTypes, Keep, CacheKey,
       DropResident, MustDropResident, Stoppable, diskVars, lockVars, procVars
  <2>. QED
    BY <2>1, <2>2, <2>3, <2>4 DEF TypeOK
<1>7. ASSUME NEW j \in Jobs, UseExecutor(j)
      PROVE  TypeOK'
  <2>1. DiskTypes'
    BY <1>7 DEF TypeOK, DiskTypes, UseExecutor, EnterRun, WriteCommands,
       MustDropResident, Stoppable, diskVars, lockVars, killVars
  <2>2. TaskTypes'
    BY <1>7 DEF TypeOK, TaskTypes, ServingInv, KillTypes, IdleAdmin, Keep,
       CacheKey, UseExecutor, EnterRun, WriteCommands, MustDropResident,
       Stoppable, diskVars, lockVars, killVars
  <2>3. KillTypes'
    BY <1>7 DEF TypeOK, KillTypes, AdminRecords, TaskTypes, IdleAdmin,
       UseExecutor, EnterRun, WriteCommands, MustDropResident, Stoppable,
       diskVars, lockVars, killVars
  <2>4. ProcTypes'
    <3>1. PICK e : EnterRun(j, e)
      BY <1>7 DEF UseExecutor
    <3>2. serving' \in [Executors -> Jobs \cup {None}]
      BY <3>1 DEF EnterRun, WriteCommands, TypeOK, ProcTypes
    <3>3. pos' \in [Executors -> {"idle", "probe", "load", "main", "busy"}]
      BY <3>1 DEF EnterRun, WriteCommands, TypeOK, ProcTypes
    <3>. QED
      BY <1>7, <3>2, <3>3 DEF TypeOK, ProcTypes, UseExecutor
  <2>. QED
    BY <2>1, <2>2, <2>3, <2>4 DEF TypeOK
<1>8. ASSUME NEW j \in Jobs, ResidentDropped(j)
      PROVE  TypeOK'
  <2>1. DiskTypes'
    BY <1>8 DEF TypeOK, DiskTypes, ResidentDropped, Reap, diskVars, lockVars
  <2>2. TaskTypes'
    BY <1>8 DEF TypeOK, TaskTypes, ServingInv, KillTypes, IdleAdmin,
       ResidentDropped, Reap, diskVars, lockVars
  <2>3. KillTypes'
    BY <1>8 DEF TypeOK, KillTypes, AdminRecords, TaskTypes, IdleAdmin,
       ResidentDropped, Reap, diskVars, lockVars
  <2>4. ProcTypes'
    BY <1>8, ReapTypes DEF TypeOK, ResidentDropped
  <2>. QED
    BY <2>1, <2>2, <2>3, <2>4 DEF TypeOK
<1>9. ASSUME NEW j \in Jobs, SpawnFails(j)
      PROVE  TypeOK'
  <2>1. DiskTypes'
    BY <1>9 DEF TypeOK, DiskTypes, SpawnFails, Fail, TaskEnds, procVars
  <2>2. TaskTypes'
    BY <1>9 DEF TypeOK, TaskTypes, ServingInv, KillTypes, IdleAdmin,
       SpawnFails, Fail, TaskEnds, procVars
  <2>3. KillTypes'
    BY <1>9 DEF TypeOK, KillTypes, AdminRecords, TaskTypes, IdleAdmin,
       SpawnFails, Fail, TaskEnds, procVars
  <2>4. ProcTypes'
    BY <1>9 DEF TypeOK, ProcTypes, ServingInv, TaskTypes, SpawnFails, Fail,
       TaskEnds, procVars
  <2>. QED
    BY <2>1, <2>2, <2>3, <2>4 DEF TypeOK
<1>10. ASSUME NEW j \in Jobs, Spawn(j)
      PROVE  TypeOK'
  <2>1. DiskTypes'
    BY <1>10 DEF TypeOK, DiskTypes, Spawn, WriteCommands, diskVars, lockVars,
       killVars
  <2>2. TaskTypes'
    BY <1>10 DEF TypeOK, TaskTypes, ServingInv, KillTypes, IdleAdmin, Spawn,
       WriteCommands, diskVars, lockVars, killVars
  <2>3. KillTypes'
    BY <1>10 DEF TypeOK, KillTypes, AdminRecords, TaskTypes, IdleAdmin, Spawn,
       WriteCommands, diskVars, lockVars, killVars
  <2>4. ProcTypes'
    BY <1>10, SeqTypes, PipeTypes DEF TypeOK, ProcTypes, ServingInv, Spawn,
       WriteCommands
  <2>. QED
    BY <2>1, <2>2, <2>3, <2>4 DEF TypeOK
<1>11. ASSUME NEW j \in Jobs, HandleRunning(j)
      PROVE  TypeOK'
  <2>1. DiskTypes'
    BY <1>11 DEF TypeOK, DiskTypes, HandleRunning, ReadEvent, lockVars,
       taskVars, killVars
  <2>2. TaskTypes'
    BY <1>11 DEF TypeOK, TaskTypes, ServingInv, KillTypes, IdleAdmin,
       HandleRunning, ReadEvent, lockVars, taskVars, killVars
  <2>3. KillTypes'
    BY <1>11 DEF TypeOK, KillTypes, AdminRecords, TaskTypes, IdleAdmin,
       HandleRunning, ReadEvent, lockVars, taskVars, killVars
  <2>4. ProcTypes'
    BY <1>11, ReadTypes DEF TypeOK, ServingInv, HandleRunning, ReadEvent
  <2>. QED
    BY <2>1, <2>2, <2>3, <2>4 DEF TypeOK
<1>12. ASSUME NEW j \in Jobs, HandleError(j)
      PROVE  TypeOK'
  <2>1. DiskTypes'
    BY <1>12 DEF TypeOK, DiskTypes, HandleError, ReadEvent, Log, lockVars,
       taskVars, killVars
  <2>2. TaskTypes'
    BY <1>12 DEF TypeOK, TaskTypes, ServingInv, KillTypes, IdleAdmin,
       HandleError, ReadEvent, Log, lockVars, taskVars, killVars
  <2>3. KillTypes'
    BY <1>12 DEF TypeOK, KillTypes, AdminRecords, TaskTypes, IdleAdmin,
       HandleError, ReadEvent, Log, lockVars, taskVars, killVars
  <2>4. ProcTypes'
    BY <1>12, ReadTypes DEF TypeOK, ServingInv, HandleError, ReadEvent
  <2>. QED
    BY <2>1, <2>2, <2>3, <2>4 DEF TypeOK
<1>13. ASSUME NEW j \in Jobs, HandleOutput(j)
      PROVE  TypeOK'
  <2>1. DiskTypes'
    BY <1>13 DEF TypeOK, DiskTypes, HandleOutput, ReadEvent, diskVars,
       lockVars, killVars
  <2>2. TaskTypes'
    BY <1>13 DEF TypeOK, TaskTypes, ServingInv, KillTypes, IdleAdmin,
       HandleOutput, ReadEvent, diskVars, lockVars, killVars
  <2>3. KillTypes'
    BY <1>13 DEF TypeOK, KillTypes, AdminRecords, TaskTypes, IdleAdmin,
       HandleOutput, ReadEvent, diskVars, lockVars, killVars
  <2>4. ProcTypes'
    BY <1>13, ReadTypes DEF TypeOK, ServingInv, HandleOutput, ReadEvent
  <2>. QED
    BY <2>1, <2>2, <2>3, <2>4 DEF TypeOK
<1>14. ASSUME NEW j \in Jobs, HandleResident(j)
      PROVE  TypeOK'
  <2>1. DiskTypes'
    BY <1>14 DEF TypeOK, DiskTypes, HandleResident, ReadEvent, Finish,
       Succeeded, diskVars
  <2>2. TaskTypes'
    <3>1. request[j] \in Requests
      BY <1>14 DEF HandleResident, ReadEvent, ServingInv
    <3>2. CacheKey(j) \in Keys
      BY <3>1 DEF CacheKey
    <3>3. Succeeded(j, "exit0") \in BOOLEAN
      BY DEF Succeeded
    <3>4. executors[j] \in Executors
      BY <1>14 DEF HandleResident, ReadEvent, ServingInv
    <3>5. CASE Finish(j, "exit0", TRUE)
      <4>1. resident' \in Executors \cup {None} /\ residentKey' \in Keys \cup {None}
        BY <3>5, <3>2, <3>4 DEF TypeOK, TaskTypes, Finish
      <4>. QED
        BY <3>5, <3>3, <4>1 DEF TypeOK, TaskTypes, Finish, TaskEnds
    <3>6. CASE UNCHANGED <<lockVars, taskVars, ready>>
      BY <3>6 DEF TypeOK, TaskTypes, lockVars, taskVars
    <3>. QED
      BY <1>14, <3>5, <3>6 DEF HandleResident
  <2>3. KillTypes'
    BY <1>14 DEF TypeOK, KillTypes, AdminRecords, TaskTypes, IdleAdmin,
       HandleResident, ReadEvent, Finish, TaskEnds, Abandoned, diskVars,
       lockVars, taskVars, killVars
  <2>4. ProcTypes'
    BY <1>14, ReadTypes DEF TypeOK, ServingInv, HandleResident, ReadEvent,
       Finish
  <2>. QED
    BY <2>1, <2>2, <2>3, <2>4 DEF TypeOK
<1>15. ASSUME NEW j \in Jobs, OutputIndexed(j)
      PROVE  TypeOK'
  <2>1. DiskTypes'
    BY <1>15 DEF TypeOK, DiskTypes, OutputIndexed, diskVars, lockVars,
       killVars, procVars
  <2>2. TaskTypes'
    BY <1>15 DEF TypeOK, TaskTypes, ServingInv, KillTypes, IdleAdmin,
       OutputIndexed, diskVars, lockVars, killVars, procVars
  <2>3. KillTypes'
    BY <1>15 DEF TypeOK, KillTypes, AdminRecords, TaskTypes, IdleAdmin,
       OutputIndexed, diskVars, lockVars, killVars, procVars
  <2>4. ProcTypes'
    BY <1>15 DEF TypeOK, ProcTypes, ServingInv, TaskTypes, OutputIndexed,
       diskVars, lockVars, killVars, procVars
  <2>. QED
    BY <2>1, <2>2, <2>3, <2>4 DEF TypeOK
<1>16. ASSUME NEW j \in Jobs, OutputRejected(j)
      PROVE  TypeOK'
  <2>1. DiskTypes'
    BY <1>16 DEF TypeOK, DiskTypes, OutputRejected, diskVars, lockVars,
       procVars
  <2>2. TaskTypes'
    BY <1>16 DEF TypeOK, TaskTypes, ServingInv, KillTypes, IdleAdmin,
       OutputRejected, diskVars, lockVars, procVars
  <2>3. KillTypes'
    BY <1>16 DEF TypeOK, KillTypes, AdminRecords, TaskTypes, IdleAdmin,
       OutputRejected, diskVars, lockVars, procVars
  <2>4. ProcTypes'
    BY <1>16 DEF TypeOK, ProcTypes, ServingInv, TaskTypes, OutputRejected,
       diskVars, lockVars, procVars
  <2>. QED
    BY <2>1, <2>2, <2>3, <2>4 DEF TypeOK
<1>17. ASSUME NEW j \in Jobs, RunRaised(j)
      PROVE  TypeOK'
  <2>1. DiskTypes'
    BY <1>17 DEF TypeOK, DiskTypes, RunRaised, Reap, Fail, TaskEnds
  <2>2. TaskTypes'
    BY <1>17 DEF TypeOK, TaskTypes, ServingInv, KillTypes, IdleAdmin,
       RunRaised, Reap, Fail, TaskEnds
  <2>3. KillTypes'
    BY <1>17 DEF TypeOK, KillTypes, AdminRecords, TaskTypes, IdleAdmin,
       RunRaised, Reap, Fail, TaskEnds
  <2>4. ProcTypes'
    BY <1>17, ReapTypes DEF TypeOK, RunRaised, Fail
  <2>. QED
    BY <2>1, <2>2, <2>3, <2>4 DEF TypeOK
<1>18. ASSUME NEW j \in Jobs, ReadAfterCancel(j)
      PROVE  TypeOK'
  <2>1. DiskTypes'
    BY <1>18 DEF TypeOK, DiskTypes, ReadAfterCancel, Fail, TaskEnds, procVars
  <2>2. TaskTypes'
    BY <1>18 DEF TypeOK, TaskTypes, ServingInv, KillTypes, IdleAdmin,
       ReadAfterCancel, Fail, TaskEnds, procVars
  <2>3. KillTypes'
    BY <1>18 DEF TypeOK, KillTypes, AdminRecords, TaskTypes, IdleAdmin,
       ReadAfterCancel, Fail, TaskEnds, procVars
  <2>4. ProcTypes'
    BY <1>18 DEF TypeOK, ProcTypes, ServingInv, TaskTypes, ReadAfterCancel,
       Fail, TaskEnds, procVars
  <2>. QED
    BY <2>1, <2>2, <2>3, <2>4 DEF TypeOK
<1>19. ASSUME NEW j \in Jobs, ReadEof(j)
      PROVE  TypeOK'
  <2>1. DiskTypes'
    BY <1>19 DEF TypeOK, DiskTypes, ReadEof, Finish, Succeeded
  <2>2. TaskTypes'
    <3>1. request[j] \in Requests
      BY <1>19 DEF ReadEof, ServingInv
    <3>2. CacheKey(j) \in Keys
      BY <3>1 DEF CacheKey
    <3>3. Succeeded(j, "exit0") \in BOOLEAN /\ Succeeded(j, proc[executors[j]]) \in BOOLEAN
      BY DEF Succeeded
    <3>. QED
      BY <1>19, <3>2, <3>3 DEF TypeOK, TaskTypes, ReadEof, Finish, TaskEnds
  <2>3. KillTypes'
    BY <1>19 DEF TypeOK, KillTypes, AdminRecords, TaskTypes, IdleAdmin,
       ReadEof, Reap, Finish, TaskEnds, Abandoned, killVars
  <2>4. ProcTypes'
    BY <1>19, ReapTypes DEF TypeOK, ReadEof, Finish
  <2>. QED
    BY <2>1, <2>2, <2>3, <2>4 DEF TypeOK
<1>20. ASSUME NEW e \in Executors, WorkerProbe(e)
      PROVE  TypeOK'
  <2>1. DiskTypes'
    BY <1>20 DEF TypeOK, DiskTypes, WorkerProbe, Goto, Emit, Event, diskVars,
       lockVars, taskVars, killVars, agentVars
  <2>2. TaskTypes'
    BY <1>20 DEF TypeOK, TaskTypes, ServingInv, KillTypes, IdleAdmin,
       WorkerProbe, Goto, Emit, Event, diskVars, lockVars, taskVars, killVars,
       agentVars
  <2>3. KillTypes'
    BY <1>20 DEF TypeOK, KillTypes, AdminRecords, TaskTypes, IdleAdmin,
       WorkerProbe, Goto, Emit, Event, diskVars, lockVars, taskVars, killVars,
       agentVars
  <2>4. ProcTypes'
    <3>1. out' \in [Executors -> Seq(WorkerEvents)]
      BY <1>20, EmitTypes DEF TypeOK, ProcTypes, ServingInv, EventTypes,
         WorkerProbe
    <3>. QED
      BY <1>20, <3>1 DEF TypeOK, ProcTypes, WorkerProbe, Goto, agentVars
  <2>. QED
    BY <2>1, <2>2, <2>3, <2>4 DEF TypeOK
<1>21. ASSUME NEW e \in Executors, WorkerLoad(e)
      PROVE  TypeOK'
  <2>1. DiskTypes'
    BY <1>21 DEF TypeOK, DiskTypes, WorkerLoad, Goto, Emit, Event, Exit,
       diskVars, lockVars, taskVars, killVars, agentVars
  <2>2. TaskTypes'
    BY <1>21 DEF TypeOK, TaskTypes, ServingInv, KillTypes, IdleAdmin,
       CacheKey, WorkerLoad, Goto, Emit, Event, Exit, diskVars, lockVars,
       taskVars, killVars, agentVars
  <2>3. KillTypes'
    BY <1>21 DEF TypeOK, KillTypes, AdminRecords, TaskTypes, IdleAdmin,
       WorkerLoad, Goto, Emit, Event, Exit, diskVars, lockVars, taskVars,
       killVars, agentVars
  <2>4. ProcTypes'
    <3>1. out' \in [Executors -> Seq(WorkerEvents)]
      BY <1>21, EmitTypes DEF TypeOK, ProcTypes, ServingInv, EventTypes,
         WorkerLoad
    <3>2. request[serving[e]] \in Requests
      BY <1>21 DEF WorkerLoad, ServingInv
    <3>3. CacheKey(serving[e]) \in Keys
      BY <3>2 DEF CacheKey
    <3>4. loaded' \in [Executors -> Keys \cup {None}]
      BY <1>21, <3>3 DEF TypeOK, ProcTypes, WorkerLoad
    <3>5. pos' \in [Executors -> {"idle", "probe", "load", "main", "busy"}]
      BY <1>21 DEF TypeOK, ProcTypes, WorkerLoad, Goto
    <3>6. proc' \in [Executors -> {"none", "up", "exit0", "exit1"}]
      BY <1>21 DEF TypeOK, ProcTypes, WorkerLoad, Exit
    <3>. QED
      BY <1>21, <3>1, <3>4, <3>5, <3>6 DEF TypeOK, ProcTypes, WorkerLoad,
         agentVars
  <2>. QED
    BY <2>1, <2>2, <2>3, <2>4 DEF TypeOK
<1>22. ASSUME NEW e \in Executors, WorkerBegin(e)
      PROVE  TypeOK'
  <2>1. DiskTypes'
    BY <1>22 DEF TypeOK, DiskTypes, WorkerBegin, Goto, Emit, Event, diskVars,
       lockVars, taskVars, killVars, agentVars
  <2>2. TaskTypes'
    BY <1>22 DEF TypeOK, TaskTypes, ServingInv, KillTypes, IdleAdmin,
       WorkerBegin, Goto, Emit, Event, diskVars, lockVars, taskVars, killVars,
       agentVars
  <2>3. KillTypes'
    BY <1>22 DEF TypeOK, KillTypes, AdminRecords, TaskTypes, IdleAdmin,
       WorkerBegin, Goto, Emit, Event, diskVars, lockVars, taskVars, killVars,
       agentVars
  <2>4. ProcTypes'
    <3>1. out' \in [Executors -> Seq(WorkerEvents)]
      BY <1>22, EmitTypes DEF TypeOK, ProcTypes, ServingInv, EventTypes,
         WorkerBegin
    <3>. QED
      BY <1>22, <3>1 DEF TypeOK, ProcTypes, WorkerBegin, Goto, agentVars
  <2>. QED
    BY <2>1, <2>2, <2>3, <2>4 DEF TypeOK
<1>23. ASSUME NEW e \in Executors, WorkerDone(e)
      PROVE  TypeOK'
  <2>1. DiskTypes'
    BY <1>23 DEF TypeOK, DiskTypes, WorkerDone, Goto, Emit, EmitFinal, Event,
       Exit, diskVars, lockVars, taskVars, killVars, agentVars
  <2>2. TaskTypes'
    BY <1>23 DEF TypeOK, TaskTypes, ServingInv, KillTypes, IdleAdmin, Keep,
       WorkerDone, Goto, Emit, EmitFinal, Event, Exit, diskVars, lockVars,
       taskVars, killVars, agentVars
  <2>3. KillTypes'
    BY <1>23 DEF TypeOK, KillTypes, AdminRecords, TaskTypes, IdleAdmin,
       WorkerDone, Goto, Emit, EmitFinal, Event, Exit, diskVars, lockVars,
       taskVars, killVars, agentVars
  <2>4. ProcTypes'
    <3>1. out' \in [Executors -> Seq(WorkerEvents)]
      BY <1>23, EmitTypes DEF TypeOK, ProcTypes, ServingInv, EventTypes,
         WorkerDone
    <3>. QED
      BY <1>23, <3>1 DEF TypeOK, ProcTypes, WorkerDone, Goto, Exit, agentVars
  <2>. QED
    BY <2>1, <2>2, <2>3, <2>4 DEF TypeOK
<1>24. ASSUME NEW e \in Executors, WorkerError(e)
      PROVE  TypeOK'
  <2>1. DiskTypes'
    BY <1>24 DEF TypeOK, DiskTypes, WorkerError, Goto, Emit, Event, Exit,
       diskVars, lockVars, taskVars, killVars, agentVars
  <2>2. TaskTypes'
    BY <1>24 DEF TypeOK, TaskTypes, ServingInv, KillTypes, IdleAdmin,
       WorkerError, Goto, Emit, Event, Exit, diskVars, lockVars, taskVars,
       killVars, agentVars
  <2>3. KillTypes'
    BY <1>24 DEF TypeOK, KillTypes, AdminRecords, TaskTypes, IdleAdmin,
       WorkerError, Goto, Emit, Event, Exit, diskVars, lockVars, taskVars,
       killVars, agentVars
  <2>4. ProcTypes'
    <3>1. out' \in [Executors -> Seq(WorkerEvents)]
      BY <1>24, EmitTypes DEF TypeOK, ProcTypes, ServingInv, EventTypes,
         WorkerError
    <3>. QED
      BY <1>24, <3>1 DEF TypeOK, ProcTypes, WorkerError, Goto, Exit, agentVars
  <2>. QED
    BY <2>1, <2>2, <2>3, <2>4 DEF TypeOK
<1>25. ASSUME NEW e \in Executors, WorkerStdinEof(e)
      PROVE  TypeOK'
  <2>1. DiskTypes'
    BY <1>25 DEF TypeOK, DiskTypes, WorkerStdinEof, Exit, diskVars, lockVars,
       taskVars, killVars, agentVars
  <2>2. TaskTypes'
    BY <1>25 DEF TypeOK, TaskTypes, ServingInv, KillTypes, IdleAdmin, Keep,
       WorkerStdinEof, Exit, diskVars, lockVars, taskVars, killVars, agentVars
  <2>3. KillTypes'
    BY <1>25 DEF TypeOK, KillTypes, AdminRecords, TaskTypes, IdleAdmin,
       WorkerStdinEof, Exit, diskVars, lockVars, taskVars, killVars, agentVars
  <2>4. ProcTypes'
    BY <1>25 DEF TypeOK, ProcTypes, ServingInv, TaskTypes, Keep,
       WorkerStdinEof, Exit, diskVars, lockVars, taskVars, killVars, agentVars
  <2>. QED
    BY <2>1, <2>2, <2>3, <2>4 DEF TypeOK
<1>26. ASSUME NEW e \in Executors, WorkerProgress(e)
      PROVE  TypeOK'
  <2>1. DiskTypes'
    BY <1>26 DEF TypeOK, DiskTypes, WorkerProgress, Emit, Event, diskVars,
       lockVars, taskVars, killVars, agentVars
  <2>2. TaskTypes'
    BY <1>26 DEF TypeOK, TaskTypes, ServingInv, KillTypes, IdleAdmin,
       WorkerProgress, Emit, Event, diskVars, lockVars, taskVars, killVars,
       agentVars
  <2>3. KillTypes'
    BY <1>26 DEF TypeOK, KillTypes, AdminRecords, TaskTypes, IdleAdmin,
       WorkerProgress, Emit, Event, diskVars, lockVars, taskVars, killVars,
       agentVars
  <2>4. ProcTypes'
    <3>1. out' \in [Executors -> Seq(WorkerEvents)]
      BY <1>26, EmitTypes DEF TypeOK, ProcTypes, ServingInv, EventTypes,
         WorkerProgress
    <3>. QED
      BY <1>26, <3>1 DEF TypeOK, ProcTypes, WorkerProgress, agentVars
  <2>. QED
    BY <2>1, <2>2, <2>3, <2>4 DEF TypeOK
<1>27. ASSUME NEW e \in Executors, WorkerKilled(e)
      PROVE  TypeOK'
  <2>1. DiskTypes'
    BY <1>27 DEF TypeOK, DiskTypes, WorkerKilled, Exit, diskVars, lockVars,
       taskVars, killVars, agentVars
  <2>2. TaskTypes'
    BY <1>27 DEF TypeOK, TaskTypes, ServingInv, KillTypes, IdleAdmin,
       WorkerKilled, Exit, diskVars, lockVars, taskVars, killVars, agentVars
  <2>3. KillTypes'
    BY <1>27 DEF TypeOK, KillTypes, AdminRecords, TaskTypes, IdleAdmin,
       WorkerKilled, Exit, diskVars, lockVars, taskVars, killVars, agentVars
  <2>4. ProcTypes'
    BY <1>27 DEF TypeOK, ProcTypes, ServingInv, TaskTypes, WorkerKilled, Exit,
       diskVars, lockVars, taskVars, killVars, agentVars
  <2>. QED
    BY <2>1, <2>2, <2>3, <2>4 DEF TypeOK
<1>28. ASSUME Close
      PROVE  TypeOK'
  <2>1. DiskTypes'
    BY <1>28 DEF TypeOK, DiskTypes, Close, lockVars, procVars, adminFrame
  <2>2. TaskTypes'
    BY <1>28 DEF TypeOK, TaskTypes, ServingInv, KillTypes, LiveTasks,
       IdleAdmin, Close, lockVars, procVars, adminFrame
  <2>3. KillTypes'
    <3>1. LiveTasks \subseteq Jobs
      BY DEF LiveTasks
    <3>2. \/ admin' = [IdleAdmin EXCEPT !.op = "close", !.phase = "gather", !.todo = LiveTasks]
          \/ \E e \in Executors :
               admin' = [IdleAdmin EXCEPT !.op = "close", !.phase = "killing", !.kill = e]
      BY <1>28 DEF Close
    <3>3. admin' \in AdminRecords
      BY <3>1, <3>2 DEF IdleAdmin, AdminRecords
    <3>4. UNCHANGED <<apiKill, taskKill>>
      BY <1>28 DEF Close, adminFrame
    <3>. QED
      BY <3>3, <3>4 DEF TypeOK, KillTypes
  <2>4. ProcTypes'
    BY <1>28 DEF TypeOK, ProcTypes, ServingInv, TaskTypes, Close, lockVars,
       procVars, adminFrame
  <2>. QED
    BY <2>1, <2>2, <2>3, <2>4 DEF TypeOK
<1>29. ASSUME CloseGathers
      PROVE  TypeOK'
  <2>1. DiskTypes'
    BY <1>29 DEF TypeOK, DiskTypes, CloseGathers, Reap, lockVars, adminFrame
  <2>2. TaskTypes'
    BY <1>29 DEF TypeOK, TaskTypes, ServingInv, KillTypes, LiveTasks,
       IdleAdmin, CloseGathers, Reap, lockVars, adminFrame
  <2>3. KillTypes'
    BY <1>29 DEF TypeOK, KillTypes, AdminRecords, TaskTypes, LiveTasks,
       IdleAdmin, CloseGathers, Reap, lockVars, adminFrame
  <2>4. ProcTypes'
    BY <1>29, ReapTypes DEF TypeOK, CloseGathers, adminFrame
  <2>. QED
    BY <2>1, <2>2, <2>3, <2>4 DEF TypeOK
<1>30. ASSUME Release
      PROVE  TypeOK'
  <2>1. DiskTypes'
    BY <1>30 DEF TypeOK, DiskTypes, Release, lockVars, procVars, adminFrame
  <2>2. TaskTypes'
    BY <1>30 DEF TypeOK, TaskTypes, ServingInv, KillTypes, LiveTasks,
       IdleAdmin, Release, lockVars, procVars, adminFrame
  <2>3. KillTypes'
    BY <1>30 DEF TypeOK, KillTypes, AdminRecords, TaskTypes, LiveTasks,
       IdleAdmin, Release, lockVars, procVars, adminFrame
  <2>4. ProcTypes'
    BY <1>30 DEF TypeOK, ProcTypes, ServingInv, TaskTypes, Release, lockVars,
       procVars, adminFrame
  <2>. QED
    BY <2>1, <2>2, <2>3, <2>4 DEF TypeOK
<1>31. ASSUME NEW j \in Jobs, ReleaseCancels(j)
      PROVE  TypeOK'
  <2>1. DiskTypes'
    BY <1>31 DEF TypeOK, DiskTypes, ReleaseCancels, MarkCancelled, Log,
       Finished, Stoppable, lockVars, procVars, adminFrame
  <2>2. TaskTypes'
    BY <1>31 DEF TypeOK, TaskTypes, ServingInv, KillTypes, IdleAdmin,
       ReleaseCancels, MarkCancelled, Log, Finished, Stoppable, lockVars,
       procVars, adminFrame
  <2>3. KillTypes'
    <3>1. executors[j] \in Executors \cup {None} /\ admin \in AdminRecords
      BY DEF TypeOK, TaskTypes, KillTypes
    <3>2. [admin EXCEPT !.todo = @ \ {j}] \in AdminRecords
      BY <3>1 DEF AdminRecords
    <3>3. [admin EXCEPT !.job = j, !.kill = executors[j]] \in AdminRecords
      BY <3>1 DEF AdminRecords
    <3>4. admin' \in AdminRecords
      BY <1>31, <3>2, <3>3 DEF ReleaseCancels
    <3>5. UNCHANGED <<apiKill, taskKill>>
      BY <1>31 DEF ReleaseCancels, adminFrame
    <3>. QED
      BY <3>4, <3>5 DEF TypeOK, KillTypes
  <2>4. ProcTypes'
    BY <1>31 DEF TypeOK, ProcTypes, ServingInv, TaskTypes, ReleaseCancels,
       MarkCancelled, Log, Finished, Stoppable, lockVars, procVars, adminFrame
  <2>. QED
    BY <2>1, <2>2, <2>3, <2>4 DEF TypeOK
<1>32. ASSUME ReleaseCancelReturns
      PROVE  TypeOK'
  <2>1. DiskTypes'
    BY <1>32 DEF TypeOK, DiskTypes, ReleaseCancelReturns, Reap, Log, lockVars,
       adminFrame
  <2>2. TaskTypes'
    BY <1>32 DEF TypeOK, TaskTypes, ServingInv, KillTypes, IdleAdmin,
       ReleaseCancelReturns, Reap, Log, lockVars, adminFrame
  <2>3. KillTypes'
    BY <1>32 DEF TypeOK, KillTypes, AdminRecords, TaskTypes, IdleAdmin,
       ReleaseCancelReturns, Reap, Log, lockVars, adminFrame
  <2>4. ProcTypes'
    BY <1>32, ReapTypes DEF TypeOK, ReleaseCancelReturns, adminFrame
  <2>. QED
    BY <2>1, <2>2, <2>3, <2>4 DEF TypeOK
<1>33. ASSUME ReleaseGathers
      PROVE  TypeOK'
  <2>1. DiskTypes'
    BY <1>33 DEF TypeOK, DiskTypes, ReleaseGathers, lockVars, procVars,
       adminFrame
  <2>2. TaskTypes'
    BY <1>33 DEF TypeOK, TaskTypes, ServingInv, KillTypes, LiveTasks,
       IdleAdmin, ReleaseGathers, lockVars, procVars, adminFrame
  <2>3. KillTypes'
    BY <1>33 DEF TypeOK, KillTypes, AdminRecords, TaskTypes, LiveTasks,
       IdleAdmin, ReleaseGathers, lockVars, procVars, adminFrame
  <2>4. ProcTypes'
    BY <1>33 DEF TypeOK, ProcTypes, ServingInv, TaskTypes, ReleaseGathers,
       lockVars, procVars, adminFrame
  <2>. QED
    BY <2>1, <2>2, <2>3, <2>4 DEF TypeOK
<1>34. ASSUME AdminAwaitsLock
      PROVE  TypeOK'
  <2>1. DiskTypes'
    BY <1>34 DEF TypeOK, DiskTypes, AdminAwaitsLock, procVars, adminFrame
  <2>2. TaskTypes'
    BY <1>34 DEF TypeOK, TaskTypes, ServingInv, KillTypes, LiveTasks,
       IdleAdmin, AdminAwaitsLock, procVars, adminFrame
  <2>3. KillTypes'
    BY <1>34 DEF TypeOK, KillTypes, AdminRecords, TaskTypes, LiveTasks,
       IdleAdmin, AdminAwaitsLock, procVars, adminFrame
  <2>4. ProcTypes'
    BY <1>34 DEF TypeOK, ProcTypes, ServingInv, TaskTypes, AdminAwaitsLock,
       procVars, adminFrame
  <2>. QED
    BY <2>1, <2>2, <2>3, <2>4 DEF TypeOK
<1>35. ASSUME AdminDropsResident
      PROVE  TypeOK'
  <2>1. DiskTypes'
    BY <1>35 DEF TypeOK, DiskTypes, AdminDropsResident, AdminReturns,
       Stoppable, procVars, adminFrame
  <2>2. TaskTypes'
    BY <1>35, SeqTypes DEF TypeOK, TaskTypes, AdminDropsResident,
       AdminReturns, adminFrame
  <2>3. KillTypes'
    <3>1. resident \in Executors \cup {None} /\ admin \in AdminRecords
      BY DEF TypeOK, TaskTypes, KillTypes
    <3>2. [admin EXCEPT !.phase = "dropping", !.kill = resident] \in AdminRecords
      BY <3>1 DEF AdminRecords
    <3>3. IdleAdmin \in AdminRecords
      BY DEF IdleAdmin, AdminRecords
    <3>4. admin' \in AdminRecords
      BY <1>35, <3>2, <3>3 DEF AdminDropsResident, AdminReturns
    <3>5. UNCHANGED <<apiKill, taskKill>>
      BY <1>35 DEF AdminDropsResident, adminFrame
    <3>. QED
      BY <3>4, <3>5 DEF TypeOK, KillTypes
  <2>4. ProcTypes'
    BY <1>35 DEF TypeOK, ProcTypes, ServingInv, TaskTypes, AdminDropsResident,
       AdminReturns, Stoppable, procVars, adminFrame
  <2>. QED
    BY <2>1, <2>2, <2>3, <2>4 DEF TypeOK
<1>36. ASSUME AdminDropped
      PROVE  TypeOK'
  <2>1. DiskTypes'
    BY <1>36 DEF TypeOK, DiskTypes, AdminDropped, AdminReturns, Reap,
       adminFrame
  <2>2. TaskTypes'
    BY <1>36 DEF TypeOK, TaskTypes, ServingInv, KillTypes, IdleAdmin,
       AdminDropped, AdminReturns, Reap, adminFrame
  <2>3. KillTypes'
    BY <1>36 DEF TypeOK, KillTypes, AdminRecords, TaskTypes, IdleAdmin,
       AdminDropped, AdminReturns, Reap, adminFrame
  <2>4. ProcTypes'
    BY <1>36, ReapTypes DEF TypeOK, AdminDropped, adminFrame
  <2>. QED
    BY <2>1, <2>2, <2>3, <2>4 DEF TypeOK
<1>37. ASSUME AgentRestart
      PROVE  TypeOK'
  <2>1. DiskTypes'
    BY <1>37 DEF TypeOK, DiskTypes, AgentRestart, Recovered
  <2>2. TaskTypes'
    BY <1>37, SeqTypes DEF TypeOK, TaskTypes, AgentRestart
  <2>3. KillTypes'
    BY <1>37 DEF TypeOK, KillTypes, AdminRecords, TaskTypes, IdleAdmin,
       AgentRestart, Recovered
  <2>4. ProcTypes'
    BY <1>37, SeqTypes DEF TypeOK, ProcTypes, AgentRestart
  <2>. QED
    BY <2>1, <2>2, <2>3, <2>4 DEF TypeOK
<1>38. CASE UNCHANGED vars
  BY <1>38 DEF TypeOK, DiskTypes, TaskTypes, KillTypes, ProcTypes, vars,
     diskVars, lockVars, taskVars, killVars, procVars
<1>39. QED
  BY <1>1, <1>2, <1>3, <1>4, <1>5, <1>6, <1>7, <1>8, <1>9, <1>10, <1>11,
     <1>12, <1>13, <1>14, <1>15, <1>16, <1>17, <1>18, <1>19, <1>20, <1>21,
     <1>22, <1>23, <1>24, <1>25, <1>26, <1>27, <1>28, <1>29, <1>30, <1>31,
     <1>32, <1>33, <1>34, <1>35, <1>36, <1>37, <1>38 DEF Next, TaskStep,
     WorkerStep, AdminStep

(* A job that got a task keeps it, or the memory that it had one.          *)
LEMMA TasksStay ==
  ASSUME TypeOK, [Next]_vars
  PROVE  \A k \in Jobs : task[k] # "none" => task'[k] # "none"
<1> USE RequestsAssumption, NamesAssumption, BoundsAssumption DEF Executors, Phases, Holding, ActiveStates, FinalStates
<1>1. ASSUME NEW j \in Jobs, NEW c \in Commands, NEW r \in Requests,
             Submit(j, c, r)
      PROVE  \A k \in Jobs : task[k] # "none" => task'[k] # "none"
  BY <1>1 DEF TypeOK, TaskTypes, Submit, FindCommand, killVars, procVars
<1>2. ASSUME NEW j \in Jobs, Cancel(j)
      PROVE  \A k \in Jobs : task[k] # "none" => task'[k] # "none"
  BY <1>2 DEF TypeOK, TaskTypes, Cancel, MarkCancelled, Log, Finished,
     Stoppable, lockVars
<1>3. ASSUME NEW j \in Jobs, CancelReturns(j)
      PROVE  \A k \in Jobs : task[k] # "none" => task'[k] # "none"
  BY <1>3 DEF TypeOK, TaskTypes, CancelReturns, Reap, Log, lockVars, taskVars
<1>4. ASSUME NEW j \in Jobs, RunJobStart(j)
      PROVE  \A k \in Jobs : task[k] # "none" => task'[k] # "none"
  BY <1>4 DEF TypeOK, TaskTypes, RunJobStart, TaskEnds, killVars, procVars
<1>5. ASSUME NEW j \in Jobs, PayloadFails(j)
      PROVE  \A k \in Jobs : task[k] # "none" => task'[k] # "none"
  BY <1>5 DEF TypeOK, TaskTypes, PayloadFails, Fail, TaskEnds, procVars
<1>6. ASSUME NEW j \in Jobs, DropResident(j)
      PROVE  \A k \in Jobs : task[k] # "none" => task'[k] # "none"
  BY <1>6 DEF TypeOK, TaskTypes, DropResident, MustDropResident, Stoppable,
     diskVars, lockVars, procVars
<1>7. ASSUME NEW j \in Jobs, UseExecutor(j)
      PROVE  \A k \in Jobs : task[k] # "none" => task'[k] # "none"
  BY <1>7 DEF TypeOK, TaskTypes, UseExecutor, EnterRun, WriteCommands,
     MustDropResident, Stoppable, diskVars, lockVars, killVars
<1>8. ASSUME NEW j \in Jobs, ResidentDropped(j)
      PROVE  \A k \in Jobs : task[k] # "none" => task'[k] # "none"
  BY <1>8 DEF TypeOK, TaskTypes, ResidentDropped, Reap, diskVars, lockVars
<1>9. ASSUME NEW j \in Jobs, SpawnFails(j)
      PROVE  \A k \in Jobs : task[k] # "none" => task'[k] # "none"
  BY <1>9 DEF TypeOK, TaskTypes, SpawnFails, Fail, TaskEnds, procVars
<1>10. ASSUME NEW j \in Jobs, Spawn(j)
      PROVE  \A k \in Jobs : task[k] # "none" => task'[k] # "none"
  BY <1>10 DEF TypeOK, TaskTypes, Spawn, WriteCommands, diskVars, lockVars,
     killVars
<1>11. ASSUME NEW j \in Jobs, HandleRunning(j)
      PROVE  \A k \in Jobs : task[k] # "none" => task'[k] # "none"
  BY <1>11 DEF TypeOK, TaskTypes, HandleRunning, ReadEvent, lockVars,
     taskVars, killVars
<1>12. ASSUME NEW j \in Jobs, HandleError(j)
      PROVE  \A k \in Jobs : task[k] # "none" => task'[k] # "none"
  BY <1>12 DEF TypeOK, TaskTypes, HandleError, ReadEvent, Log, lockVars,
     taskVars, killVars
<1>13. ASSUME NEW j \in Jobs, HandleOutput(j)
      PROVE  \A k \in Jobs : task[k] # "none" => task'[k] # "none"
  BY <1>13 DEF TypeOK, TaskTypes, HandleOutput, ReadEvent, diskVars, lockVars,
     killVars
<1>14. ASSUME NEW j \in Jobs, HandleResident(j)
      PROVE  \A k \in Jobs : task[k] # "none" => task'[k] # "none"
  BY <1>14 DEF TypeOK, TaskTypes, HandleResident, ReadEvent, Finish, TaskEnds,
     Abandoned, diskVars, lockVars, taskVars, killVars
<1>15. ASSUME NEW j \in Jobs, OutputIndexed(j)
      PROVE  \A k \in Jobs : task[k] # "none" => task'[k] # "none"
  BY <1>15 DEF TypeOK, TaskTypes, OutputIndexed, diskVars, lockVars, killVars,
     procVars
<1>16. ASSUME NEW j \in Jobs, OutputRejected(j)
      PROVE  \A k \in Jobs : task[k] # "none" => task'[k] # "none"
  BY <1>16 DEF TypeOK, TaskTypes, OutputRejected, diskVars, lockVars, procVars
<1>17. ASSUME NEW j \in Jobs, RunRaised(j)
      PROVE  \A k \in Jobs : task[k] # "none" => task'[k] # "none"
  BY <1>17 DEF TypeOK, TaskTypes, RunRaised, Reap, Fail, TaskEnds
<1>18. ASSUME NEW j \in Jobs, ReadAfterCancel(j)
      PROVE  \A k \in Jobs : task[k] # "none" => task'[k] # "none"
  BY <1>18 DEF TypeOK, TaskTypes, ReadAfterCancel, Fail, TaskEnds, procVars
<1>19. ASSUME NEW j \in Jobs, ReadEof(j)
      PROVE  \A k \in Jobs : task[k] # "none" => task'[k] # "none"
  BY <1>19 DEF TypeOK, TaskTypes, ReadEof, Reap, Finish, TaskEnds, Abandoned,
     killVars
<1>20. ASSUME NEW e \in Executors, WorkerProbe(e)
      PROVE  \A k \in Jobs : task[k] # "none" => task'[k] # "none"
  BY <1>20 DEF TypeOK, TaskTypes, WorkerProbe, Goto, Emit, Event, diskVars,
     lockVars, taskVars, killVars, agentVars
<1>21. ASSUME NEW e \in Executors, WorkerLoad(e)
      PROVE  \A k \in Jobs : task[k] # "none" => task'[k] # "none"
  BY <1>21 DEF TypeOK, TaskTypes, WorkerLoad, Goto, Emit, Event, Exit,
     diskVars, lockVars, taskVars, killVars, agentVars
<1>22. ASSUME NEW e \in Executors, WorkerBegin(e)
      PROVE  \A k \in Jobs : task[k] # "none" => task'[k] # "none"
  BY <1>22 DEF TypeOK, TaskTypes, WorkerBegin, Goto, Emit, Event, diskVars,
     lockVars, taskVars, killVars, agentVars
<1>23. ASSUME NEW e \in Executors, WorkerDone(e)
      PROVE  \A k \in Jobs : task[k] # "none" => task'[k] # "none"
  BY <1>23 DEF TypeOK, TaskTypes, WorkerDone, Goto, Emit, EmitFinal, Event,
     Exit, diskVars, lockVars, taskVars, killVars, agentVars
<1>24. ASSUME NEW e \in Executors, WorkerError(e)
      PROVE  \A k \in Jobs : task[k] # "none" => task'[k] # "none"
  BY <1>24 DEF TypeOK, TaskTypes, WorkerError, Goto, Emit, Event, Exit,
     diskVars, lockVars, taskVars, killVars, agentVars
<1>25. ASSUME NEW e \in Executors, WorkerStdinEof(e)
      PROVE  \A k \in Jobs : task[k] # "none" => task'[k] # "none"
  BY <1>25 DEF TypeOK, TaskTypes, WorkerStdinEof, Exit, diskVars, lockVars,
     taskVars, killVars, agentVars
<1>26. ASSUME NEW e \in Executors, WorkerProgress(e)
      PROVE  \A k \in Jobs : task[k] # "none" => task'[k] # "none"
  BY <1>26 DEF TypeOK, TaskTypes, WorkerProgress, Emit, Event, diskVars,
     lockVars, taskVars, killVars, agentVars
<1>27. ASSUME NEW e \in Executors, WorkerKilled(e)
      PROVE  \A k \in Jobs : task[k] # "none" => task'[k] # "none"
  BY <1>27 DEF TypeOK, TaskTypes, WorkerKilled, Exit, diskVars, lockVars,
     taskVars, killVars, agentVars
<1>28. ASSUME Close
      PROVE  \A k \in Jobs : task[k] # "none" => task'[k] # "none"
  BY <1>28 DEF TypeOK, TaskTypes, Close, lockVars, procVars, adminFrame
<1>29. ASSUME CloseGathers
      PROVE  \A k \in Jobs : task[k] # "none" => task'[k] # "none"
  BY <1>29 DEF TypeOK, TaskTypes, CloseGathers, Reap, lockVars, adminFrame
<1>30. ASSUME Release
      PROVE  \A k \in Jobs : task[k] # "none" => task'[k] # "none"
  BY <1>30 DEF TypeOK, TaskTypes, Release, lockVars, procVars, adminFrame
<1>31. ASSUME NEW j \in Jobs, ReleaseCancels(j)
      PROVE  \A k \in Jobs : task[k] # "none" => task'[k] # "none"
  BY <1>31 DEF TypeOK, TaskTypes, ReleaseCancels, MarkCancelled, Log,
     Finished, Stoppable, lockVars, procVars, adminFrame
<1>32. ASSUME ReleaseCancelReturns
      PROVE  \A k \in Jobs : task[k] # "none" => task'[k] # "none"
  BY <1>32 DEF TypeOK, TaskTypes, ReleaseCancelReturns, Reap, Log, lockVars,
     adminFrame
<1>33. ASSUME ReleaseGathers
      PROVE  \A k \in Jobs : task[k] # "none" => task'[k] # "none"
  BY <1>33 DEF TypeOK, TaskTypes, ReleaseGathers, lockVars, procVars,
     adminFrame
<1>34. ASSUME AdminAwaitsLock
      PROVE  \A k \in Jobs : task[k] # "none" => task'[k] # "none"
  BY <1>34 DEF TypeOK, TaskTypes, AdminAwaitsLock, procVars, adminFrame
<1>35. ASSUME AdminDropsResident
      PROVE  \A k \in Jobs : task[k] # "none" => task'[k] # "none"
  BY <1>35 DEF TypeOK, TaskTypes, AdminDropsResident, AdminReturns, Stoppable,
     procVars, adminFrame
<1>36. ASSUME AdminDropped
      PROVE  \A k \in Jobs : task[k] # "none" => task'[k] # "none"
  BY <1>36 DEF TypeOK, TaskTypes, AdminDropped, AdminReturns, Reap, adminFrame
<1>37. ASSUME AgentRestart
      PROVE  \A k \in Jobs : task[k] # "none" => task'[k] # "none"
  BY <1>37 DEF TypeOK, TaskTypes, AgentRestart, Recovered
<1>38. CASE UNCHANGED vars
  BY <1>38 DEF TypeOK, TaskTypes, vars, diskVars, lockVars, taskVars,
     killVars, procVars
<1>39. QED
  BY <1>1, <1>2, <1>3, <1>4, <1>5, <1>6, <1>7, <1>8, <1>9, <1>10, <1>11,
     <1>12, <1>13, <1>14, <1>15, <1>16, <1>17, <1>18, <1>19, <1>20, <1>21,
     <1>22, <1>23, <1>24, <1>25, <1>26, <1>27, <1>28, <1>29, <1>30, <1>31,
     <1>32, <1>33, <1>34, <1>35, <1>36, <1>37, <1>38 DEF Next, TaskStep,
     WorkerStep, AdminStep

(* Every step keeps the jobs to cancel among those that were started.      *)
LEMMA TodoStep ==
  ASSUME TypeOK, TodoInv, [Next]_vars
  PROVE  TodoInv'
<1> USE RequestsAssumption, NamesAssumption, BoundsAssumption DEF Executors, Phases, Holding, ActiveStates, FinalStates
<1>0. \A k \in Jobs : task[k] # "none" => task'[k] # "none"
  BY TasksStay
<1>1. ASSUME NEW j \in Jobs, NEW c \in Commands, NEW r \in Requests,
             Submit(j, c, r)
      PROVE  TodoInv'
  BY <1>0, <1>1 DEF TypeOK, KillTypes, AdminRecords, TodoInv, Submit,
     FindCommand, killVars, procVars
<1>2. ASSUME NEW j \in Jobs, Cancel(j)
      PROVE  TodoInv'
  BY <1>0, <1>2 DEF TypeOK, KillTypes, AdminRecords, TodoInv, Cancel,
     MarkCancelled, Log, Finished, Stoppable, lockVars
<1>3. ASSUME NEW j \in Jobs, CancelReturns(j)
      PROVE  TodoInv'
  BY <1>0, <1>3 DEF TypeOK, KillTypes, AdminRecords, TodoInv, CancelReturns,
     Reap, Log, lockVars, taskVars
<1>4. ASSUME NEW j \in Jobs, RunJobStart(j)
      PROVE  TodoInv'
  BY <1>0, <1>4 DEF TypeOK, KillTypes, AdminRecords, TodoInv, RunJobStart,
     TaskEnds, killVars, procVars
<1>5. ASSUME NEW j \in Jobs, PayloadFails(j)
      PROVE  TodoInv'
  BY <1>0, <1>5 DEF TypeOK, KillTypes, AdminRecords, TodoInv, PayloadFails,
     Fail, TaskEnds, procVars
<1>6. ASSUME NEW j \in Jobs, DropResident(j)
      PROVE  TodoInv'
  BY <1>0, <1>6 DEF TypeOK, KillTypes, AdminRecords, TodoInv, DropResident,
     MustDropResident, Stoppable, diskVars, lockVars, procVars
<1>7. ASSUME NEW j \in Jobs, UseExecutor(j)
      PROVE  TodoInv'
  BY <1>0, <1>7 DEF TypeOK, KillTypes, AdminRecords, TodoInv, UseExecutor,
     EnterRun, WriteCommands, MustDropResident, Stoppable, diskVars, lockVars,
     killVars
<1>8. ASSUME NEW j \in Jobs, ResidentDropped(j)
      PROVE  TodoInv'
  BY <1>0, <1>8 DEF TypeOK, KillTypes, AdminRecords, TodoInv, ResidentDropped,
     Reap, diskVars, lockVars
<1>9. ASSUME NEW j \in Jobs, SpawnFails(j)
      PROVE  TodoInv'
  BY <1>0, <1>9 DEF TypeOK, KillTypes, AdminRecords, TodoInv, SpawnFails,
     Fail, TaskEnds, procVars
<1>10. ASSUME NEW j \in Jobs, Spawn(j)
      PROVE  TodoInv'
  BY <1>0, <1>10 DEF TypeOK, KillTypes, AdminRecords, TodoInv, Spawn,
     WriteCommands, diskVars, lockVars, killVars
<1>11. ASSUME NEW j \in Jobs, HandleRunning(j)
      PROVE  TodoInv'
  BY <1>0, <1>11 DEF TypeOK, KillTypes, AdminRecords, TodoInv, HandleRunning,
     ReadEvent, lockVars, taskVars, killVars
<1>12. ASSUME NEW j \in Jobs, HandleError(j)
      PROVE  TodoInv'
  BY <1>0, <1>12 DEF TypeOK, KillTypes, AdminRecords, TodoInv, HandleError,
     ReadEvent, Log, lockVars, taskVars, killVars
<1>13. ASSUME NEW j \in Jobs, HandleOutput(j)
      PROVE  TodoInv'
  BY <1>0, <1>13 DEF TypeOK, KillTypes, AdminRecords, TodoInv, HandleOutput,
     ReadEvent, diskVars, lockVars, killVars
<1>14. ASSUME NEW j \in Jobs, HandleResident(j)
      PROVE  TodoInv'
  BY <1>0, <1>14 DEF TypeOK, KillTypes, AdminRecords, TodoInv, HandleResident,
     ReadEvent, Finish, TaskEnds, Abandoned, diskVars, lockVars, taskVars,
     killVars
<1>15. ASSUME NEW j \in Jobs, OutputIndexed(j)
      PROVE  TodoInv'
  BY <1>0, <1>15 DEF TypeOK, KillTypes, AdminRecords, TodoInv, OutputIndexed,
     diskVars, lockVars, killVars, procVars
<1>16. ASSUME NEW j \in Jobs, OutputRejected(j)
      PROVE  TodoInv'
  BY <1>0, <1>16 DEF TypeOK, KillTypes, AdminRecords, TodoInv, OutputRejected,
     diskVars, lockVars, procVars
<1>17. ASSUME NEW j \in Jobs, RunRaised(j)
      PROVE  TodoInv'
  BY <1>0, <1>17 DEF TypeOK, KillTypes, AdminRecords, TodoInv, RunRaised,
     Reap, Fail, TaskEnds
<1>18. ASSUME NEW j \in Jobs, ReadAfterCancel(j)
      PROVE  TodoInv'
  BY <1>0, <1>18 DEF TypeOK, KillTypes, AdminRecords, TodoInv,
     ReadAfterCancel, Fail, TaskEnds, procVars
<1>19. ASSUME NEW j \in Jobs, ReadEof(j)
      PROVE  TodoInv'
  BY <1>0, <1>19 DEF TypeOK, KillTypes, AdminRecords, TodoInv, ReadEof, Reap,
     Finish, TaskEnds, Abandoned, killVars
<1>20. ASSUME NEW e \in Executors, WorkerProbe(e)
      PROVE  TodoInv'
  BY <1>0, <1>20 DEF TypeOK, KillTypes, AdminRecords, TodoInv, WorkerProbe,
     Goto, Emit, Event, diskVars, lockVars, taskVars, killVars, agentVars
<1>21. ASSUME NEW e \in Executors, WorkerLoad(e)
      PROVE  TodoInv'
  BY <1>0, <1>21 DEF TypeOK, KillTypes, AdminRecords, TodoInv, WorkerLoad,
     Goto, Emit, Event, Exit, diskVars, lockVars, taskVars, killVars,
     agentVars
<1>22. ASSUME NEW e \in Executors, WorkerBegin(e)
      PROVE  TodoInv'
  BY <1>0, <1>22 DEF TypeOK, KillTypes, AdminRecords, TodoInv, WorkerBegin,
     Goto, Emit, Event, diskVars, lockVars, taskVars, killVars, agentVars
<1>23. ASSUME NEW e \in Executors, WorkerDone(e)
      PROVE  TodoInv'
  BY <1>0, <1>23 DEF TypeOK, KillTypes, AdminRecords, TodoInv, WorkerDone,
     Goto, Emit, EmitFinal, Event, Exit, diskVars, lockVars, taskVars,
     killVars, agentVars
<1>24. ASSUME NEW e \in Executors, WorkerError(e)
      PROVE  TodoInv'
  BY <1>0, <1>24 DEF TypeOK, KillTypes, AdminRecords, TodoInv, WorkerError,
     Goto, Emit, Event, Exit, diskVars, lockVars, taskVars, killVars,
     agentVars
<1>25. ASSUME NEW e \in Executors, WorkerStdinEof(e)
      PROVE  TodoInv'
  BY <1>0, <1>25 DEF TypeOK, KillTypes, AdminRecords, TodoInv, WorkerStdinEof,
     Exit, diskVars, lockVars, taskVars, killVars, agentVars
<1>26. ASSUME NEW e \in Executors, WorkerProgress(e)
      PROVE  TodoInv'
  BY <1>0, <1>26 DEF TypeOK, KillTypes, AdminRecords, TodoInv, WorkerProgress,
     Emit, Event, diskVars, lockVars, taskVars, killVars, agentVars
<1>27. ASSUME NEW e \in Executors, WorkerKilled(e)
      PROVE  TodoInv'
  BY <1>0, <1>27 DEF TypeOK, KillTypes, AdminRecords, TodoInv, WorkerKilled,
     Exit, diskVars, lockVars, taskVars, killVars, agentVars
<1>28. ASSUME Close
      PROVE  TodoInv'
  <2>1. admin'.todo \subseteq LiveTasks
    BY <1>28 DEF Close, IdleAdmin
  <2>. QED
    BY <1>0, <2>1 DEF LiveTasks, TodoInv
<1>29. ASSUME CloseGathers
      PROVE  TodoInv'
  BY <1>0, <1>29 DEF TypeOK, KillTypes, AdminRecords, IdleAdmin, LiveTasks,
     TodoInv, CloseGathers, Reap, lockVars, adminFrame
<1>30. ASSUME Release
      PROVE  TodoInv'
  BY <1>0, <1>30 DEF TypeOK, KillTypes, AdminRecords, IdleAdmin, LiveTasks,
     TodoInv, Release, lockVars, procVars, adminFrame
<1>31. ASSUME NEW j \in Jobs, ReleaseCancels(j)
      PROVE  TodoInv'
  <2>1. admin \in AdminRecords
    BY DEF TypeOK, KillTypes
  <2>2. admin.todo \subseteq Jobs
    BY <2>1 DEF AdminRecords
  <2>3. CASE admin' = [admin EXCEPT !.todo = @ \ {j}]
    <3>1. admin'.todo = admin.todo \ {j}
      BY <2>1, <2>3 DEF AdminRecords
    <3>. QED
      BY <1>0, <2>2, <3>1 DEF TodoInv
  <2>4. CASE admin' = [admin EXCEPT !.job = j, !.kill = executors[j]]
    <3>1. admin'.todo = admin.todo
      BY <2>1, <2>4 DEF AdminRecords
    <3>. QED
      BY <1>0, <2>2, <3>1 DEF TodoInv
  <2>. QED
    BY <1>31, <2>3, <2>4 DEF ReleaseCancels
<1>32. ASSUME ReleaseCancelReturns
      PROVE  TodoInv'
  BY <1>0, <1>32 DEF TypeOK, KillTypes, AdminRecords, IdleAdmin, TodoInv,
     ReleaseCancelReturns, Reap, Log, lockVars, adminFrame
<1>33. ASSUME ReleaseGathers
      PROVE  TodoInv'
  BY <1>0, <1>33 DEF TypeOK, KillTypes, AdminRecords, IdleAdmin, LiveTasks,
     TodoInv, ReleaseGathers, lockVars, procVars, adminFrame
<1>34. ASSUME AdminAwaitsLock
      PROVE  TodoInv'
  BY <1>0, <1>34 DEF TypeOK, KillTypes, AdminRecords, IdleAdmin, LiveTasks,
     TodoInv, AdminAwaitsLock, procVars, adminFrame
<1>35. ASSUME AdminDropsResident
      PROVE  TodoInv'
  <2>1. admin \in AdminRecords
    BY DEF TypeOK, KillTypes
  <2>2. admin.todo \subseteq Jobs
    BY <2>1 DEF AdminRecords
  <2>3. CASE admin' = [admin EXCEPT !.phase = "dropping", !.kill = resident]
    <3>1. admin'.todo = admin.todo
      BY <2>1, <2>3 DEF AdminRecords
    <3>. QED
      BY <1>0, <2>2, <3>1 DEF TodoInv
  <2>4. CASE admin' = IdleAdmin
    BY <2>4 DEF IdleAdmin, TodoInv
  <2>. QED
    BY <1>35, <2>3, <2>4 DEF AdminDropsResident, AdminReturns
<1>36. ASSUME AdminDropped
      PROVE  TodoInv'
  BY <1>0, <1>36 DEF TypeOK, KillTypes, AdminRecords, IdleAdmin, TodoInv,
     AdminDropped, AdminReturns, Reap, adminFrame
<1>37. ASSUME AgentRestart
      PROVE  TodoInv'
  BY <1>0, <1>37 DEF TypeOK, KillTypes, AdminRecords, IdleAdmin, TodoInv,
     AgentRestart, Recovered
<1>38. CASE UNCHANGED vars
  BY <1>38 DEF TypeOK, KillTypes, AdminRecords, IdleAdmin, TodoInv, vars,
     diskVars, lockVars, taskVars, killVars, procVars
<1>39. QED
  BY <1>1, <1>2, <1>3, <1>4, <1>5, <1>6, <1>7, <1>8, <1>9, <1>10, <1>11,
     <1>12, <1>13, <1>14, <1>15, <1>16, <1>17, <1>18, <1>19, <1>20, <1>21,
     <1>22, <1>23, <1>24, <1>25, <1>26, <1>27, <1>28, <1>29, <1>30, <1>31,
     <1>32, <1>33, <1>34, <1>35, <1>36, <1>37, <1>38 DEF Next, TaskStep,
     WorkerStep, AdminStep

(* Every step keeps requests, executors and processes matched.             *)
LEMMA ServingStep ==
  ASSUME TypeOK, ServingInv, TodoInv, [Next]_vars
  PROVE  ServingInv'
<1> USE RequestsAssumption, NamesAssumption, BoundsAssumption DEF Executors, Phases, Holding, ActiveStates, FinalStates
<1>1. ASSUME NEW j \in Jobs, NEW c \in Commands, NEW r \in Requests,
             Submit(j, c, r)
      PROVE  ServingInv'
  BY <1>1 DEF TypeOK, DiskTypes, TaskTypes, KillTypes, ProcTypes, ServingInv,
     Submit, FindCommand, killVars, procVars
<1>2. ASSUME NEW j \in Jobs, Cancel(j)
      PROVE  ServingInv'
  BY <1>2 DEF TypeOK, DiskTypes, TaskTypes, KillTypes, ProcTypes, ServingInv,
     Cancel, MarkCancelled, Log, Finished, Stoppable, lockVars
<1>3. ASSUME NEW j \in Jobs, CancelReturns(j)
      PROVE  ServingInv'
  BY <1>3 DEF TypeOK, DiskTypes, TaskTypes, KillTypes, ProcTypes, ServingInv,
     CancelReturns, Reap, Log, lockVars, taskVars
<1>4. ASSUME NEW j \in Jobs, RunJobStart(j)
      PROVE  ServingInv'
  <2>1. request' = request /\ proc' = proc /\ serving' = serving
    BY <1>4 DEF RunJobStart, procVars
  <2>2. task[j] # "none" /\ state[j] # "none"
    BY <1>4 DEF RunJobStart, ServingInv
  <2>3. \A k \in Jobs : (state'[k] # "none" <=> state[k] # "none")
    BY <1>4, <2>2 DEF RunJobStart, TypeOK, DiskTypes
  <2>4. \A k \in Jobs : task'[k] # "none" => task[k] # "none"
    BY <1>4, <2>2 DEF RunJobStart, TaskEnds, TypeOK, TaskTypes
  <2>5. \A k \in Jobs : task'[k] \in {"spawning", "reading", "indexing", "raising"} =>
          task'[k] = task[k] /\ executors'[k] = executors[k]
    BY <1>4 DEF RunJobStart, TaskEnds, TypeOK, TaskTypes
  <2>. QED
    BY <2>1, <2>3, <2>4, <2>5 DEF ServingInv, TypeOK, ProcTypes
<1>5. ASSUME NEW j \in Jobs, PayloadFails(j)
      PROVE  ServingInv'
  BY <1>5 DEF TypeOK, DiskTypes, TaskTypes, KillTypes, ProcTypes, ServingInv,
     PayloadFails, Fail, TaskEnds, procVars
<1>6. ASSUME NEW j \in Jobs, DropResident(j)
      PROVE  ServingInv'
  BY <1>6 DEF TypeOK, DiskTypes, TaskTypes, KillTypes, ProcTypes, ServingInv,
     DropResident, MustDropResident, Stoppable, diskVars, lockVars, procVars
<1>7. ASSUME NEW j \in Jobs, UseExecutor(j)
      PROVE  ServingInv'
  <2>. PICK e \in Executors : EnterRun(j, e)
    BY <1>7 DEF UseExecutor, TypeOK, TaskTypes
  <2>1. state' = state /\ request' = request /\ proc' = proc
    BY <1>7 DEF UseExecutor, diskVars
  <2>2. task[j] # "none" /\ state[j] # "none"
    BY <1>7 DEF UseExecutor, ServingInv
  <2>3. \A k \in Jobs \ {j} : task'[k] = task[k] /\ executors'[k] = executors[k]
    BY DEF EnterRun, TypeOK, TaskTypes
  <2>4. executors'[j] = e
    BY DEF EnterRun, TypeOK, TaskTypes
  <2>5. serving' = serving \/ serving' = [serving EXCEPT ![e] = j]
    BY DEF EnterRun, WriteCommands
  <2>. QED
    <3>1. \A d \in Executors : serving'[d] = serving[d] \/ serving'[d] = j
      BY <2>5 DEF TypeOK, ProcTypes
    <3>2. \A k \in Jobs : task'[k] # "none" => state[k] # "none"
      BY <2>2, <2>3 DEF ServingInv
    <3>3. \A k \in Jobs : task'[k] \in {"spawning", "reading", "indexing", "raising"} =>
            executors'[k] \in Executors
      BY <2>3, <2>4 DEF ServingInv
    <3>. QED
      BY <2>1, <2>2, <3>1, <3>2, <3>3 DEF ServingInv
<1>8. ASSUME NEW j \in Jobs, ResidentDropped(j)
      PROVE  ServingInv'
  BY <1>8 DEF TypeOK, DiskTypes, TaskTypes, KillTypes, ProcTypes, ServingInv,
     ResidentDropped, Reap, diskVars, lockVars
<1>9. ASSUME NEW j \in Jobs, SpawnFails(j)
      PROVE  ServingInv'
  BY <1>9 DEF TypeOK, DiskTypes, TaskTypes, KillTypes, ProcTypes, ServingInv,
     SpawnFails, Fail, TaskEnds, procVars
<1>10. ASSUME NEW j \in Jobs, Spawn(j)
      PROVE  ServingInv'
  BY <1>10 DEF TypeOK, DiskTypes, TaskTypes, KillTypes, ProcTypes, ServingInv,
     Spawn, WriteCommands, diskVars, lockVars, killVars
<1>11. ASSUME NEW j \in Jobs, HandleRunning(j)
      PROVE  ServingInv'
  BY <1>11 DEF TypeOK, DiskTypes, TaskTypes, KillTypes, ProcTypes, ServingInv,
     HandleRunning, ReadEvent, lockVars, taskVars, killVars
<1>12. ASSUME NEW j \in Jobs, HandleError(j)
      PROVE  ServingInv'
  BY <1>12 DEF TypeOK, DiskTypes, TaskTypes, KillTypes, ProcTypes, ServingInv,
     HandleError, ReadEvent, Log, lockVars, taskVars, killVars
<1>13. ASSUME NEW j \in Jobs, HandleOutput(j)
      PROVE  ServingInv'
  BY <1>13 DEF TypeOK, DiskTypes, TaskTypes, KillTypes, ProcTypes, ServingInv,
     HandleOutput, ReadEvent, diskVars, lockVars, killVars
<1>14. ASSUME NEW j \in Jobs, HandleResident(j)
      PROVE  ServingInv'
  <2>1. CASE Finish(j, "exit0", TRUE)
    BY <1>14, <2>1 DEF ServingInv, TypeOK, DiskTypes, TaskTypes,
       HandleResident, ReadEvent, Finish, TaskEnds
  <2>2. CASE UNCHANGED <<diskVars, taskVars>>
    BY <1>14, <2>2 DEF ServingInv, HandleResident, ReadEvent, diskVars,
       taskVars
  <2>. QED
    BY <1>14, <2>1, <2>2 DEF HandleResident
<1>15. ASSUME NEW j \in Jobs, OutputIndexed(j)
      PROVE  ServingInv'
  BY <1>15 DEF TypeOK, DiskTypes, TaskTypes, KillTypes, ProcTypes, ServingInv,
     OutputIndexed, diskVars, lockVars, killVars, procVars
<1>16. ASSUME NEW j \in Jobs, OutputRejected(j)
      PROVE  ServingInv'
  BY <1>16 DEF TypeOK, DiskTypes, TaskTypes, KillTypes, ProcTypes, ServingInv,
     OutputRejected, diskVars, lockVars, procVars
<1>17. ASSUME NEW j \in Jobs, RunRaised(j)
      PROVE  ServingInv'
  BY <1>17 DEF TypeOK, DiskTypes, TaskTypes, KillTypes, ProcTypes, ServingInv,
     RunRaised, Reap, Fail, TaskEnds
<1>18. ASSUME NEW j \in Jobs, ReadAfterCancel(j)
      PROVE  ServingInv'
  BY <1>18 DEF TypeOK, DiskTypes, TaskTypes, KillTypes, ProcTypes, ServingInv,
     ReadAfterCancel, Fail, TaskEnds, procVars
<1>19. ASSUME NEW j \in Jobs, ReadEof(j)
      PROVE  ServingInv'
  BY <1>19 DEF TypeOK, DiskTypes, TaskTypes, KillTypes, ProcTypes, ServingInv,
     ReadEof, Reap, Finish, TaskEnds, Abandoned, killVars
<1>20. ASSUME NEW e \in Executors, WorkerProbe(e)
      PROVE  ServingInv'
  BY <1>20 DEF TypeOK, DiskTypes, TaskTypes, KillTypes, ProcTypes, ServingInv,
     WorkerProbe, Goto, Emit, Event, diskVars, lockVars, taskVars, killVars,
     agentVars
<1>21. ASSUME NEW e \in Executors, WorkerLoad(e)
      PROVE  ServingInv'
  BY <1>21 DEF TypeOK, DiskTypes, TaskTypes, KillTypes, ProcTypes, ServingInv,
     WorkerLoad, Goto, Emit, Event, Exit, diskVars, lockVars, taskVars,
     killVars, agentVars
<1>22. ASSUME NEW e \in Executors, WorkerBegin(e)
      PROVE  ServingInv'
  BY <1>22 DEF TypeOK, DiskTypes, TaskTypes, KillTypes, ProcTypes, ServingInv,
     WorkerBegin, Goto, Emit, Event, diskVars, lockVars, taskVars, killVars,
     agentVars
<1>23. ASSUME NEW e \in Executors, WorkerDone(e)
      PROVE  ServingInv'
  BY <1>23 DEF TypeOK, DiskTypes, TaskTypes, KillTypes, ProcTypes, ServingInv,
     WorkerDone, Goto, Emit, EmitFinal, Event, Exit, diskVars, lockVars,
     taskVars, killVars, agentVars
<1>24. ASSUME NEW e \in Executors, WorkerError(e)
      PROVE  ServingInv'
  BY <1>24 DEF TypeOK, DiskTypes, TaskTypes, KillTypes, ProcTypes, ServingInv,
     WorkerError, Goto, Emit, Event, Exit, diskVars, lockVars, taskVars,
     killVars, agentVars
<1>25. ASSUME NEW e \in Executors, WorkerStdinEof(e)
      PROVE  ServingInv'
  BY <1>25 DEF TypeOK, DiskTypes, TaskTypes, KillTypes, ProcTypes, ServingInv,
     WorkerStdinEof, Exit, diskVars, lockVars, taskVars, killVars, agentVars
<1>26. ASSUME NEW e \in Executors, WorkerProgress(e)
      PROVE  ServingInv'
  BY <1>26 DEF TypeOK, DiskTypes, TaskTypes, KillTypes, ProcTypes, ServingInv,
     WorkerProgress, Emit, Event, diskVars, lockVars, taskVars, killVars,
     agentVars
<1>27. ASSUME NEW e \in Executors, WorkerKilled(e)
      PROVE  ServingInv'
  BY <1>27 DEF TypeOK, DiskTypes, TaskTypes, KillTypes, ProcTypes, ServingInv,
     WorkerKilled, Exit, diskVars, lockVars, taskVars, killVars, agentVars
<1>28. ASSUME Close
      PROVE  ServingInv'
  BY <1>28 DEF TypeOK, DiskTypes, TaskTypes, KillTypes, ProcTypes, ServingInv,
     Close, lockVars, procVars, adminFrame
<1>29. ASSUME CloseGathers
      PROVE  ServingInv'
  BY <1>29 DEF TypeOK, DiskTypes, TaskTypes, KillTypes, ProcTypes, ServingInv,
     CloseGathers, Reap, lockVars, adminFrame
<1>30. ASSUME Release
      PROVE  ServingInv'
  BY <1>30 DEF TypeOK, DiskTypes, TaskTypes, KillTypes, ProcTypes, ServingInv,
     Release, lockVars, procVars, adminFrame
<1>31. ASSUME NEW j \in Jobs, ReleaseCancels(j)
      PROVE  ServingInv'
  <2>1. task' = task /\ executors' = executors /\ request' = request
        /\ proc' = proc /\ serving' = serving
    BY <1>31 DEF ReleaseCancels, adminFrame, procVars
  <2>2. state[j] # "none"
    BY <1>31 DEF ReleaseCancels, ServingInv, TodoInv
  <2>3. state' = state \/ state' = [state EXCEPT ![j] = "cancelled"]
    BY <1>31 DEF ReleaseCancels, MarkCancelled
  <2>. QED
    BY <2>1, <2>2, <2>3 DEF ServingInv, TypeOK, DiskTypes
<1>32. ASSUME ReleaseCancelReturns
      PROVE  ServingInv'
  BY <1>32 DEF TypeOK, DiskTypes, TaskTypes, KillTypes, ProcTypes, ServingInv,
     ReleaseCancelReturns, Reap, Log, lockVars, adminFrame
<1>33. ASSUME ReleaseGathers
      PROVE  ServingInv'
  BY <1>33 DEF TypeOK, DiskTypes, TaskTypes, KillTypes, ProcTypes, ServingInv,
     ReleaseGathers, lockVars, procVars, adminFrame
<1>34. ASSUME AdminAwaitsLock
      PROVE  ServingInv'
  BY <1>34 DEF TypeOK, DiskTypes, TaskTypes, KillTypes, ProcTypes, ServingInv,
     AdminAwaitsLock, procVars, adminFrame
<1>35. ASSUME AdminDropsResident
      PROVE  ServingInv'
  BY <1>35 DEF TypeOK, DiskTypes, TaskTypes, KillTypes, ProcTypes, ServingInv,
     AdminDropsResident, AdminReturns, Stoppable, procVars, adminFrame
<1>36. ASSUME AdminDropped
      PROVE  ServingInv'
  BY <1>36 DEF TypeOK, DiskTypes, TaskTypes, KillTypes, ProcTypes, ServingInv,
     AdminDropped, AdminReturns, Reap, adminFrame
<1>37. ASSUME AgentRestart
      PROVE  ServingInv'
  BY <1>37 DEF TypeOK, DiskTypes, TaskTypes, KillTypes, ProcTypes, ServingInv,
     AgentRestart, Recovered
<1>38. CASE UNCHANGED vars
  BY <1>38 DEF TypeOK, DiskTypes, TaskTypes, KillTypes, ProcTypes, ServingInv,
     vars, diskVars, lockVars, taskVars, killVars, procVars
<1>39. QED
  BY <1>1, <1>2, <1>3, <1>4, <1>5, <1>6, <1>7, <1>8, <1>9, <1>10, <1>11,
     <1>12, <1>13, <1>14, <1>15, <1>16, <1>17, <1>18, <1>19, <1>20, <1>21,
     <1>22, <1>23, <1>24, <1>25, <1>26, <1>27, <1>28, <1>29, <1>30, <1>31,
     <1>32, <1>33, <1>34, <1>35, <1>36, <1>37, <1>38 DEF Next, TaskStep,
     WorkerStep, AdminStep

(* Every step keeps the worker lock with one holder.                       *)
LEMMA LockStep ==
  ASSUME TypeOK, LockInv, [Next]_vars
  PROVE  LockInv'
<1> USE RequestsAssumption, NamesAssumption, BoundsAssumption DEF Executors, Phases, Holding, ActiveStates, FinalStates
<1>1. ASSUME NEW j \in Jobs, NEW c \in Commands, NEW r \in Requests,
             Submit(j, c, r)
      PROVE  LockInv'
  BY <1>1 DEF TypeOK, TaskTypes, KillTypes, AdminRecords, IdleAdmin, LockInv,
     Submit, FindCommand, killVars, procVars
<1>2. ASSUME NEW j \in Jobs, Cancel(j)
      PROVE  LockInv'
  BY <1>2 DEF TypeOK, TaskTypes, KillTypes, AdminRecords, IdleAdmin, LockInv,
     Cancel, MarkCancelled, Log, Finished, Stoppable, lockVars
<1>3. ASSUME NEW j \in Jobs, CancelReturns(j)
      PROVE  LockInv'
  BY <1>3 DEF TypeOK, TaskTypes, KillTypes, AdminRecords, IdleAdmin, LockInv,
     CancelReturns, Reap, Log, lockVars, taskVars
<1>4. ASSUME NEW j \in Jobs, RunJobStart(j)
      PROVE  LockInv'
  BY <1>4 DEF TypeOK, TaskTypes, KillTypes, AdminRecords, IdleAdmin, LockInv,
     RunJobStart, TaskEnds, killVars, procVars
<1>5. ASSUME NEW j \in Jobs, PayloadFails(j)
      PROVE  LockInv'
  BY <1>5 DEF TypeOK, TaskTypes, KillTypes, AdminRecords, IdleAdmin, LockInv,
     PayloadFails, Fail, TaskEnds, procVars
<1>6. ASSUME NEW j \in Jobs, DropResident(j)
      PROVE  LockInv'
  BY <1>6 DEF TypeOK, TaskTypes, KillTypes, AdminRecords, IdleAdmin, LockInv,
     DropResident, MustDropResident, Stoppable, diskVars, lockVars, procVars
<1>7. ASSUME NEW j \in Jobs, UseExecutor(j)
      PROVE  LockInv'
  BY <1>7 DEF TypeOK, TaskTypes, KillTypes, AdminRecords, IdleAdmin, LockInv,
     UseExecutor, EnterRun, WriteCommands, MustDropResident, Stoppable,
     diskVars, lockVars, killVars
<1>8. ASSUME NEW j \in Jobs, ResidentDropped(j)
      PROVE  LockInv'
  BY <1>8 DEF TypeOK, TaskTypes, KillTypes, AdminRecords, IdleAdmin, LockInv,
     ResidentDropped, Reap, diskVars, lockVars
<1>9. ASSUME NEW j \in Jobs, SpawnFails(j)
      PROVE  LockInv'
  BY <1>9 DEF TypeOK, TaskTypes, KillTypes, AdminRecords, IdleAdmin, LockInv,
     SpawnFails, Fail, TaskEnds, procVars
<1>10. ASSUME NEW j \in Jobs, Spawn(j)
      PROVE  LockInv'
  BY <1>10 DEF TypeOK, TaskTypes, KillTypes, AdminRecords, IdleAdmin, LockInv,
     Spawn, WriteCommands, diskVars, lockVars, killVars
<1>11. ASSUME NEW j \in Jobs, HandleRunning(j)
      PROVE  LockInv'
  BY <1>11 DEF TypeOK, TaskTypes, KillTypes, AdminRecords, IdleAdmin, LockInv,
     HandleRunning, ReadEvent, lockVars, taskVars, killVars
<1>12. ASSUME NEW j \in Jobs, HandleError(j)
      PROVE  LockInv'
  BY <1>12 DEF TypeOK, TaskTypes, KillTypes, AdminRecords, IdleAdmin, LockInv,
     HandleError, ReadEvent, Log, lockVars, taskVars, killVars
<1>13. ASSUME NEW j \in Jobs, HandleOutput(j)
      PROVE  LockInv'
  BY <1>13 DEF TypeOK, TaskTypes, KillTypes, AdminRecords, IdleAdmin, LockInv,
     HandleOutput, ReadEvent, diskVars, lockVars, killVars
<1>14. ASSUME NEW j \in Jobs, HandleResident(j)
      PROVE  LockInv'
  BY <1>14 DEF TypeOK, TaskTypes, KillTypes, AdminRecords, IdleAdmin, LockInv,
     HandleResident, ReadEvent, Finish, TaskEnds, Abandoned, diskVars,
     lockVars, taskVars, killVars
<1>15. ASSUME NEW j \in Jobs, OutputIndexed(j)
      PROVE  LockInv'
  BY <1>15 DEF TypeOK, TaskTypes, KillTypes, AdminRecords, IdleAdmin, LockInv,
     OutputIndexed, diskVars, lockVars, killVars, procVars
<1>16. ASSUME NEW j \in Jobs, OutputRejected(j)
      PROVE  LockInv'
  BY <1>16 DEF TypeOK, TaskTypes, KillTypes, AdminRecords, IdleAdmin, LockInv,
     OutputRejected, diskVars, lockVars, procVars
<1>17. ASSUME NEW j \in Jobs, RunRaised(j)
      PROVE  LockInv'
  BY <1>17 DEF TypeOK, TaskTypes, KillTypes, AdminRecords, IdleAdmin, LockInv,
     RunRaised, Reap, Fail, TaskEnds
<1>18. ASSUME NEW j \in Jobs, ReadAfterCancel(j)
      PROVE  LockInv'
  BY <1>18 DEF TypeOK, TaskTypes, KillTypes, AdminRecords, IdleAdmin, LockInv,
     ReadAfterCancel, Fail, TaskEnds, procVars
<1>19. ASSUME NEW j \in Jobs, ReadEof(j)
      PROVE  LockInv'
  BY <1>19 DEF TypeOK, TaskTypes, LockInv, ReadEof, Finish, TaskEnds, killVars
<1>20. ASSUME NEW e \in Executors, WorkerProbe(e)
      PROVE  LockInv'
  BY <1>20 DEF TypeOK, TaskTypes, KillTypes, AdminRecords, IdleAdmin, LockInv,
     WorkerProbe, Goto, Emit, Event, diskVars, lockVars, taskVars, killVars,
     agentVars
<1>21. ASSUME NEW e \in Executors, WorkerLoad(e)
      PROVE  LockInv'
  BY <1>21 DEF TypeOK, TaskTypes, KillTypes, AdminRecords, IdleAdmin, LockInv,
     WorkerLoad, Goto, Emit, Event, Exit, diskVars, lockVars, taskVars,
     killVars, agentVars
<1>22. ASSUME NEW e \in Executors, WorkerBegin(e)
      PROVE  LockInv'
  BY <1>22 DEF TypeOK, TaskTypes, KillTypes, AdminRecords, IdleAdmin, LockInv,
     WorkerBegin, Goto, Emit, Event, diskVars, lockVars, taskVars, killVars,
     agentVars
<1>23. ASSUME NEW e \in Executors, WorkerDone(e)
      PROVE  LockInv'
  BY <1>23 DEF TypeOK, TaskTypes, KillTypes, AdminRecords, IdleAdmin, LockInv,
     WorkerDone, Goto, Emit, EmitFinal, Event, Exit, diskVars, lockVars,
     taskVars, killVars, agentVars
<1>24. ASSUME NEW e \in Executors, WorkerError(e)
      PROVE  LockInv'
  BY <1>24 DEF TypeOK, TaskTypes, KillTypes, AdminRecords, IdleAdmin, LockInv,
     WorkerError, Goto, Emit, Event, Exit, diskVars, lockVars, taskVars,
     killVars, agentVars
<1>25. ASSUME NEW e \in Executors, WorkerStdinEof(e)
      PROVE  LockInv'
  BY <1>25 DEF TypeOK, TaskTypes, KillTypes, AdminRecords, IdleAdmin, LockInv,
     WorkerStdinEof, Exit, diskVars, lockVars, taskVars, killVars, agentVars
<1>26. ASSUME NEW e \in Executors, WorkerProgress(e)
      PROVE  LockInv'
  BY <1>26 DEF TypeOK, TaskTypes, KillTypes, AdminRecords, IdleAdmin, LockInv,
     WorkerProgress, Emit, Event, diskVars, lockVars, taskVars, killVars,
     agentVars
<1>27. ASSUME NEW e \in Executors, WorkerKilled(e)
      PROVE  LockInv'
  BY <1>27 DEF TypeOK, TaskTypes, KillTypes, AdminRecords, IdleAdmin, LockInv,
     WorkerKilled, Exit, diskVars, lockVars, taskVars, killVars, agentVars
<1>28. ASSUME Close
      PROVE  LockInv'
  <2>1. admin'.phase # "dropping"
    BY <1>28 DEF Close, IdleAdmin
  <2>. QED
    BY <1>28, <2>1 DEF LockInv, Close, adminFrame, lockVars
<1>29. ASSUME CloseGathers
      PROVE  LockInv'
  BY <1>29 DEF TypeOK, TaskTypes, KillTypes, AdminRecords, IdleAdmin, LockInv,
     CloseGathers, Reap, lockVars, adminFrame
<1>30. ASSUME Release
      PROVE  LockInv'
  BY <1>30 DEF TypeOK, TaskTypes, KillTypes, AdminRecords, IdleAdmin, LockInv,
     Release, lockVars, procVars, adminFrame
<1>31. ASSUME NEW j \in Jobs, ReleaseCancels(j)
      PROVE  LockInv'
  <2>1. admin \in AdminRecords
    BY DEF TypeOK, KillTypes
  <2>2. \/ admin' = [admin EXCEPT !.todo = @ \ {j}]
        \/ admin' = [admin EXCEPT !.job = j, !.kill = executors[j]]
    BY <1>31 DEF ReleaseCancels
  <2>3. admin'.phase = admin.phase
    BY <2>1, <2>2 DEF AdminRecords
  <2>. QED
    BY <1>31, <2>3 DEF LockInv, ReleaseCancels, adminFrame, lockVars
<1>32. ASSUME ReleaseCancelReturns
      PROVE  LockInv'
  BY <1>32 DEF TypeOK, TaskTypes, KillTypes, AdminRecords, IdleAdmin, LockInv,
     ReleaseCancelReturns, Reap, Log, lockVars, adminFrame
<1>33. ASSUME ReleaseGathers
      PROVE  LockInv'
  BY <1>33 DEF TypeOK, TaskTypes, KillTypes, AdminRecords, IdleAdmin, LockInv,
     ReleaseGathers, lockVars, procVars, adminFrame
<1>34. ASSUME AdminAwaitsLock
      PROVE  LockInv'
  BY <1>34 DEF TypeOK, TaskTypes, KillTypes, AdminRecords, IdleAdmin, LockInv,
     AdminAwaitsLock, procVars, adminFrame
<1>35. ASSUME AdminDropsResident
      PROVE  LockInv'
  <2>1. \A k \in Jobs : task[k] \notin Holding
    BY <1>35 DEF AdminDropsResident, LockInv
  <2>2. CASE holder' = Admin
    BY <1>35, <2>1, <2>2 DEF LockInv, AdminDropsResident, adminFrame
  <2>3. CASE admin' = IdleAdmin
    BY <1>35, <2>1, <2>3 DEF LockInv, IdleAdmin, AdminDropsResident,
       adminFrame
  <2>. QED
    BY <1>35, <2>2, <2>3 DEF AdminDropsResident, AdminReturns
<1>36. ASSUME AdminDropped
      PROVE  LockInv'
  BY <1>36 DEF TypeOK, TaskTypes, KillTypes, AdminRecords, IdleAdmin, LockInv,
     AdminDropped, AdminReturns, Reap, adminFrame
<1>37. ASSUME AgentRestart
      PROVE  LockInv'
  BY <1>37 DEF TypeOK, TaskTypes, KillTypes, AdminRecords, IdleAdmin, LockInv,
     AgentRestart, Recovered
<1>38. CASE UNCHANGED vars
  BY <1>38 DEF TypeOK, TaskTypes, KillTypes, AdminRecords, IdleAdmin, LockInv,
     vars, diskVars, lockVars, taskVars, killVars, procVars
<1>39. QED
  BY <1>1, <1>2, <1>3, <1>4, <1>5, <1>6, <1>7, <1>8, <1>9, <1>10, <1>11,
     <1>12, <1>13, <1>14, <1>15, <1>16, <1>17, <1>18, <1>19, <1>20, <1>21,
     <1>22, <1>23, <1>24, <1>25, <1>26, <1>27, <1>28, <1>29, <1>30, <1>31,
     <1>32, <1>33, <1>34, <1>35, <1>36, <1>37, <1>38 DEF Next, TaskStep,
     WorkerStep, AdminStep

(* Every step registers an executor for the holder of the lock only.       *)
LEMMA RegisterStep ==
  ASSUME TypeOK, ServingInv, RegisterInv, [Next]_vars
  PROVE  RegisterInv'
<1> USE RequestsAssumption, NamesAssumption, BoundsAssumption DEF Executors, Phases, Holding, ActiveStates, FinalStates
<1>1. ASSUME NEW j \in Jobs, NEW c \in Commands, NEW r \in Requests,
             Submit(j, c, r)
      PROVE  RegisterInv'
  BY <1>1 DEF TypeOK, TaskTypes, ServingInv, RegisterInv, Submit
<1>2. ASSUME NEW j \in Jobs, Cancel(j)
      PROVE  RegisterInv'
  BY <1>2 DEF TypeOK, TaskTypes, RegisterInv, Cancel, MarkCancelled, Log,
     Finished, Stoppable, lockVars
<1>3. ASSUME NEW j \in Jobs, CancelReturns(j)
      PROVE  RegisterInv'
  BY <1>3 DEF TypeOK, TaskTypes, RegisterInv, CancelReturns, Reap, Log,
     lockVars, taskVars
<1>4. ASSUME NEW j \in Jobs, RunJobStart(j)
      PROVE  RegisterInv'
  <2>1. \A k \in Jobs : executors'[k] # None => executors[k] # None /\ k # j
    BY <1>4 DEF TypeOK, TaskTypes, RegisterInv, RunJobStart, TaskEnds
  <2>2. \A k \in Jobs : k # j => task'[k] = task[k]
    BY <1>4 DEF TypeOK, TaskTypes, RunJobStart, TaskEnds
  <2>. QED
    BY <2>1, <2>2 DEF RegisterInv
<1>5. ASSUME NEW j \in Jobs, PayloadFails(j)
      PROVE  RegisterInv'
  BY <1>5 DEF TypeOK, TaskTypes, RegisterInv, PayloadFails, Fail, TaskEnds,
     procVars
<1>6. ASSUME NEW j \in Jobs, DropResident(j)
      PROVE  RegisterInv'
  BY <1>6 DEF TypeOK, TaskTypes, RegisterInv, DropResident, MustDropResident,
     Stoppable, diskVars, lockVars, procVars
<1>7. ASSUME NEW j \in Jobs, UseExecutor(j)
      PROVE  RegisterInv'
  BY <1>7 DEF TypeOK, TaskTypes, RegisterInv, UseExecutor, EnterRun,
     WriteCommands, MustDropResident, Stoppable, diskVars, lockVars, killVars
<1>8. ASSUME NEW j \in Jobs, ResidentDropped(j)
      PROVE  RegisterInv'
  BY <1>8 DEF TypeOK, TaskTypes, RegisterInv, ResidentDropped, Reap, diskVars,
     lockVars
<1>9. ASSUME NEW j \in Jobs, SpawnFails(j)
      PROVE  RegisterInv'
  BY <1>9 DEF TypeOK, TaskTypes, RegisterInv, SpawnFails, Fail, TaskEnds,
     procVars
<1>10. ASSUME NEW j \in Jobs, Spawn(j)
      PROVE  RegisterInv'
  BY <1>10 DEF TypeOK, TaskTypes, RegisterInv, Spawn, WriteCommands, diskVars,
     lockVars, killVars
<1>11. ASSUME NEW j \in Jobs, HandleRunning(j)
      PROVE  RegisterInv'
  BY <1>11 DEF TypeOK, TaskTypes, RegisterInv, HandleRunning, ReadEvent,
     lockVars, taskVars, killVars
<1>12. ASSUME NEW j \in Jobs, HandleError(j)
      PROVE  RegisterInv'
  BY <1>12 DEF TypeOK, TaskTypes, RegisterInv, HandleError, ReadEvent, Log,
     lockVars, taskVars, killVars
<1>13. ASSUME NEW j \in Jobs, HandleOutput(j)
      PROVE  RegisterInv'
  BY <1>13 DEF TypeOK, TaskTypes, RegisterInv, HandleOutput, ReadEvent,
     diskVars, lockVars, killVars
<1>14. ASSUME NEW j \in Jobs, HandleResident(j)
      PROVE  RegisterInv'
  BY <1>14 DEF TypeOK, TaskTypes, RegisterInv, HandleResident, ReadEvent,
     Finish, TaskEnds, Abandoned, diskVars, lockVars, taskVars, killVars
<1>15. ASSUME NEW j \in Jobs, OutputIndexed(j)
      PROVE  RegisterInv'
  BY <1>15 DEF TypeOK, TaskTypes, RegisterInv, OutputIndexed, diskVars,
     lockVars, killVars, procVars
<1>16. ASSUME NEW j \in Jobs, OutputRejected(j)
      PROVE  RegisterInv'
  BY <1>16 DEF TypeOK, TaskTypes, RegisterInv, OutputRejected, diskVars,
     lockVars, procVars
<1>17. ASSUME NEW j \in Jobs, RunRaised(j)
      PROVE  RegisterInv'
  BY <1>17 DEF TypeOK, TaskTypes, RegisterInv, RunRaised, Reap, Fail, TaskEnds
<1>18. ASSUME NEW j \in Jobs, ReadAfterCancel(j)
      PROVE  RegisterInv'
  BY <1>18 DEF TypeOK, TaskTypes, RegisterInv, ReadAfterCancel, Fail,
     TaskEnds, procVars
<1>19. ASSUME NEW j \in Jobs, ReadEof(j)
      PROVE  RegisterInv'
  BY <1>19 DEF TypeOK, TaskTypes, RegisterInv, ReadEof, Reap, Finish,
     TaskEnds, Abandoned, killVars
<1>20. ASSUME NEW e \in Executors, WorkerProbe(e)
      PROVE  RegisterInv'
  BY <1>20 DEF TypeOK, TaskTypes, RegisterInv, WorkerProbe, Goto, Emit, Event,
     diskVars, lockVars, taskVars, killVars, agentVars
<1>21. ASSUME NEW e \in Executors, WorkerLoad(e)
      PROVE  RegisterInv'
  BY <1>21 DEF TypeOK, TaskTypes, RegisterInv, WorkerLoad, Goto, Emit, Event,
     Exit, diskVars, lockVars, taskVars, killVars, agentVars
<1>22. ASSUME NEW e \in Executors, WorkerBegin(e)
      PROVE  RegisterInv'
  BY <1>22 DEF TypeOK, TaskTypes, RegisterInv, WorkerBegin, Goto, Emit, Event,
     diskVars, lockVars, taskVars, killVars, agentVars
<1>23. ASSUME NEW e \in Executors, WorkerDone(e)
      PROVE  RegisterInv'
  BY <1>23 DEF TypeOK, TaskTypes, RegisterInv, WorkerDone, Goto, Emit,
     EmitFinal, Event, Exit, diskVars, lockVars, taskVars, killVars, agentVars
<1>24. ASSUME NEW e \in Executors, WorkerError(e)
      PROVE  RegisterInv'
  BY <1>24 DEF TypeOK, TaskTypes, RegisterInv, WorkerError, Goto, Emit, Event,
     Exit, diskVars, lockVars, taskVars, killVars, agentVars
<1>25. ASSUME NEW e \in Executors, WorkerStdinEof(e)
      PROVE  RegisterInv'
  BY <1>25 DEF TypeOK, TaskTypes, RegisterInv, WorkerStdinEof, Exit, diskVars,
     lockVars, taskVars, killVars, agentVars
<1>26. ASSUME NEW e \in Executors, WorkerProgress(e)
      PROVE  RegisterInv'
  BY <1>26 DEF TypeOK, TaskTypes, RegisterInv, WorkerProgress, Emit, Event,
     diskVars, lockVars, taskVars, killVars, agentVars
<1>27. ASSUME NEW e \in Executors, WorkerKilled(e)
      PROVE  RegisterInv'
  BY <1>27 DEF TypeOK, TaskTypes, RegisterInv, WorkerKilled, Exit, diskVars,
     lockVars, taskVars, killVars, agentVars
<1>28. ASSUME Close
      PROVE  RegisterInv'
  BY <1>28 DEF TypeOK, TaskTypes, RegisterInv, Close, lockVars, procVars,
     adminFrame
<1>29. ASSUME CloseGathers
      PROVE  RegisterInv'
  BY <1>29 DEF TypeOK, TaskTypes, RegisterInv, CloseGathers, Reap, lockVars,
     adminFrame
<1>30. ASSUME Release
      PROVE  RegisterInv'
  BY <1>30 DEF TypeOK, TaskTypes, RegisterInv, Release, lockVars, procVars,
     adminFrame
<1>31. ASSUME NEW j \in Jobs, ReleaseCancels(j)
      PROVE  RegisterInv'
  BY <1>31 DEF TypeOK, TaskTypes, RegisterInv, ReleaseCancels, MarkCancelled,
     Log, Finished, Stoppable, lockVars, procVars, adminFrame
<1>32. ASSUME ReleaseCancelReturns
      PROVE  RegisterInv'
  BY <1>32 DEF TypeOK, TaskTypes, RegisterInv, ReleaseCancelReturns, Reap,
     Log, lockVars, adminFrame
<1>33. ASSUME ReleaseGathers
      PROVE  RegisterInv'
  BY <1>33 DEF TypeOK, TaskTypes, RegisterInv, ReleaseGathers, lockVars,
     procVars, adminFrame
<1>34. ASSUME AdminAwaitsLock
      PROVE  RegisterInv'
  BY <1>34 DEF TypeOK, TaskTypes, RegisterInv, AdminAwaitsLock, procVars,
     adminFrame
<1>35. ASSUME AdminDropsResident
      PROVE  RegisterInv'
  BY <1>35 DEF TypeOK, TaskTypes, RegisterInv, AdminDropsResident,
     AdminReturns, Stoppable, procVars, adminFrame
<1>36. ASSUME AdminDropped
      PROVE  RegisterInv'
  BY <1>36 DEF TypeOK, TaskTypes, RegisterInv, AdminDropped, AdminReturns,
     Reap, adminFrame
<1>37. ASSUME AgentRestart
      PROVE  RegisterInv'
  BY <1>37 DEF TypeOK, TaskTypes, RegisterInv, AgentRestart, Recovered
<1>38. CASE UNCHANGED vars
  BY <1>38 DEF TypeOK, TaskTypes, RegisterInv, vars, diskVars, lockVars,
     taskVars, killVars, procVars
<1>39. QED
  BY <1>1, <1>2, <1>3, <1>4, <1>5, <1>6, <1>7, <1>8, <1>9, <1>10, <1>11,
     <1>12, <1>13, <1>14, <1>15, <1>16, <1>17, <1>18, <1>19, <1>20, <1>21,
     <1>22, <1>23, <1>24, <1>25, <1>26, <1>27, <1>28, <1>29, <1>30, <1>31,
     <1>32, <1>33, <1>34, <1>35, <1>36, <1>37, <1>38 DEF Next, TaskStep,
     WorkerStep, AdminStep

(* A step that gives a job its result ends its task.                       *)
LEMMA LiveStep ==
  ASSUME TypeOK, LiveInv, [Next]_vars
  PROVE  LiveInv'
<1> USE RequestsAssumption, NamesAssumption, BoundsAssumption DEF Executors, Phases, Holding, ActiveStates, FinalStates
<1>1. ASSUME NEW j \in Jobs, NEW c \in Commands, NEW r \in Requests,
             Submit(j, c, r)
      PROVE  LiveInv'
  BY <1>1 DEF TypeOK, TaskTypes, DiskTypes, LiveInv, Submit, FindCommand,
     killVars, procVars
<1>2. ASSUME NEW j \in Jobs, Cancel(j)
      PROVE  LiveInv'
  BY <1>2 DEF TypeOK, TaskTypes, DiskTypes, LiveInv, Cancel, MarkCancelled,
     Log, Finished, Stoppable, lockVars
<1>3. ASSUME NEW j \in Jobs, CancelReturns(j)
      PROVE  LiveInv'
  BY <1>3 DEF TypeOK, TaskTypes, DiskTypes, LiveInv, CancelReturns, Reap, Log,
     lockVars, taskVars
<1>4. ASSUME NEW j \in Jobs, RunJobStart(j)
      PROVE  LiveInv'
  BY <1>4 DEF TypeOK, TaskTypes, DiskTypes, LiveInv, RunJobStart, TaskEnds,
     killVars, procVars
<1>5. ASSUME NEW j \in Jobs, PayloadFails(j)
      PROVE  LiveInv'
  BY <1>5 DEF TypeOK, TaskTypes, DiskTypes, LiveInv, PayloadFails, Fail,
     TaskEnds, procVars
<1>6. ASSUME NEW j \in Jobs, DropResident(j)
      PROVE  LiveInv'
  BY <1>6 DEF TypeOK, TaskTypes, DiskTypes, LiveInv, DropResident,
     MustDropResident, Stoppable, diskVars, lockVars, procVars
<1>7. ASSUME NEW j \in Jobs, UseExecutor(j)
      PROVE  LiveInv'
  BY <1>7 DEF TypeOK, TaskTypes, DiskTypes, LiveInv, UseExecutor, EnterRun,
     WriteCommands, MustDropResident, Stoppable, diskVars, lockVars, killVars
<1>8. ASSUME NEW j \in Jobs, ResidentDropped(j)
      PROVE  LiveInv'
  BY <1>8 DEF TypeOK, TaskTypes, DiskTypes, LiveInv, ResidentDropped, Reap,
     diskVars, lockVars
<1>9. ASSUME NEW j \in Jobs, SpawnFails(j)
      PROVE  LiveInv'
  BY <1>9 DEF TypeOK, TaskTypes, DiskTypes, LiveInv, SpawnFails, Fail,
     TaskEnds, procVars
<1>10. ASSUME NEW j \in Jobs, Spawn(j)
      PROVE  LiveInv'
  BY <1>10 DEF TypeOK, TaskTypes, DiskTypes, LiveInv, Spawn, WriteCommands,
     diskVars, lockVars, killVars
<1>11. ASSUME NEW j \in Jobs, HandleRunning(j)
      PROVE  LiveInv'
  BY <1>11 DEF TypeOK, TaskTypes, DiskTypes, LiveInv, ReadEvent,
     HandleRunning, lockVars, taskVars, killVars
<1>12. ASSUME NEW j \in Jobs, HandleError(j)
      PROVE  LiveInv'
  BY <1>12 DEF TypeOK, TaskTypes, DiskTypes, LiveInv, ReadEvent, HandleError,
     Log, lockVars, taskVars, killVars
<1>13. ASSUME NEW j \in Jobs, HandleOutput(j)
      PROVE  LiveInv'
  BY <1>13 DEF TypeOK, TaskTypes, DiskTypes, LiveInv, ReadEvent, HandleOutput,
     diskVars, lockVars, killVars
<1>14. ASSUME NEW j \in Jobs, HandleResident(j)
      PROVE  LiveInv'
  BY <1>14 DEF TypeOK, TaskTypes, DiskTypes, LiveInv, ReadEvent,
     HandleResident, Finish, TaskEnds, Abandoned, diskVars, lockVars,
     taskVars, killVars
<1>15. ASSUME NEW j \in Jobs, OutputIndexed(j)
      PROVE  LiveInv'
  BY <1>15 DEF TypeOK, TaskTypes, DiskTypes, LiveInv, OutputIndexed, diskVars,
     lockVars, killVars, procVars
<1>16. ASSUME NEW j \in Jobs, OutputRejected(j)
      PROVE  LiveInv'
  BY <1>16 DEF TypeOK, TaskTypes, DiskTypes, LiveInv, OutputRejected,
     diskVars, lockVars, procVars
<1>17. ASSUME NEW j \in Jobs, RunRaised(j)
      PROVE  LiveInv'
  BY <1>17 DEF TypeOK, TaskTypes, DiskTypes, LiveInv, RunRaised, Reap, Fail,
     TaskEnds
<1>18. ASSUME NEW j \in Jobs, ReadAfterCancel(j)
      PROVE  LiveInv'
  BY <1>18 DEF TypeOK, TaskTypes, DiskTypes, LiveInv, ReadAfterCancel, Fail,
     TaskEnds, procVars
<1>19. ASSUME NEW j \in Jobs, ReadEof(j)
      PROVE  LiveInv'
  BY <1>19 DEF TypeOK, TaskTypes, DiskTypes, LiveInv, ReadEof, Reap, Finish,
     TaskEnds, Abandoned, killVars
<1>20. ASSUME NEW e \in Executors, WorkerProbe(e)
      PROVE  LiveInv'
  BY <1>20 DEF TypeOK, TaskTypes, DiskTypes, LiveInv, WorkerProbe, Goto, Emit,
     Event, diskVars, lockVars, taskVars, killVars, agentVars
<1>21. ASSUME NEW e \in Executors, WorkerLoad(e)
      PROVE  LiveInv'
  BY <1>21 DEF TypeOK, TaskTypes, DiskTypes, LiveInv, WorkerLoad, Goto, Emit,
     Event, Exit, diskVars, lockVars, taskVars, killVars, agentVars
<1>22. ASSUME NEW e \in Executors, WorkerBegin(e)
      PROVE  LiveInv'
  BY <1>22 DEF TypeOK, TaskTypes, DiskTypes, LiveInv, WorkerBegin, Goto, Emit,
     Event, diskVars, lockVars, taskVars, killVars, agentVars
<1>23. ASSUME NEW e \in Executors, WorkerDone(e)
      PROVE  LiveInv'
  BY <1>23 DEF TypeOK, TaskTypes, DiskTypes, LiveInv, WorkerDone, Goto, Emit,
     EmitFinal, Event, Exit, diskVars, lockVars, taskVars, killVars, agentVars
<1>24. ASSUME NEW e \in Executors, WorkerError(e)
      PROVE  LiveInv'
  BY <1>24 DEF TypeOK, TaskTypes, DiskTypes, LiveInv, WorkerError, Goto, Emit,
     Event, Exit, diskVars, lockVars, taskVars, killVars, agentVars
<1>25. ASSUME NEW e \in Executors, WorkerStdinEof(e)
      PROVE  LiveInv'
  BY <1>25 DEF TypeOK, TaskTypes, DiskTypes, LiveInv, WorkerStdinEof, Exit,
     diskVars, lockVars, taskVars, killVars, agentVars
<1>26. ASSUME NEW e \in Executors, WorkerProgress(e)
      PROVE  LiveInv'
  BY <1>26 DEF TypeOK, TaskTypes, DiskTypes, LiveInv, WorkerProgress, Emit,
     Event, diskVars, lockVars, taskVars, killVars, agentVars
<1>27. ASSUME NEW e \in Executors, WorkerKilled(e)
      PROVE  LiveInv'
  BY <1>27 DEF TypeOK, TaskTypes, DiskTypes, LiveInv, WorkerKilled, Exit,
     diskVars, lockVars, taskVars, killVars, agentVars
<1>28. ASSUME Close
      PROVE  LiveInv'
  BY <1>28 DEF TypeOK, TaskTypes, DiskTypes, LiveInv, Close, lockVars,
     procVars, adminFrame
<1>29. ASSUME CloseGathers
      PROVE  LiveInv'
  BY <1>29 DEF TypeOK, TaskTypes, DiskTypes, LiveInv, CloseGathers, Reap,
     lockVars, adminFrame
<1>30. ASSUME Release
      PROVE  LiveInv'
  BY <1>30 DEF TypeOK, TaskTypes, DiskTypes, LiveInv, Release, lockVars,
     procVars, adminFrame
<1>31. ASSUME NEW j \in Jobs, ReleaseCancels(j)
      PROVE  LiveInv'
  BY <1>31 DEF TypeOK, TaskTypes, DiskTypes, LiveInv, ReleaseCancels,
     MarkCancelled, Log, Finished, Stoppable, lockVars, procVars, adminFrame
<1>32. ASSUME ReleaseCancelReturns
      PROVE  LiveInv'
  BY <1>32 DEF TypeOK, TaskTypes, DiskTypes, LiveInv, ReleaseCancelReturns,
     Reap, Log, lockVars, adminFrame
<1>33. ASSUME ReleaseGathers
      PROVE  LiveInv'
  BY <1>33 DEF TypeOK, TaskTypes, DiskTypes, LiveInv, ReleaseGathers,
     lockVars, procVars, adminFrame
<1>34. ASSUME AdminAwaitsLock
      PROVE  LiveInv'
  BY <1>34 DEF TypeOK, TaskTypes, DiskTypes, LiveInv, AdminAwaitsLock,
     procVars, adminFrame
<1>35. ASSUME AdminDropsResident
      PROVE  LiveInv'
  BY <1>35 DEF TypeOK, TaskTypes, DiskTypes, LiveInv, AdminDropsResident,
     AdminReturns, Stoppable, procVars, adminFrame
<1>36. ASSUME AdminDropped
      PROVE  LiveInv'
  BY <1>36 DEF TypeOK, TaskTypes, DiskTypes, LiveInv, AdminDropped,
     AdminReturns, Reap, adminFrame
<1>37. ASSUME AgentRestart
      PROVE  LiveInv'
  BY <1>37 DEF TypeOK, TaskTypes, DiskTypes, LiveInv, AgentRestart, Recovered
<1>38. CASE UNCHANGED vars
  BY <1>38 DEF TypeOK, TaskTypes, DiskTypes, LiveInv, vars, diskVars,
     lockVars, taskVars, killVars, procVars
<1>39. QED
  BY <1>1, <1>2, <1>3, <1>4, <1>5, <1>6, <1>7, <1>8, <1>9, <1>10, <1>11,
     <1>12, <1>13, <1>14, <1>15, <1>16, <1>17, <1>18, <1>19, <1>20, <1>21,
     <1>22, <1>23, <1>24, <1>25, <1>26, <1>27, <1>28, <1>29, <1>30, <1>31,
     <1>32, <1>33, <1>34, <1>35, <1>36, <1>37, <1>38 DEF Next, TaskStep,
     WorkerStep, AdminStep

(* A step gives no cancelled job a result, and cancels no job that has one. *)
LEMMA CancelledStep ==
  ASSUME TypeOK, LiveInv, CancelledNeverCompletes, [Next]_vars
  PROVE  CancelledNeverCompletes'
<1> USE RequestsAssumption, NamesAssumption, BoundsAssumption DEF Executors, Phases, Holding, ActiveStates, FinalStates
<1>1. ASSUME NEW j \in Jobs, NEW c \in Commands, NEW r \in Requests,
             Submit(j, c, r)
      PROVE  CancelledNeverCompletes'
  BY <1>1 DEF TypeOK, TaskTypes, DiskTypes, LiveInv, CancelledNeverCompletes,
     Submit, FindCommand, killVars, procVars
<1>2. ASSUME NEW j \in Jobs, Cancel(j)
      PROVE  CancelledNeverCompletes'
  BY <1>2 DEF TypeOK, TaskTypes, DiskTypes, LiveInv, CancelledNeverCompletes,
     Cancel, MarkCancelled, Log, Finished, Stoppable, lockVars
<1>3. ASSUME NEW j \in Jobs, CancelReturns(j)
      PROVE  CancelledNeverCompletes'
  BY <1>3 DEF TypeOK, TaskTypes, DiskTypes, LiveInv, CancelledNeverCompletes,
     CancelReturns, Reap, Log, lockVars, taskVars
<1>4. ASSUME NEW j \in Jobs, RunJobStart(j)
      PROVE  CancelledNeverCompletes'
  BY <1>4 DEF TypeOK, TaskTypes, DiskTypes, LiveInv, CancelledNeverCompletes,
     RunJobStart, TaskEnds, killVars, procVars
<1>5. ASSUME NEW j \in Jobs, PayloadFails(j)
      PROVE  CancelledNeverCompletes'
  BY <1>5 DEF TypeOK, TaskTypes, DiskTypes, LiveInv, CancelledNeverCompletes,
     PayloadFails, Fail, TaskEnds, procVars
<1>6. ASSUME NEW j \in Jobs, DropResident(j)
      PROVE  CancelledNeverCompletes'
  BY <1>6 DEF TypeOK, TaskTypes, DiskTypes, LiveInv, CancelledNeverCompletes,
     DropResident, MustDropResident, Stoppable, diskVars, lockVars, procVars
<1>7. ASSUME NEW j \in Jobs, UseExecutor(j)
      PROVE  CancelledNeverCompletes'
  BY <1>7 DEF TypeOK, TaskTypes, DiskTypes, LiveInv, CancelledNeverCompletes,
     UseExecutor, EnterRun, WriteCommands, MustDropResident, Stoppable,
     diskVars, lockVars, killVars
<1>8. ASSUME NEW j \in Jobs, ResidentDropped(j)
      PROVE  CancelledNeverCompletes'
  BY <1>8 DEF TypeOK, TaskTypes, DiskTypes, LiveInv, CancelledNeverCompletes,
     ResidentDropped, Reap, diskVars, lockVars
<1>9. ASSUME NEW j \in Jobs, SpawnFails(j)
      PROVE  CancelledNeverCompletes'
  BY <1>9 DEF TypeOK, TaskTypes, DiskTypes, LiveInv, CancelledNeverCompletes,
     SpawnFails, Fail, TaskEnds, procVars
<1>10. ASSUME NEW j \in Jobs, Spawn(j)
      PROVE  CancelledNeverCompletes'
  BY <1>10 DEF TypeOK, TaskTypes, DiskTypes, LiveInv, CancelledNeverCompletes,
     Spawn, WriteCommands, diskVars, lockVars, killVars
<1>11. ASSUME NEW j \in Jobs, HandleRunning(j)
      PROVE  CancelledNeverCompletes'
  BY <1>11 DEF TypeOK, TaskTypes, DiskTypes, LiveInv, ReadEvent,
     CancelledNeverCompletes, HandleRunning, lockVars, taskVars, killVars
<1>12. ASSUME NEW j \in Jobs, HandleError(j)
      PROVE  CancelledNeverCompletes'
  BY <1>12 DEF TypeOK, TaskTypes, DiskTypes, LiveInv, ReadEvent,
     CancelledNeverCompletes, HandleError, Log, lockVars, taskVars, killVars
<1>13. ASSUME NEW j \in Jobs, HandleOutput(j)
      PROVE  CancelledNeverCompletes'
  BY <1>13 DEF TypeOK, TaskTypes, DiskTypes, LiveInv, ReadEvent,
     CancelledNeverCompletes, HandleOutput, diskVars, lockVars, killVars
<1>14. ASSUME NEW j \in Jobs, HandleResident(j)
      PROVE  CancelledNeverCompletes'
  BY <1>14 DEF TypeOK, TaskTypes, DiskTypes, LiveInv, ReadEvent,
     CancelledNeverCompletes, HandleResident, Finish, TaskEnds, Abandoned,
     diskVars, lockVars, taskVars, killVars
<1>15. ASSUME NEW j \in Jobs, OutputIndexed(j)
      PROVE  CancelledNeverCompletes'
  BY <1>15 DEF TypeOK, TaskTypes, DiskTypes, LiveInv, CancelledNeverCompletes,
     OutputIndexed, diskVars, lockVars, killVars, procVars
<1>16. ASSUME NEW j \in Jobs, OutputRejected(j)
      PROVE  CancelledNeverCompletes'
  BY <1>16 DEF TypeOK, TaskTypes, DiskTypes, LiveInv, CancelledNeverCompletes,
     OutputRejected, diskVars, lockVars, procVars
<1>17. ASSUME NEW j \in Jobs, RunRaised(j)
      PROVE  CancelledNeverCompletes'
  BY <1>17 DEF TypeOK, TaskTypes, DiskTypes, LiveInv, CancelledNeverCompletes,
     RunRaised, Reap, Fail, TaskEnds
<1>18. ASSUME NEW j \in Jobs, ReadAfterCancel(j)
      PROVE  CancelledNeverCompletes'
  BY <1>18 DEF TypeOK, TaskTypes, DiskTypes, LiveInv, CancelledNeverCompletes,
     ReadAfterCancel, Fail, TaskEnds, procVars
<1>19. ASSUME NEW j \in Jobs, ReadEof(j)
      PROVE  CancelledNeverCompletes'
  BY <1>19 DEF TypeOK, TaskTypes, DiskTypes, LiveInv, CancelledNeverCompletes,
     ReadEof, Reap, Finish, TaskEnds, Abandoned, killVars
<1>20. ASSUME NEW e \in Executors, WorkerProbe(e)
      PROVE  CancelledNeverCompletes'
  BY <1>20 DEF TypeOK, TaskTypes, DiskTypes, LiveInv, CancelledNeverCompletes,
     WorkerProbe, Goto, Emit, Event, diskVars, lockVars, taskVars, killVars,
     agentVars
<1>21. ASSUME NEW e \in Executors, WorkerLoad(e)
      PROVE  CancelledNeverCompletes'
  BY <1>21 DEF TypeOK, TaskTypes, DiskTypes, LiveInv, CancelledNeverCompletes,
     WorkerLoad, Goto, Emit, Event, Exit, diskVars, lockVars, taskVars,
     killVars, agentVars
<1>22. ASSUME NEW e \in Executors, WorkerBegin(e)
      PROVE  CancelledNeverCompletes'
  BY <1>22 DEF TypeOK, TaskTypes, DiskTypes, LiveInv, CancelledNeverCompletes,
     WorkerBegin, Goto, Emit, Event, diskVars, lockVars, taskVars, killVars,
     agentVars
<1>23. ASSUME NEW e \in Executors, WorkerDone(e)
      PROVE  CancelledNeverCompletes'
  BY <1>23 DEF TypeOK, TaskTypes, DiskTypes, LiveInv, CancelledNeverCompletes,
     WorkerDone, Goto, Emit, EmitFinal, Event, Exit, diskVars, lockVars,
     taskVars, killVars, agentVars
<1>24. ASSUME NEW e \in Executors, WorkerError(e)
      PROVE  CancelledNeverCompletes'
  BY <1>24 DEF TypeOK, TaskTypes, DiskTypes, LiveInv, CancelledNeverCompletes,
     WorkerError, Goto, Emit, Event, Exit, diskVars, lockVars, taskVars,
     killVars, agentVars
<1>25. ASSUME NEW e \in Executors, WorkerStdinEof(e)
      PROVE  CancelledNeverCompletes'
  BY <1>25 DEF TypeOK, TaskTypes, DiskTypes, LiveInv, CancelledNeverCompletes,
     WorkerStdinEof, Exit, diskVars, lockVars, taskVars, killVars, agentVars
<1>26. ASSUME NEW e \in Executors, WorkerProgress(e)
      PROVE  CancelledNeverCompletes'
  BY <1>26 DEF TypeOK, TaskTypes, DiskTypes, LiveInv, CancelledNeverCompletes,
     WorkerProgress, Emit, Event, diskVars, lockVars, taskVars, killVars,
     agentVars
<1>27. ASSUME NEW e \in Executors, WorkerKilled(e)
      PROVE  CancelledNeverCompletes'
  BY <1>27 DEF TypeOK, TaskTypes, DiskTypes, LiveInv, CancelledNeverCompletes,
     WorkerKilled, Exit, diskVars, lockVars, taskVars, killVars, agentVars
<1>28. ASSUME Close
      PROVE  CancelledNeverCompletes'
  BY <1>28 DEF TypeOK, TaskTypes, DiskTypes, LiveInv, LiveTasks,
     CancelledNeverCompletes, Close, lockVars, procVars, adminFrame
<1>29. ASSUME CloseGathers
      PROVE  CancelledNeverCompletes'
  BY <1>29 DEF TypeOK, TaskTypes, DiskTypes, LiveInv, LiveTasks,
     CancelledNeverCompletes, CloseGathers, Reap, lockVars, adminFrame
<1>30. ASSUME Release
      PROVE  CancelledNeverCompletes'
  BY <1>30 DEF TypeOK, TaskTypes, DiskTypes, LiveInv, LiveTasks,
     CancelledNeverCompletes, Release, lockVars, procVars, adminFrame
<1>31. ASSUME NEW j \in Jobs, ReleaseCancels(j)
      PROVE  CancelledNeverCompletes'
  BY <1>31 DEF TypeOK, TaskTypes, DiskTypes, LiveInv, CancelledNeverCompletes,
     ReleaseCancels, MarkCancelled, Log, Finished, Stoppable, lockVars,
     procVars, adminFrame
<1>32. ASSUME ReleaseCancelReturns
      PROVE  CancelledNeverCompletes'
  BY <1>32 DEF TypeOK, TaskTypes, DiskTypes, LiveInv, CancelledNeverCompletes,
     ReleaseCancelReturns, Reap, Log, lockVars, adminFrame
<1>33. ASSUME ReleaseGathers
      PROVE  CancelledNeverCompletes'
  BY <1>33 DEF TypeOK, TaskTypes, DiskTypes, LiveInv, LiveTasks,
     CancelledNeverCompletes, ReleaseGathers, lockVars, procVars, adminFrame
<1>34. ASSUME AdminAwaitsLock
      PROVE  CancelledNeverCompletes'
  BY <1>34 DEF TypeOK, TaskTypes, DiskTypes, LiveInv, LiveTasks,
     CancelledNeverCompletes, AdminAwaitsLock, procVars, adminFrame
<1>35. ASSUME AdminDropsResident
      PROVE  CancelledNeverCompletes'
  BY <1>35 DEF TypeOK, TaskTypes, DiskTypes, LiveInv, CancelledNeverCompletes,
     AdminDropsResident, AdminReturns, Stoppable, procVars, adminFrame
<1>36. ASSUME AdminDropped
      PROVE  CancelledNeverCompletes'
  BY <1>36 DEF TypeOK, TaskTypes, DiskTypes, LiveInv, CancelledNeverCompletes,
     AdminDropped, AdminReturns, Reap, adminFrame
<1>37. ASSUME AgentRestart
      PROVE  CancelledNeverCompletes'
  BY <1>37 DEF TypeOK, TaskTypes, DiskTypes, LiveInv, CancelledNeverCompletes,
     AgentRestart, Recovered
<1>38. CASE UNCHANGED vars
  BY <1>38 DEF TypeOK, TaskTypes, DiskTypes, LiveInv, CancelledNeverCompletes,
     vars, diskVars, lockVars, taskVars, killVars, procVars
<1>39. QED
  BY <1>1, <1>2, <1>3, <1>4, <1>5, <1>6, <1>7, <1>8, <1>9, <1>10, <1>11,
     <1>12, <1>13, <1>14, <1>15, <1>16, <1>17, <1>18, <1>19, <1>20, <1>21,
     <1>22, <1>23, <1>24, <1>25, <1>26, <1>27, <1>28, <1>29, <1>30, <1>31,
     <1>32, <1>33, <1>34, <1>35, <1>36, <1>37, <1>38 DEF Next, TaskStep,
     WorkerStep, AdminStep

(* Every step keeps command_ids distinct.                                   *)
LEMMA CommandStep ==
  ASSUME TypeOK, OneJobPerCommand, [Next]_vars
  PROVE  OneJobPerCommand'
<1> USE RequestsAssumption, NamesAssumption, BoundsAssumption DEF Executors, Phases, Holding, ActiveStates, FinalStates
<1>1. ASSUME NEW j \in Jobs, NEW c \in Commands, NEW r \in Requests,
             Submit(j, c, r)
      PROVE  OneJobPerCommand'
  BY <1>1 DEF TypeOK, DiskTypes, OneJobPerCommand, Submit, FindCommand,
     killVars, procVars
<1>2. ASSUME NEW j \in Jobs, Cancel(j)
      PROVE  OneJobPerCommand'
  BY <1>2 DEF TypeOK, DiskTypes, OneJobPerCommand, Cancel, MarkCancelled, Log,
     Finished, Stoppable, lockVars
<1>3. ASSUME NEW j \in Jobs, CancelReturns(j)
      PROVE  OneJobPerCommand'
  BY <1>3 DEF TypeOK, DiskTypes, OneJobPerCommand, CancelReturns, Reap, Log,
     lockVars, taskVars
<1>4. ASSUME NEW j \in Jobs, RunJobStart(j)
      PROVE  OneJobPerCommand'
  BY <1>4 DEF TypeOK, DiskTypes, OneJobPerCommand, RunJobStart, TaskEnds,
     killVars, procVars
<1>5. ASSUME NEW j \in Jobs, PayloadFails(j)
      PROVE  OneJobPerCommand'
  BY <1>5 DEF TypeOK, DiskTypes, OneJobPerCommand, PayloadFails, Fail,
     TaskEnds, procVars
<1>6. ASSUME NEW j \in Jobs, DropResident(j)
      PROVE  OneJobPerCommand'
  BY <1>6 DEF TypeOK, DiskTypes, OneJobPerCommand, DropResident,
     MustDropResident, Stoppable, diskVars, lockVars, procVars
<1>7. ASSUME NEW j \in Jobs, UseExecutor(j)
      PROVE  OneJobPerCommand'
  BY <1>7 DEF TypeOK, DiskTypes, OneJobPerCommand, UseExecutor, EnterRun,
     WriteCommands, MustDropResident, Stoppable, diskVars, lockVars, killVars
<1>8. ASSUME NEW j \in Jobs, ResidentDropped(j)
      PROVE  OneJobPerCommand'
  BY <1>8 DEF TypeOK, DiskTypes, OneJobPerCommand, ResidentDropped, Reap,
     diskVars, lockVars
<1>9. ASSUME NEW j \in Jobs, SpawnFails(j)
      PROVE  OneJobPerCommand'
  BY <1>9 DEF TypeOK, DiskTypes, OneJobPerCommand, SpawnFails, Fail, TaskEnds,
     procVars
<1>10. ASSUME NEW j \in Jobs, Spawn(j)
      PROVE  OneJobPerCommand'
  BY <1>10 DEF TypeOK, DiskTypes, OneJobPerCommand, Spawn, WriteCommands,
     diskVars, lockVars, killVars
<1>11. ASSUME NEW j \in Jobs, HandleRunning(j)
      PROVE  OneJobPerCommand'
  BY <1>11 DEF TypeOK, DiskTypes, OneJobPerCommand, HandleRunning, ReadEvent,
     lockVars, taskVars, killVars
<1>12. ASSUME NEW j \in Jobs, HandleError(j)
      PROVE  OneJobPerCommand'
  BY <1>12 DEF TypeOK, DiskTypes, OneJobPerCommand, HandleError, ReadEvent,
     Log, lockVars, taskVars, killVars
<1>13. ASSUME NEW j \in Jobs, HandleOutput(j)
      PROVE  OneJobPerCommand'
  BY <1>13 DEF TypeOK, DiskTypes, OneJobPerCommand, HandleOutput, ReadEvent,
     diskVars, lockVars, killVars
<1>14. ASSUME NEW j \in Jobs, HandleResident(j)
      PROVE  OneJobPerCommand'
  BY <1>14 DEF TypeOK, DiskTypes, OneJobPerCommand, HandleResident, ReadEvent,
     Finish, TaskEnds, Abandoned, diskVars, lockVars, taskVars, killVars
<1>15. ASSUME NEW j \in Jobs, OutputIndexed(j)
      PROVE  OneJobPerCommand'
  BY <1>15 DEF TypeOK, DiskTypes, OneJobPerCommand, OutputIndexed, diskVars,
     lockVars, killVars, procVars
<1>16. ASSUME NEW j \in Jobs, OutputRejected(j)
      PROVE  OneJobPerCommand'
  BY <1>16 DEF TypeOK, DiskTypes, OneJobPerCommand, OutputRejected, diskVars,
     lockVars, procVars
<1>17. ASSUME NEW j \in Jobs, RunRaised(j)
      PROVE  OneJobPerCommand'
  BY <1>17 DEF TypeOK, DiskTypes, OneJobPerCommand, RunRaised, Reap, Fail,
     TaskEnds
<1>18. ASSUME NEW j \in Jobs, ReadAfterCancel(j)
      PROVE  OneJobPerCommand'
  BY <1>18 DEF TypeOK, DiskTypes, OneJobPerCommand, ReadAfterCancel, Fail,
     TaskEnds, procVars
<1>19. ASSUME NEW j \in Jobs, ReadEof(j)
      PROVE  OneJobPerCommand'
  BY <1>19 DEF TypeOK, DiskTypes, OneJobPerCommand, ReadEof, Reap, Finish,
     TaskEnds, Abandoned, killVars
<1>20. ASSUME NEW e \in Executors, WorkerProbe(e)
      PROVE  OneJobPerCommand'
  BY <1>20 DEF TypeOK, DiskTypes, OneJobPerCommand, WorkerProbe, Goto, Emit,
     Event, diskVars, lockVars, taskVars, killVars, agentVars
<1>21. ASSUME NEW e \in Executors, WorkerLoad(e)
      PROVE  OneJobPerCommand'
  BY <1>21 DEF TypeOK, DiskTypes, OneJobPerCommand, WorkerLoad, Goto, Emit,
     Event, Exit, diskVars, lockVars, taskVars, killVars, agentVars
<1>22. ASSUME NEW e \in Executors, WorkerBegin(e)
      PROVE  OneJobPerCommand'
  BY <1>22 DEF TypeOK, DiskTypes, OneJobPerCommand, WorkerBegin, Goto, Emit,
     Event, diskVars, lockVars, taskVars, killVars, agentVars
<1>23. ASSUME NEW e \in Executors, WorkerDone(e)
      PROVE  OneJobPerCommand'
  BY <1>23 DEF TypeOK, DiskTypes, OneJobPerCommand, WorkerDone, Goto, Emit,
     EmitFinal, Event, Exit, diskVars, lockVars, taskVars, killVars, agentVars
<1>24. ASSUME NEW e \in Executors, WorkerError(e)
      PROVE  OneJobPerCommand'
  BY <1>24 DEF TypeOK, DiskTypes, OneJobPerCommand, WorkerError, Goto, Emit,
     Event, Exit, diskVars, lockVars, taskVars, killVars, agentVars
<1>25. ASSUME NEW e \in Executors, WorkerStdinEof(e)
      PROVE  OneJobPerCommand'
  BY <1>25 DEF TypeOK, DiskTypes, OneJobPerCommand, WorkerStdinEof, Exit,
     diskVars, lockVars, taskVars, killVars, agentVars
<1>26. ASSUME NEW e \in Executors, WorkerProgress(e)
      PROVE  OneJobPerCommand'
  BY <1>26 DEF TypeOK, DiskTypes, OneJobPerCommand, WorkerProgress, Emit,
     Event, diskVars, lockVars, taskVars, killVars, agentVars
<1>27. ASSUME NEW e \in Executors, WorkerKilled(e)
      PROVE  OneJobPerCommand'
  BY <1>27 DEF TypeOK, DiskTypes, OneJobPerCommand, WorkerKilled, Exit,
     diskVars, lockVars, taskVars, killVars, agentVars
<1>28. ASSUME Close
      PROVE  OneJobPerCommand'
  BY <1>28 DEF TypeOK, DiskTypes, OneJobPerCommand, Close, lockVars, procVars,
     adminFrame
<1>29. ASSUME CloseGathers
      PROVE  OneJobPerCommand'
  BY <1>29 DEF TypeOK, DiskTypes, OneJobPerCommand, CloseGathers, Reap,
     lockVars, adminFrame
<1>30. ASSUME Release
      PROVE  OneJobPerCommand'
  BY <1>30 DEF TypeOK, DiskTypes, OneJobPerCommand, Release, lockVars,
     procVars, adminFrame
<1>31. ASSUME NEW j \in Jobs, ReleaseCancels(j)
      PROVE  OneJobPerCommand'
  BY <1>31 DEF TypeOK, DiskTypes, OneJobPerCommand, ReleaseCancels,
     MarkCancelled, Log, Finished, Stoppable, lockVars, procVars, adminFrame
<1>32. ASSUME ReleaseCancelReturns
      PROVE  OneJobPerCommand'
  BY <1>32 DEF TypeOK, DiskTypes, OneJobPerCommand, ReleaseCancelReturns,
     Reap, Log, lockVars, adminFrame
<1>33. ASSUME ReleaseGathers
      PROVE  OneJobPerCommand'
  BY <1>33 DEF TypeOK, DiskTypes, OneJobPerCommand, ReleaseGathers, lockVars,
     procVars, adminFrame
<1>34. ASSUME AdminAwaitsLock
      PROVE  OneJobPerCommand'
  BY <1>34 DEF TypeOK, DiskTypes, OneJobPerCommand, AdminAwaitsLock, procVars,
     adminFrame
<1>35. ASSUME AdminDropsResident
      PROVE  OneJobPerCommand'
  BY <1>35 DEF TypeOK, DiskTypes, OneJobPerCommand, AdminDropsResident,
     AdminReturns, Stoppable, procVars, adminFrame
<1>36. ASSUME AdminDropped
      PROVE  OneJobPerCommand'
  BY <1>36 DEF TypeOK, DiskTypes, OneJobPerCommand, AdminDropped,
     AdminReturns, Reap, adminFrame
<1>37. ASSUME AgentRestart
      PROVE  OneJobPerCommand'
  BY <1>37 DEF TypeOK, DiskTypes, OneJobPerCommand, AgentRestart, Recovered
<1>38. CASE UNCHANGED vars
  BY <1>38 DEF TypeOK, DiskTypes, OneJobPerCommand, vars, diskVars, lockVars,
     taskVars, killVars, procVars
<1>39. QED
  BY <1>1, <1>2, <1>3, <1>4, <1>5, <1>6, <1>7, <1>8, <1>9, <1>10, <1>11,
     <1>12, <1>13, <1>14, <1>15, <1>16, <1>17, <1>18, <1>19, <1>20, <1>21,
     <1>22, <1>23, <1>24, <1>25, <1>26, <1>27, <1>28, <1>29, <1>30, <1>31,
     <1>32, <1>33, <1>34, <1>35, <1>36, <1>37, <1>38 DEF Next, TaskStep,
     WorkerStep, AdminStep

(* No step changes a completed or failed job.                               *)
LEMMA ResultStep ==
  ASSUME TypeOK, LiveInv, [Next]_vars
  PROVE  \A k \in Jobs : state[k] \in {"completed", "failed"} => state'[k] = state[k]
<1> USE RequestsAssumption, NamesAssumption, BoundsAssumption DEF Executors, Phases, Holding, ActiveStates, FinalStates
<1>1. ASSUME NEW j \in Jobs, NEW c \in Commands, NEW r \in Requests,
             Submit(j, c, r)
      PROVE  \A k \in Jobs : state[k] \in {"completed", "failed"} => state'[k] = state[k]
  BY <1>1 DEF TypeOK, DiskTypes, LiveInv, Submit, FindCommand, killVars,
     procVars
<1>2. ASSUME NEW j \in Jobs, Cancel(j)
      PROVE  \A k \in Jobs : state[k] \in {"completed", "failed"} => state'[k] = state[k]
  BY <1>2 DEF TypeOK, DiskTypes, LiveInv, Cancel, MarkCancelled, Log,
     Finished, Stoppable, lockVars
<1>3. ASSUME NEW j \in Jobs, CancelReturns(j)
      PROVE  \A k \in Jobs : state[k] \in {"completed", "failed"} => state'[k] = state[k]
  BY <1>3 DEF TypeOK, DiskTypes, LiveInv, CancelReturns, Reap, Log, lockVars,
     taskVars
<1>4. ASSUME NEW j \in Jobs, RunJobStart(j)
      PROVE  \A k \in Jobs : state[k] \in {"completed", "failed"} => state'[k] = state[k]
  BY <1>4 DEF TypeOK, DiskTypes, LiveInv, RunJobStart, TaskEnds, killVars,
     procVars
<1>5. ASSUME NEW j \in Jobs, PayloadFails(j)
      PROVE  \A k \in Jobs : state[k] \in {"completed", "failed"} => state'[k] = state[k]
  BY <1>5 DEF TypeOK, DiskTypes, LiveInv, PayloadFails, Fail, TaskEnds,
     procVars
<1>6. ASSUME NEW j \in Jobs, DropResident(j)
      PROVE  \A k \in Jobs : state[k] \in {"completed", "failed"} => state'[k] = state[k]
  BY <1>6 DEF TypeOK, DiskTypes, LiveInv, DropResident, MustDropResident,
     Stoppable, diskVars, lockVars, procVars
<1>7. ASSUME NEW j \in Jobs, UseExecutor(j)
      PROVE  \A k \in Jobs : state[k] \in {"completed", "failed"} => state'[k] = state[k]
  BY <1>7 DEF TypeOK, DiskTypes, LiveInv, UseExecutor, EnterRun,
     WriteCommands, MustDropResident, Stoppable, diskVars, lockVars, killVars
<1>8. ASSUME NEW j \in Jobs, ResidentDropped(j)
      PROVE  \A k \in Jobs : state[k] \in {"completed", "failed"} => state'[k] = state[k]
  BY <1>8 DEF TypeOK, DiskTypes, LiveInv, ResidentDropped, Reap, diskVars,
     lockVars
<1>9. ASSUME NEW j \in Jobs, SpawnFails(j)
      PROVE  \A k \in Jobs : state[k] \in {"completed", "failed"} => state'[k] = state[k]
  BY <1>9 DEF TypeOK, DiskTypes, LiveInv, SpawnFails, Fail, TaskEnds, procVars
<1>10. ASSUME NEW j \in Jobs, Spawn(j)
      PROVE  \A k \in Jobs : state[k] \in {"completed", "failed"} => state'[k] = state[k]
  BY <1>10 DEF TypeOK, DiskTypes, LiveInv, Spawn, WriteCommands, diskVars,
     lockVars, killVars
<1>11. ASSUME NEW j \in Jobs, HandleRunning(j)
      PROVE  \A k \in Jobs : state[k] \in {"completed", "failed"} => state'[k] = state[k]
  BY <1>11 DEF TypeOK, DiskTypes, LiveInv, ReadEvent, HandleRunning, lockVars,
     taskVars, killVars
<1>12. ASSUME NEW j \in Jobs, HandleError(j)
      PROVE  \A k \in Jobs : state[k] \in {"completed", "failed"} => state'[k] = state[k]
  BY <1>12 DEF TypeOK, DiskTypes, LiveInv, ReadEvent, HandleError, Log,
     lockVars, taskVars, killVars
<1>13. ASSUME NEW j \in Jobs, HandleOutput(j)
      PROVE  \A k \in Jobs : state[k] \in {"completed", "failed"} => state'[k] = state[k]
  BY <1>13 DEF TypeOK, DiskTypes, LiveInv, ReadEvent, HandleOutput, diskVars,
     lockVars, killVars
<1>14. ASSUME NEW j \in Jobs, HandleResident(j)
      PROVE  \A k \in Jobs : state[k] \in {"completed", "failed"} => state'[k] = state[k]
  BY <1>14 DEF TypeOK, DiskTypes, LiveInv, ReadEvent, HandleResident, Finish,
     TaskEnds, Abandoned, diskVars, lockVars, taskVars, killVars
<1>15. ASSUME NEW j \in Jobs, OutputIndexed(j)
      PROVE  \A k \in Jobs : state[k] \in {"completed", "failed"} => state'[k] = state[k]
  BY <1>15 DEF TypeOK, DiskTypes, LiveInv, OutputIndexed, diskVars, lockVars,
     killVars, procVars
<1>16. ASSUME NEW j \in Jobs, OutputRejected(j)
      PROVE  \A k \in Jobs : state[k] \in {"completed", "failed"} => state'[k] = state[k]
  BY <1>16 DEF TypeOK, DiskTypes, LiveInv, OutputRejected, diskVars, lockVars,
     procVars
<1>17. ASSUME NEW j \in Jobs, RunRaised(j)
      PROVE  \A k \in Jobs : state[k] \in {"completed", "failed"} => state'[k] = state[k]
  BY <1>17 DEF TypeOK, DiskTypes, LiveInv, RunRaised, Reap, Fail, TaskEnds
<1>18. ASSUME NEW j \in Jobs, ReadAfterCancel(j)
      PROVE  \A k \in Jobs : state[k] \in {"completed", "failed"} => state'[k] = state[k]
  BY <1>18 DEF TypeOK, DiskTypes, LiveInv, ReadAfterCancel, Fail, TaskEnds,
     procVars
<1>19. ASSUME NEW j \in Jobs, ReadEof(j)
      PROVE  \A k \in Jobs : state[k] \in {"completed", "failed"} => state'[k] = state[k]
  BY <1>19 DEF TypeOK, DiskTypes, LiveInv, ReadEof, Reap, Finish, TaskEnds,
     Abandoned, killVars
<1>20. ASSUME NEW e \in Executors, WorkerProbe(e)
      PROVE  \A k \in Jobs : state[k] \in {"completed", "failed"} => state'[k] = state[k]
  BY <1>20 DEF TypeOK, DiskTypes, LiveInv, WorkerProbe, Goto, Emit, Event,
     diskVars, lockVars, taskVars, killVars, agentVars
<1>21. ASSUME NEW e \in Executors, WorkerLoad(e)
      PROVE  \A k \in Jobs : state[k] \in {"completed", "failed"} => state'[k] = state[k]
  BY <1>21 DEF TypeOK, DiskTypes, LiveInv, WorkerLoad, Goto, Emit, Event,
     Exit, diskVars, lockVars, taskVars, killVars, agentVars
<1>22. ASSUME NEW e \in Executors, WorkerBegin(e)
      PROVE  \A k \in Jobs : state[k] \in {"completed", "failed"} => state'[k] = state[k]
  BY <1>22 DEF TypeOK, DiskTypes, LiveInv, WorkerBegin, Goto, Emit, Event,
     diskVars, lockVars, taskVars, killVars, agentVars
<1>23. ASSUME NEW e \in Executors, WorkerDone(e)
      PROVE  \A k \in Jobs : state[k] \in {"completed", "failed"} => state'[k] = state[k]
  BY <1>23 DEF TypeOK, DiskTypes, LiveInv, WorkerDone, Goto, Emit, EmitFinal,
     Event, Exit, diskVars, lockVars, taskVars, killVars, agentVars
<1>24. ASSUME NEW e \in Executors, WorkerError(e)
      PROVE  \A k \in Jobs : state[k] \in {"completed", "failed"} => state'[k] = state[k]
  BY <1>24 DEF TypeOK, DiskTypes, LiveInv, WorkerError, Goto, Emit, Event,
     Exit, diskVars, lockVars, taskVars, killVars, agentVars
<1>25. ASSUME NEW e \in Executors, WorkerStdinEof(e)
      PROVE  \A k \in Jobs : state[k] \in {"completed", "failed"} => state'[k] = state[k]
  BY <1>25 DEF TypeOK, DiskTypes, LiveInv, WorkerStdinEof, Exit, diskVars,
     lockVars, taskVars, killVars, agentVars
<1>26. ASSUME NEW e \in Executors, WorkerProgress(e)
      PROVE  \A k \in Jobs : state[k] \in {"completed", "failed"} => state'[k] = state[k]
  BY <1>26 DEF TypeOK, DiskTypes, LiveInv, WorkerProgress, Emit, Event,
     diskVars, lockVars, taskVars, killVars, agentVars
<1>27. ASSUME NEW e \in Executors, WorkerKilled(e)
      PROVE  \A k \in Jobs : state[k] \in {"completed", "failed"} => state'[k] = state[k]
  BY <1>27 DEF TypeOK, DiskTypes, LiveInv, WorkerKilled, Exit, diskVars,
     lockVars, taskVars, killVars, agentVars
<1>28. ASSUME Close
      PROVE  \A k \in Jobs : state[k] \in {"completed", "failed"} => state'[k] = state[k]
  BY <1>28 DEF TypeOK, DiskTypes, LiveInv, Close, lockVars, procVars,
     adminFrame
<1>29. ASSUME CloseGathers
      PROVE  \A k \in Jobs : state[k] \in {"completed", "failed"} => state'[k] = state[k]
  BY <1>29 DEF TypeOK, DiskTypes, LiveInv, CloseGathers, Reap, lockVars,
     adminFrame
<1>30. ASSUME Release
      PROVE  \A k \in Jobs : state[k] \in {"completed", "failed"} => state'[k] = state[k]
  BY <1>30 DEF TypeOK, DiskTypes, LiveInv, Release, lockVars, procVars,
     adminFrame
<1>31. ASSUME NEW j \in Jobs, ReleaseCancels(j)
      PROVE  \A k \in Jobs : state[k] \in {"completed", "failed"} => state'[k] = state[k]
  BY <1>31 DEF TypeOK, DiskTypes, LiveInv, ReleaseCancels, MarkCancelled, Log,
     Finished, Stoppable, lockVars, procVars, adminFrame
<1>32. ASSUME ReleaseCancelReturns
      PROVE  \A k \in Jobs : state[k] \in {"completed", "failed"} => state'[k] = state[k]
  BY <1>32 DEF TypeOK, DiskTypes, LiveInv, ReleaseCancelReturns, Reap, Log,
     lockVars, adminFrame
<1>33. ASSUME ReleaseGathers
      PROVE  \A k \in Jobs : state[k] \in {"completed", "failed"} => state'[k] = state[k]
  BY <1>33 DEF TypeOK, DiskTypes, LiveInv, ReleaseGathers, lockVars, procVars,
     adminFrame
<1>34. ASSUME AdminAwaitsLock
      PROVE  \A k \in Jobs : state[k] \in {"completed", "failed"} => state'[k] = state[k]
  BY <1>34 DEF TypeOK, DiskTypes, LiveInv, AdminAwaitsLock, procVars,
     adminFrame
<1>35. ASSUME AdminDropsResident
      PROVE  \A k \in Jobs : state[k] \in {"completed", "failed"} => state'[k] = state[k]
  BY <1>35 DEF TypeOK, DiskTypes, LiveInv, AdminDropsResident, AdminReturns,
     Stoppable, procVars, adminFrame
<1>36. ASSUME AdminDropped
      PROVE  \A k \in Jobs : state[k] \in {"completed", "failed"} => state'[k] = state[k]
  BY <1>36 DEF TypeOK, DiskTypes, LiveInv, AdminDropped, AdminReturns, Reap,
     adminFrame
<1>37. ASSUME AgentRestart
      PROVE  \A k \in Jobs : state[k] \in {"completed", "failed"} => state'[k] = state[k]
  BY <1>37 DEF TypeOK, DiskTypes, LiveInv, AgentRestart, Recovered
<1>38. CASE UNCHANGED vars
  BY <1>38 DEF TypeOK, DiskTypes, LiveInv, vars, diskVars, lockVars, taskVars,
     killVars, procVars
<1>39. QED
  BY <1>1, <1>2, <1>3, <1>4, <1>5, <1>6, <1>7, <1>8, <1>9, <1>10, <1>11,
     <1>12, <1>13, <1>14, <1>15, <1>16, <1>17, <1>18, <1>19, <1>20, <1>21,
     <1>22, <1>23, <1>24, <1>25, <1>26, <1>27, <1>28, <1>29, <1>30, <1>31,
     <1>32, <1>33, <1>34, <1>35, <1>36, <1>37, <1>38 DEF Next, TaskStep,
     WorkerStep, AdminStep

(* A completed job keeps its output and its clean log.                      *)
LEMMA CleanStep ==
  ASSUME TypeOK, ServingInv, LiveInv, CompletedIsClean, [Next]_vars
  PROVE  CompletedIsClean'
<1> USE RequestsAssumption, NamesAssumption, BoundsAssumption DEF Executors, Phases, Holding, ActiveStates, FinalStates
<1>1. ASSUME NEW j \in Jobs, NEW c \in Commands, NEW r \in Requests,
             Submit(j, c, r)
      PROVE  CompletedIsClean'
  BY <1>1 DEF TypeOK, TaskTypes, DiskTypes, LiveInv, ServingInv,
     CompletedIsClean, Submit, FindCommand, killVars, procVars
<1>2. ASSUME NEW j \in Jobs, Cancel(j)
      PROVE  CompletedIsClean'
  BY <1>2 DEF TypeOK, TaskTypes, DiskTypes, LiveInv, ServingInv,
     CompletedIsClean, Cancel, MarkCancelled, Log, Finished, Stoppable,
     lockVars
<1>3. ASSUME NEW j \in Jobs, CancelReturns(j)
      PROVE  CompletedIsClean'
  BY <1>3 DEF TypeOK, TaskTypes, DiskTypes, LiveInv, ServingInv,
     CompletedIsClean, CancelReturns, Reap, Log, lockVars, taskVars
<1>4. ASSUME NEW j \in Jobs, RunJobStart(j)
      PROVE  CompletedIsClean'
  BY <1>4 DEF TypeOK, TaskTypes, DiskTypes, LiveInv, ServingInv,
     CompletedIsClean, RunJobStart, TaskEnds, killVars, procVars
<1>5. ASSUME NEW j \in Jobs, PayloadFails(j)
      PROVE  CompletedIsClean'
  BY <1>5 DEF TypeOK, TaskTypes, DiskTypes, LiveInv, ServingInv,
     CompletedIsClean, PayloadFails, Fail, TaskEnds, procVars
<1>6. ASSUME NEW j \in Jobs, DropResident(j)
      PROVE  CompletedIsClean'
  BY <1>6 DEF TypeOK, TaskTypes, DiskTypes, LiveInv, ServingInv,
     CompletedIsClean, DropResident, MustDropResident, Stoppable, diskVars,
     lockVars, procVars
<1>7. ASSUME NEW j \in Jobs, UseExecutor(j)
      PROVE  CompletedIsClean'
  BY <1>7 DEF TypeOK, TaskTypes, DiskTypes, LiveInv, ServingInv,
     CompletedIsClean, UseExecutor, EnterRun, WriteCommands, MustDropResident,
     Stoppable, diskVars, lockVars, killVars
<1>8. ASSUME NEW j \in Jobs, ResidentDropped(j)
      PROVE  CompletedIsClean'
  BY <1>8 DEF TypeOK, TaskTypes, DiskTypes, LiveInv, ServingInv,
     CompletedIsClean, ResidentDropped, Reap, diskVars, lockVars
<1>9. ASSUME NEW j \in Jobs, SpawnFails(j)
      PROVE  CompletedIsClean'
  BY <1>9 DEF TypeOK, TaskTypes, DiskTypes, LiveInv, ServingInv,
     CompletedIsClean, SpawnFails, Fail, TaskEnds, procVars
<1>10. ASSUME NEW j \in Jobs, Spawn(j)
      PROVE  CompletedIsClean'
  BY <1>10 DEF TypeOK, TaskTypes, DiskTypes, LiveInv, ServingInv,
     CompletedIsClean, Spawn, WriteCommands, diskVars, lockVars, killVars
<1>11. ASSUME NEW j \in Jobs, HandleRunning(j)
      PROVE  CompletedIsClean'
  BY <1>11 DEF TypeOK, TaskTypes, DiskTypes, LiveInv, ServingInv, ReadEvent,
     CompletedIsClean, HandleRunning, lockVars, taskVars, killVars
<1>12. ASSUME NEW j \in Jobs, HandleError(j)
      PROVE  CompletedIsClean'
  BY <1>12 DEF TypeOK, TaskTypes, DiskTypes, LiveInv, ServingInv, ReadEvent,
     CompletedIsClean, HandleError, Log, lockVars, taskVars, killVars
<1>13. ASSUME NEW j \in Jobs, HandleOutput(j)
      PROVE  CompletedIsClean'
  BY <1>13 DEF TypeOK, TaskTypes, DiskTypes, LiveInv, ServingInv, ReadEvent,
     CompletedIsClean, HandleOutput, diskVars, lockVars, killVars
<1>14. ASSUME NEW j \in Jobs, HandleResident(j)
      PROVE  CompletedIsClean'
  <2>1. ASSUME NEW rc, NEW isResident, Finish(j, rc, isResident)
        PROVE  CompletedIsClean'
    <3>1. request' = request /\ logged' = logged
      BY <2>1 DEF Finish
    <3>2. \A k \in Jobs \ {j} : state'[k] = state[k] /\ outputs'[k] = outputs[k]
      BY <2>1 DEF Finish, TypeOK, DiskTypes
    <3>3. CASE Abandoned(j)
      BY <2>1, <3>1, <3>3 DEF Finish, CompletedIsClean
    <3>4. CASE ~Abandoned(j) /\ ~Succeeded(j, rc)
      <4>1. state'[j] = "failed"
        BY <2>1, <3>4 DEF Finish, TypeOK, DiskTypes
      <4>. QED
        BY <3>1, <3>2, <4>1 DEF CompletedIsClean
    <3>5. CASE ~Abandoned(j) /\ Succeeded(j, rc)
      <4>1. outputs'[j] = produced[j] /\ "error" \notin logged[j]
            /\ (produced[j] \/ request[j].kind = "validate_loras")
        BY <2>1, <3>5 DEF Finish, Succeeded, TypeOK, DiskTypes, TaskTypes
      <4>. QED
        BY <3>1, <3>2, <4>1 DEF CompletedIsClean
    <3>. QED
      BY <3>3, <3>4, <3>5
  <2>2. CASE UNCHANGED <<diskVars, taskVars>>
    BY <2>2 DEF CompletedIsClean, diskVars, taskVars
  <2>. QED
    BY <1>14, <2>1, <2>2 DEF HandleResident
<1>15. ASSUME NEW j \in Jobs, OutputIndexed(j)
      PROVE  CompletedIsClean'
  BY <1>15 DEF TypeOK, TaskTypes, DiskTypes, LiveInv, ServingInv,
     CompletedIsClean, OutputIndexed, diskVars, lockVars, killVars, procVars
<1>16. ASSUME NEW j \in Jobs, OutputRejected(j)
      PROVE  CompletedIsClean'
  BY <1>16 DEF TypeOK, TaskTypes, DiskTypes, LiveInv, ServingInv,
     CompletedIsClean, OutputRejected, diskVars, lockVars, procVars
<1>17. ASSUME NEW j \in Jobs, RunRaised(j)
      PROVE  CompletedIsClean'
  BY <1>17 DEF TypeOK, TaskTypes, DiskTypes, LiveInv, ServingInv,
     CompletedIsClean, RunRaised, Reap, Fail, TaskEnds
<1>18. ASSUME NEW j \in Jobs, ReadAfterCancel(j)
      PROVE  CompletedIsClean'
  BY <1>18 DEF TypeOK, TaskTypes, DiskTypes, LiveInv, ServingInv,
     CompletedIsClean, ReadAfterCancel, Fail, TaskEnds, procVars
<1>19. ASSUME NEW j \in Jobs, ReadEof(j)
      PROVE  CompletedIsClean'
  <2>1. ASSUME NEW rc, NEW isResident, Finish(j, rc, isResident)
        PROVE  CompletedIsClean'
    <3>1. request' = request /\ logged' = logged
      BY <2>1 DEF Finish
    <3>2. \A k \in Jobs \ {j} : state'[k] = state[k] /\ outputs'[k] = outputs[k]
      BY <2>1 DEF Finish, TypeOK, DiskTypes
    <3>3. CASE Abandoned(j)
      BY <2>1, <3>1, <3>3 DEF Finish, CompletedIsClean
    <3>4. CASE ~Abandoned(j) /\ ~Succeeded(j, rc)
      <4>1. state'[j] = "failed"
        BY <2>1, <3>4 DEF Finish, TypeOK, DiskTypes
      <4>. QED
        BY <3>1, <3>2, <4>1 DEF CompletedIsClean
    <3>5. CASE ~Abandoned(j) /\ Succeeded(j, rc)
      <4>1. outputs'[j] = produced[j] /\ "error" \notin logged[j]
            /\ (produced[j] \/ request[j].kind = "validate_loras")
        BY <2>1, <3>5 DEF Finish, Succeeded, TypeOK, DiskTypes, TaskTypes
      <4>. QED
        BY <3>1, <3>2, <4>1 DEF CompletedIsClean
    <3>. QED
      BY <3>3, <3>4, <3>5
  <2>. QED
    BY <1>19, <2>1 DEF ReadEof
<1>20. ASSUME NEW e \in Executors, WorkerProbe(e)
      PROVE  CompletedIsClean'
  BY <1>20 DEF TypeOK, TaskTypes, DiskTypes, LiveInv, ServingInv,
     CompletedIsClean, WorkerProbe, Goto, Emit, Event, diskVars, lockVars,
     taskVars, killVars, agentVars
<1>21. ASSUME NEW e \in Executors, WorkerLoad(e)
      PROVE  CompletedIsClean'
  BY <1>21 DEF TypeOK, TaskTypes, DiskTypes, LiveInv, ServingInv,
     CompletedIsClean, WorkerLoad, Goto, Emit, Event, Exit, diskVars,
     lockVars, taskVars, killVars, agentVars
<1>22. ASSUME NEW e \in Executors, WorkerBegin(e)
      PROVE  CompletedIsClean'
  BY <1>22 DEF TypeOK, TaskTypes, DiskTypes, LiveInv, ServingInv,
     CompletedIsClean, WorkerBegin, Goto, Emit, Event, diskVars, lockVars,
     taskVars, killVars, agentVars
<1>23. ASSUME NEW e \in Executors, WorkerDone(e)
      PROVE  CompletedIsClean'
  BY <1>23 DEF TypeOK, TaskTypes, DiskTypes, LiveInv, ServingInv,
     CompletedIsClean, WorkerDone, Goto, Emit, EmitFinal, Event, Exit,
     diskVars, lockVars, taskVars, killVars, agentVars
<1>24. ASSUME NEW e \in Executors, WorkerError(e)
      PROVE  CompletedIsClean'
  BY <1>24 DEF TypeOK, TaskTypes, DiskTypes, LiveInv, ServingInv,
     CompletedIsClean, WorkerError, Goto, Emit, Event, Exit, diskVars,
     lockVars, taskVars, killVars, agentVars
<1>25. ASSUME NEW e \in Executors, WorkerStdinEof(e)
      PROVE  CompletedIsClean'
  BY <1>25 DEF TypeOK, TaskTypes, DiskTypes, LiveInv, ServingInv,
     CompletedIsClean, WorkerStdinEof, Exit, diskVars, lockVars, taskVars,
     killVars, agentVars
<1>26. ASSUME NEW e \in Executors, WorkerProgress(e)
      PROVE  CompletedIsClean'
  BY <1>26 DEF TypeOK, TaskTypes, DiskTypes, LiveInv, ServingInv,
     CompletedIsClean, WorkerProgress, Emit, Event, diskVars, lockVars,
     taskVars, killVars, agentVars
<1>27. ASSUME NEW e \in Executors, WorkerKilled(e)
      PROVE  CompletedIsClean'
  BY <1>27 DEF TypeOK, TaskTypes, DiskTypes, LiveInv, ServingInv,
     CompletedIsClean, WorkerKilled, Exit, diskVars, lockVars, taskVars,
     killVars, agentVars
<1>28. ASSUME Close
      PROVE  CompletedIsClean'
  BY <1>28 DEF TypeOK, TaskTypes, DiskTypes, LiveInv, ServingInv,
     CompletedIsClean, Close, lockVars, procVars, adminFrame
<1>29. ASSUME CloseGathers
      PROVE  CompletedIsClean'
  BY <1>29 DEF TypeOK, TaskTypes, DiskTypes, LiveInv, ServingInv,
     CompletedIsClean, CloseGathers, Reap, lockVars, adminFrame
<1>30. ASSUME Release
      PROVE  CompletedIsClean'
  BY <1>30 DEF TypeOK, TaskTypes, DiskTypes, LiveInv, ServingInv,
     CompletedIsClean, Release, lockVars, procVars, adminFrame
<1>31. ASSUME NEW j \in Jobs, ReleaseCancels(j)
      PROVE  CompletedIsClean'
  BY <1>31 DEF TypeOK, TaskTypes, DiskTypes, LiveInv, ServingInv,
     CompletedIsClean, ReleaseCancels, MarkCancelled, Log, Finished,
     Stoppable, lockVars, procVars, adminFrame
<1>32. ASSUME ReleaseCancelReturns
      PROVE  CompletedIsClean'
  BY <1>32 DEF TypeOK, TaskTypes, DiskTypes, LiveInv, ServingInv,
     CompletedIsClean, ReleaseCancelReturns, Reap, Log, lockVars, adminFrame
<1>33. ASSUME ReleaseGathers
      PROVE  CompletedIsClean'
  BY <1>33 DEF TypeOK, TaskTypes, DiskTypes, LiveInv, ServingInv,
     CompletedIsClean, ReleaseGathers, lockVars, procVars, adminFrame
<1>34. ASSUME AdminAwaitsLock
      PROVE  CompletedIsClean'
  BY <1>34 DEF TypeOK, TaskTypes, DiskTypes, LiveInv, ServingInv,
     CompletedIsClean, AdminAwaitsLock, procVars, adminFrame
<1>35. ASSUME AdminDropsResident
      PROVE  CompletedIsClean'
  BY <1>35 DEF TypeOK, TaskTypes, DiskTypes, LiveInv, ServingInv,
     CompletedIsClean, AdminDropsResident, AdminReturns, Stoppable, procVars,
     adminFrame
<1>36. ASSUME AdminDropped
      PROVE  CompletedIsClean'
  BY <1>36 DEF TypeOK, TaskTypes, DiskTypes, LiveInv, ServingInv,
     CompletedIsClean, AdminDropped, AdminReturns, Reap, adminFrame
<1>37. ASSUME AgentRestart
      PROVE  CompletedIsClean'
  BY <1>37 DEF TypeOK, TaskTypes, DiskTypes, LiveInv, ServingInv,
     CompletedIsClean, AgentRestart, Recovered
<1>38. CASE UNCHANGED vars
  BY <1>38 DEF TypeOK, TaskTypes, DiskTypes, LiveInv, ServingInv,
     CompletedIsClean, vars, diskVars, lockVars, taskVars, killVars, procVars
<1>39. QED
  BY <1>1, <1>2, <1>3, <1>4, <1>5, <1>6, <1>7, <1>8, <1>9, <1>10, <1>11,
     <1>12, <1>13, <1>14, <1>15, <1>16, <1>17, <1>18, <1>19, <1>20, <1>21,
     <1>22, <1>23, <1>24, <1>25, <1>26, <1>27, <1>28, <1>29, <1>30, <1>31,
     <1>32, <1>33, <1>34, <1>35, <1>36, <1>37, <1>38 DEF Next, TaskStep,
     WorkerStep, AdminStep

(* The initial states have the types and the parts of the invariant.       *)
LEMMA InitInv ==
  ASSUME Init
  PROVE  BaseInv /\ LockInv /\ RegisterInv /\ LiveInv
<1> USE NamesAssumption, BoundsAssumption DEF Executors, Phases, Holding, ActiveStates,
        FinalStates
<1>1. DiskTypes
  BY DEF DiskTypes, Init
<1>2. TaskTypes
  <2>1. <<>> \in Seq(Jobs \cup {Admin})
    OBVIOUS
  <2>. QED
    BY <2>1 DEF TaskTypes, Init
<1>3. KillTypes
  <2>1. IdleAdmin \in AdminRecords
    BY DEF IdleAdmin, AdminRecords
  <2>. QED
    BY <2>1 DEF KillTypes, Init
<1>4. ProcTypes
  <2>1. <<>> \in Seq(WorkerEvents)
    OBVIOUS
  <2>. QED
    BY <2>1 DEF ProcTypes, Init
<1>5. ServingInv /\ TodoInv
  BY DEF ServingInv, TodoInv, IdleAdmin, Init
<1>6. LockInv /\ RegisterInv /\ LiveInv
  BY DEF LockInv, RegisterInv, LiveInv, IdleAdmin, Init
<1>. QED
  BY <1>1, <1>2, <1>3, <1>4, <1>5, <1>6 DEF BaseInv, TypeOK

(* The types and the bookkeeping they rest on: an invariant on its own.    *)
THEOREM BaseInvariant == Spec => []BaseInv
<1>1. Init => BaseInv
  BY InitInv
<1>2. BaseInv /\ [Next]_vars => BaseInv'
  BY TypeStep, ServingStep, TodoStep DEF BaseInv
<1>. QED
  BY <1>1, <1>2, PTL DEF Spec

(* Every variable keeps its type.                                          *)
THEOREM TypeCorrect == Spec => []TypeOK
<1>1. BaseInv => TypeOK
  BY DEF BaseInv
<1>. QED
  BY <1>1, BaseInvariant, PTL

(* The executor a cancel() call finds for a job is the one of the task that *)
(* holds the worker lock: cancelling one job never stops another's process. *)
THEOREM ExecutorIsOfHolder == Spec => []ExecutorOfHolder
<1>1. Init => LockInv /\ RegisterInv
  BY InitInv
<1>2. BaseInv /\ LockInv /\ RegisterInv /\ [Next]_vars => (LockInv /\ RegisterInv)'
  BY LockStep, RegisterStep DEF BaseInv
<1>3. LockInv /\ RegisterInv => ExecutorOfHolder
  BY DEF LockInv, RegisterInv, ExecutorOfHolder
<1>. QED
  BY <1>1, <1>2, <1>3, BaseInvariant, PTL DEF Spec

(* A job whose task has not returned is unfinished or cancelled.           *)
THEOREM LiveInvariant == Spec => []LiveInv
<1>1. Init => LiveInv
  BY InitInv
<1>2. BaseInv /\ LiveInv /\ [Next]_vars => LiveInv'
  BY LiveStep DEF BaseInv
<1>. QED
  BY <1>1, <1>2, BaseInvariant, PTL DEF Spec

(* A job in _cancelled is never reported as completed or failed, though    *)
(* close() marks the jobs of the tasks it abandons without a state write.  *)
THEOREM CancelledNeverCompletesAlways == Spec => []CancelledNeverCompletes
<1>1. Init => CancelledNeverCompletes
  BY DEF Init, CancelledNeverCompletes
<1>2. BaseInv /\ LiveInv /\ CancelledNeverCompletes /\ [Next]_vars => CancelledNeverCompletes'
  BY CancelledStep DEF BaseInv
<1>. QED
  BY <1>1, <1>2, BaseInvariant, LiveInvariant, PTL DEF Spec

(* A completed or failed job stays what it is, across restarts too.        *)
THEOREM ResultAlwaysStands == Spec => ResultStands
<1>1. BaseInv /\ LiveInv /\ [Next]_vars =>
        [\A j \in Jobs : state[j] \in {"completed", "failed"} => state'[j] = state[j]]_vars
  BY ResultStep DEF BaseInv
<1>. QED
  BY <1>1, BaseInvariant, LiveInvariant, PTL DEF Spec, ResultStands

(* A completed job has no worker error in its log, and lists its output    *)
(* unless it only validated LoRAs.                                         *)
THEOREM CompletedIsAlwaysClean == Spec => []CompletedIsClean
<1>1. Init => CompletedIsClean
  BY DEF Init, CompletedIsClean
<1>2. BaseInv /\ LiveInv /\ CompletedIsClean /\ [Next]_vars => CompletedIsClean'
  BY CleanStep DEF BaseInv
<1>. QED
  BY <1>1, <1>2, BaseInvariant, LiveInvariant, PTL DEF Spec

(* However often a client repeats a command_id, one job runs for it.       *)
THEOREM OneJobPerCommandAlways == Spec => []OneJobPerCommand
<1>1. Init => OneJobPerCommand
  BY DEF Init, OneJobPerCommand
<1>2. BaseInv /\ OneJobPerCommand /\ [Next]_vars => OneJobPerCommand'
  BY CommandStep DEF BaseInv
<1>. QED
  BY <1>1, <1>2, BaseInvariant, PTL DEF Spec

-----------------------------------------------------------------------------
(* JobManager implements JobService: each step maps to a step of the       *)
(* service or to none.                                                     *)

(* A task that waits for the worker lock or holds it.                      *)
Working == Holding \cup {"waiting"}

(* A job that reads CANCELLED while its task is not over is marked: the    *)
(* mark of one that was reopened or is about to be served is never lost.   *)
MarkInv ==
  \A j \in Jobs : task[j] \in Working /\ state[j] = "cancelled" => j \in cancelled

(* A step that the service does not see.                                   *)
Quiet ==
  /\ UNCHANGED <<state, command, lockQueue, holder, cancelled>>
  /\ \A j \in Jobs : task'[j] \in Working => task[j] \in Working

(* The end of a task, however it is reached.                               *)
Settles(j) ==
  /\ task[j] \in Holding
  /\ task' = [task EXCEPT ![j] = "done"] /\ holder' = None
  /\ UNCHANGED <<command, lockQueue, cancelled>>
  /\ IF j \in cancelled THEN UNCHANGED state
     ELSE \E r \in {"completed", "failed"} : state' = [state EXCEPT ![j] = r]

Loud ==
  \/ \E j \in Jobs :
       \/ \E c \in Commands, r \in Requests : Submit(j, c, r)
       \/ Cancel(j) \/ RunJobStart(j) \/ HandleRunning(j) \/ Settles(j) \/ ReleaseCancels(j)
  \/ Close \/ AdminAwaitsLock \/ AdminDropsResident \/ AdminDropped \/ AgentRestart

(* The results as the service sees them.                                   *)
Results == [j \in Jobs |-> Result(state[j])]

(* A step settles a job, is one of those that change what JobService sees, *)
(* or is quiet.                                                            *)
LEMMA SettledLoudOrQuiet ==
  ASSUME TypeOK, ServingInv, [Next]_vars
  PROVE  Quiet \/ Loud
<1> USE RequestsAssumption, NamesAssumption DEF Executors, Working, Holding, Phases
<1>1. ASSUME NEW j \in Jobs, CancelReturns(j)
      PROVE  Quiet
  BY <1>1 DEF TypeOK, TaskTypes, Quiet, CancelReturns, Reap, Log, lockVars,
     taskVars
<1>2. ASSUME NEW j \in Jobs, PayloadFails(j)
      PROVE  Settles(j)
  BY <1>2 DEF TypeOK, TaskTypes, ServingInv, Settles, PayloadFails, Fail,
     TaskEnds, procVars
<1>3. ASSUME NEW j \in Jobs, DropResident(j)
      PROVE  Quiet
  BY <1>3 DEF TypeOK, TaskTypes, Quiet, DropResident, MustDropResident,
     Stoppable, diskVars, lockVars, procVars
<1>4. ASSUME NEW j \in Jobs, UseExecutor(j)
      PROVE  Quiet
  BY <1>4 DEF TypeOK, TaskTypes, Quiet, UseExecutor, EnterRun, WriteCommands,
     MustDropResident, Stoppable, diskVars, lockVars, killVars
<1>5. ASSUME NEW j \in Jobs, ResidentDropped(j)
      PROVE  Quiet
  BY <1>5 DEF TypeOK, TaskTypes, Quiet, ResidentDropped, Reap, diskVars,
     lockVars
<1>6. ASSUME NEW j \in Jobs, SpawnFails(j)
      PROVE  Settles(j)
  BY <1>6 DEF TypeOK, TaskTypes, ServingInv, Settles, SpawnFails, Fail,
     TaskEnds, procVars
<1>7. ASSUME NEW j \in Jobs, Spawn(j)
      PROVE  Quiet
  BY <1>7 DEF TypeOK, TaskTypes, Quiet, Spawn, WriteCommands, diskVars,
     lockVars, killVars
<1>8. ASSUME NEW j \in Jobs, HandleError(j)
      PROVE  Quiet
  BY <1>8 DEF TypeOK, TaskTypes, Quiet, HandleError, ReadEvent, Log, lockVars,
     taskVars, killVars
<1>9. ASSUME NEW j \in Jobs, HandleOutput(j)
      PROVE  Quiet
  BY <1>9 DEF TypeOK, TaskTypes, Quiet, HandleOutput, ReadEvent, diskVars,
     lockVars, killVars
<1>10. ASSUME NEW j \in Jobs, HandleResident(j)
      PROVE  Quiet \/ Settles(j)
  BY <1>10 DEF TypeOK, TaskTypes, ServingInv, Settles, Quiet, HandleResident,
     ReadEvent, Finish, TaskEnds, Abandoned, Succeeded, diskVars, lockVars,
     taskVars, killVars
<1>11. ASSUME NEW j \in Jobs, OutputIndexed(j)
      PROVE  Quiet
  BY <1>11 DEF TypeOK, TaskTypes, Quiet, OutputIndexed, diskVars, lockVars,
     killVars, procVars
<1>12. ASSUME NEW j \in Jobs, OutputRejected(j)
      PROVE  Quiet
  BY <1>12 DEF TypeOK, TaskTypes, Quiet, OutputRejected, diskVars, lockVars,
     procVars
<1>13. ASSUME NEW j \in Jobs, RunRaised(j)
      PROVE  Settles(j)
  BY <1>13 DEF TypeOK, TaskTypes, ServingInv, Settles, RunRaised, Reap, Fail,
     TaskEnds
<1>14. ASSUME NEW j \in Jobs, ReadAfterCancel(j)
      PROVE  Settles(j)
  BY <1>14 DEF TypeOK, TaskTypes, ServingInv, Settles, ReadAfterCancel, Fail,
     TaskEnds, procVars
<1>15. ASSUME NEW j \in Jobs, ReadEof(j)
      PROVE  Settles(j)
  BY <1>15 DEF TypeOK, TaskTypes, ServingInv, Settles, ReadEof, Reap, Finish,
     TaskEnds, Abandoned, Succeeded, killVars
<1>16. ASSUME NEW e \in Executors, WorkerProbe(e)
      PROVE  Quiet
  BY <1>16 DEF TypeOK, TaskTypes, Quiet, WorkerProbe, Goto, Emit, Event,
     diskVars, lockVars, taskVars, killVars, agentVars
<1>17. ASSUME NEW e \in Executors, WorkerLoad(e)
      PROVE  Quiet
  BY <1>17 DEF TypeOK, TaskTypes, Quiet, WorkerLoad, Goto, Emit, Event, Exit,
     diskVars, lockVars, taskVars, killVars, agentVars
<1>18. ASSUME NEW e \in Executors, WorkerBegin(e)
      PROVE  Quiet
  BY <1>18 DEF TypeOK, TaskTypes, Quiet, WorkerBegin, Goto, Emit, Event,
     diskVars, lockVars, taskVars, killVars, agentVars
<1>19. ASSUME NEW e \in Executors, WorkerDone(e)
      PROVE  Quiet
  BY <1>19 DEF TypeOK, TaskTypes, Quiet, WorkerDone, Goto, Emit, EmitFinal,
     Event, Exit, diskVars, lockVars, taskVars, killVars, agentVars
<1>20. ASSUME NEW e \in Executors, WorkerError(e)
      PROVE  Quiet
  BY <1>20 DEF TypeOK, TaskTypes, Quiet, WorkerError, Goto, Emit, Event, Exit,
     diskVars, lockVars, taskVars, killVars, agentVars
<1>21. ASSUME NEW e \in Executors, WorkerStdinEof(e)
      PROVE  Quiet
  BY <1>21 DEF TypeOK, TaskTypes, Quiet, WorkerStdinEof, Exit, diskVars,
     lockVars, taskVars, killVars, agentVars
<1>22. ASSUME NEW e \in Executors, WorkerProgress(e)
      PROVE  Quiet
  BY <1>22 DEF TypeOK, TaskTypes, Quiet, WorkerProgress, Emit, Event,
     diskVars, lockVars, taskVars, killVars, agentVars
<1>23. ASSUME NEW e \in Executors, WorkerKilled(e)
      PROVE  Quiet
  BY <1>23 DEF TypeOK, TaskTypes, Quiet, WorkerKilled, Exit, diskVars,
     lockVars, taskVars, killVars, agentVars
<1>24. ASSUME CloseGathers
      PROVE  Quiet
  BY <1>24 DEF TypeOK, TaskTypes, Quiet, CloseGathers, Reap, lockVars,
     adminFrame
<1>25. ASSUME Release
      PROVE  Quiet
  BY <1>25 DEF TypeOK, TaskTypes, Quiet, Release, lockVars, procVars,
     adminFrame
<1>26. ASSUME ReleaseCancelReturns
      PROVE  Quiet
  BY <1>26 DEF TypeOK, TaskTypes, Quiet, ReleaseCancelReturns, Reap, Log,
     lockVars, adminFrame
<1>27. ASSUME ReleaseGathers
      PROVE  Quiet
  BY <1>27 DEF TypeOK, TaskTypes, Quiet, ReleaseGathers, lockVars, procVars,
     adminFrame
<1>28. CASE UNCHANGED vars
  BY <1>28 DEF vars, diskVars, lockVars, taskVars, Quiet
<1>. QED
  BY <1>1, <1>2, <1>3, <1>4, <1>5, <1>6, <1>7, <1>8, <1>9, <1>10, <1>11,
     <1>12, <1>13, <1>14, <1>15, <1>16, <1>17, <1>18, <1>19, <1>20, <1>21,
     <1>22, <1>23, <1>24, <1>25, <1>26, <1>27, <1>28 DEF Next, TaskStep,
     WorkerStep, AdminStep, Loud

(* One changed state is one changed result.                                *)
LEMMA OneResult ==
  ASSUME NEW j \in Jobs, NEW s, state \in [Jobs -> {"none"} \cup ActiveStates \cup FinalStates],
         state' = [state EXCEPT ![j] = s]
  PROVE  Results' = [Results EXCEPT ![j] = Result(s)]
  BY DEF Results

(* Every step keeps the marks of those that are neither over nor reopened. *)
LEMMA MarkStep ==
  ASSUME TypeOK, ServingInv, MarkInv, [Next]_vars
  PROVE  MarkInv'
<1> USE DEF MarkInv, Working, Holding, Phases, ActiveStates, FinalStates
<1>1. CASE Quiet
  BY <1>1 DEF Quiet
<1>2. ASSUME NEW j \in Jobs, NEW c \in Commands, NEW r \in Requests, Submit(j, c, r)
      PROVE  MarkInv'
  BY <1>2 DEF TypeOK, TaskTypes, DiskTypes, Submit
<1>3. ASSUME NEW j \in Jobs, Cancel(j)
      PROVE  MarkInv'
  BY <1>3 DEF TypeOK, TaskTypes, DiskTypes, Cancel, MarkCancelled
<1>4. ASSUME NEW j \in Jobs, RunJobStart(j)
      PROVE  MarkInv'
  BY <1>4 DEF TypeOK, TaskTypes, DiskTypes, RunJobStart, TaskEnds
<1>5. ASSUME NEW j \in Jobs, HandleRunning(j)
      PROVE  MarkInv'
  BY <1>5 DEF TypeOK, TaskTypes, DiskTypes, HandleRunning, taskVars
<1>6. ASSUME NEW j \in Jobs, Settles(j)
      PROVE  MarkInv'
  BY <1>6 DEF TypeOK, TaskTypes, DiskTypes, Settles
<1>7. ASSUME NEW j \in Jobs, ReleaseCancels(j)
      PROVE  MarkInv'
  BY <1>7 DEF TypeOK, TaskTypes, DiskTypes, ReleaseCancels, MarkCancelled, adminFrame
<1>8. CASE Close
  BY <1>8 DEF Close, adminFrame
<1>9. CASE AdminAwaitsLock
  BY <1>9 DEF AdminAwaitsLock, adminFrame
<1>10. CASE AdminDropsResident
  BY <1>10 DEF AdminDropsResident, adminFrame
<1>11. CASE AdminDropped
  BY <1>11 DEF AdminDropped, adminFrame
<1>12. CASE AgentRestart
  BY <1>12 DEF TypeOK, TaskTypes, AgentRestart
<1>. QED
  BY <1>1, <1>2, <1>3, <1>4, <1>5, <1>6, <1>7, <1>8, <1>9, <1>10, <1>11, <1>12,
     SettledLoudOrQuiet DEF Loud

(* A step of the jobs is a step of the service or a stutter.               *)
LEMMA ServiceStep ==
  ASSUME TypeOK, ServingInv, TodoInv, LockInv, LiveInv, MarkInv, [Next]_vars
  PROVE  [Service!Next]_(Service!vars)
<1> USE NamesAssumption DEF Working, Holding, Phases, ActiveStates, FinalStates, Result,
        Service!vars, Service!SetResult, Service!TakesTurn
<1> DEFINE Goal == [Service!Next]_(Service!vars)
<1>t. /\ state \in [Jobs -> {"none"} \cup ActiveStates \cup FinalStates]
      /\ command \in [Jobs -> Commands \cup {None}]
      /\ task \in [Jobs -> Phases]
  BY DEF TypeOK, DiskTypes, TaskTypes
<1>1. ASSUME Quiet
      PROVE  Goal
  BY <1>1 DEF Quiet
<1>2. ASSUME NEW j \in Jobs, NEW c \in Commands, NEW r \in Requests, Submit(j, c, r)
      PROVE  Goal
  <2>1. Results' = [Results EXCEPT ![j] = "open"]
    BY <1>2, <1>t, OneResult DEF Submit
  <2>2. Service!Submit(j, c)
    BY <2>1, <1>2, <1>t DEF Submit, FindCommand, Results, Service!Submit
  <2>. QED
    BY <2>2 DEF Service!Next
<1>3. ASSUME NEW j \in Jobs, MarkCancelled(j), ~Finished(j), state[j] # "none",
             UNCHANGED <<command, lockQueue, holder>>
      PROVE  Goal
  <2>1. Results' = [Results EXCEPT ![j] = "cancelled"]
    BY <1>3, <1>t, OneResult DEF MarkCancelled
  <2>2. Service!Withdraw(j)
    BY <2>1, <1>3, <1>t DEF MarkCancelled, Finished, Results, Service!Withdraw
  <2>. QED
    BY <2>2 DEF Service!Next
<1>4. ASSUME NEW j \in Jobs, Cancel(j)
      PROVE  Goal
  BY <1>3, <1>4 DEF Cancel, lockVars
<1>5. ASSUME NEW j \in Jobs, RunJobStart(j)
      PROVE  Goal
  <2>1. CASE j \in cancelled
    <3>1. Service!Skip(j)
      BY <1>5, <2>1 DEF RunJobStart, TaskEnds, Service!Skip
    <3>. QED
      BY <3>1 DEF Service!Next
  <2>2. CASE j \notin cancelled
    <3>1. state[j] \in ActiveStates
      BY <1>5, <2>2 DEF RunJobStart, LiveInv, MarkInv
    <3>2. Results' = [Results EXCEPT ![j] = "open"]
      BY <1>5, <2>2, <1>t, OneResult DEF RunJobStart
    <3>3. Results' = Results
      BY <3>1, <3>2, <1>t DEF Results
    <3>4. Service!Serve(j)
      BY <1>5, <2>2, <3>1, <3>3 DEF RunJobStart, Results, Service!Serve
    <3>. QED
      BY <3>4 DEF Service!Next
  <2>. QED
    BY <2>1, <2>2
<1>6. ASSUME NEW j \in Jobs, HandleRunning(j)
      PROVE  Goal
  <2>1. /\ state[j] \in ActiveStates \cup {"cancelled"} /\ holder = j
        /\ state[j] = "cancelled" => j \in cancelled
    BY <1>6 DEF HandleRunning, ReadEvent, LiveInv, LockInv, MarkInv
  <2>2. Results' = [Results EXCEPT ![j] = "open"]
    BY <1>6, <1>t, OneResult DEF HandleRunning
  <2>3. CASE state[j] = "cancelled"
    <3>1. Service!Reopen(j)
      BY <1>6, <2>1, <2>2, <2>3 DEF HandleRunning, lockVars, taskVars, Results, Service!Reopen
    <3>. QED
      BY <3>1 DEF Service!Next
  <2>4. CASE state[j] # "cancelled"
    <3>1. Results' = Results
      BY <2>1, <2>2, <2>4, <1>t DEF Results
    <3>. QED
      BY <1>6, <3>1 DEF HandleRunning, lockVars, taskVars, Results
  <2>. QED
    BY <2>3, <2>4
<1>7. ASSUME NEW j \in Jobs, Settles(j)
      PROVE  Goal
  <2>1. holder = j
    BY <1>7 DEF Settles, LockInv
  <2>2. CASE j \in cancelled
    <3>1. Service!Leave(j)
      BY <1>7, <2>1, <2>2 DEF Settles, Service!Leave
    <3>. QED
      BY <3>1 DEF Service!Next
  <2>3. CASE j \notin cancelled
    <3>1. state[j] \in ActiveStates
      BY <1>7, <2>3 DEF Settles, LiveInv, MarkInv
    <3>2. PICK r \in {"completed", "failed"} : state' = [state EXCEPT ![j] = r]
      BY <1>7, <2>3 DEF Settles
    <3>3. Results' = [Results EXCEPT ![j] = r]
      BY <3>2, <1>t, OneResult
    <3>4. Service!Answer(j)
      BY <1>7, <2>1, <2>3, <3>1, <3>3 DEF Settles, Results, Service!Answer
    <3>. QED
      BY <3>4 DEF Service!Next
  <2>. QED
    BY <2>2, <2>3
<1>8. ASSUME NEW j \in Jobs, ReleaseCancels(j)
      PROVE  Goal
  <2>1. state[j] # "none" /\ UNCHANGED <<command, lockQueue, holder>>
    BY <1>8 DEF ReleaseCancels, TodoInv, ServingInv, adminFrame, lockVars
  <2>2. CASE Finished(j)
    BY <1>8, <2>1, <2>2 DEF ReleaseCancels
  <2>3. CASE ~Finished(j)
    BY <1>3, <1>8, <2>1, <2>3 DEF ReleaseCancels
  <2>. QED
    BY <2>2, <2>3
<1>9. ASSUME Close
      PROVE  Goal
  <2>1. LiveTasks \in SUBSET Jobs /\ \A j \in LiveTasks : Results[j] \in {"open", "cancelled"}
    BY <1>t DEF LiveTasks, LiveInv, Results
  <2>2. Service!Abandon(LiveTasks)
    BY <1>9, <2>1 DEF Close, adminFrame, lockVars, Results, Service!Abandon
  <2>. QED
    BY <2>1, <2>2 DEF Service!Next
<1>10. ASSUME AdminAwaitsLock
       PROVE  Goal
  <2>1. Service!OperatorAsks
    BY <1>10 DEF AdminAwaitsLock, adminFrame, Service!OperatorAsks
  <2>. QED
    BY <2>1 DEF Service!Next
<1>11. ASSUME AdminDropsResident
       PROVE  Goal
  <2>1. Service!OperatorTurn
    BY <1>11 DEF AdminDropsResident, AdminReturns, adminFrame, Service!OperatorTurn
  <2>. QED
    BY <2>1 DEF Service!Next
<1>12. ASSUME AdminDropped
       PROVE  Goal
  <2>1. Service!OperatorLeaves
    BY <1>12 DEF AdminDropped, AdminReturns, LockInv, adminFrame, Service!OperatorLeaves
  <2>. QED
    BY <2>1 DEF Service!Next
<1>13. ASSUME AgentRestart
       PROVE  Goal
  <2>1. Results' = [j \in Jobs |-> IF Results[j] = "open" THEN "failed" ELSE Results[j]]
    BY <1>13, <1>t DEF AgentRestart, Recovered, Results
  <2>2. Service!Restart
    BY <1>13, <2>1 DEF AgentRestart, Results, Service!Restart
  <2>. QED
    BY <2>2 DEF Service!Next
<1>. QED
  BY <1>1, <1>2, <1>4, <1>5, <1>6, <1>7, <1>8, <1>9, <1>10, <1>11, <1>12, <1>13,
     SettledLoudOrQuiet DEF Loud

(* The agent and its workers are a server of JobService: jobs are served   *)
(* one at a time in the order of their submissions, each once, and a       *)
(* result comes from the turn of its job and stands, whatever the events,  *)
(* cancellations, shutdowns and restarts in between.                       *)
THEOREM JobServiceImplemented == Spec => ImplementsJobService
<1>1. Init => LockInv /\ LiveInv /\ MarkInv /\ Service!Init
  <2>1. Init => LockInv /\ LiveInv
    BY InitInv
  <2>2. Init => MarkInv /\ Service!Init
    BY DEF Init, MarkInv, Result, ActiveStates, Service!Init
  <2>. QED
    BY <2>1, <2>2
<1>2. BaseInv /\ LockInv /\ LiveInv /\ MarkInv /\ [Next]_vars => (LockInv /\ LiveInv /\ MarkInv)'
  BY LockStep, LiveStep, MarkStep DEF BaseInv
<1>3. BaseInv /\ LockInv /\ LiveInv /\ MarkInv /\ [Next]_vars => [Service!Next]_(Service!vars)
  BY ServiceStep DEF BaseInv
<1>. QED
  BY <1>1, <1>2, <1>3, BaseInvariant, PTL DEF Spec, ImplementsJobService, Service!Spec

===============================================================================
