-------------------------- MODULE JobWorkerProofs --------------------------
(***************************************************************************)
(* What JobManager promises of its worker processes, for any sets of jobs, *)
(* keys and requests, any pipe capacity and any number of restarts: there  *)
(* is one at a time and it can be stopped, its events reach the job they   *)
(* are of, and it runs a job on the model the job asks for.                *)
(***************************************************************************)
EXTENDS JobManagerProofs, SequenceTheorems

(* A task whose executor has, or had, a process for it, and one that has   *)
(* its executor.                                                           *)
Using == {"reading", "indexing", "raising"}
Engaged == Using \cup {"spawning"}

(* The task that has the worker lock uses e.                               *)
Used(e) == holder \in Jobs /\ task[holder] \in Using /\ executors[holder] = e

(* Whoever may have a live process: the resident executor, the one that    *)
(* the task with the lock uses, or the one that it or the administrator is *)
(* dropping.                                                               *)
Located(e) ==
  \/ e = resident
  \/ Used(e)
  \/ holder \in Jobs /\ task[holder] = "dropping" /\ taskKill[holder] = e
  \/ admin.phase = "dropping" /\ admin.kill = e

(* A task that engages an executor takes the resident one, whose model is  *)
(* its own, or there is none; who drops it has forgotten it before.        *)
EngagedInv ==
  /\ \A j \in Jobs : task[j] \in Engaged /\ resident # None =>
       resident = executors[j] /\ residentKey = CacheKey(j)
  /\ \A j \in Jobs : task[j] = "dropping" => resident = None /\ taskKill[j] # None
  /\ \A j \in Jobs : task[j] = "raising" => taskKill[j] = executors[j]
  /\ admin.phase = "dropping" => resident = None

(* A live process is located, and nobody is about to start it.             *)
LocatedInv ==
  /\ \A j \in Jobs : task[j] = "spawning" => proc[executors[j]] # "up"
  /\ \A e \in Executors : proc[e] = "up" => Located(e)

(* A pipe holds events of the job that is served, and "resident" comes     *)
(* last, from a process that is to be kept and waits for commands.         *)
PipeOf(e) ==
  \A i \in DOMAIN out[e] :
    /\ out[e][i].job = serving[e]
    /\ out[e][i].type = "resident" =>
         i = Len(out[e]) /\ pos[e] = "idle" /\ Keep(serving[e])

Blank(e) == out[e] = <<>> /\ pos[e] = "idle"

(* A process serves the job of the task that uses it; one that nobody uses *)
(* but that is kept has nothing in its pipe and nothing to do.             *)
PipeInv ==
  /\ \A e \in Executors : PipeOf(e)
  /\ \A e \in Executors : proc[e] = "none" =>
       Blank(e) /\ serving[e] = None /\ loaded[e] = None
  /\ \A j \in Jobs : task[j] \in Using /\ proc[executors[j]] # "none" =>
       serving[executors[j]] = j
  /\ resident # None /\ ~Used(resident) => Blank(resident)

(* The model a process has loaded is that of the job it serves, from the   *)
(* load on, and that of a resident process the one recorded for it.        *)
ModelInv ==
  /\ \A e \in Executors : loaded[e] # None => loaded[e] = CacheKey(serving[e])
  /\ \A e \in Executors : pos[e] \in {"main", "busy"} => loaded[e] # None
  /\ resident # None => loaded[resident] \in {None, residentKey}

(* The head and the tail of a pipe.                                        *)
LEMMA PipeEnds ==
  ASSUME TypeOK, NEW e \in Executors, out[e] # <<>>
  PROVE  /\ 1 \in DOMAIN out[e] /\ Head(out[e]) = out[e][1]
         /\ Len(Tail(out[e])) = Len(out[e]) - 1
         /\ \A i \in DOMAIN Tail(out[e]) :
              i + 1 \in DOMAIN out[e] /\ Tail(out[e])[i] = out[e][i + 1]
<1>1. out[e] \in Seq(WorkerEvents)
  BY DEF TypeOK, ProcTypes
<1>. QED
  BY <1>1

(* A task that reads "resident" reads the last event of its own job, which *)
(* asked for the model to be kept.                                         *)
LEMMA ResidentHead ==
  ASSUME TypeOK, ServingInv, PipeInv, NEW j \in Jobs, ReadEvent(j, "resident")
  PROVE  /\ executors[j] \in Executors /\ serving[executors[j]] = j
         /\ Head(out[executors[j]]).job = j /\ Keep(j)
         /\ Tail(out[executors[j]]) = <<>> /\ pos[executors[j]] = "idle"
<1> DEFINE e == executors[j]
<1>1. e \in Executors /\ out[e] # <<>> /\ proc[e] # "none" /\ task[j] \in Using
  BY DEF ServingInv, ReadEvent, Using
<1>2. out[e] \in Seq(WorkerEvents)
  BY <1>1 DEF TypeOK, ProcTypes
<1>3. serving[e] = j /\ PipeOf(e)
  BY <1>1 DEF PipeInv
<1>4. 1 \in DOMAIN out[e] /\ Head(out[e]) = out[e][1]
  BY <1>1, PipeEnds
<1>5. out[e][1].type = "resident"
  BY <1>4 DEF ReadEvent
<1>6. out[e][1].job = j /\ 1 = Len(out[e]) /\ pos[e] = "idle" /\ Keep(j)
  BY <1>3, <1>4, <1>5 DEF PipeOf
<1>7. Tail(out[e]) = <<>>
  <2>1. Tail(out[e]) \in Seq(WorkerEvents) /\ Len(Tail(out[e])) = 0
    BY <1>1, <1>2, <1>6
  <2>. QED
    BY <2>1, EmptySeq
<1>. QED
  BY <1>1, <1>3, <1>4, <1>6, <1>7

(* Every step keeps what a task engages and what it drops apart.           *)
LEMMA EngagedStep ==
  ASSUME TypeOK, ServingInv, LockInv, EngagedInv, PipeInv, [Next]_vars
  PROVE  EngagedInv'
<1> USE RequestsAssumption, NamesAssumption, BoundsAssumption DEF Executors, Phases, Holding, Using, Engaged
<1>1. ASSUME NEW j \in Jobs, NEW c \in Commands, NEW r \in Requests,
             Submit(j, c, r)
      PROVE  EngagedInv'
  BY <1>1 DEF TypeOK, TaskTypes, KillTypes, AdminRecords, IdleAdmin,
     ServingInv, LockInv, EngagedInv, CacheKey, Submit, FindCommand, killVars,
     procVars
<1>2. ASSUME NEW j \in Jobs, Cancel(j)
      PROVE  EngagedInv'
  BY <1>2 DEF TypeOK, TaskTypes, KillTypes, AdminRecords, IdleAdmin,
     ServingInv, LockInv, EngagedInv, CacheKey, Cancel, MarkCancelled, Log,
     Finished, Stoppable, lockVars
<1>3. ASSUME NEW j \in Jobs, CancelReturns(j)
      PROVE  EngagedInv'
  BY <1>3 DEF TypeOK, TaskTypes, KillTypes, AdminRecords, IdleAdmin,
     ServingInv, LockInv, EngagedInv, CacheKey, CancelReturns, Reap, Log,
     lockVars, taskVars
<1>4. ASSUME NEW j \in Jobs, RunJobStart(j)
      PROVE  EngagedInv'
  <2>1. \A k \in Jobs : task'[k] \notin {"payload", "done"} =>
          task'[k] = task[k] /\ executors'[k] = executors[k]
    BY <1>4 DEF TypeOK, TaskTypes, RunJobStart, TaskEnds
  <2>. QED
    BY <1>4, <2>1 DEF EngagedInv, CacheKey, RunJobStart, killVars
<1>5. ASSUME NEW j \in Jobs, PayloadFails(j)
      PROVE  EngagedInv'
  BY <1>5 DEF TypeOK, TaskTypes, KillTypes, AdminRecords, IdleAdmin,
     ServingInv, LockInv, EngagedInv, CacheKey, PayloadFails, Fail, TaskEnds,
     procVars
<1>6. ASSUME NEW j \in Jobs, DropResident(j)
      PROVE  EngagedInv'
  BY <1>6 DEF TypeOK, TaskTypes, KillTypes, AdminRecords, IdleAdmin,
     ServingInv, LockInv, EngagedInv, CacheKey, DropResident,
     MustDropResident, Stoppable, diskVars, lockVars, procVars
<1>7. ASSUME NEW j \in Jobs, UseExecutor(j)
      PROVE  EngagedInv'
  BY <1>7 DEF TypeOK, TaskTypes, KillTypes, AdminRecords, IdleAdmin,
     ServingInv, LockInv, EngagedInv, CacheKey, UseExecutor, EnterRun,
     WriteCommands, MustDropResident, Stoppable, diskVars, lockVars, killVars
<1>8. ASSUME NEW j \in Jobs, ResidentDropped(j)
      PROVE  EngagedInv'
  BY <1>8 DEF TypeOK, TaskTypes, KillTypes, AdminRecords, IdleAdmin,
     ServingInv, LockInv, EngagedInv, CacheKey, ResidentDropped, Reap,
     diskVars, lockVars
<1>9. ASSUME NEW j \in Jobs, SpawnFails(j)
      PROVE  EngagedInv'
  BY <1>9 DEF TypeOK, TaskTypes, KillTypes, AdminRecords, IdleAdmin,
     ServingInv, LockInv, EngagedInv, CacheKey, SpawnFails, Fail, TaskEnds,
     procVars
<1>10. ASSUME NEW j \in Jobs, Spawn(j)
      PROVE  EngagedInv'
  BY <1>10 DEF TypeOK, TaskTypes, KillTypes, AdminRecords, IdleAdmin,
     ServingInv, LockInv, EngagedInv, CacheKey, Spawn, WriteCommands,
     diskVars, lockVars, killVars
<1>11. ASSUME NEW j \in Jobs, HandleRunning(j)
      PROVE  EngagedInv'
  BY <1>11 DEF TypeOK, TaskTypes, KillTypes, AdminRecords, IdleAdmin,
     ServingInv, LockInv, EngagedInv, CacheKey, HandleRunning, ReadEvent,
     lockVars, taskVars, killVars
<1>12. ASSUME NEW j \in Jobs, HandleError(j)
      PROVE  EngagedInv'
  BY <1>12 DEF TypeOK, TaskTypes, KillTypes, AdminRecords, IdleAdmin,
     ServingInv, LockInv, EngagedInv, CacheKey, HandleError, ReadEvent, Log,
     lockVars, taskVars, killVars
<1>13. ASSUME NEW j \in Jobs, HandleOutput(j)
      PROVE  EngagedInv'
  BY <1>13 DEF TypeOK, TaskTypes, KillTypes, AdminRecords, IdleAdmin,
     ServingInv, LockInv, EngagedInv, CacheKey, HandleOutput, ReadEvent,
     diskVars, lockVars, killVars
<1>14. ASSUME NEW j \in Jobs, HandleResident(j)
      PROVE  EngagedInv'
  <2>1. task[j] = "reading"
    BY <1>14 DEF HandleResident, ReadEvent
  <2>2. CASE Head(out[executors[j]]).job = j
    <3>1. Finish(j, "exit0", TRUE)
      BY <1>14, <2>2 DEF HandleResident
    <3>2. task' = [task EXCEPT ![j] = "done"] /\ UNCHANGED <<taskKill, admin>>
      BY <3>1 DEF Finish, TaskEnds, killVars
    <3>3. holder = j /\ admin.phase # "dropping"
      BY <2>1 DEF TypeOK, AdminRecords, LockInv
    <3>4. \A k \in Jobs : task'[k] \notin Engaged /\ task'[k] # "dropping"
      BY <2>1, <3>2, <3>3 DEF TypeOK, TaskTypes, LockInv
    <3>. QED
      BY <3>2, <3>3, <3>4 DEF EngagedInv
  <2>3. CASE Head(out[executors[j]]).job # j
    BY <1>14, <2>3 DEF EngagedInv, CacheKey, HandleResident, lockVars, taskVars, killVars
  <2>. QED
    BY <2>2, <2>3
<1>15. ASSUME NEW j \in Jobs, OutputIndexed(j)
      PROVE  EngagedInv'
  BY <1>15 DEF TypeOK, TaskTypes, KillTypes, AdminRecords, IdleAdmin,
     ServingInv, LockInv, EngagedInv, CacheKey, OutputIndexed, diskVars,
     lockVars, killVars, procVars
<1>16. ASSUME NEW j \in Jobs, OutputRejected(j)
      PROVE  EngagedInv'
  BY <1>16 DEF TypeOK, TaskTypes, KillTypes, AdminRecords, IdleAdmin,
     ServingInv, LockInv, EngagedInv, CacheKey, OutputRejected, diskVars,
     lockVars, procVars
<1>17. ASSUME NEW j \in Jobs, RunRaised(j)
      PROVE  EngagedInv'
  BY <1>17 DEF TypeOK, TaskTypes, KillTypes, AdminRecords, IdleAdmin,
     ServingInv, LockInv, EngagedInv, CacheKey, RunRaised, Reap, Fail,
     TaskEnds
<1>18. ASSUME NEW j \in Jobs, ReadAfterCancel(j)
      PROVE  EngagedInv'
  BY <1>18 DEF TypeOK, TaskTypes, KillTypes, AdminRecords, IdleAdmin,
     ServingInv, LockInv, EngagedInv, CacheKey, ReadAfterCancel, Fail,
     TaskEnds, procVars
<1>19. ASSUME NEW j \in Jobs, ReadEof(j)
      PROVE  EngagedInv'
  BY <1>19 DEF TypeOK, TaskTypes, KillTypes, AdminRecords, IdleAdmin,
     ServingInv, LockInv, EngagedInv, CacheKey, ReadEof, Reap, Finish,
     TaskEnds, Abandoned, killVars
<1>20. ASSUME NEW e \in Executors, WorkerProbe(e)
      PROVE  EngagedInv'
  BY <1>20 DEF TypeOK, TaskTypes, KillTypes, AdminRecords, IdleAdmin,
     ServingInv, LockInv, EngagedInv, CacheKey, WorkerProbe, Goto, Emit,
     Event, diskVars, lockVars, taskVars, killVars, agentVars
<1>21. ASSUME NEW e \in Executors, WorkerLoad(e)
      PROVE  EngagedInv'
  BY <1>21 DEF TypeOK, TaskTypes, KillTypes, AdminRecords, IdleAdmin,
     ServingInv, LockInv, EngagedInv, CacheKey, WorkerLoad, Goto, Emit, Event,
     Exit, diskVars, lockVars, taskVars, killVars, agentVars
<1>22. ASSUME NEW e \in Executors, WorkerBegin(e)
      PROVE  EngagedInv'
  BY <1>22 DEF TypeOK, TaskTypes, KillTypes, AdminRecords, IdleAdmin,
     ServingInv, LockInv, EngagedInv, CacheKey, WorkerBegin, Goto, Emit,
     Event, diskVars, lockVars, taskVars, killVars, agentVars
<1>23. ASSUME NEW e \in Executors, WorkerDone(e)
      PROVE  EngagedInv'
  BY <1>23 DEF TypeOK, TaskTypes, KillTypes, AdminRecords, IdleAdmin,
     ServingInv, LockInv, EngagedInv, CacheKey, WorkerDone, Goto, Emit,
     EmitFinal, Event, Exit, diskVars, lockVars, taskVars, killVars, agentVars
<1>24. ASSUME NEW e \in Executors, WorkerError(e)
      PROVE  EngagedInv'
  BY <1>24 DEF TypeOK, TaskTypes, KillTypes, AdminRecords, IdleAdmin,
     ServingInv, LockInv, EngagedInv, CacheKey, WorkerError, Goto, Emit,
     Event, Exit, diskVars, lockVars, taskVars, killVars, agentVars
<1>25. ASSUME NEW e \in Executors, WorkerStdinEof(e)
      PROVE  EngagedInv'
  BY <1>25 DEF TypeOK, TaskTypes, KillTypes, AdminRecords, IdleAdmin,
     ServingInv, LockInv, EngagedInv, CacheKey, WorkerStdinEof, Exit,
     diskVars, lockVars, taskVars, killVars, agentVars
<1>26. ASSUME NEW e \in Executors, WorkerProgress(e)
      PROVE  EngagedInv'
  BY <1>26 DEF TypeOK, TaskTypes, KillTypes, AdminRecords, IdleAdmin,
     ServingInv, LockInv, EngagedInv, CacheKey, WorkerProgress, Emit, Event,
     diskVars, lockVars, taskVars, killVars, agentVars
<1>27. ASSUME NEW e \in Executors, WorkerKilled(e)
      PROVE  EngagedInv'
  BY <1>27 DEF TypeOK, TaskTypes, KillTypes, AdminRecords, IdleAdmin,
     ServingInv, LockInv, EngagedInv, CacheKey, WorkerKilled, Exit, diskVars,
     lockVars, taskVars, killVars, agentVars
<1>28. ASSUME Close
      PROVE  EngagedInv'
  <2>1. admin'.phase # "dropping"
    BY <1>28 DEF TypeOK, KillTypes, AdminRecords, Close, IdleAdmin
  <2>. QED
    BY <1>28, <2>1 DEF EngagedInv, CacheKey, Close, adminFrame
<1>29. ASSUME CloseGathers
      PROVE  EngagedInv'
  BY <1>29 DEF TypeOK, TaskTypes, KillTypes, AdminRecords, IdleAdmin,
     ServingInv, LockInv, EngagedInv, CacheKey, CloseGathers, Reap, lockVars,
     adminFrame
<1>30. ASSUME Release
      PROVE  EngagedInv'
  BY <1>30 DEF TypeOK, TaskTypes, KillTypes, AdminRecords, IdleAdmin,
     ServingInv, LockInv, EngagedInv, CacheKey, Release, lockVars, procVars,
     adminFrame
<1>31. ASSUME NEW j \in Jobs, ReleaseCancels(j)
      PROVE  EngagedInv'
  <2>1. admin'.phase # "dropping"
    <3>1. admin \in AdminRecords /\ admin.phase = "cancelling"
      BY <1>31 DEF TypeOK, KillTypes, ReleaseCancels
    <3>2. \/ admin' = [admin EXCEPT !.todo = @ \ {j}]
          \/ admin' = [admin EXCEPT !.job = j, !.kill = executors[j]]
      BY <1>31 DEF ReleaseCancels
    <3>. QED
      BY <3>1, <3>2 DEF AdminRecords
  <2>. QED
    BY <1>31, <2>1 DEF EngagedInv, CacheKey, ReleaseCancels, adminFrame
<1>32. ASSUME ReleaseCancelReturns
      PROVE  EngagedInv'
  BY <1>32 DEF TypeOK, TaskTypes, KillTypes, AdminRecords, IdleAdmin,
     ServingInv, LockInv, EngagedInv, CacheKey, ReleaseCancelReturns, Reap,
     Log, lockVars, adminFrame
<1>33. ASSUME ReleaseGathers
      PROVE  EngagedInv'
  BY <1>33 DEF TypeOK, TaskTypes, KillTypes, AdminRecords, IdleAdmin,
     ServingInv, LockInv, EngagedInv, CacheKey, ReleaseGathers, lockVars,
     procVars, adminFrame
<1>34. ASSUME AdminAwaitsLock
      PROVE  EngagedInv'
  BY <1>34 DEF TypeOK, TaskTypes, KillTypes, AdminRecords, IdleAdmin,
     ServingInv, LockInv, EngagedInv, CacheKey, AdminAwaitsLock, procVars,
     adminFrame
<1>35. ASSUME AdminDropsResident
      PROVE  EngagedInv'
  BY <1>35 DEF TypeOK, TaskTypes, KillTypes, AdminRecords, IdleAdmin,
     ServingInv, LockInv, EngagedInv, CacheKey, AdminDropsResident,
     AdminReturns, Stoppable, procVars, adminFrame
<1>36. ASSUME AdminDropped
      PROVE  EngagedInv'
  BY <1>36 DEF TypeOK, TaskTypes, KillTypes, AdminRecords, IdleAdmin,
     ServingInv, LockInv, EngagedInv, CacheKey, AdminDropped, AdminReturns,
     Reap, adminFrame
<1>37. ASSUME AgentRestart
      PROVE  EngagedInv'
  BY <1>37 DEF TypeOK, TaskTypes, KillTypes, AdminRecords, IdleAdmin,
     ServingInv, LockInv, EngagedInv, CacheKey, AgentRestart, Recovered
<1>38. CASE UNCHANGED vars
  BY <1>38 DEF vars, diskVars, lockVars, taskVars, killVars, procVars, TypeOK,
     TaskTypes, KillTypes, AdminRecords, IdleAdmin, ServingInv, LockInv,
     EngagedInv, CacheKey
<1>. QED
  BY <1>1, <1>2, <1>3, <1>4, <1>5, <1>6, <1>7, <1>8, <1>9, <1>10, <1>11,
     <1>12, <1>13, <1>14, <1>15, <1>16, <1>17, <1>18, <1>19, <1>20, <1>21,
     <1>22, <1>23, <1>24, <1>25, <1>26, <1>27, <1>28, <1>29, <1>30, <1>31,
     <1>32, <1>33, <1>34, <1>35, <1>36, <1>37, <1>38 DEF Next, TaskStep,
     WorkerStep, AdminStep

(* Every step knows where the live processes are.                          *)
LEMMA LocatedStep ==
  ASSUME TypeOK, ServingInv, LockInv, EngagedInv, LocatedInv, PipeInv, [Next]_vars
  PROVE  LocatedInv'
<1> USE RequestsAssumption, NamesAssumption, BoundsAssumption DEF Executors, Phases, Holding, Using, Engaged
<1>1. ASSUME NEW j \in Jobs, NEW c \in Commands, NEW r \in Requests,
             Submit(j, c, r)
      PROVE  LocatedInv'
  BY <1>1 DEF TypeOK, TaskTypes, KillTypes, AdminRecords, IdleAdmin,
     ProcTypes, ServingInv, LockInv, EngagedInv, LocatedInv, Located, Used,
     Submit, FindCommand, killVars, procVars
<1>2. ASSUME NEW j \in Jobs, Cancel(j)
      PROVE  LocatedInv'
  BY <1>2 DEF TypeOK, TaskTypes, KillTypes, AdminRecords, IdleAdmin,
     ProcTypes, ServingInv, LockInv, EngagedInv, LocatedInv, Located, Used,
     Cancel, MarkCancelled, Log, Finished, Stoppable, lockVars
<1>3. ASSUME NEW j \in Jobs, CancelReturns(j)
      PROVE  LocatedInv'
  BY <1>3 DEF TypeOK, TaskTypes, KillTypes, AdminRecords, IdleAdmin,
     ProcTypes, ServingInv, LockInv, EngagedInv, LocatedInv, Located, Used,
     CancelReturns, Reap, Log, lockVars, taskVars
<1>4. ASSUME NEW j \in Jobs, RunJobStart(j)
      PROVE  LocatedInv'
  <2>1. \A e \in Executors : proc[e] = "up" => e = resident
    BY <1>4 DEF TypeOK, KillTypes, AdminRecords, LockInv, LocatedInv, Located,
       Used, RunJobStart
  <2>2. \A k \in Jobs : task'[k] = "spawning" => task[k] = "spawning" /\ executors'[k] = executors[k]
    BY <1>4 DEF TypeOK, TaskTypes, RunJobStart, TaskEnds
  <2>. QED
    BY <1>4, <2>1, <2>2 DEF LocatedInv, Located, RunJobStart, procVars
<1>5. ASSUME NEW j \in Jobs, PayloadFails(j)
      PROVE  LocatedInv'
  <2>1. holder = j /\ admin.phase # "dropping"
    BY <1>5 DEF TypeOK, TaskTypes, LockInv, PayloadFails
  <2>2. \A e \in Executors : proc[e] = "up" => e = resident
    BY <1>5, <2>1 DEF LocatedInv, Located, Used, PayloadFails
  <2>3. \A k \in Jobs : task'[k] # "spawning"
    BY <1>5, <2>1 DEF TypeOK, TaskTypes, LockInv, PayloadFails, Fail, TaskEnds
  <2>. QED
    BY <1>5, <2>2, <2>3 DEF LocatedInv, Located, PayloadFails, Fail, procVars
<1>6. ASSUME NEW j \in Jobs, DropResident(j)
      PROVE  LocatedInv'
  <2>1. holder = j /\ admin.phase # "dropping"
    BY <1>6 DEF TypeOK, TaskTypes, LockInv, DropResident
  <2>2. \A e \in Executors : proc[e] = "up" => e = resident
    BY <1>6, <2>1 DEF LocatedInv, Located, Used, DropResident
  <2>3. \A k \in Jobs : task'[k] # "spawning"
    BY <1>6, <2>1 DEF TypeOK, TaskTypes, LockInv, DropResident
  <2>4. holder' = j /\ task'[j] = "dropping" /\ taskKill'[j] = resident
    BY <1>6, <2>1 DEF TypeOK, TaskTypes, KillTypes, DropResident, lockVars
  <2>. QED
    BY <1>6, <2>2, <2>3, <2>4 DEF LocatedInv, Located, DropResident, procVars
<1>7. ASSUME NEW j \in Jobs, UseExecutor(j)
      PROVE  LocatedInv'
  <2>1. holder = j /\ admin.phase # "dropping" /\ \A k \in Jobs : task[k] \in Holding => k = j
    BY <1>7 DEF TypeOK, TaskTypes, LockInv, UseExecutor
  <2>2. \A e \in Executors : proc[e] = "up" => e = resident
    BY <1>7, <2>1 DEF LocatedInv, Located, Used, UseExecutor
  <2>3. \A e \in Executors : proc'[e] = "up" => e = resident'
    BY <1>7, <2>2 DEF TypeOK, ProcTypes, UseExecutor, Stoppable
  <2>4. \A k \in Jobs : task'[k] = "spawning" => k = j /\ proc'[executors'[j]] # "up"
    <3>1. task'[j] = "spawning" => proc[executors'[j]] # "up"
      BY <1>7 DEF TypeOK, TaskTypes, UseExecutor, EnterRun, WriteCommands
    <3>2. \A k \in Jobs : task'[k] = "spawning" => k = j
      BY <1>7, <2>1 DEF TypeOK, TaskTypes, UseExecutor, EnterRun, WriteCommands
    <3>. QED
      BY <1>7, <3>1, <3>2 DEF UseExecutor
  <2>. QED
    BY <2>3, <2>4 DEF LocatedInv, Located
<1>8. ASSUME NEW j \in Jobs, ResidentDropped(j)
      PROVE  LocatedInv'
  <2>1. holder = j /\ admin.phase # "dropping" /\ resident = None
    BY <1>8 DEF TypeOK, TaskTypes, LockInv, EngagedInv, ResidentDropped
  <2>2. \A e \in Executors : proc[e] = "up" => e = taskKill[j]
    BY <1>8, <2>1 DEF LocatedInv, Located, Used, ResidentDropped
  <2>3. \A e \in Executors : proc'[e] # "up"
    BY <1>8, <2>2 DEF TypeOK, ProcTypes, ResidentDropped, Reap
  <2>4. \A k \in Jobs : task'[k] = "spawning" => executors'[k] \in Executors
    BY <1>8, <2>1 DEF TypeOK, TaskTypes, LockInv, ResidentDropped
  <2>. QED
    BY <2>3, <2>4 DEF LocatedInv
<1>9. ASSUME NEW j \in Jobs, SpawnFails(j)
      PROVE  LocatedInv'
  <2>1. holder = j /\ admin.phase # "dropping"
    BY <1>9 DEF TypeOK, TaskTypes, LockInv, SpawnFails
  <2>2. \A e \in Executors : proc[e] = "up" => e = resident
    BY <1>9, <2>1 DEF LocatedInv, Located, Used, SpawnFails
  <2>3. \A k \in Jobs : task'[k] # "spawning"
    BY <1>9, <2>1 DEF TypeOK, TaskTypes, LockInv, SpawnFails, Fail, TaskEnds
  <2>. QED
    BY <1>9, <2>2, <2>3 DEF LocatedInv, Located, SpawnFails, Fail, procVars
<1>10. ASSUME NEW j \in Jobs, Spawn(j)
      PROVE  LocatedInv'
  <2>1. holder = j /\ admin.phase # "dropping" /\ executors[j] \in Executors
    BY <1>10 DEF TypeOK, TaskTypes, LockInv, ServingInv, Spawn
  <2>2. \A e \in Executors : proc[e] # "up"
    BY <1>10, <2>1 DEF LocatedInv, Located, Used, EngagedInv, Spawn
  <2>3. \A e \in Executors : proc'[e] = "up" => e = executors[j]
    BY <1>10, <2>2 DEF TypeOK, ProcTypes, Spawn
  <2>4. \A k \in Jobs : task'[k] # "spawning"
    BY <1>10, <2>1 DEF TypeOK, TaskTypes, LockInv, Spawn
  <2>5. holder' = j /\ task'[j] = "reading" /\ executors'[j] = executors[j]
    BY <1>10, <2>1 DEF TypeOK, TaskTypes, Spawn, lockVars
  <2>. QED
    BY <2>3, <2>4, <2>5 DEF LocatedInv, Located, Used
<1>11. ASSUME NEW j \in Jobs, HandleRunning(j)
      PROVE  LocatedInv'
  BY <1>11 DEF TypeOK, TaskTypes, KillTypes, AdminRecords, IdleAdmin,
     ProcTypes, ServingInv, LockInv, EngagedInv, LocatedInv, Located, Used,
     HandleRunning, ReadEvent, lockVars, taskVars, killVars
<1>12. ASSUME NEW j \in Jobs, HandleError(j)
      PROVE  LocatedInv'
  BY <1>12 DEF TypeOK, TaskTypes, KillTypes, AdminRecords, IdleAdmin,
     ProcTypes, ServingInv, LockInv, EngagedInv, LocatedInv, Located, Used,
     HandleError, ReadEvent, Log, lockVars, taskVars, killVars
<1>13. ASSUME NEW j \in Jobs, HandleOutput(j)
      PROVE  LocatedInv'
  BY <1>13 DEF TypeOK, TaskTypes, KillTypes, AdminRecords, IdleAdmin,
     ProcTypes, ServingInv, LockInv, EngagedInv, LocatedInv, Located, Used,
     HandleOutput, ReadEvent, diskVars, lockVars, killVars
<1>14. ASSUME NEW j \in Jobs, HandleResident(j)
      PROVE  LocatedInv'
  <2>1. holder = j /\ admin.phase # "dropping" /\ executors[j] \in Executors
    BY <1>14 DEF TypeOK, TaskTypes, LockInv, ServingInv, HandleResident, ReadEvent
  <2>2. \A e \in Executors : proc[e] = "up" => e = executors[j]
    BY <1>14, <2>1 DEF LocatedInv, Located, Used, EngagedInv, HandleResident, ReadEvent
  <2>3. Keep(j) /\ Head(out[executors[j]]).job = j
    BY <1>14, <2>1, ResidentHead DEF HandleResident
  <2>4. resident' = executors[j]
    BY <1>14, <2>3 DEF HandleResident, Finish
  <2>5. \A k \in Jobs : task'[k] # "spawning"
    BY <1>14, <2>1, <2>3 DEF TypeOK, TaskTypes, LockInv, HandleResident, ReadEvent, Finish, TaskEnds
  <2>. QED
    BY <1>14, <2>2, <2>4, <2>5 DEF LocatedInv, Located, HandleResident, ReadEvent
<1>15. ASSUME NEW j \in Jobs, OutputIndexed(j)
      PROVE  LocatedInv'
  BY <1>15 DEF TypeOK, TaskTypes, KillTypes, AdminRecords, IdleAdmin,
     ProcTypes, ServingInv, LockInv, EngagedInv, LocatedInv, Located, Used,
     OutputIndexed, diskVars, lockVars, killVars, procVars
<1>16. ASSUME NEW j \in Jobs, OutputRejected(j)
      PROVE  LocatedInv'
  BY <1>16 DEF TypeOK, TaskTypes, KillTypes, AdminRecords, IdleAdmin,
     ProcTypes, ServingInv, LockInv, EngagedInv, LocatedInv, Located, Used,
     OutputRejected, diskVars, lockVars, procVars
<1>17. ASSUME NEW j \in Jobs, RunRaised(j)
      PROVE  LocatedInv'
  <2>1. holder = j /\ admin.phase # "dropping" /\ executors[j] \in Executors
    BY <1>17 DEF TypeOK, TaskTypes, LockInv, ServingInv, RunRaised
  <2>2. \A e \in Executors : proc[e] = "up" => e = executors[j]
    BY <1>17, <2>1 DEF LocatedInv, Located, Used, EngagedInv, RunRaised
  <2>3. \A e \in Executors : proc'[e] # "up"
    BY <1>17, <2>1, <2>2 DEF TypeOK, ProcTypes, EngagedInv, RunRaised, Reap
  <2>4. \A k \in Jobs : task'[k] # "spawning"
    BY <1>17, <2>1 DEF TypeOK, TaskTypes, LockInv, RunRaised, Fail, TaskEnds
  <2>. QED
    BY <2>3, <2>4 DEF LocatedInv
<1>18. ASSUME NEW j \in Jobs, ReadAfterCancel(j)
      PROVE  LocatedInv'
  <2>1. holder = j /\ admin.phase # "dropping" /\ executors[j] \in Executors
    BY <1>18 DEF TypeOK, TaskTypes, LockInv, ServingInv, ReadAfterCancel
  <2>2. \A e \in Executors : proc[e] = "up" => e = executors[j]
    BY <1>18, <2>1 DEF LocatedInv, Located, Used, EngagedInv, ReadAfterCancel
  <2>3. \A e \in Executors : proc'[e] # "up"
    BY <1>18, <2>1, <2>2 DEF TypeOK, ProcTypes, EngagedInv, ReadAfterCancel, procVars
  <2>4. \A k \in Jobs : task'[k] # "spawning"
    BY <1>18, <2>1 DEF TypeOK, TaskTypes, LockInv, ReadAfterCancel, Fail, TaskEnds
  <2>. QED
    BY <2>3, <2>4 DEF LocatedInv
<1>19. ASSUME NEW j \in Jobs, ReadEof(j)
      PROVE  LocatedInv'
  <2>1. holder = j /\ admin.phase # "dropping" /\ executors[j] \in Executors
    BY <1>19 DEF TypeOK, TaskTypes, LockInv, ServingInv, ReadEof
  <2>2. \A e \in Executors : proc[e] = "up" => e = executors[j]
    BY <1>19, <2>1 DEF LocatedInv, Located, Used, EngagedInv, ReadEof
  <2>3. \A e \in Executors : proc'[e] # "up"
    BY <1>19, <2>1, <2>2 DEF TypeOK, ProcTypes, EngagedInv, ReadEof, Reap
  <2>4. \A k \in Jobs : task'[k] # "spawning"
    BY <1>19, <2>1 DEF TypeOK, TaskTypes, LockInv, ReadEof, Finish, TaskEnds
  <2>. QED
    BY <2>3, <2>4 DEF LocatedInv
<1>20. ASSUME NEW e \in Executors, WorkerProbe(e)
      PROVE  LocatedInv'
  BY <1>20 DEF TypeOK, TaskTypes, KillTypes, AdminRecords, IdleAdmin,
     ProcTypes, ServingInv, LockInv, EngagedInv, LocatedInv, Located, Used,
     WorkerProbe, Goto, Emit, Event, diskVars, lockVars, taskVars, killVars,
     agentVars
<1>21. ASSUME NEW e \in Executors, WorkerLoad(e)
      PROVE  LocatedInv'
  BY <1>21 DEF TypeOK, TaskTypes, KillTypes, AdminRecords, IdleAdmin,
     ProcTypes, ServingInv, LockInv, EngagedInv, LocatedInv, Located, Used,
     WorkerLoad, Goto, Emit, Event, Exit, diskVars, lockVars, taskVars,
     killVars, agentVars
<1>22. ASSUME NEW e \in Executors, WorkerBegin(e)
      PROVE  LocatedInv'
  BY <1>22 DEF TypeOK, TaskTypes, KillTypes, AdminRecords, IdleAdmin,
     ProcTypes, ServingInv, LockInv, EngagedInv, LocatedInv, Located, Used,
     WorkerBegin, Goto, Emit, Event, diskVars, lockVars, taskVars, killVars,
     agentVars
<1>23. ASSUME NEW e \in Executors, WorkerDone(e)
      PROVE  LocatedInv'
  BY <1>23 DEF TypeOK, TaskTypes, KillTypes, AdminRecords, IdleAdmin,
     ProcTypes, ServingInv, LockInv, EngagedInv, LocatedInv, Located, Used,
     WorkerDone, Goto, Emit, EmitFinal, Event, Exit, diskVars, lockVars,
     taskVars, killVars, agentVars
<1>24. ASSUME NEW e \in Executors, WorkerError(e)
      PROVE  LocatedInv'
  BY <1>24 DEF TypeOK, TaskTypes, KillTypes, AdminRecords, IdleAdmin,
     ProcTypes, ServingInv, LockInv, EngagedInv, LocatedInv, Located, Used,
     WorkerError, Goto, Emit, Event, Exit, diskVars, lockVars, taskVars,
     killVars, agentVars
<1>25. ASSUME NEW e \in Executors, WorkerStdinEof(e)
      PROVE  LocatedInv'
  BY <1>25 DEF TypeOK, TaskTypes, KillTypes, AdminRecords, IdleAdmin,
     ProcTypes, ServingInv, LockInv, EngagedInv, LocatedInv, Located, Used,
     WorkerStdinEof, Exit, diskVars, lockVars, taskVars, killVars, agentVars
<1>26. ASSUME NEW e \in Executors, WorkerProgress(e)
      PROVE  LocatedInv'
  BY <1>26 DEF TypeOK, TaskTypes, KillTypes, AdminRecords, IdleAdmin,
     ProcTypes, ServingInv, LockInv, EngagedInv, LocatedInv, Located, Used,
     WorkerProgress, Emit, Event, diskVars, lockVars, taskVars, killVars,
     agentVars
<1>27. ASSUME NEW e \in Executors, WorkerKilled(e)
      PROVE  LocatedInv'
  BY <1>27 DEF TypeOK, TaskTypes, KillTypes, AdminRecords, IdleAdmin,
     ProcTypes, ServingInv, LockInv, EngagedInv, LocatedInv, Located, Used,
     WorkerKilled, Exit, diskVars, lockVars, taskVars, killVars, agentVars
<1>28. ASSUME Close
      PROVE  LocatedInv'
  <2>1. admin.phase # "dropping"
    BY <1>28 DEF Close, IdleAdmin
  <2>2. UNCHANGED <<task, executors, proc, resident, holder, taskKill>>
    BY <1>28 DEF Close, lockVars, procVars, adminFrame
  <2>. QED
    BY <2>1, <2>2 DEF LocatedInv, Located, Used
<1>29. ASSUME CloseGathers
      PROVE  LocatedInv'
  BY <1>29 DEF TypeOK, TaskTypes, KillTypes, AdminRecords, IdleAdmin,
     ProcTypes, ServingInv, LockInv, EngagedInv, LocatedInv, Located, Used,
     CloseGathers, Reap, lockVars, adminFrame
<1>30. ASSUME Release
      PROVE  LocatedInv'
  BY <1>30 DEF TypeOK, TaskTypes, KillTypes, AdminRecords, IdleAdmin,
     ProcTypes, ServingInv, LockInv, EngagedInv, LocatedInv, Located, Used,
     Release, lockVars, procVars, adminFrame
<1>31. ASSUME NEW j \in Jobs, ReleaseCancels(j)
      PROVE  LocatedInv'
  BY <1>31 DEF TypeOK, TaskTypes, KillTypes, AdminRecords, IdleAdmin,
     ProcTypes, ServingInv, LockInv, EngagedInv, LocatedInv, Located, Used,
     ReleaseCancels, MarkCancelled, Log, Finished, Stoppable, lockVars,
     procVars, adminFrame
<1>32. ASSUME ReleaseCancelReturns
      PROVE  LocatedInv'
  BY <1>32 DEF TypeOK, TaskTypes, KillTypes, AdminRecords, IdleAdmin,
     ProcTypes, ServingInv, LockInv, EngagedInv, LocatedInv, Located, Used,
     ReleaseCancelReturns, Reap, Log, lockVars, adminFrame
<1>33. ASSUME ReleaseGathers
      PROVE  LocatedInv'
  BY <1>33 DEF TypeOK, TaskTypes, KillTypes, AdminRecords, IdleAdmin,
     ProcTypes, ServingInv, LockInv, EngagedInv, LocatedInv, Located, Used,
     ReleaseGathers, lockVars, procVars, adminFrame
<1>34. ASSUME AdminAwaitsLock
      PROVE  LocatedInv'
  BY <1>34 DEF TypeOK, TaskTypes, KillTypes, AdminRecords, IdleAdmin,
     ProcTypes, ServingInv, LockInv, EngagedInv, LocatedInv, Located, Used,
     AdminAwaitsLock, procVars, adminFrame
<1>35. ASSUME AdminDropsResident
      PROVE  LocatedInv'
  <2>1. \A k \in Jobs : task[k] \notin Holding
    BY <1>35 DEF TypeOK, TaskTypes, LockInv, AdminDropsResident
  <2>2. \A e \in Executors : proc[e] = "up" => e = resident
    BY <1>35, <2>1 DEF TypeOK, KillTypes, AdminRecords, LockInv, LocatedInv,
       Located, Used, AdminDropsResident
  <2>3. \A k \in Jobs : task'[k] # "spawning"
    BY <1>35, <2>1 DEF AdminDropsResident, adminFrame
  <2>4. CASE Stoppable(resident)
    <3>1. admin'.phase = "dropping" /\ admin'.kill = resident
      BY <1>35, <2>4 DEF TypeOK, KillTypes, AdminRecords, AdminDropsResident
    <3>. QED
      BY <1>35, <2>2, <2>3, <3>1 DEF LocatedInv, Located, AdminDropsResident, procVars
  <2>5. CASE ~Stoppable(resident)
    BY <1>35, <2>2, <2>3, <2>5 DEF LocatedInv, Stoppable, AdminDropsResident, procVars
  <2>. QED
    BY <2>4, <2>5
<1>36. ASSUME AdminDropped
      PROVE  LocatedInv'
  BY <1>36 DEF TypeOK, TaskTypes, KillTypes, AdminRecords, IdleAdmin,
     ProcTypes, ServingInv, LockInv, EngagedInv, LocatedInv, Located, Used,
     AdminDropped, AdminReturns, Reap, adminFrame
<1>37. ASSUME AgentRestart
      PROVE  LocatedInv'
  BY <1>37 DEF TypeOK, TaskTypes, KillTypes, AdminRecords, IdleAdmin,
     ProcTypes, ServingInv, LockInv, EngagedInv, LocatedInv, Located, Used,
     AgentRestart, Recovered
<1>38. CASE UNCHANGED vars
  BY <1>38 DEF vars, diskVars, lockVars, taskVars, killVars, procVars, TypeOK,
     TaskTypes, KillTypes, AdminRecords, IdleAdmin, ProcTypes, ServingInv,
     LockInv, EngagedInv, LocatedInv, Located, Used
<1>. QED
  BY <1>1, <1>2, <1>3, <1>4, <1>5, <1>6, <1>7, <1>8, <1>9, <1>10, <1>11,
     <1>12, <1>13, <1>14, <1>15, <1>16, <1>17, <1>18, <1>19, <1>20, <1>21,
     <1>22, <1>23, <1>24, <1>25, <1>26, <1>27, <1>28, <1>29, <1>30, <1>31,
     <1>32, <1>33, <1>34, <1>35, <1>36, <1>37, <1>38 DEF Next, TaskStep,
     WorkerStep, AdminStep

(* What a process at work writes keeps the pipes: an event of its own job   *)
(* that is not "resident", or that one at the very end.                    *)
LEMMA WorkerFrame ==
  ASSUME TypeOK, ServingInv, PipeInv, NEW e \in Executors, proc[e] = "up", proc'[e] # "none", PipeOf(e)',
         \A d \in Executors \ {e} : /\ proc'[d] = proc[d] /\ loaded'[d] = loaded[d]
                                    /\ out'[d] = out[d] /\ pos'[d] = pos[d],
         UNCHANGED <<serving, request, task, executors, holder, resident>>,
         pos[e] # "idle"
  PROVE  PipeInv'
<1>1. \A d \in Executors : PipeOf(d)'
  BY DEF PipeInv, PipeOf, Keep
<1>2. \A d \in Executors : proc'[d] = "none" => d # e /\ proc[d] = "none"
  OBVIOUS
<1>3. \A j \in Jobs : proc'[executors[j]] # "none" /\ task[j] \in Using =>
        serving[executors[j]] = j
  BY DEF TypeOK, TaskTypes, ServingInv, PipeInv, Executors, Using
<1>4. resident # None /\ ~Used(resident) => resident # e
  BY DEF PipeInv, Blank
<1>5. resident' # None /\ ~Used(resident)' => Blank(resident)'
  BY <1>4 DEF TypeOK, TaskTypes, PipeInv, Blank, Used, Executors
<1>6. \A d \in Executors : proc'[d] = "none" =>
        Blank(d)' /\ serving'[d] = None /\ loaded'[d] = None
  BY <1>2 DEF PipeInv, Blank
<1>. QED
  BY <1>1, <1>3, <1>5, <1>6 DEF PipeInv

LEMMA WorkerEvent ==
  ASSUME TypeOK, ServingInv, PipeInv, NEW e \in Executors, proc[e] = "up", proc'[e] # "none",
         \A d \in Executors \ {e} : proc'[d] = proc[d] /\ loaded'[d] = loaded[d],
         NEW p, pos' = [pos EXCEPT ![e] = p], pos[e] # "idle",
         NEW type \in EventTypes \ {"resident"}, UNCHANGED out \/ Emit(e, type),
         UNCHANGED <<serving, request, task, executors, holder, resident>>
  PROVE  PipeInv'
<1>1. out[e] \in Seq(WorkerEvents)
  BY DEF TypeOK, ProcTypes
<1>2. \A i \in DOMAIN out[e] : out[e][i].job = serving[e] /\ out[e][i].type # "resident"
  BY DEF PipeInv, PipeOf
<1>3. \A i \in DOMAIN out'[e] : out'[e][i].job = serving[e] /\ out'[e][i].type # "resident"
  <2>1. CASE UNCHANGED out
    BY <1>2, <2>1
  <2>2. CASE Emit(e, type)
    <3>1. out'[e] = Append(out[e], Event(e, type))
      BY <2>2 DEF Emit, TypeOK, ProcTypes
    <3>2. Event(e, type).job = serving[e] /\ Event(e, type).type # "resident"
      BY DEF Event
    <3>. QED
      BY <1>1, <1>2, <3>1, <3>2
  <2>. QED
    BY <2>1, <2>2
<1>4. PipeOf(e)'
  BY <1>3 DEF PipeOf
<1>5. \A d \in Executors \ {e} : out'[d] = out[d] /\ pos'[d] = pos[d]
  BY DEF TypeOK, ProcTypes, Emit
<1>. QED
  BY <1>4, <1>5, WorkerFrame

LEMMA WorkerFinal ==
  ASSUME TypeOK, ServingInv, PipeInv, NEW e \in Executors, proc[e] = "up", proc'[e] # "none",
         \A d \in Executors \ {e} : proc'[d] = proc[d] /\ loaded'[d] = loaded[d],
         pos' = [pos EXCEPT ![e] = "idle"], pos[e] # "idle", EmitFinal(e), Keep(serving[e]),
         UNCHANGED <<serving, request, task, executors, holder, resident>>
  PROVE  PipeInv'
<1> DEFINE o == Append(out[e], Event(e, "output"))
<1>1. out[e] \in Seq(WorkerEvents) /\ out'[e] = Append(o, Event(e, "resident"))
  BY DEF TypeOK, ProcTypes, EmitFinal
<1>2. \A i \in DOMAIN out[e] : out[e][i].job = serving[e] /\ out[e][i].type # "resident"
  BY DEF PipeInv, PipeOf
<1>3. \A type : Event(e, type).job = serving[e] /\ Event(e, type).type = type
  BY DEF Event
<1>4. \A i \in DOMAIN out'[e] :
        /\ out'[e][i].job = serving[e]
        /\ i # Len(out'[e]) => out'[e][i].type # "resident"
  <2>1. o \in Seq({out[e][i] : i \in DOMAIN out[e]} \cup {Event(e, "output")})
    BY <1>1
  <2>2. \A i \in DOMAIN o : o[i].job = serving[e] /\ o[i].type # "resident"
    BY <1>1, <1>2, <1>3
  <2>. QED
    BY <1>1, <1>3, <2>1, <2>2
<1>5. PipeOf(e)'
  BY <1>4 DEF PipeOf, Keep, TypeOK, ProcTypes
<1>6. \A d \in Executors \ {e} : out'[d] = out[d] /\ pos'[d] = pos[d]
  BY DEF TypeOK, ProcTypes, EmitFinal
<1>. QED
  BY <1>5, <1>6, WorkerFrame

(* Every step keeps the pipes.                                             *)
LEMMA PipeStep ==
  ASSUME TypeOK, ServingInv, LockInv, EngagedInv, LocatedInv, PipeInv, [Next]_vars
  PROVE  PipeInv'
<1> USE RequestsAssumption, NamesAssumption, BoundsAssumption DEF Executors, Phases, Holding, Using, Engaged
<1>1. ASSUME NEW j \in Jobs, NEW c \in Commands, NEW r \in Requests,
             Submit(j, c, r)
      PROVE  PipeInv'
  BY <1>1 DEF TypeOK, TaskTypes, KillTypes, AdminRecords, IdleAdmin,
     ProcTypes, ServingInv, LockInv, EngagedInv, PipeInv, PipeOf, Blank, Used,
     Keep, Submit, FindCommand, killVars, procVars
<1>2. ASSUME NEW j \in Jobs, Cancel(j)
      PROVE  PipeInv'
  BY <1>2 DEF TypeOK, TaskTypes, KillTypes, AdminRecords, IdleAdmin,
     ProcTypes, ServingInv, LockInv, EngagedInv, PipeInv, PipeOf, Blank, Used,
     Keep, Cancel, MarkCancelled, Log, Finished, Stoppable, lockVars
<1>3. ASSUME NEW j \in Jobs, CancelReturns(j)
      PROVE  PipeInv'
  BY <1>3 DEF TypeOK, TaskTypes, KillTypes, AdminRecords, IdleAdmin,
     ProcTypes, ServingInv, LockInv, EngagedInv, PipeInv, PipeOf, Blank, Used,
     Keep, CancelReturns, Reap, Log, lockVars, taskVars
<1>4. ASSUME NEW j \in Jobs, RunJobStart(j)
      PROVE  PipeInv'
  <2>1. \A k \in Jobs : task[k] \notin Using
    BY <1>4 DEF TypeOK, TaskTypes, LockInv, RunJobStart
  <2>2. ~Used(resident) /\ \A k \in Jobs : task'[k] \notin Using
    BY <1>4, <2>1 DEF TypeOK, TaskTypes, Used, RunJobStart, TaskEnds
  <2>3. \A e \in Executors : PipeOf(e)'
    BY <1>4 DEF PipeInv, PipeOf, Keep, RunJobStart, procVars
  <2>. QED
    BY <1>4, <2>2, <2>3 DEF PipeInv, Blank, RunJobStart, procVars
<1>5. ASSUME NEW j \in Jobs, PayloadFails(j)
      PROVE  PipeInv'
  <2>1. holder = j /\ \A k \in Jobs : task[k] \in Using => k = j
    BY <1>5 DEF TypeOK, TaskTypes, LockInv, PayloadFails
  <2>2. ~Used(resident) /\ \A k \in Jobs : task'[k] \notin Using
    BY <1>5, <2>1 DEF TypeOK, TaskTypes, Used, PayloadFails, Fail, TaskEnds, procVars
  <2>3. \A e \in Executors : PipeOf(e)'
    BY <1>5 DEF PipeInv, PipeOf, Keep, PayloadFails, Fail, TaskEnds, procVars
  <2>. QED
    BY <1>5, <2>2, <2>3 DEF PipeInv, Blank, PayloadFails, Fail, TaskEnds, procVars
<1>6. ASSUME NEW j \in Jobs, DropResident(j)
      PROVE  PipeInv'
  BY <1>6 DEF TypeOK, TaskTypes, KillTypes, AdminRecords, IdleAdmin,
     ProcTypes, ServingInv, LockInv, EngagedInv, PipeInv, PipeOf, Blank, Used,
     Keep, DropResident, MustDropResident, Stoppable, diskVars, lockVars,
     procVars
<1>7. ASSUME NEW j \in Jobs, UseExecutor(j)
      PROVE  PipeInv'
  <2> DEFINE e == executors'[j]
  <2>1. holder = j /\ \A k \in Jobs : task[k] \notin Using
    BY <1>7 DEF TypeOK, TaskTypes, LockInv, UseExecutor
  <2>2. e \in Executors /\ resident' \in {None, e} /\ (resident' = None => e = j)
    BY <1>7 DEF TypeOK, TaskTypes, UseExecutor, EnterRun
  <2>3. resident' # None => resident = e /\ Blank(e)
    BY <1>7, <2>1, <2>2 DEF TypeOK, TaskTypes, PipeInv, Used, UseExecutor
  <2>4. CASE proc[e] = "up"
    <3>1. resident = e
      BY <2>1, <2>2, <2>4, <1>7 DEF TypeOK, TaskTypes, LocatedInv, Located, Used, LockInv,
         UseExecutor, Stoppable
    <3>2. resident' = e /\ Blank(e)
      BY <2>2, <2>3, <2>4, <3>1, <1>7 DEF UseExecutor, Stoppable
    <3>3. /\ task' = [task EXCEPT ![j] = "reading"]
          /\ serving' = [serving EXCEPT ![e] = j] /\ pos' = [pos EXCEPT ![e] = "probe"]
      BY <2>2, <2>4, <1>7 DEF TypeOK, TaskTypes, UseExecutor, EnterRun, WriteCommands
    <3>4. \A d \in Executors : PipeOf(d)'
      BY <2>2, <3>2, <3>3, <1>7 DEF TypeOK, ProcTypes, PipeInv, PipeOf, Blank, Keep, UseExecutor
    <3>5. Used(resident)'
      BY <2>1, <2>2, <3>2, <3>3, <1>7 DEF TypeOK, TaskTypes, Used, UseExecutor, lockVars
    <3>. QED
      BY <2>1, <2>2, <2>4, <3>3, <3>4, <3>5, <1>7 DEF TypeOK, ProcTypes, TaskTypes, PipeInv, Blank,
         UseExecutor
  <2>5. CASE proc[e] # "up"
    <3>1. task' = [task EXCEPT ![j] = "spawning"] /\ UNCHANGED <<serving, pos>>
      BY <2>2, <2>5, <1>7 DEF TypeOK, TaskTypes, UseExecutor, EnterRun
    <3>2. \A d \in Executors : PipeOf(d)'
      BY <3>1, <1>7 DEF PipeInv, PipeOf, Keep, UseExecutor
    <3>. QED
      BY <2>1, <2>2, <2>3, <3>1, <3>2, <1>7 DEF TypeOK, TaskTypes, PipeInv, Blank, UseExecutor
  <2>. QED
    BY <2>4, <2>5
<1>8. ASSUME NEW j \in Jobs, ResidentDropped(j)
      PROVE  PipeInv'
  BY <1>8 DEF TypeOK, TaskTypes, KillTypes, AdminRecords, IdleAdmin,
     ProcTypes, ServingInv, LockInv, EngagedInv, PipeInv, PipeOf, Blank, Used,
     Keep, ResidentDropped, Reap, diskVars, lockVars
<1>9. ASSUME NEW j \in Jobs, SpawnFails(j)
      PROVE  PipeInv'
  <2>1. holder = j /\ \A k \in Jobs : task[k] \in Using => k = j
    BY <1>9 DEF TypeOK, TaskTypes, LockInv, SpawnFails
  <2>2. ~Used(resident) /\ \A k \in Jobs : task'[k] \notin Using
    BY <1>9, <2>1 DEF TypeOK, TaskTypes, Used, SpawnFails, Fail, TaskEnds, procVars
  <2>3. \A e \in Executors : PipeOf(e)'
    BY <1>9 DEF PipeInv, PipeOf, Keep, SpawnFails, Fail, TaskEnds, procVars
  <2>. QED
    BY <1>9, <2>2, <2>3 DEF PipeInv, Blank, SpawnFails, Fail, TaskEnds, procVars
<1>10. ASSUME NEW j \in Jobs, Spawn(j)
      PROVE  PipeInv'
  <2> DEFINE e == executors[j]
  <2>1. holder = j /\ e \in Executors /\ \A k \in Jobs : task[k] \notin Using
    BY <1>10 DEF TypeOK, TaskTypes, LockInv, ServingInv, Spawn
  <2>2. out' = [out EXCEPT ![e] = <<>>] /\ serving' = [serving EXCEPT ![e] = j]
        /\ pos' = [pos EXCEPT ![e] = "probe"] /\ proc' = [proc EXCEPT ![e] = "up"]
        /\ loaded' = [loaded EXCEPT ![e] = None]
    BY <1>10 DEF Spawn, WriteCommands
  <2>3. \A d \in Executors : PipeOf(d)'
    BY <2>1, <2>2, <1>10 DEF TypeOK, ProcTypes, PipeInv, PipeOf, Keep, Spawn
  <2>4. task' = [task EXCEPT ![j] = "reading"] /\ executors' = executors /\ holder' = j
    BY <2>1, <1>10 DEF Spawn, lockVars
  <2>5. resident' # None => Used(resident)'
    BY <2>1, <2>4, <1>10 DEF TypeOK, TaskTypes, EngagedInv, Used, Spawn
  <2>6. \A k \in Jobs : task'[k] \in Using => k = j
    BY <2>1, <2>4 DEF TypeOK, TaskTypes
  <2>7. \A d \in Executors : proc'[d] = "none" => proc[d] = "none" /\ d # e
    BY <2>1, <2>2 DEF TypeOK, ProcTypes
  <2>. QED
    BY <2>1, <2>2, <2>3, <2>4, <2>5, <2>6, <2>7 DEF TypeOK, ProcTypes, PipeInv, Blank
<1>11. ASSUME NEW j \in Jobs, HandleRunning(j)
      PROVE  PipeInv'
  BY <1>11 DEF TypeOK, TaskTypes, KillTypes, AdminRecords, IdleAdmin,
     ProcTypes, ServingInv, LockInv, EngagedInv, PipeInv, PipeOf, Blank, Used,
     Keep, HandleRunning, ReadEvent, lockVars, taskVars, killVars
<1>12. ASSUME NEW j \in Jobs, HandleError(j)
      PROVE  PipeInv'
  BY <1>12 DEF TypeOK, TaskTypes, KillTypes, AdminRecords, IdleAdmin,
     ProcTypes, ServingInv, LockInv, EngagedInv, PipeInv, PipeOf, Blank, Used,
     Keep, HandleError, ReadEvent, Log, lockVars, taskVars, killVars
<1>13. ASSUME NEW j \in Jobs, HandleOutput(j)
      PROVE  PipeInv'
  BY <1>13 DEF TypeOK, TaskTypes, KillTypes, AdminRecords, IdleAdmin,
     ProcTypes, ServingInv, LockInv, EngagedInv, PipeInv, PipeOf, Blank, Used,
     Keep, HandleOutput, ReadEvent, diskVars, lockVars, killVars
<1>14. ASSUME NEW j \in Jobs, HandleResident(j)
      PROVE  PipeInv'
  <2> DEFINE e == executors[j]
  <2>1. /\ e \in Executors /\ serving[e] = j /\ Head(out[e]).job = j /\ Keep(j)
        /\ Tail(out[e]) = <<>> /\ pos[e] = "idle"
    BY <1>14, ResidentHead DEF HandleResident
  <2>2. holder = j /\ \A k \in Jobs : task[k] \in Using => k = j
    BY <1>14 DEF TypeOK, TaskTypes, LockInv, HandleResident, ReadEvent
  <2>3. \A k \in Jobs : task'[k] \notin Using
    BY <1>14, <2>1, <2>2 DEF TypeOK, TaskTypes, HandleResident, Finish, TaskEnds
  <2>4. /\ out' = [out EXCEPT ![e] = <<>>] /\ resident' = e /\ proc[e] # "none"
        /\ UNCHANGED <<proc, serving, pos, loaded, request>>
    BY <1>14, <2>1 DEF HandleResident, ReadEvent, Finish
  <2>5. \A d \in Executors : PipeOf(d)'
    BY <2>1, <2>4 DEF TypeOK, ProcTypes, PipeInv, PipeOf, Keep
  <2>6. out'[e] = <<>> /\ pos'[e] = "idle"
    BY <2>1, <2>4 DEF TypeOK, ProcTypes
  <2>7. \A d \in Executors : proc'[d] = "none" => proc[d] = "none" /\ Blank(d)'
    BY <2>1, <2>4 DEF TypeOK, ProcTypes, PipeInv, Blank
  <2>. QED
    BY <2>3, <2>4, <2>5, <2>6, <2>7 DEF PipeInv, Blank
<1>15. ASSUME NEW j \in Jobs, OutputIndexed(j)
      PROVE  PipeInv'
  BY <1>15 DEF TypeOK, TaskTypes, KillTypes, AdminRecords, IdleAdmin,
     ProcTypes, ServingInv, LockInv, EngagedInv, PipeInv, PipeOf, Blank, Used,
     Keep, OutputIndexed, diskVars, lockVars, killVars, procVars
<1>16. ASSUME NEW j \in Jobs, OutputRejected(j)
      PROVE  PipeInv'
  BY <1>16 DEF TypeOK, TaskTypes, KillTypes, AdminRecords, IdleAdmin,
     ProcTypes, ServingInv, LockInv, EngagedInv, PipeInv, PipeOf, Blank, Used,
     Keep, OutputRejected, diskVars, lockVars, procVars
<1>17. ASSUME NEW j \in Jobs, RunRaised(j)
      PROVE  PipeInv'
  BY <1>17 DEF TypeOK, TaskTypes, KillTypes, AdminRecords, IdleAdmin,
     ProcTypes, ServingInv, LockInv, EngagedInv, PipeInv, PipeOf, Blank, Used,
     Keep, RunRaised, Reap, Fail, TaskEnds
<1>18. ASSUME NEW j \in Jobs, ReadAfterCancel(j)
      PROVE  PipeInv'
  BY <1>18 DEF TypeOK, TaskTypes, KillTypes, AdminRecords, IdleAdmin,
     ProcTypes, ServingInv, LockInv, EngagedInv, PipeInv, PipeOf, Blank, Used,
     Keep, ReadAfterCancel, Fail, TaskEnds, procVars
<1>19. ASSUME NEW j \in Jobs, ReadEof(j)
      PROVE  PipeInv'
  BY <1>19 DEF TypeOK, TaskTypes, KillTypes, AdminRecords, IdleAdmin,
     ProcTypes, ServingInv, LockInv, EngagedInv, PipeInv, PipeOf, Blank, Used,
     Keep, ReadEof, Reap, Finish, TaskEnds, Abandoned, killVars
<1>20. ASSUME NEW e \in Executors, WorkerProbe(e)
      PROVE  PipeInv'
  <2>1. UNCHANGED out \/ Emit(e, "error")
    BY <1>20 DEF WorkerProbe
  <2>. QED
    BY <1>20, <2>1, WorkerEvent
       DEF WorkerProbe, Goto, EventTypes, agentVars, lockVars, taskVars
<1>21. ASSUME NEW e \in Executors, WorkerLoad(e)
      PROVE  PipeInv'
  <2>1. UNCHANGED out \/ Emit(e, "error")
    BY <1>21 DEF WorkerLoad
  <2>2. proc'[e] # "none" /\ \E p \in {"idle", "main"} : Goto(e, p)
    BY <1>21 DEF TypeOK, ProcTypes, WorkerLoad, Exit
  <2>3. /\ pos[e] # "idle" /\ proc[e] = "up"
        /\ \A d \in Executors \ {e} : proc'[d] = proc[d] /\ loaded'[d] = loaded[d]
    BY <1>21 DEF TypeOK, ProcTypes, WorkerLoad, Exit
  <2>. QED
    BY <1>21, <2>1, <2>2, <2>3, WorkerEvent
       DEF WorkerLoad, Goto, EventTypes, agentVars, lockVars, taskVars
<1>22. ASSUME NEW e \in Executors, WorkerBegin(e)
      PROVE  PipeInv'
  <2>1. UNCHANGED out \/ Emit(e, "running")
    BY <1>22 DEF WorkerBegin
  <2>. QED
    BY <1>22, <2>1, WorkerEvent
       DEF WorkerBegin, Goto, EventTypes, agentVars, lockVars, taskVars
<1>23. ASSUME NEW e \in Executors, WorkerDone(e)
      PROVE  PipeInv'
  <2>1. /\ pos[e] # "idle" /\ pos' = [pos EXCEPT ![e] = "idle"] /\ proc[e] = "up" /\ proc'[e] # "none"
        /\ \A d \in Executors \ {e} : proc'[d] = proc[d]
    BY <1>23 DEF TypeOK, ProcTypes, WorkerDone, Goto, Exit
  <2>2. CASE UNCHANGED out \/ Emit(e, "output")
    BY <1>23, <2>1, <2>2, WorkerEvent
       DEF WorkerDone, Goto, EventTypes, agentVars, lockVars, taskVars
  <2>3. CASE EmitFinal(e) /\ Keep(serving[e])
    BY <1>23, <2>1, <2>3, WorkerFinal DEF WorkerDone, agentVars, lockVars, taskVars
  <2>. QED
    BY <1>23, <2>2, <2>3 DEF WorkerDone
<1>24. ASSUME NEW e \in Executors, WorkerError(e)
      PROVE  PipeInv'
  BY <1>24 DEF TypeOK, TaskTypes, KillTypes, AdminRecords, IdleAdmin,
     ProcTypes, ServingInv, LockInv, EngagedInv, PipeInv, PipeOf, Blank, Used,
     Keep, WorkerError, Goto, Emit, Event, Exit, diskVars, lockVars, taskVars,
     killVars, agentVars
<1>25. ASSUME NEW e \in Executors, WorkerStdinEof(e)
      PROVE  PipeInv'
  BY <1>25 DEF TypeOK, TaskTypes, KillTypes, AdminRecords, IdleAdmin,
     ProcTypes, ServingInv, LockInv, EngagedInv, PipeInv, PipeOf, Blank, Used,
     Keep, WorkerStdinEof, Exit, diskVars, lockVars, taskVars, killVars,
     agentVars
<1>26. ASSUME NEW e \in Executors, WorkerProgress(e)
      PROVE  PipeInv'
  BY <1>26 DEF TypeOK, TaskTypes, KillTypes, AdminRecords, IdleAdmin,
     ProcTypes, ServingInv, LockInv, EngagedInv, PipeInv, PipeOf, Blank, Used,
     Keep, WorkerProgress, Emit, Event, diskVars, lockVars, taskVars,
     killVars, agentVars
<1>27. ASSUME NEW e \in Executors, WorkerKilled(e)
      PROVE  PipeInv'
  BY <1>27 DEF TypeOK, TaskTypes, KillTypes, AdminRecords, IdleAdmin,
     ProcTypes, ServingInv, LockInv, EngagedInv, PipeInv, PipeOf, Blank, Used,
     Keep, WorkerKilled, Exit, diskVars, lockVars, taskVars, killVars,
     agentVars
<1>28. ASSUME Close
      PROVE  PipeInv'
  <2>1. UNCHANGED <<task, executors, holder, resident, request, procVars>>
    BY <1>28 DEF Close, adminFrame, lockVars
  <2>2. \A e \in Executors : PipeOf(e)'
    BY <2>1 DEF PipeInv, PipeOf, Keep, procVars
  <2>. QED
    BY <2>1, <2>2 DEF PipeInv, Blank, Used, procVars
<1>29. ASSUME CloseGathers
      PROVE  PipeInv'
  BY <1>29 DEF TypeOK, TaskTypes, KillTypes, AdminRecords, IdleAdmin,
     ProcTypes, ServingInv, LockInv, EngagedInv, PipeInv, PipeOf, Blank, Used,
     Keep, CloseGathers, Reap, lockVars, adminFrame
<1>30. ASSUME Release
      PROVE  PipeInv'
  BY <1>30 DEF TypeOK, TaskTypes, KillTypes, AdminRecords, IdleAdmin,
     ProcTypes, ServingInv, LockInv, EngagedInv, PipeInv, PipeOf, Blank, Used,
     Keep, Release, lockVars, procVars, adminFrame
<1>31. ASSUME NEW j \in Jobs, ReleaseCancels(j)
      PROVE  PipeInv'
  BY <1>31 DEF TypeOK, TaskTypes, KillTypes, AdminRecords, IdleAdmin,
     ProcTypes, ServingInv, LockInv, EngagedInv, PipeInv, PipeOf, Blank, Used,
     Keep, ReleaseCancels, MarkCancelled, Log, Finished, Stoppable, lockVars,
     procVars, adminFrame
<1>32. ASSUME ReleaseCancelReturns
      PROVE  PipeInv'
  BY <1>32 DEF TypeOK, TaskTypes, KillTypes, AdminRecords, IdleAdmin,
     ProcTypes, ServingInv, LockInv, EngagedInv, PipeInv, PipeOf, Blank, Used,
     Keep, ReleaseCancelReturns, Reap, Log, lockVars, adminFrame
<1>33. ASSUME ReleaseGathers
      PROVE  PipeInv'
  BY <1>33 DEF TypeOK, TaskTypes, KillTypes, AdminRecords, IdleAdmin,
     ProcTypes, ServingInv, LockInv, EngagedInv, PipeInv, PipeOf, Blank, Used,
     Keep, ReleaseGathers, lockVars, procVars, adminFrame
<1>34. ASSUME AdminAwaitsLock
      PROVE  PipeInv'
  BY <1>34 DEF TypeOK, TaskTypes, KillTypes, AdminRecords, IdleAdmin,
     ProcTypes, ServingInv, LockInv, EngagedInv, PipeInv, PipeOf, Blank, Used,
     Keep, AdminAwaitsLock, procVars, adminFrame
<1>35. ASSUME AdminDropsResident
      PROVE  PipeInv'
  BY <1>35 DEF TypeOK, TaskTypes, KillTypes, AdminRecords, IdleAdmin,
     ProcTypes, ServingInv, LockInv, EngagedInv, PipeInv, PipeOf, Blank, Used,
     Keep, AdminDropsResident, AdminReturns, Stoppable, procVars, adminFrame
<1>36. ASSUME AdminDropped
      PROVE  PipeInv'
  BY <1>36 DEF TypeOK, TaskTypes, KillTypes, AdminRecords, IdleAdmin,
     ProcTypes, ServingInv, LockInv, EngagedInv, PipeInv, PipeOf, Blank, Used,
     Keep, AdminDropped, AdminReturns, Reap, adminFrame
<1>37. ASSUME AgentRestart
      PROVE  PipeInv'
  BY <1>37 DEF TypeOK, TaskTypes, KillTypes, AdminRecords, IdleAdmin,
     ProcTypes, ServingInv, LockInv, EngagedInv, PipeInv, PipeOf, Blank, Used,
     Keep, AgentRestart, Recovered
<1>38. CASE UNCHANGED vars
  BY <1>38 DEF vars, diskVars, lockVars, taskVars, killVars, procVars, TypeOK,
     TaskTypes, KillTypes, AdminRecords, IdleAdmin, ProcTypes, ServingInv,
     LockInv, EngagedInv, PipeInv, PipeOf, Blank, Used, Keep
<1>. QED
  BY <1>1, <1>2, <1>3, <1>4, <1>5, <1>6, <1>7, <1>8, <1>9, <1>10, <1>11,
     <1>12, <1>13, <1>14, <1>15, <1>16, <1>17, <1>18, <1>19, <1>20, <1>21,
     <1>22, <1>23, <1>24, <1>25, <1>26, <1>27, <1>28, <1>29, <1>30, <1>31,
     <1>32, <1>33, <1>34, <1>35, <1>36, <1>37, <1>38 DEF Next, TaskStep,
     WorkerStep, AdminStep

(* Every step keeps the models.                                            *)
LEMMA ModelStep ==
  ASSUME TypeOK, ServingInv, LockInv, EngagedInv, LocatedInv, PipeInv, ModelInv, [Next]_vars
  PROVE  ModelInv'
<1> USE RequestsAssumption, NamesAssumption, BoundsAssumption DEF Executors, Phases, Holding, Using, Engaged
<1>1. ASSUME NEW j \in Jobs, NEW c \in Commands, NEW r \in Requests,
             Submit(j, c, r)
      PROVE  ModelInv'
  BY <1>1 DEF TypeOK, TaskTypes, KillTypes, AdminRecords, IdleAdmin,
     ProcTypes, ServingInv, LockInv, EngagedInv, PipeInv, ModelInv, Blank,
     Used, CacheKey, Submit, FindCommand, killVars, procVars
<1>2. ASSUME NEW j \in Jobs, Cancel(j)
      PROVE  ModelInv'
  BY <1>2 DEF TypeOK, TaskTypes, KillTypes, AdminRecords, IdleAdmin,
     ProcTypes, ServingInv, LockInv, EngagedInv, PipeInv, ModelInv, Blank,
     Used, CacheKey, Cancel, MarkCancelled, Log, Finished, Stoppable, lockVars
<1>3. ASSUME NEW j \in Jobs, CancelReturns(j)
      PROVE  ModelInv'
  BY <1>3 DEF TypeOK, TaskTypes, KillTypes, AdminRecords, IdleAdmin,
     ProcTypes, ServingInv, LockInv, EngagedInv, PipeInv, ModelInv, Blank,
     Used, CacheKey, CancelReturns, Reap, Log, lockVars, taskVars
<1>4. ASSUME NEW j \in Jobs, RunJobStart(j)
      PROVE  ModelInv'
  BY <1>4 DEF TypeOK, TaskTypes, KillTypes, AdminRecords, IdleAdmin,
     ProcTypes, ServingInv, LockInv, EngagedInv, PipeInv, ModelInv, Blank,
     Used, CacheKey, RunJobStart, TaskEnds, killVars, procVars
<1>5. ASSUME NEW j \in Jobs, PayloadFails(j)
      PROVE  ModelInv'
  BY <1>5 DEF TypeOK, TaskTypes, KillTypes, AdminRecords, IdleAdmin,
     ProcTypes, ServingInv, LockInv, EngagedInv, PipeInv, ModelInv, Blank,
     Used, CacheKey, PayloadFails, Fail, TaskEnds, procVars
<1>6. ASSUME NEW j \in Jobs, DropResident(j)
      PROVE  ModelInv'
  BY <1>6 DEF TypeOK, TaskTypes, KillTypes, AdminRecords, IdleAdmin,
     ProcTypes, ServingInv, LockInv, EngagedInv, PipeInv, ModelInv, Blank,
     Used, CacheKey, DropResident, MustDropResident, Stoppable, diskVars,
     lockVars, procVars
<1>7. ASSUME NEW j \in Jobs, UseExecutor(j)
      PROVE  ModelInv'
  <2> DEFINE e == executors'[j]
  <2>1. holder = j /\ \A k \in Jobs : task[k] \notin Using
    BY <1>7 DEF TypeOK, TaskTypes, LockInv, UseExecutor
  <2>2. e \in Executors /\ resident' \in {None, e} /\ (resident' = None => e = j)
    BY <1>7 DEF TypeOK, TaskTypes, UseExecutor, EnterRun
  <2>3. resident' # None => resident = e /\ residentKey' = residentKey /\ residentKey = CacheKey(j)
    BY <1>7 DEF TypeOK, TaskTypes, UseExecutor, EnterRun, MustDropResident
  <2>4. CASE proc[e] = "up"
    <3>1. resident = e
      BY <2>1, <2>2, <2>4, <1>7 DEF TypeOK, TaskTypes, LocatedInv, Located, Used, LockInv,
         UseExecutor, Stoppable
    <3>2. resident' = e
      BY <2>2, <2>3, <2>4, <3>1, <1>7 DEF UseExecutor, Stoppable
    <3>3. serving' = [serving EXCEPT ![e] = j] /\ pos' = [pos EXCEPT ![e] = "probe"]
      BY <2>2, <2>4, <1>7 DEF TypeOK, TaskTypes, UseExecutor, EnterRun, WriteCommands
    <3>4. loaded[e] \in {None, CacheKey(j)} /\ UNCHANGED <<loaded, request>>
      BY <2>2, <2>3, <3>1, <3>2, <1>7 DEF TypeOK, TaskTypes, ModelInv, UseExecutor
    <3>. QED
      BY <2>2, <2>3, <3>2, <3>3, <3>4 DEF TypeOK, ProcTypes, ModelInv, CacheKey
  <2>5. CASE proc[e] # "up"
    <3>1. UNCHANGED <<serving, pos, loaded, request>>
      BY <2>2, <2>5, <1>7 DEF UseExecutor, EnterRun
    <3>. QED
      BY <2>2, <2>3, <3>1 DEF TypeOK, TaskTypes, ModelInv, CacheKey
  <2>. QED
    BY <2>4, <2>5
<1>8. ASSUME NEW j \in Jobs, ResidentDropped(j)
      PROVE  ModelInv'
  BY <1>8 DEF TypeOK, TaskTypes, KillTypes, AdminRecords, IdleAdmin,
     ProcTypes, ServingInv, LockInv, EngagedInv, PipeInv, ModelInv, Blank,
     Used, CacheKey, ResidentDropped, Reap, diskVars, lockVars
<1>9. ASSUME NEW j \in Jobs, SpawnFails(j)
      PROVE  ModelInv'
  BY <1>9 DEF TypeOK, TaskTypes, KillTypes, AdminRecords, IdleAdmin,
     ProcTypes, ServingInv, LockInv, EngagedInv, PipeInv, ModelInv, Blank,
     Used, CacheKey, SpawnFails, Fail, TaskEnds, procVars
<1>10. ASSUME NEW j \in Jobs, Spawn(j)
      PROVE  ModelInv'
  BY <1>10 DEF TypeOK, TaskTypes, KillTypes, AdminRecords, IdleAdmin,
     ProcTypes, ServingInv, LockInv, EngagedInv, PipeInv, ModelInv, Blank,
     Used, CacheKey, Spawn, WriteCommands, diskVars, lockVars, killVars
<1>11. ASSUME NEW j \in Jobs, HandleRunning(j)
      PROVE  ModelInv'
  BY <1>11 DEF TypeOK, TaskTypes, KillTypes, AdminRecords, IdleAdmin,
     ProcTypes, ServingInv, LockInv, EngagedInv, PipeInv, ModelInv, Blank,
     Used, CacheKey, HandleRunning, ReadEvent, lockVars, taskVars, killVars
<1>12. ASSUME NEW j \in Jobs, HandleError(j)
      PROVE  ModelInv'
  BY <1>12 DEF TypeOK, TaskTypes, KillTypes, AdminRecords, IdleAdmin,
     ProcTypes, ServingInv, LockInv, EngagedInv, PipeInv, ModelInv, Blank,
     Used, CacheKey, HandleError, ReadEvent, Log, lockVars, taskVars, killVars
<1>13. ASSUME NEW j \in Jobs, HandleOutput(j)
      PROVE  ModelInv'
  BY <1>13 DEF TypeOK, TaskTypes, KillTypes, AdminRecords, IdleAdmin,
     ProcTypes, ServingInv, LockInv, EngagedInv, PipeInv, ModelInv, Blank,
     Used, CacheKey, HandleOutput, ReadEvent, diskVars, lockVars, killVars
<1>14. ASSUME NEW j \in Jobs, HandleResident(j)
      PROVE  ModelInv'
  BY <1>14 DEF TypeOK, TaskTypes, KillTypes, AdminRecords, IdleAdmin,
     ProcTypes, ServingInv, LockInv, EngagedInv, PipeInv, ModelInv, Blank,
     Used, CacheKey, HandleResident, ReadEvent, Finish, TaskEnds, Abandoned,
     diskVars, lockVars, taskVars, killVars
<1>15. ASSUME NEW j \in Jobs, OutputIndexed(j)
      PROVE  ModelInv'
  BY <1>15 DEF TypeOK, TaskTypes, KillTypes, AdminRecords, IdleAdmin,
     ProcTypes, ServingInv, LockInv, EngagedInv, PipeInv, ModelInv, Blank,
     Used, CacheKey, OutputIndexed, diskVars, lockVars, killVars, procVars
<1>16. ASSUME NEW j \in Jobs, OutputRejected(j)
      PROVE  ModelInv'
  BY <1>16 DEF TypeOK, TaskTypes, KillTypes, AdminRecords, IdleAdmin,
     ProcTypes, ServingInv, LockInv, EngagedInv, PipeInv, ModelInv, Blank,
     Used, CacheKey, OutputRejected, diskVars, lockVars, procVars
<1>17. ASSUME NEW j \in Jobs, RunRaised(j)
      PROVE  ModelInv'
  BY <1>17 DEF TypeOK, TaskTypes, KillTypes, AdminRecords, IdleAdmin,
     ProcTypes, ServingInv, LockInv, EngagedInv, PipeInv, ModelInv, Blank,
     Used, CacheKey, RunRaised, Reap, Fail, TaskEnds
<1>18. ASSUME NEW j \in Jobs, ReadAfterCancel(j)
      PROVE  ModelInv'
  BY <1>18 DEF TypeOK, TaskTypes, KillTypes, AdminRecords, IdleAdmin,
     ProcTypes, ServingInv, LockInv, EngagedInv, PipeInv, ModelInv, Blank,
     Used, CacheKey, ReadAfterCancel, Fail, TaskEnds, procVars
<1>19. ASSUME NEW j \in Jobs, ReadEof(j)
      PROVE  ModelInv'
  BY <1>19 DEF TypeOK, TaskTypes, KillTypes, AdminRecords, IdleAdmin,
     ProcTypes, ServingInv, LockInv, EngagedInv, PipeInv, ModelInv, Blank,
     Used, CacheKey, ReadEof, Reap, Finish, TaskEnds, Abandoned, killVars
<1>20. ASSUME NEW e \in Executors, WorkerProbe(e)
      PROVE  ModelInv'
  BY <1>20 DEF TypeOK, TaskTypes, KillTypes, AdminRecords, IdleAdmin,
     ProcTypes, ServingInv, LockInv, EngagedInv, PipeInv, ModelInv, Blank,
     Used, CacheKey, WorkerProbe, Goto, Emit, Event, diskVars, lockVars,
     taskVars, killVars, agentVars
<1>21. ASSUME NEW e \in Executors, WorkerLoad(e)
      PROVE  ModelInv'
  <2>1. serving[e] \in Jobs /\ e \in Executors
    BY <1>21 DEF ServingInv, WorkerLoad
  <2>2. CASE UNCHANGED loaded /\ loaded[e] # None
    BY <1>21, <2>2 DEF TypeOK, ProcTypes, ModelInv, CacheKey, WorkerLoad, Goto, agentVars, taskVars
  <2>3. CASE UNCHANGED loaded /\ Goto(e, "idle")
    BY <1>21, <2>3 DEF TypeOK, ProcTypes, ModelInv, CacheKey, WorkerLoad, Goto, agentVars, taskVars
  <2>4. CASE /\ loaded[e] = None /\ Goto(e, "main")
             /\ loaded' = [loaded EXCEPT ![e] = CacheKey(serving[e])]
    <3>1. resident = e => residentKey = CacheKey(serving[e])
      <4>1. SUFFICES ASSUME resident = e PROVE residentKey = CacheKey(serving[e])
        OBVIOUS
      <4>2. Used(e)
        BY <1>21, <4>1, <2>1 DEF PipeInv, Blank, WorkerLoad
      <4>3. serving[e] = holder /\ residentKey = CacheKey(holder)
        BY <1>21, <4>1, <4>2, <2>1 DEF TypeOK, TaskTypes, Used, EngagedInv, PipeInv, WorkerLoad
      <4>. QED
        BY <4>3
    <3>2. UNCHANGED <<serving, request, resident, residentKey>>
      BY <1>21 DEF WorkerLoad, agentVars, taskVars
    <3>3. CacheKey(serving[e]) # None
      BY <2>1, <1>21 DEF TypeOK, TaskTypes, ServingInv, CacheKey, WorkerLoad
    <3>. QED
      BY <2>1, <2>4, <3>1, <3>2, <3>3 DEF TypeOK, ProcTypes, ModelInv, CacheKey, Goto
  <2>. QED
    BY <1>21, <2>2, <2>3, <2>4 DEF TypeOK, ProcTypes, WorkerLoad
<1>22. ASSUME NEW e \in Executors, WorkerBegin(e)
      PROVE  ModelInv'
  BY <1>22 DEF TypeOK, TaskTypes, KillTypes, AdminRecords, IdleAdmin,
     ProcTypes, ServingInv, LockInv, EngagedInv, PipeInv, ModelInv, Blank,
     Used, CacheKey, WorkerBegin, Goto, Emit, Event, diskVars, lockVars,
     taskVars, killVars, agentVars
<1>23. ASSUME NEW e \in Executors, WorkerDone(e)
      PROVE  ModelInv'
  BY <1>23 DEF TypeOK, TaskTypes, KillTypes, AdminRecords, IdleAdmin,
     ProcTypes, ServingInv, LockInv, EngagedInv, PipeInv, ModelInv, Blank,
     Used, CacheKey, WorkerDone, Goto, Emit, EmitFinal, Event, Exit, diskVars,
     lockVars, taskVars, killVars, agentVars
<1>24. ASSUME NEW e \in Executors, WorkerError(e)
      PROVE  ModelInv'
  BY <1>24 DEF TypeOK, TaskTypes, KillTypes, AdminRecords, IdleAdmin,
     ProcTypes, ServingInv, LockInv, EngagedInv, PipeInv, ModelInv, Blank,
     Used, CacheKey, WorkerError, Goto, Emit, Event, Exit, diskVars, lockVars,
     taskVars, killVars, agentVars
<1>25. ASSUME NEW e \in Executors, WorkerStdinEof(e)
      PROVE  ModelInv'
  BY <1>25 DEF TypeOK, TaskTypes, KillTypes, AdminRecords, IdleAdmin,
     ProcTypes, ServingInv, LockInv, EngagedInv, PipeInv, ModelInv, Blank,
     Used, CacheKey, WorkerStdinEof, Exit, diskVars, lockVars, taskVars,
     killVars, agentVars
<1>26. ASSUME NEW e \in Executors, WorkerProgress(e)
      PROVE  ModelInv'
  BY <1>26 DEF TypeOK, TaskTypes, KillTypes, AdminRecords, IdleAdmin,
     ProcTypes, ServingInv, LockInv, EngagedInv, PipeInv, ModelInv, Blank,
     Used, CacheKey, WorkerProgress, Emit, Event, diskVars, lockVars,
     taskVars, killVars, agentVars
<1>27. ASSUME NEW e \in Executors, WorkerKilled(e)
      PROVE  ModelInv'
  BY <1>27 DEF TypeOK, TaskTypes, KillTypes, AdminRecords, IdleAdmin,
     ProcTypes, ServingInv, LockInv, EngagedInv, PipeInv, ModelInv, Blank,
     Used, CacheKey, WorkerKilled, Exit, diskVars, lockVars, taskVars,
     killVars, agentVars
<1>28. ASSUME Close
      PROVE  ModelInv'
  BY <1>28 DEF TypeOK, TaskTypes, KillTypes, AdminRecords, IdleAdmin,
     ProcTypes, ServingInv, LockInv, EngagedInv, PipeInv, ModelInv, Blank,
     Used, CacheKey, Close, lockVars, procVars, adminFrame
<1>29. ASSUME CloseGathers
      PROVE  ModelInv'
  BY <1>29 DEF TypeOK, TaskTypes, KillTypes, AdminRecords, IdleAdmin,
     ProcTypes, ServingInv, LockInv, EngagedInv, PipeInv, ModelInv, Blank,
     Used, CacheKey, CloseGathers, Reap, lockVars, adminFrame
<1>30. ASSUME Release
      PROVE  ModelInv'
  BY <1>30 DEF TypeOK, TaskTypes, KillTypes, AdminRecords, IdleAdmin,
     ProcTypes, ServingInv, LockInv, EngagedInv, PipeInv, ModelInv, Blank,
     Used, CacheKey, Release, lockVars, procVars, adminFrame
<1>31. ASSUME NEW j \in Jobs, ReleaseCancels(j)
      PROVE  ModelInv'
  BY <1>31 DEF TypeOK, TaskTypes, KillTypes, AdminRecords, IdleAdmin,
     ProcTypes, ServingInv, LockInv, EngagedInv, PipeInv, ModelInv, Blank,
     Used, CacheKey, ReleaseCancels, MarkCancelled, Log, Finished, Stoppable,
     lockVars, procVars, adminFrame
<1>32. ASSUME ReleaseCancelReturns
      PROVE  ModelInv'
  BY <1>32 DEF TypeOK, TaskTypes, KillTypes, AdminRecords, IdleAdmin,
     ProcTypes, ServingInv, LockInv, EngagedInv, PipeInv, ModelInv, Blank,
     Used, CacheKey, ReleaseCancelReturns, Reap, Log, lockVars, adminFrame
<1>33. ASSUME ReleaseGathers
      PROVE  ModelInv'
  BY <1>33 DEF TypeOK, TaskTypes, KillTypes, AdminRecords, IdleAdmin,
     ProcTypes, ServingInv, LockInv, EngagedInv, PipeInv, ModelInv, Blank,
     Used, CacheKey, ReleaseGathers, lockVars, procVars, adminFrame
<1>34. ASSUME AdminAwaitsLock
      PROVE  ModelInv'
  BY <1>34 DEF TypeOK, TaskTypes, KillTypes, AdminRecords, IdleAdmin,
     ProcTypes, ServingInv, LockInv, EngagedInv, PipeInv, ModelInv, Blank,
     Used, CacheKey, AdminAwaitsLock, procVars, adminFrame
<1>35. ASSUME AdminDropsResident
      PROVE  ModelInv'
  BY <1>35 DEF TypeOK, TaskTypes, KillTypes, AdminRecords, IdleAdmin,
     ProcTypes, ServingInv, LockInv, EngagedInv, PipeInv, ModelInv, Blank,
     Used, CacheKey, AdminDropsResident, AdminReturns, Stoppable, procVars,
     adminFrame
<1>36. ASSUME AdminDropped
      PROVE  ModelInv'
  BY <1>36 DEF TypeOK, TaskTypes, KillTypes, AdminRecords, IdleAdmin,
     ProcTypes, ServingInv, LockInv, EngagedInv, PipeInv, ModelInv, Blank,
     Used, CacheKey, AdminDropped, AdminReturns, Reap, adminFrame
<1>37. ASSUME AgentRestart
      PROVE  ModelInv'
  BY <1>37 DEF TypeOK, TaskTypes, KillTypes, AdminRecords, IdleAdmin,
     ProcTypes, ServingInv, LockInv, EngagedInv, PipeInv, ModelInv, Blank,
     Used, CacheKey, AgentRestart, Recovered
<1>38. CASE UNCHANGED vars
  BY <1>38 DEF vars, diskVars, lockVars, taskVars, killVars, procVars, TypeOK,
     TaskTypes, KillTypes, AdminRecords, IdleAdmin, ProcTypes, ServingInv,
     LockInv, EngagedInv, PipeInv, ModelInv, Blank, Used, CacheKey
<1>. QED
  BY <1>1, <1>2, <1>3, <1>4, <1>5, <1>6, <1>7, <1>8, <1>9, <1>10, <1>11,
     <1>12, <1>13, <1>14, <1>15, <1>16, <1>17, <1>18, <1>19, <1>20, <1>21,
     <1>22, <1>23, <1>24, <1>25, <1>26, <1>27, <1>28, <1>29, <1>30, <1>31,
     <1>32, <1>33, <1>34, <1>35, <1>36, <1>37, <1>38 DEF Next, TaskStep,
     WorkerStep, AdminStep

(* The strengthening: the invariants above hold of every behaviour.        *)
WorkerInv == LockInv /\ EngagedInv /\ LocatedInv /\ PipeInv /\ ModelInv

THEOREM WorkerInvariant == Spec => []WorkerInv
<1>1. Init => WorkerInv
  <2>1. ASSUME Init
        PROVE  EngagedInv /\ LocatedInv /\ PipeInv /\ ModelInv
    <3> USE <2>1, NamesAssumption DEF Init, IdleAdmin, Executors, Using, Engaged
    <3>1. EngagedInv
      BY DEF EngagedInv
    <3>2. LocatedInv
      BY DEF LocatedInv
    <3>3. PipeInv
      BY DEF PipeInv, PipeOf, Blank
    <3>4. ModelInv
      BY DEF ModelInv
    <3>. QED
      BY <3>1, <3>2, <3>3, <3>4
  <2>. QED
    BY <2>1, InitInv DEF WorkerInv
<1>2. BaseInv /\ WorkerInv /\ [Next]_vars => WorkerInv'
  BY LockStep, EngagedStep, LocatedStep, PipeStep, ModelStep DEF BaseInv, WorkerInv
<1>. QED
  BY <1>1, <1>2, BaseInvariant, PTL DEF Spec

(* Two executors never have a live process at a time: whatever is resident *)
(* is used or dropped before another process is started.                   *)
THEOREM OneWorkerAtATime == Spec => []OneLiveWorker
<1>1. BaseInv /\ WorkerInv => OneLiveWorker
  <2> SUFFICES ASSUME BaseInv, WorkerInv, NEW d \in Executors, NEW e \in Executors,
                      proc[d] = "up", proc[e] = "up"
               PROVE  d = e
    BY DEF OneLiveWorker
  <2>1. Located(d) /\ Located(e)
    BY DEF WorkerInv, LocatedInv
  <2>2. Used(d) \/ Used(e) => resident \in {None, executors[holder]}
    BY DEF WorkerInv, EngagedInv, Used, Engaged
  <2>3. holder \in Jobs /\ task[holder] = "dropping" => resident = None
    BY DEF WorkerInv, EngagedInv
  <2>4. admin.phase = "dropping" => holder = Admin /\ resident = None
    BY DEF WorkerInv, EngagedInv, LockInv
  <2>5. d # None /\ e # None /\ Admin \notin Jobs
    BY NamesAssumption DEF Executors
  <2>. QED
    BY <2>1, <2>2, <2>3, <2>4, <2>5 DEF Located, Used, Using
<1>. QED
  BY <1>1, BaseInvariant, WorkerInvariant, PTL

(* A live process is never lost: it is resident, or a task or close() has  *)
(* hold of it.                                                             *)
THEOREM NoWorkerOrphaned == Spec => []NoOrphanWorker
<1>1. WorkerInv => NoOrphanWorker
  BY DEF WorkerInv, LocatedInv, Located, Used, NoOrphanWorker, Dying
<1>. QED
  BY <1>1, WorkerInvariant, PTL

(* A job reads its own events, on a process that served others before too. *)
THEOREM EventsReachTheirReader == Spec => []EventsOfReader
<1>1. BaseInv /\ WorkerInv => EventsOfReader
  <2> SUFFICES ASSUME BaseInv, WorkerInv, NEW j \in Jobs, task[j] = "reading",
                      NEW i \in DOMAIN out[executors[j]]
               PROVE  out[executors[j]][i].job = j
    BY DEF EventsOfReader
  <2>1. executors[j] \in Executors
    BY DEF BaseInv, ServingInv
  <2>2. proc[executors[j]] # "none"
    BY <2>1 DEF WorkerInv, PipeInv, Blank
  <2>. QED
    BY <2>1, <2>2 DEF WorkerInv, PipeInv, PipeOf, Using
<1>. QED
  BY <1>1, BaseInvariant, WorkerInvariant, PTL

(* A job runs on the model of its own files and settings.                  *)
THEOREM ModelIsAlwaysRight == Spec => []RightModelLoaded
<1>1. WorkerInv => RightModelLoaded
  BY DEF WorkerInv, ModelInv, RightModelLoaded
<1>. QED
  BY <1>1, WorkerInvariant, PTL
============================================================================
