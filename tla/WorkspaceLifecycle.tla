-------------------------- MODULE WorkspaceLifecycle --------------------------
(***************************************************************************)
(* The life of one workspace in the control plane: RunPodPersistentPod-    *)
(* Backend (web/runpod_backend.py) over the SQL state store                *)
(* (web/state_store.py), with the lease reaper (web/lease_reaper.py) and   *)
(* the reconciliation at startup.                                          *)
(*                                                                         *)
(* A call is a coroutine that awaits SQL transactions and provider         *)
(* requests: one step each.  It works on a copy of the record, and every   *)
(* save writes that whole copy.  Requests to the provider take turns       *)
(* (_provider_request_lock), so one takes effect in a single step.         *)
(* Other workspaces share nothing but those turns and the reaper's.        *)
(* The workspace has no active migration (see Migration): the calls'       *)
(* checks and the stop's abort then find nothing to do.                    *)
(***************************************************************************)
EXTENDS Naturals

CONSTANTS
  Calls,        \* requests of clients being handled at a time
  Reaper,       \* the reaper's own call
  Pods,         \* identifiers the provider gives to pods
  Modes,        \* subset of {"persistent", "portable"}
  Grants,       \* the leases clients ask for: subset of {"live", "unlimited"}
  MaxCrashes,   \* bound: restarts of the control plane
  MaxFaults,    \* bound: failed or unanswered requests, pods that go by themselves
  RowLocks,     \* SELECT ... FOR UPDATE locks (PostgreSQL), or is ignored (SQLite)
  None

ASSUME NamesAssumption == None \notin Pods /\ Reaper \notin Calls
ASSUME BoundsAssumption == /\ Modes \subseteq {"persistent", "portable"}
                           /\ Grants \subseteq {"live", "unlimited"}
                           /\ MaxCrashes \in Nat /\ MaxFaults \in Nat
                           /\ RowLocks \in BOOLEAN

VARIABLES
  mode,       \* the workspace's mode, fixed by its plan
  plan,       \* the plan is stored and not consumed
  record,     \* the row of the workspace: [state, lease, pod]
  journal,    \* the create operation: [state, pod]
  deletes,    \* calls whose delete operation is "provider_deleted", not completed
  secret,     \* the vault holds agent:<workspace>
  pods,       \* pod -> what the provider has
  call,       \* call -> [op, at, copy]
  control,    \* "serving", or where the startup is
  crashes, faults

stored == <<mode, plan, record, journal, deletes, secret>>
bounds == <<crashes, faults>>
vars == <<stored, pods, call, control, bounds>>

Callers == Calls \cup {Reaper}
States == {"none", "starting", "ready", "stopping", "stopped", "deleting", "deleted", "error"}
Leases == {"live", "expired", "unlimited"}
Records == [state : States, lease : Leases, pod : Pods \cup {None}]
NoRecord == [state |-> "none", lease |-> "expired", pod |-> None]
Idle == [op |-> "none", at |-> "idle", copy |-> NoRecord]
OpenStates == {"started", "provider_created"}

TypeOK ==
  /\ mode \in Modes /\ plan \in BOOLEAN /\ secret \in BOOLEAN
  /\ record \in Records
  /\ journal \in [state : OpenStates \cup {"none", "completed", "failed", "compensated"},
                  pod : Pods \cup {None}]
  /\ deletes \subseteq Callers
  /\ pods \in [Pods -> {"unused", "running", "exited", "terminated"}]
  /\ call \in [Callers ->
       [op : {"none", "create", "start", "stop", "delete", "status", "extend"},
        at : {"idle", "plan", "claim", "request", "journal", "save", "complete"},
        copy : Records]]
  /\ control \in {"serving", "create", "compensate", "deletes", "refresh"}
  /\ crashes \in 0 .. MaxCrashes /\ faults \in 0 .. MaxFaults

Init ==
  /\ mode \in Modes
  /\ plan = TRUE
  /\ record = NoRecord
  /\ journal = [state |-> "none", pod |-> None]
  /\ deletes = {}
  /\ secret = FALSE
  /\ pods = [p \in Pods |-> "unused"]
  /\ call = [c \in Callers |-> Idle]
  /\ control = "serving"
  /\ crashes = 0 /\ faults = 0

-----------------------------------------------------------------------------
(* Steps that calls share.                                                 *)

At(c, op, at) == control = "serving" /\ call[c].op = op /\ call[c].at = at
Begin(c, op, at, copy) == call' = [call EXCEPT ![c] = [op |-> op, at |-> at, copy |-> copy]]
Goto(c, at, copy) == call' = [call EXCEPT ![c].at = at, ![c].copy = copy]
Return(c) == call' = [call EXCEPT ![c] = Idle]

Fault == faults < MaxFaults /\ faults' = faults + 1

(* claim_workspace_transition: the row is locked, tested and updated.      *)
Claim(c, op, allowed, claimed) ==
  /\ record.state \in allowed
  /\ record' = [record EXCEPT !.state = claimed]
  /\ Begin(c, op, "request", record')

(* _record_provider_failure: the copy is saved as ERROR.                   *)
Fails(c) == Goto(c, "save", [call[c].copy EXCEPT !.state = "error"])

(* save_workspace writes the copy, whatever the row holds by now.          *)
Save(c) ==
  /\ control = "serving" /\ call[c].at = "save"
  /\ record' = call[c].copy
  /\ IF call[c].op \in {"create", "delete"} /\ call[c].copy.state # "error"
       THEN Goto(c, "complete", call[c].copy)
       ELSE Return(c)
  /\ UNCHANGED <<mode, plan, journal, deletes, secret, pods, control, bounds>>

-----------------------------------------------------------------------------
(* create_workspace.                                                       *)

(* consume_plan: a transaction of two statements.  SELECT ... FOR UPDATE    *)
(* finds the plan, and waits for whoever has locked its row before.        *)
RowFree_Always == TRUE                   \* mutant: with_for_update dropped
RowFree == RowLocks => \A d \in Calls : call[d].at # "plan"

PlanRead(c) ==
  /\ control = "serving" /\ call[c] = Idle
  /\ plan /\ RowFree
  /\ Begin(c, "create", "plan", NoRecord)
  /\ UNCHANGED <<stored, pods, control, bounds>>

(* DELETE and COMMIT: the deletion of a row that is no longer there is     *)
(* only warned about.  Then, while nobody can tell the difference, the     *)
(* operation is journaled and the agent's credential stored.               *)
Consumed_Read == UNCHANGED plan          \* mutant: the plan is only read
Consumed == plan' = FALSE

Create(c) ==
  /\ At(c, "create", "plan")
  /\ Consumed
  /\ journal' = [state |-> "started", pod |-> None]
  /\ secret' = TRUE
  /\ Goto(c, "request", NoRecord)
  /\ UNCHANGED <<mode, record, deletes, pods, control, bounds>>

Unused == {p \in Pods : pods[p] = "unused"}
Put(p, status) == pods' = [pods EXCEPT ![p] = status]

(* A refused request (no capacity) changes nothing; one that is not        *)
(* answered in time may have made a pod that nobody knows.                 *)
CreatePod(c) ==
  /\ At(c, "create", "request")
  /\ \/ \E p \in Unused, grant \in Grants :
          /\ Put(p, "running")
          /\ Goto(c, "journal", [state |-> "starting", lease |-> grant, pod |-> p])
          /\ UNCHANGED <<secret, journal, faults>>
     \/ /\ \/ UNCHANGED <<pods, faults>>
           \/ Fault /\ \E p \in Unused : Put(p, "running")
        /\ secret' = FALSE /\ journal' = [journal EXCEPT !.state = "failed"]
        /\ Return(c)
  /\ UNCHANGED <<mode, plan, record, deletes, control, crashes>>

CreateJournaled(c) ==
  /\ At(c, "create", "journal")
  /\ journal' = [state |-> "provider_created", pod |-> call[c].copy.pod]
  /\ Goto(c, "save", call[c].copy)
  /\ UNCHANGED <<mode, plan, record, deletes, secret, pods, control, bounds>>

CreateCompleted(c) ==
  /\ At(c, "create", "complete")
  /\ journal' = [journal EXCEPT !.state = "completed"]
  /\ Return(c)
  /\ UNCHANGED <<mode, plan, record, deletes, secret, pods, control, bounds>>

-----------------------------------------------------------------------------
(* start_workspace.                                                        *)
Start(c) ==
  /\ control = "serving" /\ call[c] = Idle
  /\ Claim(c, "start", {"stopped", "error"}, "starting")
  /\ UNCHANGED <<mode, plan, journal, deletes, secret, pods, control, bounds>>

(* The pods a start may lead to: a portable workspace gets a new one.      *)
Startable(c) ==
  IF mode = "portable" THEN Unused
  ELSE {p \in Pods : p = call[c].copy.pod /\ pods[p] \in {"exited", "running"}}

(* The credential stored for a new pod is removed when its start fails.    *)
SecretAfterFailedStart_Always == FALSE   \* mutant: in either mode
SecretAfterFailedStart == secret /\ mode # "portable"

StartPod(c) ==
  /\ At(c, "start", "request")
  /\ \/ \E p \in Startable(c), grant \in Grants :
          /\ Put(p, "running")
          /\ Goto(c, "save", [state |-> "starting", lease |-> grant, pod |-> p])
          /\ secret' = (secret \/ mode = "portable")
          /\ UNCHANGED faults
     \/ /\ \/ UNCHANGED <<pods, faults>>
           \/ Fault /\ \E p \in Startable(c) : Put(p, "running")
        /\ secret' = SecretAfterFailedStart
        /\ Fails(c)
  /\ UNCHANGED <<mode, plan, record, journal, deletes, control, crashes>>

-----------------------------------------------------------------------------
(* stop_workspace and terminate_workspace.                                 *)

Stop(c) ==
  /\ control = "serving"
  /\ call[c] = Idle \/ At(c, "stop", "claim")
  /\ Claim(c, "stop", {"starting", "ready", "error"}, "stopping")
  /\ UNCHANGED <<mode, plan, journal, deletes, secret, pods, control, bounds>>

Known(p) == p # None /\ pods[p] # "terminated"
Halted == IF mode = "portable" THEN "terminated" ELSE "exited"
Stopped(copy) ==
  [copy EXCEPT !.state = "stopped", !.pod = IF mode = "portable" THEN None ELSE @]

(* stop_pod, or delete_pod for a portable workspace.  A pod that is not    *)
(* there any more is a failure, as is a request that is not answered.      *)
StopPod(c) ==
  LET copy == call[c].copy IN
  /\ At(c, "stop", "request")
  /\ \/ /\ Known(copy.pod) /\ Put(copy.pod, Halted)
        /\ Goto(c, "save", Stopped(copy))
        /\ secret' = (secret /\ mode # "portable")
        /\ UNCHANGED faults
     \/ /\ \/ ~Known(copy.pod) /\ UNCHANGED <<pods, faults>>
           \/ Fault /\ (UNCHANGED pods \/ (Known(copy.pod) /\ Put(copy.pod, Halted)))
        /\ Fails(c) /\ UNCHANGED secret
  /\ UNCHANGED <<mode, plan, record, journal, deletes, control, crashes>>

Terminate(c) ==
  /\ control = "serving" /\ call[c] = Idle
  /\ Claim(c, "delete", {"starting", "ready", "stopping", "stopped", "error"}, "deleting")
  /\ UNCHANGED <<mode, plan, journal, deletes, secret, pods, control, bounds>>

(* Only `provider_resource_not_found` is taken for success.                *)
FailedDelete_Ignored(c) == Goto(c, "journal", call[c].copy)     \* mutant: any error
FailedDelete(c) == Fails(c)

DeletePod(c) ==
  LET pod == call[c].copy.pod IN
  /\ At(c, "delete", "request")
  /\ \/ /\ IF Known(pod) THEN Put(pod, "terminated") ELSE UNCHANGED pods
        /\ Goto(c, "journal", call[c].copy)
        /\ UNCHANGED faults
     \/ /\ pod # None /\ Fault
        /\ UNCHANGED pods \/ (Known(pod) /\ Put(pod, "terminated"))
        /\ FailedDelete(c)
  /\ UNCHANGED <<mode, plan, record, journal, deletes, secret, control, crashes>>

Deleted(copy) == [copy EXCEPT !.state = "deleted", !.pod = None]

(* update_operation, then the credential is deleted.                       *)
DeleteJournaled(c) ==
  /\ At(c, "delete", "journal")
  /\ deletes' = deletes \cup {c}
  /\ secret' = FALSE
  /\ Goto(c, "save", Deleted(call[c].copy))
  /\ UNCHANGED <<mode, plan, record, journal, pods, control, bounds>>

DeleteCompleted(c) ==
  /\ At(c, "delete", "complete")
  /\ deletes' = deletes \ {c}
  /\ Return(c)
  /\ UNCHANGED <<mode, plan, record, journal, secret, pods, control, bounds>>

-----------------------------------------------------------------------------
(* get_workspace_status and the extensions of the lease.                   *)

Status(c) ==
  /\ control = "serving" /\ call[c] = Idle
  /\ record.state \notin {"none", "deleted"}
  /\ ~(mode = "portable" /\ record.state = "stopped")
  /\ Begin(c, "status", "request", record)
  /\ UNCHANGED <<stored, pods, control, bounds>>

(* _workspace_from_provider: what the copy may become, given what the      *)
(* provider and then the agent say of its pod.                             *)
Observed_Raw(copy) == {[copy EXCEPT !.state = pods[copy.pod]]}     \* mutant: not mapped
Observed(copy) ==
  CASE pods[copy.pod] = "running" ->
         {[copy EXCEPT !.state = s] : s \in IF secret THEN {"starting", "ready"} ELSE {"error"}}
    [] pods[copy.pod] = "exited" -> {[copy EXCEPT !.state = "stopped"]}
    [] OTHER -> IF mode = "portable" THEN {[copy EXCEPT !.state = "stopped", !.pod = None]}
                ELSE {[copy EXCEPT !.state = "deleted"]}

(* A pod that is gone is reported as TERMINATED, or not found.             *)
StatusObserved(c) ==
  LET copy == call[c].copy IN
  /\ At(c, "status", "request")
  /\ \/ /\ copy.pod # None
        /\ \E seen \in Observed(copy) :
             /\ Goto(c, "save", seen)
             /\ secret' = (secret /\ (mode = "portable" => seen.pod # None))
     \/ Return(c) /\ UNCHANGED secret
  /\ UNCHANGED <<mode, plan, record, journal, deletes, pods, control, bounds>>

(* extend_lease and _touch_workspace_lease, up to the hard deadline.       *)
Extend(c) ==
  /\ control = "serving" /\ call[c] = Idle
  /\ record.state \in {"starting", "ready"} /\ record.lease # "unlimited"
  /\ \E lease \in {"live", record.lease} :
       Begin(c, "extend", "save", [record EXCEPT !.lease = lease])
  /\ UNCHANGED <<stored, pods, control, bounds>>

-----------------------------------------------------------------------------
(* The lease reaper: the expired workspaces are listed, then stopped.      *)

LeaseExpires ==
  /\ record.lease = "live"
  /\ record' = [record EXCEPT !.lease = "expired"]
  /\ UNCHANGED <<mode, plan, journal, deletes, secret, pods, call, control, bounds>>

Reapable_Settled == {"starting", "ready"}     \* mutant: not after an error
Reapable == {"starting", "ready", "error"}

ReaperLists ==
  /\ control = "serving" /\ call[Reaper] = Idle
  /\ record.lease = "expired" /\ record.state \in Reapable
  /\ Begin(Reaper, "stop", "claim", record)
  /\ UNCHANGED <<stored, pods, control, bounds>>

(* The claim is refused: the exception is logged and the reaper goes on.   *)
ReaperRefused ==
  /\ At(Reaper, "stop", "claim")
  /\ record.state \notin {"starting", "ready", "error"}
  /\ Return(Reaper)
  /\ UNCHANGED <<stored, pods, control, bounds>>

-----------------------------------------------------------------------------
(* The control plane stops and starts again: reconcile_workspaces runs     *)
(* before any request is served.                                           *)

Crash ==
  /\ crashes < MaxCrashes /\ crashes' = crashes + 1
  /\ call' = [c \in Callers |-> Idle]
  /\ control' = "create"
  /\ UNCHANGED <<stored, pods, faults>>

startupFrame == <<mode, plan, call, bounds>>

(* _reconcile_operation_journal, the create operation.  A pod it knows and *)
(* no workspace has is stopped, or deleted for a portable workspace; if    *)
(* that request fails, so does the startup.                                *)
Orphan_Completed == FALSE                \* mutant: any operation is closed
Orphan == record.state = "none" /\ journal.pod # None

StartupCreate ==
  /\ control = "create"
  /\ IF journal.state \in OpenStates /\ Orphan
       THEN /\ Known(journal.pod) /\ Put(journal.pod, Halted)
            /\ control' = "compensate" /\ UNCHANGED <<journal, secret>>
       ELSE /\ control' = "deletes" /\ UNCHANGED pods
            /\ IF journal.state \in OpenStates
                 THEN /\ journal' = [journal EXCEPT !.state =
                           IF record.state = "none" THEN "failed" ELSE "completed"]
                      /\ secret' = (secret /\ record.state # "none")
                 ELSE UNCHANGED <<journal, secret>>
  /\ UNCHANGED <<startupFrame, record, deletes>>

StartupCompensated ==
  /\ control = "compensate" /\ control' = "deletes"
  /\ journal' = [journal EXCEPT !.state = "compensated"]
  /\ secret' = FALSE
  /\ UNCHANGED <<startupFrame, record, deletes, pods>>

(* The delete operations whose pod was deleted are completed.              *)
StartupDeletes ==
  /\ control = "deletes" /\ control' = "refresh"
  /\ IF deletes # {}
       THEN record' = Deleted(record) /\ secret' = FALSE
       ELSE UNCHANGED <<record, secret>>
  /\ deletes' = {}
  /\ UNCHANGED <<startupFrame, journal, pods>>

(* The refresh; a request that fails, or finds no pod, leaves ERROR.       *)
StartupRefresh ==
  /\ control = "refresh" /\ control' = "serving"
  /\ IF record.state \in {"none", "deleted"} \/ record.pod = None
       THEN UNCHANGED <<record, secret>>
       ELSE \/ record' = [record EXCEPT !.state = "error"] /\ UNCHANGED secret
            \/ \E seen \in Observed(record) :
                 /\ record' = IF seen.state = "deleted" THEN Deleted(seen) ELSE seen
                 /\ secret' = (secret /\ record'.pod # None)
  /\ UNCHANGED <<startupFrame, journal, deletes, pods>>

-----------------------------------------------------------------------------
(* The provider stops an interruptible pod, or a pod is deleted elsewhere. *)
PodGoes(p) ==
  /\ pods[p] \in {"running", "exited"}
  /\ Fault
  /\ Put(p, "terminated") \/ (pods[p] = "running" /\ Put(p, "exited"))
  /\ UNCHANGED <<stored, call, control, crashes>>

CallStep(c) ==
  \/ Save(c)
  \/ Create(c) \/ CreatePod(c) \/ CreateJournaled(c) \/ CreateCompleted(c)
  \/ StartPod(c) \/ StopPod(c) \/ DeletePod(c) \/ DeleteJournaled(c) \/ DeleteCompleted(c)
  \/ StatusObserved(c)

ReaperStep == ReaperLists \/ ReaperRefused \/ (call[Reaper] # Idle /\ Stop(Reaper))
StartupStep == StartupCreate \/ StartupCompensated \/ StartupDeletes \/ StartupRefresh

Next ==
  \/ \E c \in Calls :
       PlanRead(c) \/ Start(c) \/ Stop(c) \/ Terminate(c) \/ Status(c) \/ Extend(c)
  \/ \E c \in Callers : CallStep(c)
  \/ ReaperStep \/ LeaseExpires
  \/ Crash \/ StartupStep
  \/ \E p \in Pods : PodGoes(p)

(* Requests are answered or time out (30 s), the reaper's loop goes on and *)
(* a stopped control plane is started again.  Clients owe nothing.         *)
Fairness ==
  /\ \A c \in Callers : WF_vars(CallStep(c))
  /\ WF_vars(ReaperStep) /\ WF_vars(StartupStep)

Spec == Init /\ [][Next]_vars
FairSpec == Spec /\ Fairness
-----------------------------------------------------------------------------
(* Properties.                                                             *)

(* "test_workspace_plan_is_single_use": a plan submitted twice, also by    *)
(* requests that read it before either deletes it, makes at most one       *)
(* workspace and pod.  It takes the lock of the row.                       *)
Creating == {c \in Calls : call[c].op = "create" /\ call[c].at \notin {"plan", "complete"}}
PlanMakesOneWorkspace ==
  /\ \A c, d \in Creating : c = d
  /\ record.state # "none" => Creating = {}

(* A pod in the journal that runs without a workspace is still to be       *)
(* stopped by the startup: its operation is not closed before that.        *)
JournaledPodIsStopped ==
  (journal.pod # None /\ record.state = "none" /\ pods[journal.pod] = "running")
  => journal.state = "provider_created"

(* A deleted persistent workspace has no pod that could still be billed,   *)
(* whatever failed, crashed or overlapped on the way.                      *)
DeletedMeansTerminated ==
  mode = "persistent" /\ record.state = "deleted" => pods[journal.pod] = "terminated"

(* The agent's credential outlives every failure of a persistent workspace *)
(* as long as its pod can run: the pod has no way to get another one.      *)
PodHasCredential ==
  mode = "persistent" /\ record.state # "none" /\ pods[journal.pod] \in {"running", "exited"}
  => secret

(* Compute whose lease has expired is stopped: the reaper gets to it       *)
(* whatever calls, failures and restarts come between, unless a stale save *)
(* shows the workspace as stopped.                                         *)
Overdue ==
  /\ record.pod # None /\ pods[record.pod] = "running"
  /\ record.lease = "expired" /\ record.state # "stopped"
OverdueIsStopped == Overdue ~> ~Overdue

(* "A background reaper stops compute after lease expiry": of every pod of *)
(* the workspace.                                                          *)
ExpiryStopsCompute ==
  \A p \in Pods :
    record.lease = "expired" /\ pods[p] = "running"
    ~> record.lease # "expired" \/ pods[p] # "running"
=============================================================================
