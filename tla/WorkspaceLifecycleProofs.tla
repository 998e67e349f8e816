----------------------- MODULE WorkspaceLifecycleProofs -----------------------
(***************************************************************************)
(* Invariants of WorkspaceLifecycle, for any number of calls and pods and  *)
(* any number of restarts and faults.                                      *)
(***************************************************************************)
EXTENDS WorkspaceLifecycle, TLAPS

(* A call on a workspace that exists: every operation but the creation.    *)
Acting == {c \in Callers : call[c].op \notin {"none", "create"}}

(* Who is where: only such a call has a copy of a row; only clients        *)
(* create; nobody is served before the startup is over.                    *)
CallInv ==
  /\ \A c \in Callers : call[c] = Idle \/ call[c].op # "none"
  /\ \A c \in Acting : record.state # "none" /\ call[c].copy.state # "none"
  /\ \A c \in Callers : call[c].op = "create" =>
       /\ c \in Calls
       /\ call[c].at \in {"journal", "save", "complete"} => call[c].copy.state # "none"
       /\ call[c].at = "complete" => record.state # "none"
  /\ control # "serving" => \A c \in Callers : call[c] = Idle
  /\ deletes # {} => record.state # "none"

(* While the plan is stored nothing has begun.  Who has read it holds the  *)
(* lock of its row, alone, and it is still stored.                         *)
PlanInv ==
  /\ plan => record.state = "none" /\ Creating = {}
  /\ \A c \in Callers : call[c].at = "plan" => call[c].op = "create" /\ plan
  /\ \A c, d \in Callers : call[c].at = "plan" /\ call[d].at = "plan" => c = d

(* The journal names the pod of the creation, from before the row is       *)
(* saved and for good.                                                     *)
JournalInv ==
  /\ \A c \in Callers : call[c].op = "create" =>
       /\ call[c].at = "request" => journal.pod = None
       /\ call[c].at \in {"journal", "save"} => call[c].copy.state = "starting"
       /\ call[c].at = "journal" =>
            call[c].copy.pod \in Pods /\ pods[call[c].copy.pod] # "unused"
       /\ call[c].at = "save" => /\ call[c].copy.pod = journal.pod /\ journal.pod \in Pods
                                 /\ journal.state = "provider_created"
  /\ journal.pod \in Pods => pods[journal.pod] # "unused"
  /\ record.state # "none" => journal.pod \in Pods
  /\ control = "compensate" =>
       record.state = "none" /\ journal.pod \in Pods /\ pods[journal.pod] # "running"

(* A persistent workspace has that pod and no other, in every copy.        *)
OnePodInv ==
  mode = "persistent" =>
    /\ record.state # "none" => record.pod \in {journal.pod, None}
    /\ \A c \in Acting : call[c].copy.pod \in {journal.pod, None}

(* Where a copy, a row or an operation says it is deleted, it is gone.     *)
SaysGone(r) == r.state = "deleted" \/ r.pod = None
GoneInv ==
  mode = "persistent" =>
    /\ record.state # "none" /\ SaysGone(record) => pods[journal.pod] = "terminated"
    /\ deletes # {} => pods[journal.pod] = "terminated"
    /\ \A c \in Acting :
         SaysGone(call[c].copy) \/ (call[c].op = "delete" /\ call[c].at = "journal")
         => pods[journal.pod] = "terminated"

(* A creation has stored the credential.                                   *)
SecretInv ==
  \A c \in Callers : call[c].op = "create" /\ call[c].at \in {"request", "journal", "save"}
    => secret

(* The parts that concern a workspace in either mode, by induction over    *)
(* all steps, and those that only concern a persistent one.                *)
CreationInv == /\ TypeOK /\ CallInv /\ PlanInv /\ PlanMakesOneWorkspace /\ JournalInv
               /\ JournaledPodIsStopped
PersistentInv == OnePodInv /\ GoneInv /\ SecretInv /\ PodHasCredential

CallRecords ==
  [op : {"none", "create", "start", "stop", "delete", "status", "extend"},
   at : {"idle", "plan", "claim", "request", "journal", "save", "complete"},
   copy : Records]

(* A step that moves one call on, or ends it, keeps the calls' types.      *)
LEMMA GotoTypes ==
  ASSUME TypeOK, NEW c \in Callers,
         NEW at \in {"idle", "plan", "claim", "request", "journal", "save", "complete"},
         NEW copy \in Records, Goto(c, at, copy)
  PROVE  call' \in [Callers -> CallRecords]
<1>1. call \in [Callers -> CallRecords]
  BY DEF TypeOK, CallRecords
<1>2. [call[c] EXCEPT !.at = at, !.copy = copy] \in CallRecords
  BY <1>1 DEF CallRecords
<1>3. call' = [call EXCEPT ![c] = [call[c] EXCEPT !.at = at, !.copy = copy]]
  BY <1>1 DEF Goto
<1>. QED
  BY <1>1, <1>2, <1>3

LEMMA ReturnTypes ==
  ASSUME TypeOK, NEW c \in Callers, Return(c)
  PROVE  call' \in [Callers -> CallRecords]
<1>1. Idle \in CallRecords
  BY NamesAssumption DEF Idle, NoRecord, CallRecords, Records, States, Leases
<1>. QED
  BY <1>1 DEF TypeOK, Return, CallRecords

(* A copy whose state, lease or pod is replaced is still a row.            *)
LEMMA CopyTypes ==
  ASSUME TypeOK, NEW c \in Callers
  PROVE  /\ call[c].copy \in Records
         /\ [call[c].copy EXCEPT !.state = "error"] \in Records
         /\ Stopped(call[c].copy) \in Records
         /\ Deleted(call[c].copy) \in Records
         /\ Deleted(record) \in Records
  BY NamesAssumption DEF TypeOK, CallRecords, Records, States, Stopped, Deleted

(* What a refresh makes of a row or a copy that names a pod.               *)
LEMMA ObservedTypes ==
  ASSUME TypeOK, NEW r \in Records, r.pod # None, NEW seen \in Observed(r)
  PROVE  /\ seen \in Records
         /\ seen.state \in {"starting", "ready", "error", "stopped", "deleted"}
         /\ seen.pod \in {r.pod, None}
         /\ seen.pod = None => mode = "portable"
         /\ SaysGone(seen) /\ mode = "persistent" =>
              pods[r.pod] \in {"unused", "terminated"}
<1> USE NamesAssumption, BoundsAssumption DEF TypeOK, Records, States, Leases, SaysGone
<1>1. r.pod \in Pods /\ pods[r.pod] \in {"unused", "running", "exited", "terminated"}
  OBVIOUS
<1>2. CASE pods[r.pod] = "running"
  <2>1. \E s \in {"starting", "ready", "error"} : seen = [r EXCEPT !.state = s]
    BY <1>2 DEF Observed
  <2>. QED
    BY <1>1, <1>2, <2>1
<1>3. CASE pods[r.pod] = "exited"
  <2>1. seen = [r EXCEPT !.state = "stopped"]
    BY <1>3 DEF Observed
  <2>. QED
    BY <1>1, <1>3, <2>1
<1>4. CASE pods[r.pod] \in {"unused", "terminated"} /\ mode = "portable"
  <2>1. seen = [r EXCEPT !.state = "stopped", !.pod = None]
    BY <1>4 DEF Observed
  <2>. QED
    BY <1>1, <1>4, <2>1
<1>5. CASE pods[r.pod] \in {"unused", "terminated"} /\ mode # "portable"
  <2>1. seen = [r EXCEPT !.state = "deleted"]
    BY <1>5 DEF Observed
  <2>. QED
    BY <1>1, <1>5, <2>1
<1>. QED
  BY <1>1, <1>2, <1>3, <1>4, <1>5


(* Every step keeps the types.                                             *)
LEMMA TypeStep ==
  ASSUME TypeOK, [Next]_vars
  PROVE  TypeOK'
<1> USE NamesAssumption, BoundsAssumption DEF Callers, Records, States,
Leases, OpenStates, NoRecord, Idle
<1>28. ASSUME NEW c \in Calls, PlanRead(c)
      PROVE  TypeOK'
  BY <1>28 DEF PlanRead, RowFree, Begin, stored, bounds, TypeOK
<1>1. ASSUME NEW c \in Callers, Create(c)
      PROVE  TypeOK'
  <2>1. call' \in [Callers -> CallRecords]
    BY <1>1, GotoTypes DEF Create
  <2>. QED
    BY <1>1, <2>1 DEF Create, Consumed, bounds, TypeOK, CallRecords
<1>2. ASSUME NEW c \in Calls, Start(c)
      PROVE  TypeOK'
  BY <1>2 DEF Start, Claim, Begin, stored, bounds, TypeOK
<1>3. ASSUME NEW c \in Calls, Stop(c)
      PROVE  TypeOK'
  BY <1>3 DEF Stop, Claim, Begin, stored, bounds, TypeOK
<1>4. ASSUME NEW c \in Calls, Terminate(c)
      PROVE  TypeOK'
  BY <1>4 DEF Terminate, Claim, Begin, stored, bounds, TypeOK
<1>5. ASSUME NEW c \in Calls, Status(c)
      PROVE  TypeOK'
  BY <1>5 DEF Status, Begin, stored, bounds, TypeOK
<1>6. ASSUME NEW c \in Calls, Extend(c)
      PROVE  TypeOK'
  BY <1>6 DEF Extend, Begin, stored, bounds, TypeOK
<1>7. ASSUME NEW c \in Callers, Save(c)
      PROVE  TypeOK'
  BY <1>7 DEF Save, Goto, Return, stored, bounds, TypeOK
<1>8. ASSUME NEW c \in Callers, CreatePod(c)
      PROVE  TypeOK'
  <2>1. call' \in [Callers -> CallRecords]
    <3>1. CASE Return(c)
      BY <3>1, ReturnTypes
    <3>2. CASE \E p \in Pods, grant \in Grants :
                 Goto(c, "journal", [state |-> "starting", lease |-> grant, pod |-> p])
      <4>1. PICK p \in Pods, grant \in Grants :
               Goto(c, "journal", [state |-> "starting", lease |-> grant, pod |-> p])
        BY <3>2
      <4>2. [state |-> "starting", lease |-> grant, pod |-> p] \in Records
        OBVIOUS
      <4>. QED
        BY <4>1, <4>2, GotoTypes
    <3>. QED
      BY <1>8, <3>1, <3>2 DEF CreatePod, Unused
  <2>2. pods' \in [Pods -> {"unused", "running", "exited", "terminated"}]
    BY <1>8 DEF CreatePod, Put, Unused, Fault, TypeOK
  <2>3. faults' \in 0 .. MaxFaults
    <3>1. UNCHANGED faults \/ Fault
      BY <1>8 DEF CreatePod
    <3>. QED
      BY <3>1 DEF Fault, TypeOK
  <2>6. secret' \in BOOLEAN
    BY <1>8 DEF CreatePod, Put, Unused, Fault, TypeOK
  <2>4. journal' \in [state : OpenStates \cup {"none", "completed", "failed", "compensated"},
                     pod : Pods \cup {None}]
    BY <1>8 DEF CreatePod, Put, Unused, Fault, TypeOK
  <2>5. UNCHANGED <<mode, plan, record, deletes, control, crashes>>
    BY <1>8 DEF CreatePod, Put, Unused, Fault
  <2>. QED
    BY <2>1, <2>2, <2>3, <2>4, <2>5, <2>6 DEF TypeOK, CallRecords
<1>9. ASSUME NEW c \in Callers, CreateJournaled(c)
      PROVE  TypeOK'
  BY <1>9 DEF CreateJournaled, At, Goto, stored, bounds, TypeOK
<1>10. ASSUME NEW c \in Callers, CreateCompleted(c)
      PROVE  TypeOK'
  BY <1>10 DEF CreateCompleted, At, Return, stored, bounds, TypeOK
<1>11. ASSUME NEW c \in Callers, StartPod(c)
      PROVE  TypeOK'
  <2>1. call' \in [Callers -> CallRecords]
    <3>1. CASE Fails(c)
      BY <3>1, CopyTypes, GotoTypes DEF Fails
    <3>2. CASE \E p \in Pods, grant \in Grants :
                 Goto(c, "save", [state |-> "starting", lease |-> grant, pod |-> p])
      <4>1. PICK p \in Pods, grant \in Grants :
               Goto(c, "save", [state |-> "starting", lease |-> grant, pod |-> p])
        BY <3>2
      <4>2. [state |-> "starting", lease |-> grant, pod |-> p] \in Records
        OBVIOUS
      <4>. QED
        BY <4>1, <4>2, GotoTypes
    <3>. QED
      BY <1>11, <3>1, <3>2 DEF StartPod, Startable, Unused
  <2>2. pods' \in [Pods -> {"unused", "running", "exited", "terminated"}]
    BY <1>11 DEF StartPod, Put, Startable, Unused, Fault, SecretAfterFailedStart, TypeOK
  <2>3. faults' \in 0 .. MaxFaults
    <3>1. UNCHANGED faults \/ Fault
      BY <1>11 DEF StartPod
    <3>. QED
      BY <3>1 DEF Fault, TypeOK
  <2>6. secret' \in BOOLEAN
    BY <1>11 DEF StartPod, Put, Startable, Unused, Fault, SecretAfterFailedStart, TypeOK
  <2>4. journal' \in [state : OpenStates \cup {"none", "completed", "failed", "compensated"},
                     pod : Pods \cup {None}]
    BY <1>11 DEF StartPod, Put, Startable, Unused, Fault, SecretAfterFailedStart, TypeOK
  <2>5. UNCHANGED <<mode, plan, record, deletes, control, crashes>>
    BY <1>11 DEF StartPod, Put, Startable, Unused, Fault, SecretAfterFailedStart
  <2>. QED
    BY <2>1, <2>2, <2>3, <2>4, <2>5, <2>6 DEF TypeOK, CallRecords
<1>12. ASSUME NEW c \in Callers, StopPod(c)
      PROVE  TypeOK'
  <2>1. call' \in [Callers -> CallRecords]
    <3>1. CASE Fails(c)
      BY <3>1, CopyTypes, GotoTypes DEF Fails
    <3>2. CASE Goto(c, "save", Stopped(call[c].copy))
      BY <3>2, CopyTypes, GotoTypes
    <3>. QED
      BY <1>12, <3>1, <3>2 DEF StopPod
  <2>2. pods' \in [Pods -> {"unused", "running", "exited", "terminated"}]
    BY <1>12 DEF StopPod, Put, Known, Halted, Fault, TypeOK
  <2>3. faults' \in 0 .. MaxFaults
    <3>1. UNCHANGED faults \/ Fault
      BY <1>12 DEF StopPod
    <3>. QED
      BY <3>1 DEF Fault, TypeOK
  <2>6. secret' \in BOOLEAN
    BY <1>12 DEF StopPod, Put, Known, Halted, Fault, TypeOK
  <2>4. journal' \in [state : OpenStates \cup {"none", "completed", "failed", "compensated"},
                     pod : Pods \cup {None}]
    BY <1>12 DEF StopPod, Put, Known, Halted, Fault, TypeOK
  <2>5. UNCHANGED <<mode, plan, record, deletes, control, crashes>>
    BY <1>12 DEF StopPod, Put, Known, Halted, Fault
  <2>. QED
    BY <2>1, <2>2, <2>3, <2>4, <2>5, <2>6 DEF TypeOK, CallRecords
<1>13. ASSUME NEW c \in Callers, DeletePod(c)
      PROVE  TypeOK'
  <2>1. call' \in [Callers -> CallRecords]
    <3>1. CASE Fails(c)
      BY <3>1, CopyTypes, GotoTypes DEF Fails
    <3>2. CASE Goto(c, "journal", call[c].copy)
      BY <3>2, CopyTypes, GotoTypes
    <3>. QED
      BY <1>13, <3>1, <3>2 DEF DeletePod, FailedDelete
  <2>2. pods' \in [Pods -> {"unused", "running", "exited", "terminated"}]
    BY <1>13 DEF DeletePod, Put, Known, Fault, TypeOK
  <2>3. faults' \in 0 .. MaxFaults
    <3>1. UNCHANGED faults \/ Fault
      BY <1>13 DEF DeletePod
    <3>. QED
      BY <3>1 DEF Fault, TypeOK
  <2>6. secret' \in BOOLEAN
    BY <1>13 DEF DeletePod, Put, Known, Fault, TypeOK
  <2>4. journal' \in [state : OpenStates \cup {"none", "completed", "failed", "compensated"},
                     pod : Pods \cup {None}]
    BY <1>13 DEF DeletePod, Put, Known, Fault, TypeOK
  <2>5. UNCHANGED <<mode, plan, record, deletes, control, crashes>>
    BY <1>13 DEF DeletePod, Put, Known, Fault
  <2>. QED
    BY <2>1, <2>2, <2>3, <2>4, <2>5, <2>6 DEF TypeOK, CallRecords
<1>14. ASSUME NEW c \in Callers, DeleteJournaled(c)
      PROVE  TypeOK'
  <2>1. call' \in [Callers -> CallRecords]
    BY <1>14, CopyTypes, GotoTypes DEF DeleteJournaled
  <2>2. secret' \in BOOLEAN
    BY <1>14 DEF DeleteJournaled, TypeOK
  <2>. QED
    BY <1>14, <2>1, <2>2 DEF DeleteJournaled, bounds, TypeOK, CallRecords
<1>15. ASSUME NEW c \in Callers, DeleteCompleted(c)
      PROVE  TypeOK'
  BY <1>15 DEF DeleteCompleted, At, Return, stored, bounds, TypeOK
<1>16. ASSUME NEW c \in Callers, StatusObserved(c)
      PROVE  TypeOK'
  <2>1. call' \in [Callers -> CallRecords]
    <3>1. CASE Return(c)
      BY <3>1, ReturnTypes
    <3>2. CASE /\ call[c].copy.pod # None
               /\ \E seen \in Observed(call[c].copy) : Goto(c, "save", seen)
      BY <3>2, CopyTypes, ObservedTypes, GotoTypes
    <3>. QED
      BY <1>16, <3>1, <3>2 DEF StatusObserved
  <2>2. secret' \in BOOLEAN
    BY <1>16 DEF StatusObserved, TypeOK
  <2>. QED
    BY <1>16, <2>1, <2>2 DEF StatusObserved, bounds, TypeOK, CallRecords
<1>17. ASSUME ReaperLists
      PROVE  TypeOK'
  BY <1>17 DEF ReaperLists, Reapable, Begin, stored, bounds, TypeOK
<1>18. ASSUME ReaperRefused
      PROVE  TypeOK'
  BY <1>18 DEF ReaperRefused, At, Return, stored, bounds, TypeOK
<1>19. ASSUME Stop(Reaper)
      PROVE  TypeOK'
  BY <1>19 DEF Stop, At, Claim, Begin, stored, bounds, TypeOK
<1>20. ASSUME LeaseExpires
      PROVE  TypeOK'
  BY <1>20 DEF LeaseExpires, stored, bounds, TypeOK
<1>21. ASSUME Crash
      PROVE  TypeOK'
  BY <1>21 DEF Crash, stored, bounds, TypeOK
<1>22. ASSUME StartupCreate
      PROVE  TypeOK'
  <2>1. CASE journal.state \in OpenStates /\ Orphan
    <3>1. /\ Put(journal.pod, Halted) /\ control' = "compensate"
          /\ UNCHANGED <<journal, secret, startupFrame, record, deletes>>
      BY <1>22, <2>1 DEF StartupCreate
    <3>2. pods' \in [Pods -> {"unused", "running", "exited", "terminated"}]
      BY <3>1 DEF Put, Halted, TypeOK
    <3>. QED
      BY <3>1, <3>2 DEF startupFrame, bounds, TypeOK
  <2>2. CASE ~(journal.state \in OpenStates /\ Orphan)
    <3>1. /\ control' = "deletes" /\ UNCHANGED <<pods, startupFrame, record, deletes>>
          /\ \/ /\ journal' = [journal EXCEPT !.state =
                      IF record.state = "none" THEN "failed" ELSE "completed"]
                /\ secret' = (secret /\ record.state # "none")
             \/ UNCHANGED <<journal, secret>>
      BY <1>22, <2>2 DEF StartupCreate
    <3>2. journal' \in [state : OpenStates \cup {"none", "completed", "failed", "compensated"},
                        pod : Pods \cup {None}]
      BY <3>1 DEF TypeOK
    <3>3. secret' \in BOOLEAN
      BY <3>1 DEF TypeOK
    <3>. QED
      BY <3>1, <3>2, <3>3 DEF startupFrame, bounds, TypeOK
  <2>. QED
    BY <2>1, <2>2
<1>23. ASSUME StartupCompensated
      PROVE  TypeOK'
  BY <1>23 DEF StartupCompensated, startupFrame, stored, bounds, TypeOK
<1>24. ASSUME StartupDeletes
      PROVE  TypeOK'
  <2>1. Deleted(record) \in Records
    BY DEF Deleted, TypeOK
  <2>2. record' \in Records /\ secret' \in BOOLEAN
    BY <1>24, <2>1 DEF StartupDeletes, TypeOK
  <2>3. deletes' = {} /\ control' = "refresh" /\ UNCHANGED <<startupFrame, journal, pods>>
    BY <1>24 DEF StartupDeletes
  <2>. HIDE DEF Records
  <2>. QED
    BY <2>2, <2>3 DEF startupFrame, bounds, TypeOK
<1>25. ASSUME StartupRefresh
      PROVE  TypeOK'
  <2>1. record' \in Records
    <3>1. CASE \E seen \in Observed(record) :
                 record.pod # None /\ record' = IF seen.state = "deleted" THEN Deleted(seen) ELSE seen
      <4>1. PICK seen \in Observed(record) :
               record.pod # None /\ record' = IF seen.state = "deleted" THEN Deleted(seen) ELSE seen
        BY <3>1
      <4>2. seen \in Records
        BY <4>1, ObservedTypes DEF TypeOK
      <4>. QED
        BY <4>1, <4>2 DEF Deleted
    <3>. QED
      BY <1>25, <3>1 DEF StartupRefresh, TypeOK
  <2>. QED
    BY <1>25, <2>1 DEF StartupRefresh, startupFrame, bounds, TypeOK
<1>26. ASSUME NEW p \in Pods, PodGoes(p)
      PROVE  TypeOK'
  BY <1>26 DEF PodGoes, Fault, Put, stored, bounds, TypeOK
<1>27. CASE UNCHANGED vars
  BY <1>27 DEF vars, stored, bounds, TypeOK
<1>. QED
  BY <1>1, <1>2, <1>3, <1>4, <1>5, <1>6, <1>7, <1>8, <1>9, <1>10, <1>11,
  <1>12, <1>13, <1>14, <1>15, <1>16, <1>17, <1>18, <1>19, <1>20, <1>21,
  <1>22, <1>23, <1>24, <1>25, <1>26, <1>27, <1>28 DEF Next, CallStep, ReaperStep,
  StartupStep

(* Calls, rows and the startup keep to each other.                         *)
LEMMA CallsStep ==
  ASSUME TypeOK, TypeOK', CallInv, PlanMakesOneWorkspace, PlanInv, [Next]_vars
  PROVE  CallInv'
<1> USE NamesAssumption, BoundsAssumption DEF Callers, Records, States,
Leases, OpenStates, NoRecord, Idle
<1>28. ASSUME NEW c \in Calls, PlanRead(c)
      PROVE  CallInv'
  BY <1>28 DEF PlanRead, RowFree, Begin, stored, bounds, CallInv, Acting
<1>1. ASSUME NEW c \in Callers, Create(c)
      PROVE  CallInv'
  BY <1>1 DEF Create, Consumed, At, Goto, stored, bounds, TypeOK, CallInv, Acting
<1>2. ASSUME NEW c \in Calls, Start(c)
      PROVE  CallInv'
  BY <1>2 DEF Start, Claim, Begin, stored, bounds, CallInv, Acting
<1>3. ASSUME NEW c \in Calls, Stop(c)
      PROVE  CallInv'
  BY <1>3 DEF Stop, Claim, Begin, stored, bounds, CallInv, Acting
<1>4. ASSUME NEW c \in Calls, Terminate(c)
      PROVE  CallInv'
  BY <1>4 DEF Terminate, Claim, Begin, stored, bounds, CallInv, Acting
<1>5. ASSUME NEW c \in Calls, Status(c)
      PROVE  CallInv'
  BY <1>5 DEF Status, Begin, stored, bounds, CallInv, Acting
<1>6. ASSUME NEW c \in Calls, Extend(c)
      PROVE  CallInv'
  BY <1>6 DEF Extend, Begin, stored, bounds, CallInv, Acting
<1>7. ASSUME NEW c \in Callers, Save(c)
      PROVE  CallInv'
  BY <1>7 DEF Save, Goto, Return, stored, bounds, TypeOK, CallInv, Acting
<1>8. ASSUME NEW c \in Callers, CreatePod(c)
      PROVE  CallInv'
  BY <1>8 DEF CreatePod, At, Put, Unused, Goto, Return, Fault, stored,
  bounds, TypeOK, CallInv, Acting
<1>9. ASSUME NEW c \in Callers, CreateJournaled(c)
      PROVE  CallInv'
  BY <1>9 DEF CreateJournaled, At, Goto, stored, bounds, TypeOK, CallInv,
  Acting
<1>10. ASSUME NEW c \in Callers, CreateCompleted(c)
      PROVE  CallInv'
  BY <1>10 DEF CreateCompleted, At, Return, stored, bounds, CallInv, Acting
<1>11. ASSUME NEW c \in Callers, StartPod(c)
      PROVE  CallInv'
  BY <1>11 DEF StartPod, At, Put, Startable, Unused, Goto, Fails, Fault,
  SecretAfterFailedStart, stored, bounds, TypeOK, CallInv, Acting
<1>12. ASSUME NEW c \in Callers, StopPod(c)
      PROVE  CallInv'
  BY <1>12 DEF StopPod, At, Put, Known, Halted, Stopped, Goto, Fails, Fault,
  stored, bounds, TypeOK, CallInv, Acting
<1>13. ASSUME NEW c \in Callers, DeletePod(c)
      PROVE  CallInv'
  BY <1>13 DEF DeletePod, At, Put, Known, Goto, FailedDelete, Fails, Fault,
  stored, bounds, TypeOK, CallInv, Acting
<1>14. ASSUME NEW c \in Callers, DeleteJournaled(c)
      PROVE  CallInv'
  BY <1>14 DEF DeleteJournaled, At, Deleted, Goto, stored, bounds, TypeOK,
  CallInv, Acting
<1>15. ASSUME NEW c \in Callers, DeleteCompleted(c)
      PROVE  CallInv'
  BY <1>15 DEF DeleteCompleted, At, Return, stored, bounds, CallInv, Acting
<1>16. ASSUME NEW c \in Callers, StatusObserved(c)
      PROVE  CallInv'
  BY <1>16 DEF StatusObserved, At, Observed, Goto, Return, stored, bounds,
  TypeOK, CallInv, Acting
<1>17. ASSUME ReaperLists
      PROVE  CallInv'
  BY <1>17 DEF ReaperLists, Reapable, Begin, stored, bounds, CallInv, Acting
<1>18. ASSUME ReaperRefused
      PROVE  CallInv'
  BY <1>18 DEF ReaperRefused, At, Return, stored, bounds, CallInv, Acting
<1>19. ASSUME Stop(Reaper)
      PROVE  CallInv'
  BY <1>19 DEF Stop, At, Claim, Begin, stored, bounds, CallInv, Acting
<1>20. ASSUME LeaseExpires
      PROVE  CallInv'
  BY <1>20 DEF LeaseExpires, stored, bounds, CallInv, Acting
<1>21. ASSUME Crash
      PROVE  CallInv'
  BY <1>21 DEF Crash, stored, bounds, CallInv, Acting
<1>22. ASSUME StartupCreate
      PROVE  CallInv'
  BY <1>22 DEF StartupCreate, Orphan, Known, Put, Halted, startupFrame,
  stored, bounds, CallInv, Acting
<1>23. ASSUME StartupCompensated
      PROVE  CallInv'
  BY <1>23 DEF StartupCompensated, startupFrame, stored, bounds, CallInv,
  Acting
<1>24. ASSUME StartupDeletes
      PROVE  CallInv'
  BY <1>24 DEF StartupDeletes, Deleted, startupFrame, stored, bounds,
  CallInv, Acting
<1>25. ASSUME StartupRefresh
      PROVE  CallInv'
  <2>1. record'.state # "none" <=> record.state # "none"
    <3>1. CASE record.state \notin {"none", "deleted"} /\ record.pod # None
      <4>1. PICK seen \in Observed(record) \cup {[record EXCEPT !.state = "error"]} :
               record' = IF seen.state = "deleted" THEN Deleted(seen) ELSE seen
        BY <1>25, <3>1 DEF StartupRefresh, TypeOK
      <4>2. seen \in Records /\ seen.state # "none"
        BY <3>1, ObservedTypes DEF TypeOK
      <4>. QED
        BY <3>1, <4>1, <4>2 DEF Deleted
    <3>. QED
      BY <1>25, <3>1 DEF StartupRefresh
  <2>. QED
    BY <1>25, <2>1 DEF StartupRefresh, startupFrame, bounds, CallInv, Acting
<1>26. ASSUME NEW p \in Pods, PodGoes(p)
      PROVE  CallInv'
  BY <1>26 DEF PodGoes, Fault, Put, stored, bounds, CallInv, Acting
<1>27. CASE UNCHANGED vars
  BY <1>27 DEF vars, stored, bounds, CallInv, Acting
<1>. QED
  BY <1>1, <1>2, <1>3, <1>4, <1>5, <1>6, <1>7, <1>8, <1>9, <1>10, <1>11,
  <1>12, <1>13, <1>14, <1>15, <1>16, <1>17, <1>18, <1>19, <1>20, <1>21,
  <1>22, <1>23, <1>24, <1>25, <1>26, <1>27, <1>28 DEF Next, CallStep, ReaperStep,
  StartupStep

(* A plan makes one creation, and that one workspace.                      *)
LEMMA PlanStep ==
  ASSUME RowLocks, TypeOK, TypeOK', CallInv, PlanInv, PlanMakesOneWorkspace, [Next]_vars
  PROVE  PlanInv' /\ PlanMakesOneWorkspace'
<1> USE NamesAssumption, BoundsAssumption DEF Callers, Records, States,
Leases, OpenStates, NoRecord, Idle
<1>28. ASSUME NEW c \in Calls, PlanRead(c)
      PROVE  PlanInv' /\ PlanMakesOneWorkspace'
  <2>1. \A d \in Callers : call[d].at # "plan"
    BY <1>28 DEF PlanRead, RowFree, CallInv, PlanInv
  <2>. QED
    BY <1>28, <2>1 DEF PlanRead, Begin, stored, bounds, TypeOK, PlanInv,
    PlanMakesOneWorkspace, Creating
<1>1. ASSUME NEW c \in Callers, Create(c)
      PROVE  PlanInv' /\ PlanMakesOneWorkspace'
  BY <1>1 DEF Create, Consumed, At, Goto, stored, bounds, TypeOK, CallInv,
  PlanInv, PlanMakesOneWorkspace, Creating
<1>2. ASSUME NEW c \in Calls, Start(c)
      PROVE  PlanInv' /\ PlanMakesOneWorkspace'
  BY <1>2 DEF Start, Claim, Begin, stored, bounds, PlanInv,
  PlanMakesOneWorkspace, Creating
<1>3. ASSUME NEW c \in Calls, Stop(c)
      PROVE  PlanInv' /\ PlanMakesOneWorkspace'
  BY <1>3 DEF Stop, Claim, Begin, stored, bounds, PlanInv,
  PlanMakesOneWorkspace, Creating
<1>4. ASSUME NEW c \in Calls, Terminate(c)
      PROVE  PlanInv' /\ PlanMakesOneWorkspace'
  BY <1>4 DEF Terminate, Claim, Begin, stored, bounds, PlanInv,
  PlanMakesOneWorkspace, Creating
<1>5. ASSUME NEW c \in Calls, Status(c)
      PROVE  PlanInv' /\ PlanMakesOneWorkspace'
  BY <1>5 DEF Status, Begin, stored, bounds, PlanInv, PlanMakesOneWorkspace,
  Creating
<1>6. ASSUME NEW c \in Calls, Extend(c)
      PROVE  PlanInv' /\ PlanMakesOneWorkspace'
  BY <1>6 DEF Extend, Begin, stored, bounds, PlanInv, PlanMakesOneWorkspace,
  Creating
<1>7. ASSUME NEW c \in Callers, Save(c)
      PROVE  PlanInv' /\ PlanMakesOneWorkspace'
  BY <1>7 DEF Save, Goto, Return, stored, bounds, TypeOK, CallInv, Acting,
  PlanInv, PlanMakesOneWorkspace, Creating
<1>8. ASSUME NEW c \in Callers, CreatePod(c)
      PROVE  PlanInv' /\ PlanMakesOneWorkspace'
  BY <1>8 DEF CreatePod, At, Put, Unused, Goto, Return, Fault, stored,
  bounds, TypeOK, CallInv, Acting, PlanInv, PlanMakesOneWorkspace, Creating
<1>9. ASSUME NEW c \in Callers, CreateJournaled(c)
      PROVE  PlanInv' /\ PlanMakesOneWorkspace'
  <2>1. /\ \A d \in Callers \ {c} : call'[d] = call[d]
        /\ call'[c].op = "create" /\ call'[c].at = "save"
    BY <1>9 DEF CreateJournaled, At, Goto, TypeOK
  <2>2. plan' = plan /\ record' = record /\ c \in Creating
    BY <1>9 DEF CreateJournaled, At, CallInv, Creating
  <2>. QED
    BY <2>1, <2>2 DEF PlanInv, PlanMakesOneWorkspace, Creating
<1>10. ASSUME NEW c \in Callers, CreateCompleted(c)
      PROVE  PlanInv' /\ PlanMakesOneWorkspace'
  BY <1>10 DEF CreateCompleted, At, Return, stored, bounds, PlanInv,
  PlanMakesOneWorkspace, Creating
<1>11. ASSUME NEW c \in Callers, StartPod(c)
      PROVE  PlanInv' /\ PlanMakesOneWorkspace'
  <2>1. /\ \A d \in Callers \ {c} : call'[d] = call[d]
        /\ call'[c].op = "start" /\ call'[c].at = "save"
    BY <1>11 DEF StartPod, At, Goto, Fails, TypeOK
  <2>2. plan' = plan /\ record' = record
    BY <1>11 DEF StartPod
  <2>. QED
    BY <1>11, <2>1, <2>2 DEF StartPod, At, PlanInv, PlanMakesOneWorkspace, Creating
<1>12. ASSUME NEW c \in Callers, StopPod(c)
      PROVE  PlanInv' /\ PlanMakesOneWorkspace'
  <2>1. /\ \A d \in Callers \ {c} : call'[d] = call[d]
        /\ call'[c].op = "stop" /\ call'[c].at = "save"
    BY <1>12 DEF StopPod, At, Goto, Fails, TypeOK
  <2>2. plan' = plan /\ record' = record
    BY <1>12 DEF StopPod
  <2>. QED
    BY <1>12, <2>1, <2>2 DEF StopPod, At, PlanInv, PlanMakesOneWorkspace, Creating
<1>13. ASSUME NEW c \in Callers, DeletePod(c)
      PROVE  PlanInv' /\ PlanMakesOneWorkspace'
  BY <1>13 DEF DeletePod, At, Put, Known, Goto, FailedDelete, Fails, Fault,
  stored, bounds, TypeOK, CallInv, Acting, PlanInv, PlanMakesOneWorkspace,
  Creating
<1>14. ASSUME NEW c \in Callers, DeleteJournaled(c)
      PROVE  PlanInv' /\ PlanMakesOneWorkspace'
  BY <1>14 DEF DeleteJournaled, At, Deleted, Goto, stored, bounds, TypeOK,
  CallInv, Acting, PlanInv, PlanMakesOneWorkspace, Creating
<1>15. ASSUME NEW c \in Callers, DeleteCompleted(c)
      PROVE  PlanInv' /\ PlanMakesOneWorkspace'
  BY <1>15 DEF DeleteCompleted, At, Return, stored, bounds, PlanInv,
  PlanMakesOneWorkspace, Creating
<1>16. ASSUME NEW c \in Callers, StatusObserved(c)
      PROVE  PlanInv' /\ PlanMakesOneWorkspace'
  BY <1>16 DEF StatusObserved, At, Observed, Goto, Return, stored, bounds,
  TypeOK, CallInv, Acting, PlanInv, PlanMakesOneWorkspace, Creating
<1>17. ASSUME ReaperLists
      PROVE  PlanInv' /\ PlanMakesOneWorkspace'
  BY <1>17 DEF ReaperLists, Reapable, Begin, stored, bounds, PlanInv,
  PlanMakesOneWorkspace, Creating
<1>18. ASSUME ReaperRefused
      PROVE  PlanInv' /\ PlanMakesOneWorkspace'
  BY <1>18 DEF ReaperRefused, At, Return, stored, bounds, PlanInv,
  PlanMakesOneWorkspace, Creating
<1>19. ASSUME Stop(Reaper)
      PROVE  PlanInv' /\ PlanMakesOneWorkspace'
  BY <1>19 DEF Stop, At, Claim, Begin, stored, bounds, PlanInv,
  PlanMakesOneWorkspace, Creating
<1>20. ASSUME LeaseExpires
      PROVE  PlanInv' /\ PlanMakesOneWorkspace'
  BY <1>20 DEF LeaseExpires, stored, bounds, PlanInv, PlanMakesOneWorkspace,
  Creating
<1>21. ASSUME Crash
      PROVE  PlanInv' /\ PlanMakesOneWorkspace'
  BY <1>21 DEF Crash, stored, bounds, PlanInv, PlanMakesOneWorkspace,
  Creating
<1>22. ASSUME StartupCreate
      PROVE  PlanInv' /\ PlanMakesOneWorkspace'
  BY <1>22 DEF StartupCreate, Orphan, Known, Put, Halted, startupFrame,
  stored, bounds, PlanInv, PlanMakesOneWorkspace, Creating
<1>23. ASSUME StartupCompensated
      PROVE  PlanInv' /\ PlanMakesOneWorkspace'
  BY <1>23 DEF StartupCompensated, startupFrame, stored, bounds, PlanInv,
  PlanMakesOneWorkspace, Creating
<1>24. ASSUME StartupDeletes
      PROVE  PlanInv' /\ PlanMakesOneWorkspace'
  BY <1>24 DEF StartupDeletes, Deleted, startupFrame, stored, bounds, TypeOK,
  CallInv, Acting, PlanInv, PlanMakesOneWorkspace, Creating
<1>25. ASSUME StartupRefresh
      PROVE  PlanInv' /\ PlanMakesOneWorkspace'
  <2>1. record'.state # "none" <=> record.state # "none"
    <3>1. CASE record.state \notin {"none", "deleted"} /\ record.pod # None
      <4>1. PICK seen \in Observed(record) \cup {[record EXCEPT !.state = "error"]} :
               record' = IF seen.state = "deleted" THEN Deleted(seen) ELSE seen
        BY <1>25, <3>1 DEF StartupRefresh, TypeOK
      <4>2. seen \in Records /\ seen.state # "none"
        BY <3>1, ObservedTypes DEF TypeOK
      <4>. QED
        BY <3>1, <4>1, <4>2 DEF Deleted
    <3>. QED
      BY <1>25, <3>1 DEF StartupRefresh
  <2>. QED
    BY <1>25, <2>1 DEF StartupRefresh, startupFrame, bounds, CallInv, PlanInv, PlanMakesOneWorkspace, Creating
<1>26. ASSUME NEW p \in Pods, PodGoes(p)
      PROVE  PlanInv' /\ PlanMakesOneWorkspace'
  BY <1>26 DEF PodGoes, Fault, Put, stored, bounds, PlanInv,
  PlanMakesOneWorkspace, Creating
<1>27. CASE UNCHANGED vars
  BY <1>27 DEF vars, stored, bounds, PlanInv, PlanMakesOneWorkspace, Creating
<1>. QED
  BY <1>1, <1>2, <1>3, <1>4, <1>5, <1>6, <1>7, <1>8, <1>9, <1>10, <1>11,
  <1>12, <1>13, <1>14, <1>15, <1>16, <1>17, <1>18, <1>19, <1>20, <1>21,
  <1>22, <1>23, <1>24, <1>25, <1>26, <1>27, <1>28 DEF Next, CallStep, ReaperStep,
  StartupStep

(* The journal and the creation keep to each other.                        *)
LEMMA JournalStep ==
  ASSUME TypeOK, TypeOK', CallInv, PlanInv, PlanMakesOneWorkspace, JournalInv, [Next]_vars
  PROVE  JournalInv'
<1> USE NamesAssumption, BoundsAssumption DEF Callers, Records, States,
Leases, OpenStates, NoRecord, Idle
<1>28. ASSUME NEW c \in Calls, PlanRead(c)
      PROVE  JournalInv'
  BY <1>28 DEF PlanRead, RowFree, Begin, stored, bounds, TypeOK, CallInv,
  Acting, PlanInv, PlanMakesOneWorkspace, Creating, JournalInv
<1>1. ASSUME NEW c \in Callers, Create(c)
      PROVE  JournalInv'
  BY <1>1 DEF Create, Consumed, At, Goto, stored, bounds, TypeOK, CallInv,
  Acting, PlanInv, PlanMakesOneWorkspace, Creating, JournalInv
<1>2. ASSUME NEW c \in Calls, Start(c)
      PROVE  JournalInv'
  BY <1>2 DEF Start, Claim, Begin, stored, bounds, TypeOK, JournalInv
<1>3. ASSUME NEW c \in Calls, Stop(c)
      PROVE  JournalInv'
  BY <1>3 DEF Stop, Claim, Begin, stored, bounds, TypeOK, JournalInv
<1>4. ASSUME NEW c \in Calls, Terminate(c)
      PROVE  JournalInv'
  BY <1>4 DEF Terminate, Claim, Begin, stored, bounds, TypeOK, JournalInv
<1>5. ASSUME NEW c \in Calls, Status(c)
      PROVE  JournalInv'
  BY <1>5 DEF Status, Begin, stored, bounds, TypeOK, JournalInv
<1>6. ASSUME NEW c \in Calls, Extend(c)
      PROVE  JournalInv'
  BY <1>6 DEF Extend, Begin, stored, bounds, TypeOK, JournalInv
<1>7. ASSUME NEW c \in Callers, Save(c)
      PROVE  JournalInv'
  BY <1>7 DEF Save, Goto, Return, stored, bounds, TypeOK, CallInv, Acting,
  PlanInv, PlanMakesOneWorkspace, Creating, JournalInv
<1>8. ASSUME NEW c \in Callers, CreatePod(c)
      PROVE  JournalInv'
  BY <1>8 DEF CreatePod, At, Put, Unused, Goto, Return, Fault, stored,
  bounds, TypeOK, JournalInv
<1>9. ASSUME NEW c \in Callers, CreateJournaled(c)
      PROVE  JournalInv'
  <2>1. c \in Creating /\ record.state = "none" /\ Acting = {}
    BY <1>9 DEF CreateJournaled, At, CallInv, PlanMakesOneWorkspace, Creating, Acting
  <2>2. \A d \in Callers : d # c => call[d].op # "create"
    BY <2>1 DEF CallInv, PlanInv, PlanMakesOneWorkspace, Creating
  <2>3. call[c].copy.pod \in Pods /\ pods[call[c].copy.pod] # "unused"
    BY <1>9 DEF CreateJournaled, At, JournalInv
  <2>4. call[c].copy.state = "starting"
    BY <1>9 DEF CreateJournaled, At, JournalInv
  <2>5. /\ call' = [call EXCEPT ![c].at = "save", ![c].copy = call[c].copy]
        /\ journal' = [state |-> "provider_created", pod |-> call[c].copy.pod]
        /\ UNCHANGED <<record, pods, control>>
    BY <1>9 DEF CreateJournaled, Goto, stored, bounds
  <2>6. /\ call'[c].at = "save" /\ call'[c].copy = call[c].copy
        /\ \A d \in Callers : d # c => call'[d] = call[d]
    BY <2>5 DEF TypeOK
  <2>7. journal'.pod = call[c].copy.pod /\ journal'.state = "provider_created"
    BY <2>5
  <2>8. control = "serving"
    BY <1>9 DEF CreateJournaled, At
  <2>9. \A d \in Callers : call'[d].op = "create" => d = c
    BY <2>2, <2>6
  <2>10. record'.state = "none" /\ control' = "serving" /\ pods' = pods
    BY <2>1, <2>5, <2>8
  <2>. QED
    BY <2>3, <2>4, <2>6, <2>7, <2>9, <2>10 DEF JournalInv
<1>10. ASSUME NEW c \in Callers, CreateCompleted(c)
      PROVE  JournalInv'
  BY <1>10 DEF CreateCompleted, At, Return, stored, bounds, TypeOK, CallInv,
  Acting, PlanInv, PlanMakesOneWorkspace, Creating, JournalInv
<1>11. ASSUME NEW c \in Callers, StartPod(c)
      PROVE  JournalInv'
  BY <1>11 DEF StartPod, At, Put, Startable, Unused, Goto, Fails, Fault,
  SecretAfterFailedStart, stored, bounds, TypeOK, JournalInv
<1>12. ASSUME NEW c \in Callers, StopPod(c)
      PROVE  JournalInv'
  BY <1>12 DEF StopPod, At, Put, Known, Halted, Stopped, Goto, Fails, Fault,
  stored, bounds, TypeOK, JournalInv
<1>13. ASSUME NEW c \in Callers, DeletePod(c)
      PROVE  JournalInv'
  BY <1>13 DEF DeletePod, At, Put, Known, Goto, FailedDelete, Fails, Fault,
  stored, bounds, TypeOK, JournalInv
<1>14. ASSUME NEW c \in Callers, DeleteJournaled(c)
      PROVE  JournalInv'
  <2>1. /\ \A d \in Callers \ {c} : call'[d] = call[d]
        /\ call'[c].op = "delete"
    BY <1>14 DEF DeleteJournaled, At, Goto, TypeOK
  <2>2. UNCHANGED <<journal, record, pods, control>>
    BY <1>14 DEF DeleteJournaled
  <2>. QED
    BY <2>1, <2>2 DEF JournalInv
<1>15. ASSUME NEW c \in Callers, DeleteCompleted(c)
      PROVE  JournalInv'
  BY <1>15 DEF DeleteCompleted, At, Return, stored, bounds, TypeOK,
  JournalInv
<1>16. ASSUME NEW c \in Callers, StatusObserved(c)
      PROVE  JournalInv'
  BY <1>16 DEF StatusObserved, At, Observed, Goto, Return, stored, bounds,
  TypeOK, JournalInv
<1>17. ASSUME ReaperLists
      PROVE  JournalInv'
  BY <1>17 DEF ReaperLists, Reapable, Begin, stored, bounds, TypeOK,
  JournalInv
<1>18. ASSUME ReaperRefused
      PROVE  JournalInv'
  BY <1>18 DEF ReaperRefused, At, Return, stored, bounds, TypeOK, JournalInv
<1>19. ASSUME Stop(Reaper)
      PROVE  JournalInv'
  BY <1>19 DEF Stop, At, Claim, Begin, stored, bounds, TypeOK, JournalInv
<1>20. ASSUME LeaseExpires
      PROVE  JournalInv'
  BY <1>20 DEF LeaseExpires, stored, bounds, TypeOK, JournalInv
<1>21. ASSUME Crash
      PROVE  JournalInv'
  BY <1>21 DEF Crash, stored, bounds, TypeOK, JournalInv
<1>22. ASSUME StartupCreate
      PROVE  JournalInv'
  BY <1>22 DEF StartupCreate, Orphan, Known, Put, Halted, startupFrame,
  stored, bounds, TypeOK, CallInv, Acting, PlanInv, PlanMakesOneWorkspace,
  Creating, JournalInv
<1>23. ASSUME StartupCompensated
      PROVE  JournalInv'
  BY <1>23 DEF StartupCompensated, startupFrame, stored, bounds, TypeOK,
  CallInv, Acting, PlanInv, PlanMakesOneWorkspace, Creating, JournalInv
<1>24. ASSUME StartupDeletes
      PROVE  JournalInv'
  BY <1>24 DEF StartupDeletes, Deleted, startupFrame, stored, bounds, TypeOK,
  CallInv, Acting, PlanInv, PlanMakesOneWorkspace, Creating, JournalInv
<1>25. ASSUME StartupRefresh
      PROVE  JournalInv'
  <2>1. record'.state # "none" <=> record.state # "none"
    <3>1. CASE record.state \notin {"none", "deleted"} /\ record.pod # None
      <4>1. PICK seen \in Observed(record) \cup {[record EXCEPT !.state = "error"]} :
               record' = IF seen.state = "deleted" THEN Deleted(seen) ELSE seen
        BY <1>25, <3>1 DEF StartupRefresh, TypeOK
      <4>2. seen \in Records /\ seen.state # "none"
        BY <3>1, ObservedTypes DEF TypeOK
      <4>. QED
        BY <3>1, <4>1, <4>2 DEF Deleted
    <3>. QED
      BY <1>25, <3>1 DEF StartupRefresh
  <2>. QED
    BY <1>25, <2>1 DEF StartupRefresh, startupFrame, bounds, CallInv, Acting, JournalInv
<1>26. ASSUME NEW p \in Pods, PodGoes(p)
      PROVE  JournalInv'
  BY <1>26 DEF PodGoes, Fault, Put, stored, bounds, TypeOK, JournalInv
<1>27. CASE UNCHANGED vars
  BY <1>27 DEF vars, stored, bounds, JournalInv
<1>. QED
  BY <1>1, <1>2, <1>3, <1>4, <1>5, <1>6, <1>7, <1>8, <1>9, <1>10, <1>11,
  <1>12, <1>13, <1>14, <1>15, <1>16, <1>17, <1>18, <1>19, <1>20, <1>21,
  <1>22, <1>23, <1>24, <1>25, <1>26, <1>27, <1>28 DEF Next, CallStep, ReaperStep,
  StartupStep

(* A journaled pod without a workspace stays to be stopped.                *)
LEMMA JournaledStep ==
  ASSUME TypeOK, TypeOK', CallInv, PlanMakesOneWorkspace, JournalInv, JournalInv', JournaledPodIsStopped, [Next]_vars
  PROVE  JournaledPodIsStopped'
<1> USE NamesAssumption, BoundsAssumption DEF Callers, Records, States,
Leases, OpenStates, NoRecord, Idle
<1>28. ASSUME NEW c \in Calls, PlanRead(c)
      PROVE  JournaledPodIsStopped'
  BY <1>28 DEF PlanRead, RowFree, Begin, stored, bounds, TypeOK,
  JournaledPodIsStopped
<1>1. ASSUME NEW c \in Callers, Create(c)
      PROVE  JournaledPodIsStopped'
  BY <1>1 DEF Create, Consumed, At, Goto, stored, bounds, TypeOK,
  JournaledPodIsStopped
<1>2. ASSUME NEW c \in Calls, Start(c)
      PROVE  JournaledPodIsStopped'
  BY <1>2 DEF Start, Claim, Begin, stored, bounds, TypeOK,
  JournaledPodIsStopped
<1>3. ASSUME NEW c \in Calls, Stop(c)
      PROVE  JournaledPodIsStopped'
  BY <1>3 DEF Stop, Claim, Begin, stored, bounds, TypeOK,
  JournaledPodIsStopped
<1>4. ASSUME NEW c \in Calls, Terminate(c)
      PROVE  JournaledPodIsStopped'
  BY <1>4 DEF Terminate, Claim, Begin, stored, bounds, TypeOK,
  JournaledPodIsStopped
<1>5. ASSUME NEW c \in Calls, Status(c)
      PROVE  JournaledPodIsStopped'
  BY <1>5 DEF Status, Begin, stored, bounds, TypeOK, JournaledPodIsStopped
<1>6. ASSUME NEW c \in Calls, Extend(c)
      PROVE  JournaledPodIsStopped'
  BY <1>6 DEF Extend, Begin, stored, bounds, TypeOK, JournaledPodIsStopped
<1>7. ASSUME NEW c \in Callers, Save(c)
      PROVE  JournaledPodIsStopped'
  BY <1>7 DEF Save, Goto, Return, stored, bounds, TypeOK, CallInv, Acting,
  PlanInv, PlanMakesOneWorkspace, Creating, JournalInv, JournaledPodIsStopped
<1>8. ASSUME NEW c \in Callers, CreatePod(c)
      PROVE  JournaledPodIsStopped'
  BY <1>8 DEF CreatePod, At, Put, Unused, Goto, Return, Fault, stored,
  bounds, TypeOK, CallInv, Acting, PlanInv, PlanMakesOneWorkspace, Creating,
  JournalInv, JournaledPodIsStopped
<1>9. ASSUME NEW c \in Callers, CreateJournaled(c)
      PROVE  JournaledPodIsStopped'
  BY <1>9 DEF CreateJournaled, At, Goto, stored, bounds, TypeOK,
  JournaledPodIsStopped
<1>10. ASSUME NEW c \in Callers, CreateCompleted(c)
      PROVE  JournaledPodIsStopped'
  BY <1>10 DEF CreateCompleted, At, Return, stored, bounds, TypeOK, CallInv,
  Acting, PlanInv, PlanMakesOneWorkspace, Creating, JournalInv,
  JournaledPodIsStopped
<1>11. ASSUME NEW c \in Callers, StartPod(c)
      PROVE  JournaledPodIsStopped'
  BY <1>11 DEF StartPod, At, Put, Startable, Unused, Goto, Fails, Fault,
  SecretAfterFailedStart, stored, bounds, TypeOK, CallInv, Acting, PlanInv,
  PlanMakesOneWorkspace, Creating, JournalInv, JournaledPodIsStopped
<1>12. ASSUME NEW c \in Callers, StopPod(c)
      PROVE  JournaledPodIsStopped'
  BY <1>12 DEF StopPod, At, Put, Known, Halted, Stopped, Goto, Fails, Fault,
  stored, bounds, TypeOK, JournaledPodIsStopped
<1>13. ASSUME NEW c \in Callers, DeletePod(c)
      PROVE  JournaledPodIsStopped'
  BY <1>13 DEF DeletePod, At, Put, Known, Goto, FailedDelete, Fails, Fault,
  stored, bounds, TypeOK, JournaledPodIsStopped
<1>14. ASSUME NEW c \in Callers, DeleteJournaled(c)
      PROVE  JournaledPodIsStopped'
  BY <1>14 DEF DeleteJournaled, At, Deleted, Goto, stored, bounds, TypeOK,
  JournaledPodIsStopped
<1>15. ASSUME NEW c \in Callers, DeleteCompleted(c)
      PROVE  JournaledPodIsStopped'
  BY <1>15 DEF DeleteCompleted, At, Return, stored, bounds, TypeOK,
  JournaledPodIsStopped
<1>16. ASSUME NEW c \in Callers, StatusObserved(c)
      PROVE  JournaledPodIsStopped'
  BY <1>16 DEF StatusObserved, At, Observed, Goto, Return, stored, bounds,
  TypeOK, JournaledPodIsStopped
<1>17. ASSUME ReaperLists
      PROVE  JournaledPodIsStopped'
  BY <1>17 DEF ReaperLists, Reapable, Begin, stored, bounds, TypeOK,
  JournaledPodIsStopped
<1>18. ASSUME ReaperRefused
      PROVE  JournaledPodIsStopped'
  BY <1>18 DEF ReaperRefused, At, Return, stored, bounds, TypeOK,
  JournaledPodIsStopped
<1>19. ASSUME Stop(Reaper)
      PROVE  JournaledPodIsStopped'
  BY <1>19 DEF Stop, At, Claim, Begin, stored, bounds, TypeOK,
  JournaledPodIsStopped
<1>20. ASSUME LeaseExpires
      PROVE  JournaledPodIsStopped'
  BY <1>20 DEF LeaseExpires, stored, bounds, TypeOK, JournaledPodIsStopped
<1>21. ASSUME Crash
      PROVE  JournaledPodIsStopped'
  BY <1>21 DEF Crash, stored, bounds, TypeOK, JournaledPodIsStopped
<1>22. ASSUME StartupCreate
      PROVE  JournaledPodIsStopped'
  BY <1>22 DEF StartupCreate, Orphan, Known, Put, Halted, startupFrame,
  stored, bounds, TypeOK, JournaledPodIsStopped
<1>23. ASSUME StartupCompensated
      PROVE  JournaledPodIsStopped'
  BY <1>23 DEF StartupCompensated, startupFrame, stored, bounds, TypeOK,
  CallInv, Acting, PlanInv, PlanMakesOneWorkspace, Creating, JournalInv,
  JournaledPodIsStopped
<1>24. ASSUME StartupDeletes
      PROVE  JournaledPodIsStopped'
  <2>1. CASE deletes = {}
    BY <1>24, <2>1 DEF StartupDeletes, startupFrame, bounds, CallInv, Acting, JournaledPodIsStopped
  <2>2. CASE deletes # {}
    <3>1. record' = [record EXCEPT !.state = "deleted", !.pod = None]
      BY <1>24, <2>2 DEF StartupDeletes, Deleted
    <3>2. record'.state = "deleted" /\ record'.pod = None
      BY <3>1 DEF TypeOK
    <3>. QED
      BY <1>24, <2>2, <3>2 DEF StartupDeletes, startupFrame, bounds, CallInv, Acting, JournaledPodIsStopped
  <2>. QED
    BY <2>1, <2>2
<1>25. ASSUME StartupRefresh
      PROVE  JournaledPodIsStopped'
  <2>1. record'.state # "none" <=> record.state # "none"
    <3>1. CASE record.state \notin {"none", "deleted"} /\ record.pod # None
      <4>1. PICK seen \in Observed(record) \cup {[record EXCEPT !.state = "error"]} :
               record' = IF seen.state = "deleted" THEN Deleted(seen) ELSE seen
        BY <1>25, <3>1 DEF StartupRefresh, TypeOK
      <4>2. seen \in Records /\ seen.state # "none"
        BY <3>1, ObservedTypes DEF TypeOK
      <4>. QED
        BY <3>1, <4>1, <4>2 DEF Deleted
    <3>. QED
      BY <1>25, <3>1 DEF StartupRefresh
  <2>. QED
    BY <1>25, <2>1 DEF StartupRefresh, startupFrame, bounds, CallInv, Acting, JournalInv, JournaledPodIsStopped
<1>26. ASSUME NEW p \in Pods, PodGoes(p)
      PROVE  JournaledPodIsStopped'
  BY <1>26 DEF PodGoes, Fault, Put, stored, bounds, TypeOK,
  JournaledPodIsStopped
<1>27. CASE UNCHANGED vars
  BY <1>27 DEF vars, stored, bounds, JournaledPodIsStopped
<1>. QED
  BY <1>1, <1>2, <1>3, <1>4, <1>5, <1>6, <1>7, <1>8, <1>9, <1>10, <1>11,
  <1>12, <1>13, <1>14, <1>15, <1>16, <1>17, <1>18, <1>19, <1>20, <1>21,
  <1>22, <1>23, <1>24, <1>25, <1>26, <1>27, <1>28 DEF Next, CallStep, ReaperStep,
  StartupStep

(* A persistent workspace keeps its pod in every copy.                     *)
LEMMA OnePodStep ==
  ASSUME TypeOK, TypeOK', CallInv, PlanInv, PlanMakesOneWorkspace, JournalInv, OnePodInv, [Next]_vars
  PROVE  OnePodInv'
<1> USE NamesAssumption, BoundsAssumption DEF Callers, Records, States,
Leases, OpenStates, NoRecord, Idle
<1>28. ASSUME NEW c \in Calls, PlanRead(c)
      PROVE  OnePodInv'
  BY <1>28 DEF PlanRead, RowFree, Begin, stored, bounds, TypeOK, CallInv,
  Acting, PlanInv, PlanMakesOneWorkspace, Creating, JournalInv, OnePodInv
<1>1. ASSUME NEW c \in Callers, Create(c)
      PROVE  OnePodInv'
  BY <1>1 DEF Create, Consumed, At, Goto, stored, bounds, TypeOK, CallInv,
  Acting, PlanInv, PlanMakesOneWorkspace, Creating, JournalInv, OnePodInv
<1>2. ASSUME NEW c \in Calls, Start(c)
      PROVE  OnePodInv'
  BY <1>2 DEF Start, Claim, Begin, stored, bounds, TypeOK, OnePodInv, Acting
<1>3. ASSUME NEW c \in Calls, Stop(c)
      PROVE  OnePodInv'
  BY <1>3 DEF Stop, Claim, Begin, stored, bounds, TypeOK, OnePodInv, Acting
<1>4. ASSUME NEW c \in Calls, Terminate(c)
      PROVE  OnePodInv'
  BY <1>4 DEF Terminate, Claim, Begin, stored, bounds, TypeOK, OnePodInv,
  Acting
<1>5. ASSUME NEW c \in Calls, Status(c)
      PROVE  OnePodInv'
  BY <1>5 DEF Status, Begin, stored, bounds, TypeOK, OnePodInv, Acting
<1>6. ASSUME NEW c \in Calls, Extend(c)
      PROVE  OnePodInv'
  BY <1>6 DEF Extend, Begin, stored, bounds, TypeOK, OnePodInv, Acting
<1>7. ASSUME NEW c \in Callers, Save(c)
      PROVE  OnePodInv'
  BY <1>7 DEF Save, Goto, Return, stored, bounds, TypeOK, CallInv, Acting,
  PlanInv, PlanMakesOneWorkspace, Creating, JournalInv, OnePodInv
<1>8. ASSUME NEW c \in Callers, CreatePod(c)
      PROVE  OnePodInv'
  BY <1>8 DEF CreatePod, At, Put, Unused, Goto, Return, Fault, stored,
  bounds, TypeOK, OnePodInv, Acting
<1>9. ASSUME NEW c \in Callers, CreateJournaled(c)
      PROVE  OnePodInv'
  <2>1. c \in Creating /\ record.state = "none" /\ Acting = {}
    BY <1>9 DEF CreateJournaled, At, CallInv, PlanMakesOneWorkspace, Creating, Acting
  <2>2. Acting' = {} /\ record' = record
    BY <1>9, <2>1 DEF CreateJournaled, At, Goto, TypeOK, Acting
  <2>. QED
    BY <2>1, <2>2 DEF OnePodInv
<1>10. ASSUME NEW c \in Callers, CreateCompleted(c)
      PROVE  OnePodInv'
  BY <1>10 DEF CreateCompleted, At, Return, stored, bounds, TypeOK,
  OnePodInv, Acting
<1>11. ASSUME NEW c \in Callers, StartPod(c)
      PROVE  OnePodInv'
  BY <1>11 DEF StartPod, At, Put, Startable, Unused, Goto, Fails, Fault,
  SecretAfterFailedStart, stored, bounds, TypeOK, OnePodInv, Acting
<1>12. ASSUME NEW c \in Callers, StopPod(c)
      PROVE  OnePodInv'
  BY <1>12 DEF StopPod, At, Put, Known, Halted, Stopped, Goto, Fails, Fault,
  stored, bounds, TypeOK, OnePodInv, Acting
<1>13. ASSUME NEW c \in Callers, DeletePod(c)
      PROVE  OnePodInv'
  BY <1>13 DEF DeletePod, At, Put, Known, Goto, FailedDelete, Fails, Fault,
  stored, bounds, TypeOK, OnePodInv, Acting
<1>14. ASSUME NEW c \in Callers, DeleteJournaled(c)
      PROVE  OnePodInv'
  BY <1>14 DEF DeleteJournaled, At, Deleted, Goto, stored, bounds, TypeOK,
  OnePodInv, Acting
<1>15. ASSUME NEW c \in Callers, DeleteCompleted(c)
      PROVE  OnePodInv'
  BY <1>15 DEF DeleteCompleted, At, Return, stored, bounds, TypeOK,
  OnePodInv, Acting
<1>16. ASSUME NEW c \in Callers, StatusObserved(c)
      PROVE  OnePodInv'
  BY <1>16 DEF StatusObserved, At, Observed, Goto, Return, stored, bounds,
  TypeOK, OnePodInv, Acting
<1>17. ASSUME ReaperLists
      PROVE  OnePodInv'
  BY <1>17 DEF ReaperLists, Reapable, Begin, stored, bounds, TypeOK,
  OnePodInv, Acting
<1>18. ASSUME ReaperRefused
      PROVE  OnePodInv'
  BY <1>18 DEF ReaperRefused, At, Return, stored, bounds, TypeOK, OnePodInv,
  Acting
<1>19. ASSUME Stop(Reaper)
      PROVE  OnePodInv'
  BY <1>19 DEF Stop, At, Claim, Begin, stored, bounds, TypeOK, OnePodInv,
  Acting
<1>20. ASSUME LeaseExpires
      PROVE  OnePodInv'
  BY <1>20 DEF LeaseExpires, stored, bounds, TypeOK, OnePodInv, Acting
<1>21. ASSUME Crash
      PROVE  OnePodInv'
  BY <1>21 DEF Crash, stored, bounds, TypeOK, OnePodInv, Acting
<1>22. ASSUME StartupCreate
      PROVE  OnePodInv'
  BY <1>22 DEF StartupCreate, Orphan, Known, Put, Halted, startupFrame,
  stored, bounds, TypeOK, OnePodInv, Acting
<1>23. ASSUME StartupCompensated
      PROVE  OnePodInv'
  BY <1>23 DEF StartupCompensated, startupFrame, stored, bounds, TypeOK,
  OnePodInv, Acting
<1>24. ASSUME StartupDeletes
      PROVE  OnePodInv'
  <2>1. CASE deletes = {}
    BY <1>24, <2>1 DEF StartupDeletes, startupFrame, bounds, CallInv, Acting, OnePodInv
  <2>2. CASE deletes # {}
    <3>1. record' = [record EXCEPT !.state = "deleted", !.pod = None]
      BY <1>24, <2>2 DEF StartupDeletes, Deleted
    <3>2. record'.state = "deleted" /\ record'.pod = None
      BY <3>1 DEF TypeOK
    <3>. QED
      BY <1>24, <2>2, <3>2 DEF StartupDeletes, startupFrame, bounds, CallInv, Acting, OnePodInv
  <2>. QED
    BY <2>1, <2>2
<1>25. ASSUME StartupRefresh
      PROVE  OnePodInv'
  <2>1. CASE record.state \notin {"none", "deleted"} /\ record.pod # None
    <3>1. PICK seen \in Observed(record) \cup {[record EXCEPT !.state = "error"]} :
             record' = IF seen.state = "deleted" THEN Deleted(seen) ELSE seen
      BY <1>25, <2>1 DEF StartupRefresh, TypeOK
    <3>2. /\ seen \in Records /\ seen.state # "none" /\ seen.pod \in {record.pod, None}
          /\ SaysGone(seen) /\ mode = "persistent" => pods[record.pod] \in {"unused", "terminated"}
      BY <2>1, <3>1, ObservedTypes DEF TypeOK, SaysGone
    <3>3. /\ record'.state # "none" /\ record'.pod \in {record.pod, None}
          /\ SaysGone(record') => SaysGone(seen)
      BY <3>1, <3>2 DEF Deleted, SaysGone
    <3>. QED
      BY <1>25, <2>1, <3>2, <3>3 DEF StartupRefresh, startupFrame, bounds, TypeOK, CallInv, Acting, OnePodInv
  <2>2. CASE ~(record.state \notin {"none", "deleted"} /\ record.pod # None)
    BY <1>25, <2>2 DEF StartupRefresh, startupFrame, bounds, CallInv, Acting, OnePodInv
  <2>. QED
    BY <2>1, <2>2
<1>26. ASSUME NEW p \in Pods, PodGoes(p)
      PROVE  OnePodInv'
  BY <1>26 DEF PodGoes, Fault, Put, stored, bounds, TypeOK, OnePodInv, Acting
<1>27. CASE UNCHANGED vars
  BY <1>27 DEF vars, stored, bounds, OnePodInv, Acting
<1>. QED
  BY <1>1, <1>2, <1>3, <1>4, <1>5, <1>6, <1>7, <1>8, <1>9, <1>10, <1>11,
  <1>12, <1>13, <1>14, <1>15, <1>16, <1>17, <1>18, <1>19, <1>20, <1>21,
  <1>22, <1>23, <1>24, <1>25, <1>26, <1>27, <1>28 DEF Next, CallStep, ReaperStep,
  StartupStep

(* What says it is deleted stays gone.                                     *)
LEMMA GoneStep ==
  ASSUME TypeOK, TypeOK', CallInv, PlanInv, PlanMakesOneWorkspace, JournalInv, OnePodInv, GoneInv, [Next]_vars
  PROVE  GoneInv'
<1> USE NamesAssumption, BoundsAssumption DEF Callers, Records, States,
Leases, OpenStates, NoRecord, Idle
<1>28. ASSUME NEW c \in Calls, PlanRead(c)
      PROVE  GoneInv'
  BY <1>28 DEF PlanRead, RowFree, Begin, stored, bounds, TypeOK, CallInv,
  Acting, PlanInv, PlanMakesOneWorkspace, Creating, JournalInv, OnePodInv,
  GoneInv, SaysGone
<1>1. ASSUME NEW c \in Callers, Create(c)
      PROVE  GoneInv'
  BY <1>1 DEF Create, Consumed, At, Goto, stored, bounds, TypeOK, CallInv,
  Acting, PlanInv, PlanMakesOneWorkspace, Creating, JournalInv, OnePodInv,
  GoneInv, SaysGone
<1>2. ASSUME NEW c \in Calls, Start(c)
      PROVE  GoneInv'
  BY <1>2 DEF Start, Claim, Begin, stored, bounds, TypeOK, GoneInv, SaysGone,
  Acting
<1>3. ASSUME NEW c \in Calls, Stop(c)
      PROVE  GoneInv'
  BY <1>3 DEF Stop, Claim, Begin, stored, bounds, TypeOK, GoneInv, SaysGone,
  Acting
<1>4. ASSUME NEW c \in Calls, Terminate(c)
      PROVE  GoneInv'
  BY <1>4 DEF Terminate, Claim, Begin, stored, bounds, TypeOK, GoneInv,
  SaysGone, Acting
<1>5. ASSUME NEW c \in Calls, Status(c)
      PROVE  GoneInv'
  BY <1>5 DEF Status, Begin, stored, bounds, TypeOK, GoneInv, SaysGone,
  Acting
<1>6. ASSUME NEW c \in Calls, Extend(c)
      PROVE  GoneInv'
  BY <1>6 DEF Extend, Begin, stored, bounds, TypeOK, GoneInv, SaysGone,
  Acting
<1>7. ASSUME NEW c \in Callers, Save(c)
      PROVE  GoneInv'
  BY <1>7 DEF Save, Goto, Return, stored, bounds, TypeOK, CallInv, Acting,
  PlanInv, PlanMakesOneWorkspace, Creating, JournalInv, OnePodInv, GoneInv,
  SaysGone
<1>8. ASSUME NEW c \in Callers, CreatePod(c)
      PROVE  GoneInv'
  BY <1>8 DEF CreatePod, At, Put, Unused, Goto, Return, Fault, stored,
  bounds, TypeOK, CallInv, Acting, PlanInv, PlanMakesOneWorkspace, Creating,
  JournalInv, OnePodInv, GoneInv, SaysGone
<1>9. ASSUME NEW c \in Callers, CreateJournaled(c)
      PROVE  GoneInv'
  <2>1. c \in Creating /\ record.state = "none" /\ Acting = {} /\ deletes = {}
    BY <1>9 DEF CreateJournaled, At, CallInv, PlanMakesOneWorkspace, Creating, Acting
  <2>2. call[c].copy.state = "starting" /\ call[c].copy.pod \in Pods
    BY <1>9 DEF CreateJournaled, At, JournalInv
  <2>3. /\ call' = [call EXCEPT ![c].at = "save", ![c].copy = call[c].copy]
        /\ UNCHANGED <<record, deletes, mode>>
    BY <1>9 DEF CreateJournaled, Goto
  <2>4. \A d \in Callers : call'[d].op = call[d].op
    BY <2>3 DEF TypeOK
  <2>5. Acting' = {}
    BY <2>1, <2>4 DEF Acting
  <2>. QED
    BY <2>1, <2>3, <2>5 DEF GoneInv
<1>10. ASSUME NEW c \in Callers, CreateCompleted(c)
      PROVE  GoneInv'
  BY <1>10 DEF CreateCompleted, At, Return, stored, bounds, TypeOK, GoneInv,
  SaysGone, Acting
<1>11. ASSUME NEW c \in Callers, StartPod(c)
      PROVE  GoneInv'
  BY <1>11 DEF StartPod, At, Put, Startable, Unused, Goto, Fails, Fault,
  SecretAfterFailedStart, stored, bounds, TypeOK, CallInv, Acting, PlanInv,
  PlanMakesOneWorkspace, Creating, JournalInv, OnePodInv, GoneInv, SaysGone
<1>12. ASSUME NEW c \in Callers, StopPod(c)
      PROVE  GoneInv'
  BY <1>12 DEF StopPod, At, Put, Known, Halted, Stopped, Goto, Fails, Fault,
  stored, bounds, TypeOK, CallInv, Acting, JournalInv, OnePodInv, GoneInv, SaysGone
<1>13. ASSUME NEW c \in Callers, DeletePod(c)
      PROVE  GoneInv'
  BY <1>13, SMTT(20) DEF DeletePod, At, Put, Known, Goto, FailedDelete, Fails, Fault,
  stored, bounds, TypeOK, CallInv, Acting, JournalInv, OnePodInv, GoneInv, SaysGone
<1>14. ASSUME NEW c \in Callers, DeleteJournaled(c)
      PROVE  GoneInv'
  BY <1>14 DEF DeleteJournaled, At, Deleted, Goto, stored, bounds, TypeOK,
  GoneInv, SaysGone, Acting
<1>15. ASSUME NEW c \in Callers, DeleteCompleted(c)
      PROVE  GoneInv'
  BY <1>15 DEF DeleteCompleted, At, Return, stored, bounds, TypeOK, GoneInv,
  SaysGone, Acting
<1>16. ASSUME NEW c \in Callers, StatusObserved(c)
      PROVE  GoneInv'
  BY <1>16 DEF StatusObserved, At, Observed, Goto, Return, stored, bounds,
  TypeOK, GoneInv, SaysGone, Acting
<1>17. ASSUME ReaperLists
      PROVE  GoneInv'
  BY <1>17 DEF ReaperLists, Reapable, Begin, stored, bounds, TypeOK, GoneInv,
  SaysGone, Acting
<1>18. ASSUME ReaperRefused
      PROVE  GoneInv'
  BY <1>18 DEF ReaperRefused, At, Return, stored, bounds, TypeOK, GoneInv,
  SaysGone, Acting
<1>19. ASSUME Stop(Reaper)
      PROVE  GoneInv'
  BY <1>19 DEF Stop, At, Claim, Begin, stored, bounds, TypeOK, GoneInv,
  SaysGone, Acting
<1>20. ASSUME LeaseExpires
      PROVE  GoneInv'
  BY <1>20 DEF LeaseExpires, stored, bounds, TypeOK, GoneInv, SaysGone,
  Acting
<1>21. ASSUME Crash
      PROVE  GoneInv'
  BY <1>21 DEF Crash, stored, bounds, TypeOK, GoneInv, SaysGone, Acting
<1>22. ASSUME StartupCreate
      PROVE  GoneInv'
  BY <1>22 DEF StartupCreate, Orphan, Known, Put, Halted, startupFrame,
  stored, bounds, TypeOK, GoneInv, SaysGone, Acting
<1>23. ASSUME StartupCompensated
      PROVE  GoneInv'
  BY <1>23 DEF StartupCompensated, startupFrame, stored, bounds, TypeOK,
  GoneInv, SaysGone, Acting
<1>24. ASSUME StartupDeletes
      PROVE  GoneInv'
  BY <1>24 DEF StartupDeletes, Deleted, startupFrame, stored, bounds, TypeOK,
  GoneInv, SaysGone, Acting
<1>25. ASSUME StartupRefresh
      PROVE  GoneInv'
  <2>1. CASE record.state \notin {"none", "deleted"} /\ record.pod # None
    <3>1. PICK seen \in Observed(record) \cup {[record EXCEPT !.state = "error"]} :
             record' = IF seen.state = "deleted" THEN Deleted(seen) ELSE seen
      BY <1>25, <2>1 DEF StartupRefresh, TypeOK
    <3>2. /\ seen \in Records /\ seen.state # "none" /\ seen.pod \in {record.pod, None}
          /\ SaysGone(seen) /\ mode = "persistent" => pods[record.pod] \in {"unused", "terminated"}
      BY <2>1, <3>1, ObservedTypes DEF TypeOK, SaysGone
    <3>3. /\ record'.state # "none" /\ record'.pod \in {record.pod, None}
          /\ SaysGone(record') => SaysGone(seen)
      BY <3>1, <3>2 DEF Deleted, SaysGone
    <3>. QED
      BY <1>25, <2>1, <3>2, <3>3 DEF StartupRefresh, startupFrame, bounds, TypeOK, CallInv, Acting, JournalInv, OnePodInv, GoneInv
  <2>2. CASE ~(record.state \notin {"none", "deleted"} /\ record.pod # None)
    BY <1>25, <2>2 DEF StartupRefresh, startupFrame, bounds, CallInv, Acting, JournalInv, OnePodInv, GoneInv
  <2>. QED
    BY <2>1, <2>2
<1>26. ASSUME NEW p \in Pods, PodGoes(p)
      PROVE  GoneInv'
  BY <1>26 DEF PodGoes, Fault, Put, stored, bounds, TypeOK, CallInv, Acting,
  PlanInv, PlanMakesOneWorkspace, Creating, JournalInv, OnePodInv, GoneInv,
  SaysGone
<1>27. CASE UNCHANGED vars
  BY <1>27 DEF vars, stored, bounds, GoneInv, SaysGone, Acting
<1>. QED
  BY <1>1, <1>2, <1>3, <1>4, <1>5, <1>6, <1>7, <1>8, <1>9, <1>10, <1>11,
  <1>12, <1>13, <1>14, <1>15, <1>16, <1>17, <1>18, <1>19, <1>20, <1>21,
  <1>22, <1>23, <1>24, <1>25, <1>26, <1>27, <1>28 DEF Next, CallStep, ReaperStep,
  StartupStep

(* A creation in progress has its credential.                              *)
LEMMA SecretStep ==
  ASSUME TypeOK, TypeOK', CallInv, PlanMakesOneWorkspace, SecretInv, [Next]_vars
  PROVE  SecretInv'
<1> USE NamesAssumption, BoundsAssumption DEF Callers, Records, States,
Leases, OpenStates, NoRecord, Idle
<1>28. ASSUME NEW c \in Calls, PlanRead(c)
      PROVE  SecretInv'
  BY <1>28 DEF PlanRead, RowFree, Begin, stored, bounds, SecretInv
<1>1. ASSUME NEW c \in Callers, Create(c)
      PROVE  SecretInv'
  BY <1>1 DEF Create, Consumed, At, Goto, stored, bounds, SecretInv
<1>2. ASSUME NEW c \in Calls, Start(c)
      PROVE  SecretInv'
  BY <1>2 DEF Start, Claim, Begin, stored, bounds, SecretInv
<1>3. ASSUME NEW c \in Calls, Stop(c)
      PROVE  SecretInv'
  BY <1>3 DEF Stop, Claim, Begin, stored, bounds, SecretInv
<1>4. ASSUME NEW c \in Calls, Terminate(c)
      PROVE  SecretInv'
  BY <1>4 DEF Terminate, Claim, Begin, stored, bounds, SecretInv
<1>5. ASSUME NEW c \in Calls, Status(c)
      PROVE  SecretInv'
  BY <1>5 DEF Status, Begin, stored, bounds, SecretInv
<1>6. ASSUME NEW c \in Calls, Extend(c)
      PROVE  SecretInv'
  BY <1>6 DEF Extend, Begin, stored, bounds, SecretInv
<1>7. ASSUME NEW c \in Callers, Save(c)
      PROVE  SecretInv'
  BY <1>7 DEF Save, Goto, Return, stored, bounds, TypeOK, CallInv, Acting,
  PlanInv, PlanMakesOneWorkspace, Creating, SecretInv
<1>8. ASSUME NEW c \in Callers, CreatePod(c)
      PROVE  SecretInv'
  BY <1>8 DEF CreatePod, At, Put, Unused, Goto, Return, Fault, stored,
  bounds, TypeOK, CallInv, Acting, PlanInv, PlanMakesOneWorkspace, Creating,
  SecretInv
<1>9. ASSUME NEW c \in Callers, CreateJournaled(c)
      PROVE  SecretInv'
  BY <1>9 DEF CreateJournaled, At, Goto, stored, bounds, SecretInv
<1>10. ASSUME NEW c \in Callers, CreateCompleted(c)
      PROVE  SecretInv'
  BY <1>10 DEF CreateCompleted, At, Return, stored, bounds, SecretInv
<1>11. ASSUME NEW c \in Callers, StartPod(c)
      PROVE  SecretInv'
  BY <1>11 DEF StartPod, At, Put, Startable, Unused, Goto, Fails, Fault,
  SecretAfterFailedStart, stored, bounds, TypeOK, CallInv, Acting, PlanInv,
  PlanMakesOneWorkspace, Creating, SecretInv
<1>12. ASSUME NEW c \in Callers, StopPod(c)
      PROVE  SecretInv'
  BY <1>12 DEF StopPod, At, Put, Known, Halted, Stopped, Goto, Fails, Fault,
  stored, bounds, TypeOK, CallInv, Acting, PlanInv, PlanMakesOneWorkspace,
  Creating, SecretInv
<1>13. ASSUME NEW c \in Callers, DeletePod(c)
      PROVE  SecretInv'
  BY <1>13 DEF DeletePod, At, Put, Known, Goto, FailedDelete, Fails, Fault,
  stored, bounds, TypeOK, CallInv, Acting, PlanInv, PlanMakesOneWorkspace,
  Creating, SecretInv
<1>14. ASSUME NEW c \in Callers, DeleteJournaled(c)
      PROVE  SecretInv'
  BY <1>14 DEF DeleteJournaled, At, Deleted, Goto, stored, bounds, TypeOK,
  CallInv, Acting, PlanInv, PlanMakesOneWorkspace, Creating, SecretInv
<1>15. ASSUME NEW c \in Callers, DeleteCompleted(c)
      PROVE  SecretInv'
  BY <1>15 DEF DeleteCompleted, At, Return, stored, bounds, SecretInv
<1>16. ASSUME NEW c \in Callers, StatusObserved(c)
      PROVE  SecretInv'
  BY <1>16 DEF StatusObserved, At, Observed, Goto, Return, stored, bounds,
  TypeOK, CallInv, Acting, PlanInv, PlanMakesOneWorkspace, Creating,
  SecretInv
<1>17. ASSUME ReaperLists
      PROVE  SecretInv'
  BY <1>17 DEF ReaperLists, Reapable, Begin, stored, bounds, SecretInv
<1>18. ASSUME ReaperRefused
      PROVE  SecretInv'
  BY <1>18 DEF ReaperRefused, At, Return, stored, bounds, SecretInv
<1>19. ASSUME Stop(Reaper)
      PROVE  SecretInv'
  BY <1>19 DEF Stop, At, Claim, Begin, stored, bounds, SecretInv
<1>20. ASSUME LeaseExpires
      PROVE  SecretInv'
  BY <1>20 DEF LeaseExpires, stored, bounds, SecretInv
<1>21. ASSUME Crash
      PROVE  SecretInv'
  BY <1>21 DEF Crash, stored, bounds, SecretInv
<1>22. ASSUME StartupCreate
      PROVE  SecretInv'
  BY <1>22 DEF StartupCreate, Orphan, Known, Put, Halted, startupFrame,
  stored, bounds, TypeOK, CallInv, Acting, PlanInv, PlanMakesOneWorkspace,
  Creating, SecretInv
<1>23. ASSUME StartupCompensated
      PROVE  SecretInv'
  BY <1>23 DEF StartupCompensated, startupFrame, stored, bounds, TypeOK,
  CallInv, Acting, PlanInv, PlanMakesOneWorkspace, Creating, SecretInv
<1>24. ASSUME StartupDeletes
      PROVE  SecretInv'
  BY <1>24 DEF StartupDeletes, Deleted, startupFrame, stored, bounds, TypeOK,
  CallInv, Acting, PlanInv, PlanMakesOneWorkspace, Creating, SecretInv
<1>25. ASSUME StartupRefresh
      PROVE  SecretInv'
  BY <1>25 DEF StartupRefresh, Observed, Deleted, startupFrame, stored,
  bounds, TypeOK, CallInv, Acting, PlanInv, PlanMakesOneWorkspace, Creating,
  SecretInv
<1>26. ASSUME NEW p \in Pods, PodGoes(p)
      PROVE  SecretInv'
  BY <1>26 DEF PodGoes, Fault, Put, stored, bounds, SecretInv
<1>27. CASE UNCHANGED vars
  BY <1>27 DEF vars, stored, bounds, SecretInv
<1>. QED
  BY <1>1, <1>2, <1>3, <1>4, <1>5, <1>6, <1>7, <1>8, <1>9, <1>10, <1>11,
  <1>12, <1>13, <1>14, <1>15, <1>16, <1>17, <1>18, <1>19, <1>20, <1>21,
  <1>22, <1>23, <1>24, <1>25, <1>26, <1>27, <1>28 DEF Next, CallStep, ReaperStep,
  StartupStep

(* The credential of a persistent workspace stays.                         *)
LEMMA CredentialStep ==
  ASSUME TypeOK, TypeOK', CallInv, PlanInv, PlanMakesOneWorkspace, JournalInv, OnePodInv, GoneInv, GoneInv', SecretInv, PodHasCredential, [Next]_vars
  PROVE  PodHasCredential'
<1> USE NamesAssumption, BoundsAssumption DEF Callers, Records, States,
Leases, OpenStates, NoRecord, Idle
<1>28. ASSUME NEW c \in Calls, PlanRead(c)
      PROVE  PodHasCredential'
  BY <1>28 DEF PlanRead, RowFree, Begin, stored, bounds, TypeOK,
  PodHasCredential
<1>1. ASSUME NEW c \in Callers, Create(c)
      PROVE  PodHasCredential'
  BY <1>1 DEF Create, Consumed, At, Goto, stored, bounds, TypeOK,
  PodHasCredential
<1>2. ASSUME NEW c \in Calls, Start(c)
      PROVE  PodHasCredential'
  BY <1>2 DEF Start, Claim, Begin, stored, bounds, TypeOK, PodHasCredential
<1>3. ASSUME NEW c \in Calls, Stop(c)
      PROVE  PodHasCredential'
  BY <1>3 DEF Stop, Claim, Begin, stored, bounds, TypeOK, PodHasCredential
<1>4. ASSUME NEW c \in Calls, Terminate(c)
      PROVE  PodHasCredential'
  BY <1>4 DEF Terminate, Claim, Begin, stored, bounds, TypeOK,
  PodHasCredential
<1>5. ASSUME NEW c \in Calls, Status(c)
      PROVE  PodHasCredential'
  BY <1>5 DEF Status, Begin, stored, bounds, TypeOK, PodHasCredential
<1>6. ASSUME NEW c \in Calls, Extend(c)
      PROVE  PodHasCredential'
  BY <1>6 DEF Extend, Begin, stored, bounds, TypeOK, PodHasCredential
<1>7. ASSUME NEW c \in Callers, Save(c)
      PROVE  PodHasCredential'
  BY <1>7 DEF Save, Goto, Return, stored, bounds, TypeOK, CallInv, Acting,
  PlanInv, PlanMakesOneWorkspace, Creating, JournalInv, OnePodInv, GoneInv,
  SaysGone, SecretInv, PodHasCredential
<1>8. ASSUME NEW c \in Callers, CreatePod(c)
      PROVE  PodHasCredential'
  BY <1>8 DEF CreatePod, At, Put, Unused, Goto, Return, Fault, stored,
  bounds, TypeOK, CallInv, Acting, PlanInv, PlanMakesOneWorkspace, Creating,
  JournalInv, OnePodInv, GoneInv, SaysGone, SecretInv, PodHasCredential
<1>9. ASSUME NEW c \in Callers, CreateJournaled(c)
      PROVE  PodHasCredential'
  BY <1>9 DEF CreateJournaled, At, Goto, stored, bounds, TypeOK, CallInv,
  Acting, PlanInv, PlanMakesOneWorkspace, Creating, JournalInv, OnePodInv,
  GoneInv, SaysGone, SecretInv, PodHasCredential
<1>10. ASSUME NEW c \in Callers, CreateCompleted(c)
      PROVE  PodHasCredential'
  BY <1>10 DEF CreateCompleted, At, Return, stored, bounds, TypeOK,
  PodHasCredential
<1>11. ASSUME NEW c \in Callers, StartPod(c)
      PROVE  PodHasCredential'
  BY <1>11 DEF StartPod, At, Put, Startable, Unused, Goto, Fails, Fault,
  SecretAfterFailedStart, stored, bounds, TypeOK, CallInv, Acting, PlanInv,
  PlanMakesOneWorkspace, Creating, JournalInv, OnePodInv, GoneInv, SaysGone,
  SecretInv, PodHasCredential
<1>12. ASSUME NEW c \in Callers, StopPod(c)
      PROVE  PodHasCredential'
  BY <1>12 DEF StopPod, Put, Known, Halted, Fault, TypeOK, JournalInv,
  PodHasCredential
<1>13. ASSUME NEW c \in Callers, DeletePod(c)
      PROVE  PodHasCredential'
  BY <1>13, SMTT(20) DEF DeletePod, At, Put, Known, Goto, FailedDelete, Fails, Fault,
  stored, bounds, TypeOK, CallInv, Acting, JournalInv, OnePodInv, GoneInv, SaysGone,
  SecretInv, PodHasCredential
<1>14. ASSUME NEW c \in Callers, DeleteJournaled(c)
      PROVE  PodHasCredential'
  BY <1>14 DEF DeleteJournaled, At, Deleted, Goto, stored, bounds, TypeOK,
  CallInv, Acting, PlanInv, PlanMakesOneWorkspace, Creating, JournalInv,
  OnePodInv, GoneInv, SaysGone, SecretInv, PodHasCredential
<1>15. ASSUME NEW c \in Callers, DeleteCompleted(c)
      PROVE  PodHasCredential'
  BY <1>15 DEF DeleteCompleted, At, Return, stored, bounds, TypeOK,
  PodHasCredential
<1>16. ASSUME NEW c \in Callers, StatusObserved(c)
      PROVE  PodHasCredential'
  BY <1>16 DEF StatusObserved, At, Observed, Goto, Return, stored, bounds,
  TypeOK, PodHasCredential
<1>17. ASSUME ReaperLists
      PROVE  PodHasCredential'
  BY <1>17 DEF ReaperLists, Reapable, Begin, stored, bounds, TypeOK,
  PodHasCredential
<1>18. ASSUME ReaperRefused
      PROVE  PodHasCredential'
  BY <1>18 DEF ReaperRefused, At, Return, stored, bounds, TypeOK,
  PodHasCredential
<1>19. ASSUME Stop(Reaper)
      PROVE  PodHasCredential'
  BY <1>19 DEF Stop, At, Claim, Begin, stored, bounds, TypeOK,
  PodHasCredential
<1>20. ASSUME LeaseExpires
      PROVE  PodHasCredential'
  BY <1>20 DEF LeaseExpires, stored, bounds, TypeOK, PodHasCredential
<1>21. ASSUME Crash
      PROVE  PodHasCredential'
  BY <1>21 DEF Crash, stored, bounds, TypeOK, PodHasCredential
<1>22. ASSUME StartupCreate
      PROVE  PodHasCredential'
  BY <1>22 DEF StartupCreate, Orphan, Known, Put, Halted, startupFrame,
  stored, bounds, TypeOK, PodHasCredential
<1>23. ASSUME StartupCompensated
      PROVE  PodHasCredential'
  BY <1>23 DEF StartupCompensated, startupFrame, stored, bounds, TypeOK,
  CallInv, Acting, PlanInv, PlanMakesOneWorkspace, Creating, JournalInv,
  OnePodInv, GoneInv, SaysGone, SecretInv, PodHasCredential
<1>24. ASSUME StartupDeletes
      PROVE  PodHasCredential'
  BY <1>24 DEF StartupDeletes, Deleted, startupFrame, stored, bounds, TypeOK,
  CallInv, Acting, PlanInv, PlanMakesOneWorkspace, Creating, JournalInv,
  OnePodInv, GoneInv, SaysGone, SecretInv, PodHasCredential
<1>25. ASSUME StartupRefresh
      PROVE  PodHasCredential'
  BY <1>25 DEF StartupRefresh, Observed, Deleted, startupFrame, stored,
  bounds, TypeOK, CallInv, Acting, PlanInv, PlanMakesOneWorkspace, Creating,
  JournalInv, OnePodInv, GoneInv, SaysGone, SecretInv, PodHasCredential
<1>26. ASSUME NEW p \in Pods, PodGoes(p)
      PROVE  PodHasCredential'
  BY <1>26 DEF PodGoes, Fault, Put, stored, bounds, TypeOK, CallInv, Acting,
  PlanInv, PlanMakesOneWorkspace, Creating, JournalInv, OnePodInv, GoneInv,
  SaysGone, SecretInv, PodHasCredential
<1>27. CASE UNCHANGED vars
  BY <1>27 DEF vars, stored, bounds, PodHasCredential
<1>. QED
  BY <1>1, <1>2, <1>3, <1>4, <1>5, <1>6, <1>7, <1>8, <1>9, <1>10, <1>11,
  <1>12, <1>13, <1>14, <1>15, <1>16, <1>17, <1>18, <1>19, <1>20, <1>21,
  <1>22, <1>23, <1>24, <1>25, <1>26, <1>27, <1>28 DEF Next, CallStep, ReaperStep,
  StartupStep

(* Nothing has begun in the initial states.                                *)
LEMMA InitInv ==
  ASSUME Init
  PROVE  CreationInv /\ PersistentInv
<1> USE NamesAssumption, BoundsAssumption DEF Init, Callers, NoRecord, Idle
<1>1. TypeOK
  <2>1. Idle \in CallRecords
    BY DEF CallRecords, Records, States, Leases
  <2>2. plan \in BOOLEAN /\ secret \in BOOLEAN
    OBVIOUS
  <2>3. record \in Records /\ journal \in [state : OpenStates \cup {"none", "completed",
                                           "failed", "compensated"}, pod : Pods \cup {None}]
    BY DEF Records, States, Leases, OpenStates
  <2>4. call \in [Callers -> CallRecords] /\ crashes \in 0 .. MaxCrashes /\ faults \in 0 .. MaxFaults
    BY <2>1
  <2>5. /\ mode \in Modes /\ deletes \subseteq Callers /\ control = "serving"
        /\ pods \in [Pods -> {"unused", "running", "exited", "terminated"}]
    OBVIOUS
  <2>. QED
    BY <2>2, <2>3, <2>4, <2>5 DEF TypeOK, CallRecords
<1>2. CallInv /\ PlanInv /\ PlanMakesOneWorkspace
  BY DEF CallInv, Acting, PlanInv, PlanMakesOneWorkspace, Creating
<1>3. JournalInv /\ JournaledPodIsStopped
  BY DEF JournalInv, JournaledPodIsStopped
<1>4. PersistentInv
  BY DEF PersistentInv, OnePodInv, GoneInv, SaysGone, SecretInv, PodHasCredential, Acting
<1>. QED
  BY <1>1, <1>2, <1>3, <1>4 DEF CreationInv

(* Where calls, the row, the journal and the startup may be at a time: an  *)
(* invariant on its own, where the store locks rows.                       *)
THEOREM CreationInvariant ==
  ASSUME RowLocks
  PROVE  Spec => []CreationInv
<1>1. Init => CreationInv
  BY InitInv
<1>2. CreationInv /\ [Next]_vars => CreationInv'
  BY TypeStep, CallsStep, PlanStep, JournalStep, JournaledStep DEF CreationInv
<1>. QED
  BY <1>1, <1>2, PTL DEF Spec

(* What a persistent workspace keeps: its one pod, its credential, and     *)
(* nothing that says it is deleted while it is not.                        *)
THEOREM PersistentInvariant ==
  ASSUME RowLocks
  PROVE  Spec => []PersistentInv
<1>1. Init => PersistentInv
  BY InitInv
<1>2. CreationInv /\ CreationInv' /\ PersistentInv /\ [Next]_vars => PersistentInv'
  BY OnePodStep, GoneStep, SecretStep, CredentialStep DEF CreationInv, PersistentInv
<1>. QED
  BY <1>1, <1>2, CreationInvariant, PTL DEF Spec

(* Every variable keeps its type.                                          *)
THEOREM TypeCorrect == Spec => []TypeOK
<1>1. Init => TypeOK
  BY InitInv DEF CreationInv
<1>2. TypeOK /\ [Next]_vars => TypeOK'
  BY TypeStep
<1>. QED
  BY <1>1, <1>2, PTL DEF Spec

(* However many requests read and submit one plan at once, and whatever    *)
(* restarts come between, one workspace comes of it: the second waits for  *)
(* the row, and then finds none.                                           *)
THEOREM PlanAlwaysMakesOneWorkspace ==
  ASSUME RowLocks
  PROVE  Spec => []PlanMakesOneWorkspace
<1>1. CreationInv => PlanMakesOneWorkspace
  BY DEF CreationInv
<1>. QED
  BY <1>1, CreationInvariant, PTL

(* A pod that the journal knows and no workspace has is stopped by the     *)
(* startup before its operation is closed.                                 *)
THEOREM JournaledPodAlwaysStopped ==
  ASSUME RowLocks
  PROVE  Spec => []JournaledPodIsStopped
<1>1. CreationInv => JournaledPodIsStopped
  BY DEF CreationInv
<1>. QED
  BY <1>1, CreationInvariant, PTL

(* A persistent workspace is deleted only when its pod is terminated,      *)
(* though every call saves a row it read before its request.               *)
THEOREM DeletedAlwaysTerminated ==
  ASSUME RowLocks
  PROVE  Spec => []DeletedMeansTerminated
<1>1. PersistentInv => DeletedMeansTerminated
  BY DEF PersistentInv, GoneInv, SaysGone, DeletedMeansTerminated
<1>. QED
  BY <1>1, PersistentInvariant, PTL

(* The pod of a persistent workspace never outlives its credential.        *)
THEOREM PodAlwaysHasCredential ==
  ASSUME RowLocks
  PROVE  Spec => []PodHasCredential
<1>1. PersistentInv => PodHasCredential
  BY DEF PersistentInv
<1>. QED
  BY <1>1, PersistentInvariant, PTL

=============================================================================
