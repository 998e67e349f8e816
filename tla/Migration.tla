------------------------------ MODULE Migration ------------------------------
(***************************************************************************)
(* The migration of a workspace from its persistent pod to a network       *)
(* volume: the calls of RunPodPersistentPodBackend that create, resume and *)
(* confirm it and the stop that aborts it (web/runpod_backend.py), with    *)
(* the agents of both pods (WorkspaceMigrationManager, agent/migrations.py *)
(* and the seal of agent/app.py).                                          *)
(*                                                                         *)
(* A call is a coroutine; a step is one request to the provider or to an   *)
(* agent, or one row written.  Rows are saved whole, from the copy the     *)
(* call has read.  The reaper's stop is a Stop.  A workspace that is       *)
(* stopped is not started again here, and its other operations are those   *)
(* of WorkspaceLifecycle.                                                  *)
(***************************************************************************)
EXTENDS Naturals, Sequences

CONSTANTS
  Calls,        \* requests of clients being handled at a time
  Migs,         \* migrations; the target pod of each bears its name
  Source,       \* the persistent pod
  Files,        \* files of the source, 1 .. Files, in the manifest's order
  Chunks,       \* chunks in each
  MaxWrites,    \* bound: writes to a workspace during the migration
  MaxFaults,    \* bound: failed or unanswered requests, pods that go, restarts
  Old,          \* what the source's files held before
  Prior,        \* what files held that a network volume had already
  Torn,         \* a chunk written in part
  None

Pods == {Source} \cup Migs

ASSUME NamesAssumption == Source \notin Migs /\ None \notin Pods
                          /\ {Old, Prior, Torn} \cap (Pods \cup {None}) = {}
                          /\ Old # Torn /\ Prior # Torn
ASSUME BoundsAssumption == /\ Files \in Nat \ {0} /\ Chunks \in Nat \ {0}
                           /\ MaxWrites \in Nat /\ MaxFaults \in Nat

VARIABLES
  \* the control plane's database and vault
  row,        \* the workspace: [state, pod, retained]
  mig,        \* migration -> [state, target, index, offset, tman]
  manifest,   \* migration -> its source_manifest: path -> content
  secret,     \* whose credential agent:<workspace> is
  tsecrets,   \* migrations with a migration-agent credential
  \* the pods, their agents and volumes
  pods,       \* pod -> what the provider has
  agent,      \* pod -> [sealed, files]
  staged,     \* migration -> path -> chunks in the staging directory
  \* calls and writes in progress
  call, writer, writes, faults

stored == <<row, mig, manifest, secret, tsecrets>>
remote == <<pods, agent, staged>>
bounds == <<writer, writes, faults>>
vars == <<stored, remote, call, bounds>>

(* The content of a file is the pod that wrote it last, if one did; path 0 *)
(* is one that the source does not have.                                   *)
Contents == Pods \cup {Old, Prior}
Paths == 0 .. Files
Manifests == [Paths -> Contents \cup {None}]
ASSUME ManifestsAssumption == None \notin Manifests

Active == {"preparing", "copying", "verifying"}
Records == [state : Active \cup {"none", "awaiting_confirmation", "completed", "failed"},
            target : BOOLEAN, index : 0 .. Files, offset : 0 .. Chunks - 1,
            tman : Manifests \cup {None}]
Rows == [state : {"ready", "stopping", "stopped", "error"}, pod : Pods \cup {None},
         retained : BOOLEAN]

NoRecord == [state |-> "none", target |-> FALSE, index |-> 0, offset |-> 0, tman |-> None]
NewRow == [state |-> "ready", pod |-> Source, retained |-> FALSE]
NoFiles == [f \in Paths |-> None]
Idle == [op |-> "none", at |-> "idle", m |-> None, copy |-> NoRecord, ws |-> NewRow,
         data |-> None, todo |-> {}]

TypeOK ==
  /\ row \in Rows /\ mig \in [Migs -> Records] /\ manifest \in [Migs -> Manifests]
  /\ secret \in Pods \cup {None} /\ tsecrets \subseteq Migs
  /\ pods \in [Pods -> {"unused", "running", "exited", "terminated"}]
  /\ agent \in [Pods -> [sealed : BOOLEAN, files : Manifests]]
  /\ \A m \in Migs, f \in Paths : /\ Len(staged[m][f]) <= Chunks
                                  /\ \A i \in 1 .. Len(staged[m][f]) :
                                       staged[m][f][i] \in Contents \cup {Torn}
  /\ \A c \in Calls : /\ call[c].op \in {"none", "create", "resume", "confirm", "stop"}
                        /\ call[c].m \in Migs \cup {None} /\ call[c].copy \in Records
                        /\ call[c].ws \in Rows /\ call[c].todo \subseteq Migs \X Records
  /\ writer \in [pod : Pods \cup {None}, file : Paths]
  /\ writes \in 0 .. MaxWrites /\ faults \in 0 .. MaxFaults

Init ==
  /\ row = NewRow
  /\ mig = [m \in Migs |-> NoRecord]
  /\ manifest = [m \in Migs |-> NoFiles]
  /\ secret = Source /\ tsecrets = {}
  /\ pods = [p \in Pods |-> IF p = Source THEN "running" ELSE "unused"]
  /\ agent = [p \in Pods |-> [sealed |-> FALSE, files |->
                [f \in Paths |-> IF p = Source /\ f > 0 THEN Old ELSE None]]]
  /\ staged = [m \in Migs |-> [f \in Paths |-> <<>>]]
  /\ call = [c \in Calls |-> Idle]
  /\ writer = [pod |-> None, file |-> 0] /\ writes = 0
  /\ faults = 0

-----------------------------------------------------------------------------
(* Steps and requests.                                                     *)

At(c, op, at) == call[c].op = op /\ call[c].at = at
Goto(c, at) == call' = [call EXCEPT ![c].at = at]
Copies(c, at, copy) == call' = [call EXCEPT ![c].at = at, ![c].copy = copy]
Return(c) == call' = [call EXCEPT ![c] = Idle]
SaveMig(m, copy) == mig' = [mig EXCEPT ![m] = copy]

Up(p) == p # None /\ pods[p] = "running"
Known(p) == p # None /\ pods[p] \in {"running", "exited"}
Fault == faults < MaxFaults /\ faults' = faults + 1
Put(p, status) == pods' = [pods EXCEPT ![p] = status]
Seal(p, on) == agent' = [agent EXCEPT ![p].sealed = on]

(* A request for which the other side must be there has its effect and an  *)
(* answer; without one (Lost) it fails, and may have had the effect.       *)
Answered(there, effect) == there /\ effect /\ UNCHANGED faults
Lost(there, effect, none) ==
  \/ ~there /\ none /\ UNCHANGED faults
  \/ there /\ Fault /\ (effect \/ none)

AgentFrame == UNCHANGED <<stored, pods, staged, writer, writes>>
ProviderFrame == UNCHANGED <<stored, agent, staged, writer, writes>>
StoreFrame == UNCHANGED <<remote, bounds>>

-----------------------------------------------------------------------------
(* create_workspace_migration.                                             *)

Create(c) ==
  /\ call[c] = Idle /\ row.state = "ready" /\ row.pod = Source
  /\ call' = [call EXCEPT ![c] = [Idle EXCEPT !.op = "create", !.at = "check", !.ws = row]]
  /\ UNCHANGED <<stored, remote, bounds>>

(* _ensure_no_active_migration.                                            *)
Ongoing == {m \in Migs : mig[m].state \in Active}
CreateChecks(c) ==
  /\ At(c, "create", "check")
  /\ IF Ongoing = {} THEN Goto(c, "seal") ELSE Return(c)
  /\ UNCHANGED <<stored, remote, bounds>>

(* The agent's seal route: the seal, then, after the jobs and downloads    *)
(* are closed, the manifest of what the source holds by then.              *)
CreateSeals(c) ==
  /\ At(c, "create", "seal")
  /\ LET effect == Seal(Source, TRUE) IN
       \/ Answered(Up(Source), effect) /\ Goto(c, "scan")
       \/ Lost(Up(Source), effect, UNCHANGED agent) /\ Return(c)
  /\ AgentFrame

CreateScans(c) ==
  /\ At(c, "create", "scan")
  /\ IF Up(Source) /\ agent[Source].sealed
       THEN call' = [call EXCEPT ![c].at = "plan", ![c].data = agent[Source].files]
       ELSE Return(c)
  /\ UNCHANGED <<stored, remote, bounds>>

(* The record is saved when a plan is found.                               *)
CreatePlans(c) ==
  /\ At(c, "create", "plan")
  /\ \/ \E m \in Migs :
          /\ mig[m].state = "none"
          /\ SaveMig(m, [NoRecord EXCEPT !.state = "preparing"])
          /\ manifest' = [manifest EXCEPT ![m] = call[c].data]
          /\ tsecrets' = tsecrets \cup {m}
          /\ call' = [call EXCEPT ![c].at = "target", ![c].m = m, ![c].data = None,
                                  ![c].copy = [NoRecord EXCEPT !.state = "preparing"]]
     \/ call' = [call EXCEPT ![c].at = "unseal", ![c].data = None]
        /\ UNCHANGED <<mig, manifest, tsecrets>>
  /\ UNCHANGED <<row, secret>> /\ StoreFrame

(* The volume is new, or one the account has: the request names it, or an  *)
(* aborted migration has left it behind.  Then it may be sealed, and hold  *)
(* under a path what the source holds there or something else.             *)
Volumes == [Paths -> {None, Old, Prior}]

CreatesTarget(c) ==
  /\ At(c, "create", "target")
  /\ LET m == call[c].m IN
       \/ /\ Put(m, "running") /\ Copies(c, "record", [call[c].copy EXCEPT !.target = TRUE])
          /\ \E held \in Volumes, sealed \in BOOLEAN :
               agent' = [agent EXCEPT ![m] = [sealed |-> sealed, files |-> held]]
          /\ UNCHANGED <<tsecrets, faults>>
       \/ /\ (UNCHANGED <<pods, faults>> \/ (Fault /\ Put(m, "running"))) /\ UNCHANGED agent
          /\ tsecrets' = tsecrets \ {m}
          /\ Goto(c, "unseal")
  /\ UNCHANGED <<row, mig, manifest, secret, staged, writer, writes>>

(* The source is unsealed after a failure; the record, if there is one,    *)
(* becomes FAILED only if that worked.                                     *)
CreateUnseals(c) ==
  /\ At(c, "create", "unseal")
  /\ LET effect == Seal(Source, FALSE) IN
       \/ /\ Answered(Up(Source), effect)
          /\ IF call[c].m = None THEN Return(c) ELSE Goto(c, "failed")
       \/ Lost(Up(Source), effect, UNCHANGED agent) /\ Return(c)
  /\ AgentFrame

CreateFails(c) ==
  /\ At(c, "create", "failed")
  /\ SaveMig(call[c].m, [call[c].copy EXCEPT !.state = "failed"])
  /\ Return(c)
  /\ UNCHANGED <<row, manifest, secret, tsecrets>> /\ StoreFrame

CreateRecords(c) ==
  /\ At(c, "create", "record")
  /\ SaveMig(call[c].m, call[c].copy)
  /\ Goto(c, "extend")
  /\ UNCHANGED <<row, manifest, secret, tsecrets>> /\ StoreFrame

(* The lease is extended: the row is saved as it was read at first.        *)
CreateExtends(c) ==
  /\ At(c, "create", "extend")
  /\ row' = call[c].ws
  /\ Return(c)
  /\ UNCHANGED <<mig, manifest, secret, tsecrets>> /\ StoreFrame

-----------------------------------------------------------------------------
(* resume_workspace_migration.                                             *)

Resume(c, m) ==
  /\ call[c] = Idle /\ mig[m].state \in Active
  /\ call' = [call EXCEPT ![c] =
                [Idle EXCEPT !.op = "resume", !.at = "load", !.m = m, !.copy = mig[m]]]
  /\ UNCHANGED <<stored, remote, bounds>>

Entry(state) == CASE state = "preparing" -> "seal" [] state = "copying" -> "read"
                  [] OTHER -> "manifest"

ResumeLoads(c) ==
  /\ At(c, "resume", "load")
  /\ IF call[c].copy.target /\ secret # None /\ call[c].m \in tsecrets
       THEN call' = [call EXCEPT ![c].at = Entry(call[c].copy.state), ![c].ws = row]
       ELSE Return(c)
  /\ UNCHANGED <<stored, remote, bounds>>

ResumeSeals(c) ==
  /\ At(c, "resume", "seal")
  /\ LET m == call[c].m  effect == Seal(m, TRUE) IN
       \/ /\ Answered(Up(m), effect)
          /\ Copies(c, "save", [call[c].copy EXCEPT !.state = "copying"])
       \/ Lost(Up(m), effect, UNCHANGED agent) /\ Return(c)
  /\ AgentFrame

(* migration_file: the chunk as the source has it now.                     *)
ResumeReads(c) ==
  LET copy == call[c].copy IN
  /\ At(c, "resume", "read")
  /\ IF copy.index = Files
       THEN Copies(c, "save", [copy EXCEPT !.state = "verifying"]) /\ UNCHANGED faults
       ELSE \/ /\ Answered(Up(Source), UNCHANGED agent)
               /\ call' = [call EXCEPT ![c].at = "write",
                             ![c].data = agent[Source].files[copy.index + 1]]
            \/ Lost(Up(Source), UNCHANGED agent, UNCHANGED agent) /\ Return(c)
  /\ UNCHANGED <<stored, remote, writer, writes>>

(* write_chunk, in the target's agent: what is staged after the chunk, and *)
(* whether the file is whole and has its entry's checksum.                 *)
Whole_Present(m, f) == agent[m].files[f] # None    \* mutant: any file at the path
Whole(m, f) == agent[m].files[f] = manifest[m][f]
Accepts(m, f, offset, data) ==
  /\ Up(m) /\ agent[m].sealed
  /\ \/ Whole(m, f)
     \/ offset = Len(staged[m][f])
     \/ offset < Len(staged[m][f]) /\ staged[m][f][offset + 1] = data
Staged(m, f, offset, data) ==
  IF offset = Len(staged[m][f]) THEN Append(staged[m][f], data) ELSE staged[m][f]
Verified_Size(m, f, s) == Len(s) = Chunks          \* mutant: without the checksum
Verified(m, f, s) == Len(s) = Chunks /\ \A i \in 1 .. Chunks : s[i] = manifest[m][f]

(* The file replaces what the path holds; a whole file with a wrong        *)
(* checksum stays staged.                                                  *)
Import(m, f, s) ==
  IF Verified(m, f, s)
    THEN /\ agent' = [agent EXCEPT ![m].files[f] = s[1]]
         /\ staged' = [staged EXCEPT ![m][f] = <<>>]
    ELSE staged' = [staged EXCEPT ![m][f] = s] /\ UNCHANGED agent

(* The progress that a receipt stands for.                                 *)
Advanced_Open(copy, next) == [copy EXCEPT !.offset = next]  \* mutant: a whole file goes on
Advanced(copy, next) ==
  IF next = Chunks THEN [copy EXCEPT !.index = @ + 1, !.offset = 0]
                   ELSE [copy EXCEPT !.offset = next]

ResumeWrites(c) ==
  LET m == call[c].m   copy == call[c].copy   f == copy.index + 1
      ok == Accepts(m, f, copy.offset, call[c].data)
      s == IF Whole(m, f) THEN staged[m][f] ELSE Staged(m, f, copy.offset, call[c].data)
      next == IF Whole(m, f) THEN Chunks ELSE Len(s)
      effect == IF Whole(m, f) THEN UNCHANGED <<agent, staged>> ELSE Import(m, f, s)
  IN
  /\ At(c, "resume", "write")
  /\ \/ /\ Answered(ok, effect)
        /\ Whole(m, f) \/ Len(s) < Chunks \/ Verified(m, f, s)
        /\ call' = [call EXCEPT ![c].at = "save", ![c].data = None,
                                ![c].copy = Advanced(copy, next)]
     \/ /\ ok /\ ~Whole(m, f) /\ Len(s) = Chunks /\ ~Verified(m, f, s)
        /\ effect /\ UNCHANGED faults /\ Return(c)
     \/ Lost(ok, effect, UNCHANGED <<agent, staged>>) /\ Return(c)
     \/ /\ ok /\ Len(s) > Len(staged[m][f]) /\ Fault
        /\ staged' = [staged EXCEPT ![m][f] = Append(@, Torn)] /\ UNCHANGED agent
        /\ Return(c)
  /\ UNCHANGED <<stored, pods, writer, writes>>

(* save_migration; a copy budget that is used up ends the call.            *)
ResumeSaves(c) ==
  LET copy == call[c].copy IN
  /\ At(c, "resume", "save")
  /\ SaveMig(call[c].m, copy)
  /\ \/ Goto(c, Entry(copy.state))
     \/ copy.state = "copying" /\ copy.index + copy.offset > 0 /\ Return(c)
  /\ UNCHANGED <<row, manifest, secret, tsecrets>> /\ StoreFrame

(* The target's manifest is made once and kept in the record.              *)
ResumeScans(c) ==
  LET m == call[c].m   there == Up(m) /\ agent[m].sealed IN
  /\ At(c, "resume", "manifest")
  /\ IF call[c].copy.tman # None THEN Goto(c, "judge") /\ UNCHANGED faults
     ELSE \/ /\ Answered(there, UNCHANGED agent)
             /\ Copies(c, "judge", [call[c].copy EXCEPT !.tman = agent[m].files])
          \/ Lost(there, UNCHANGED agent, UNCHANGED agent) /\ Return(c)
  /\ UNCHANGED <<stored, remote, writer, writes>>

(* _manifests_match.                                                       *)
Matches_Listed(m, tman) == \A f \in 1 .. Files : tman[f] = manifest[m][f]  \* mutant: the source's files
Matches(m, tman) == tman = manifest[m]
ResumeJudges(c) ==
  /\ At(c, "resume", "judge")
  /\ SaveMig(call[c].m, call[c].copy)
  /\ Goto(c, IF Matches(call[c].m, call[c].copy.tman) THEN "stop" ELSE "mismatch")
  /\ UNCHANGED <<row, manifest, secret, tsecrets>> /\ StoreFrame

(* A mismatch: the target is deleted, its credential too, the source is    *)
(* unsealed and the record saved as FAILED.                                *)
ResumeDeletesTarget(c) ==
  /\ At(c, "resume", "mismatch")
  /\ LET m == call[c].m  effect == Put(m, "terminated") IN
       \/ Answered(Known(m), effect) /\ Goto(c, "unseal") /\ tsecrets' = tsecrets \ {m}
       \/ Lost(Known(m), effect, UNCHANGED pods) /\ Return(c) /\ UNCHANGED tsecrets
  /\ UNCHANGED <<row, mig, manifest, secret, agent, staged, writer, writes>>

ResumeUnsealsSource(c) ==
  /\ At(c, "resume", "unseal")
  /\ LET effect == Seal(Source, FALSE) IN
       \/ Answered(Up(Source), effect) /\ Goto(c, "failed")
       \/ Lost(Up(Source), effect, UNCHANGED agent) /\ Return(c)
  /\ AgentFrame

ResumeFails(c) ==
  /\ At(c, "resume", "failed")
  /\ SaveMig(call[c].m, [call[c].copy EXCEPT !.state = "failed"])
  /\ Return(c)
  /\ UNCHANGED <<row, manifest, secret, tsecrets>> /\ StoreFrame

(* A match: the source is stopped, the target unsealed, and the row and    *)
(* the credentials switched, one after the other.                          *)
ResumeStopsSource(c) ==
  /\ At(c, "resume", "stop")
  /\ LET effect == Put(Source, "exited") IN
       \/ Answered(Known(Source), effect) /\ Goto(c, "release")
       \/ Lost(Known(Source), effect, UNCHANGED pods) /\ Return(c)
  /\ ProviderFrame

ResumeUnsealsTarget(c) ==
  /\ At(c, "resume", "release")
  /\ LET m == call[c].m  effect == Seal(m, FALSE) IN
       \/ Answered(Up(m), effect) /\ Goto(c, "switch")
       \/ Lost(Up(m), effect, UNCHANGED agent) /\ Return(c)
  /\ AgentFrame

ResumeSwitches(c) ==
  /\ At(c, "resume", "switch")
  /\ row' = [call[c].ws EXCEPT !.state = "ready", !.pod = call[c].m, !.retained = TRUE]
  /\ Goto(c, "credential")
  /\ UNCHANGED <<mig, manifest, secret, tsecrets>> /\ StoreFrame

ResumeHandsOver(c) ==
  /\ At(c, "resume", "credential")
  /\ secret' = call[c].m
  /\ tsecrets' = tsecrets \ {call[c].m}
  /\ Goto(c, "done")
  /\ UNCHANGED <<row, mig, manifest>> /\ StoreFrame

ResumeEnds(c) ==
  /\ At(c, "resume", "done")
  /\ SaveMig(call[c].m, [call[c].copy EXCEPT !.state = "awaiting_confirmation"])
  /\ Return(c)
  /\ UNCHANGED <<row, manifest, secret, tsecrets>> /\ StoreFrame

-----------------------------------------------------------------------------
(* confirm_workspace_migration: the retained original is deleted.          *)

Confirm(c, m) ==
  /\ call[c] = Idle /\ mig[m].state = "awaiting_confirmation" /\ row.retained
  /\ call' = [call EXCEPT ![c] = [Idle EXCEPT !.op = "confirm", !.at = "delete", !.m = m,
                                              !.copy = mig[m], !.ws = row]]
  /\ UNCHANGED <<stored, remote, bounds>>

ConfirmDeletes(c) ==
  /\ At(c, "confirm", "delete")
  /\ LET effect == Put(Source, "terminated") IN
       \/ Answered(Known(Source), effect) /\ Goto(c, "row")
       \/ Lost(Known(Source), effect, UNCHANGED pods) /\ Return(c)
  /\ ProviderFrame

ConfirmSaves(c) ==
  /\ At(c, "confirm", "row")
  /\ row' = [call[c].ws EXCEPT !.retained = FALSE]
  /\ Goto(c, "done")
  /\ UNCHANGED <<mig, manifest, secret, tsecrets>> /\ StoreFrame

ConfirmEnds(c) ==
  /\ At(c, "confirm", "done")
  /\ SaveMig(call[c].m, [call[c].copy EXCEPT !.state = "completed"])
  /\ Return(c)
  /\ UNCHANGED <<row, manifest, secret, tsecrets>> /\ StoreFrame

-----------------------------------------------------------------------------
(* stop_workspace: _abort_active_migrations, then the stop itself.         *)

Stop(c) ==
  /\ call[c] = Idle
  /\ call' = [call EXCEPT ![c] = [Idle EXCEPT !.op = "stop", !.at = "abort",
                                     !.todo = {<<m, mig[m]>> : m \in Ongoing}]]
  /\ UNCHANGED <<stored, remote, bounds>>

(* The source is unsealed if the vault still has a credential for it.      *)
StopUnseals(c) ==
  /\ At(c, "stop", "abort")
  /\ \E t \in call[c].todo :
       LET effect == Seal(Source, FALSE)
           next == call' = [call EXCEPT ![c].at = "delete", ![c].m = t[1], ![c].copy = t[2]]
       IN \/ secret = None /\ next /\ UNCHANGED <<agent, faults>>
          \/ secret # None /\ Answered(Up(Source), effect) /\ next
          \/ secret # None /\ Lost(Up(Source), effect, UNCHANGED agent) /\ Return(c)
  /\ AgentFrame

StopDeletesTarget(c) ==
  /\ At(c, "stop", "delete")
  /\ LET m == call[c].m  effect == Put(m, "terminated") IN
       \/ ~call[c].copy.target /\ Goto(c, "failed") /\ UNCHANGED <<pods, faults>>
       \/ call[c].copy.target /\ Answered(Known(m), effect) /\ Goto(c, "failed")
       \/ call[c].copy.target /\ Lost(Known(m), effect, UNCHANGED pods) /\ Return(c)
  /\ ProviderFrame

(* The credential is deleted and the record, as it was listed, FAILED.     *)
StopFails(c) ==
  /\ At(c, "stop", "failed")
  /\ LET m == call[c].m IN
       /\ tsecrets' = tsecrets \ {m}
       /\ SaveMig(m, [call[c].copy EXCEPT !.state = "failed"])
       /\ call' = [call EXCEPT ![c].at = "abort", ![c].m = None, ![c].copy = NoRecord,
                               ![c].todo = {t \in @ : t[1] # m}]
  /\ UNCHANGED <<row, manifest, secret>> /\ StoreFrame

StopClaims(c) ==
  /\ At(c, "stop", "abort") /\ call[c].todo = {}
  /\ IF row.state \in {"ready", "error"}
       THEN /\ row' = [row EXCEPT !.state = "stopping"]
            /\ call' = [call EXCEPT ![c].at = "pod", ![c].ws = row']
       ELSE Return(c) /\ UNCHANGED row
  /\ UNCHANGED <<mig, manifest, secret, tsecrets>> /\ StoreFrame

(* A pod on a network volume is deleted, with its credential.              *)
StopsPod(c) ==
  LET ws == call[c].ws  p == ws.pod
      effect == Put(p, IF p = Source THEN "exited" ELSE "terminated")
      to(r) == call' = [call EXCEPT ![c].at = "row", ![c].ws = r]
  IN
  /\ At(c, "stop", "pod")
  /\ \/ /\ Answered(Known(p), effect)
        /\ secret' = IF p = Source THEN secret ELSE None
        /\ to([ws EXCEPT !.state = "stopped", !.pod = IF p = Source THEN p ELSE None])
     \/ /\ Lost(Known(p), effect, UNCHANGED pods)
        /\ UNCHANGED secret
        /\ to([ws EXCEPT !.state = "error"])
  /\ UNCHANGED <<row, mig, manifest, tsecrets, agent, staged, writer, writes>>

StopSaves(c) ==
  /\ At(c, "stop", "row")
  /\ row' = call[c].ws
  /\ Return(c)
  /\ UNCHANGED <<mig, manifest, secret, tsecrets>> /\ StoreFrame

-----------------------------------------------------------------------------
(* A request that writes to the workspace passes the agent's middleware    *)
(* before it is handled, and it is answered when its file is written.      *)

WriteAdmitted(f) ==
  /\ writer.pod = None /\ writes < MaxWrites
  /\ Up(row.pod) /\ ~agent[row.pod].sealed
  /\ writer' = [pod |-> row.pod, file |-> f]
  /\ UNCHANGED <<stored, remote, call, writes, faults>>

WriteLands ==
  /\ writer.pod # None
  /\ writer' = [pod |-> None, file |-> 0]
  /\ IF Up(writer.pod)
       THEN /\ writes' = writes + 1
            /\ agent' = [agent EXCEPT ![writer.pod].files[writer.file] = writer.pod]
       ELSE UNCHANGED <<writes, agent>>
  /\ UNCHANGED <<stored, pods, staged, call, faults>>

(* A restart of the control plane, with the refresh of the workspace.      *)
Refreshed ==
  IF row.pod = None THEN row
  ELSE CASE pods[row.pod] = "running" -> [row EXCEPT !.state = "ready"]
         [] pods[row.pod] = "exited" -> [row EXCEPT !.state = "stopped"]
         [] OTHER -> [row EXCEPT !.state = "stopped", !.pod = None]

Restart ==
  /\ Fault
  /\ call' = [c \in Calls |-> Idle]
  /\ row' = Refreshed
  /\ secret' = IF row'.pod = None THEN None ELSE secret
  /\ UNCHANGED <<mig, manifest, tsecrets, remote, writer, writes>>

(* The provider stops an interruptible pod.                                *)
PodGoes(p) ==
  /\ Up(p) /\ Fault /\ Put(p, "exited")
  /\ UNCHANGED <<stored, agent, staged, call, writer, writes>>

-----------------------------------------------------------------------------
CallStep(c) ==
  \/ CreateChecks(c) \/ CreateSeals(c) \/ CreateScans(c) \/ CreatePlans(c) \/ CreatesTarget(c)
  \/ CreateUnseals(c) \/ CreateFails(c) \/ CreateRecords(c) \/ CreateExtends(c)
  \/ ResumeLoads(c) \/ ResumeSeals(c) \/ ResumeReads(c) \/ ResumeWrites(c) \/ ResumeSaves(c)
  \/ ResumeScans(c) \/ ResumeJudges(c)
  \/ ResumeDeletesTarget(c) \/ ResumeUnsealsSource(c) \/ ResumeFails(c)
  \/ ResumeStopsSource(c) \/ ResumeUnsealsTarget(c) \/ ResumeSwitches(c)
  \/ ResumeHandsOver(c) \/ ResumeEnds(c)
  \/ ConfirmDeletes(c) \/ ConfirmSaves(c) \/ ConfirmEnds(c)
  \/ StopUnseals(c) \/ StopDeletesTarget(c) \/ StopFails(c) \/ StopClaims(c)
  \/ StopsPod(c) \/ StopSaves(c)

Next ==
  \/ \E c \in Calls : \/ Create(c) \/ Stop(c)
                      \/ \E m \in Migs : Resume(c, m) \/ Confirm(c, m)
  \/ \E c \in Calls : CallStep(c)
  \/ Restart
  \/ \E f \in 1 .. Files : WriteAdmitted(f)
  \/ WriteLands
  \/ \E p \in Pods : PodGoes(p)

Spec == Init /\ [][Next]_vars
-----------------------------------------------------------------------------
(* Properties.                                                             *)

(* "Manifest-gated switchover": the workspace is on the target, and the    *)
(* original pod and its volume are deleted, only when the target's volume  *)
(* holds what the manifest lists, nothing else, and later writes, whatever *)
(* calls overlapped, failed or were cut short by a restart.                *)
Kept(m, f) == agent[m].files[f] \in {manifest[m][f], m}
Holds(m) == manifest[m] # NoFiles /\ \A f \in Paths : Kept(m, f)
SwitchIsVerified ==
  /\ \A m \in Migs : row.pod = m => Holds(m)
  /\ pods[Source] = "terminated" => \E m \in Migs : Holds(m)

(* What comes to be on the target under the path of a file, in place of    *)
(* nothing or of what the volume held there, is that file as the manifest  *)
(* lists it, or a later write to the target: chunks may be repeated, torn, *)
(* sent by two calls and read from a source that has changed.              *)
ImportedIsManifested ==
  [][\A m \in Migs, f \in 1 .. Files :
       pods[m] # "unused" /\ agent'[m].files[f] # agent[m].files[f] => Kept(m, f)']_vars

(* "Resume from the last accepted chunk": what a record claims is copied   *)
(* has been received, also when an older call saves its copy again.        *)
ProgressIsReceived ==
  \A m \in Migs : mig[m].state \in Active =>
    /\ \A f \in 1 .. mig[m].index : Kept(m, f)
    /\ mig[m].offset > 0 => LET f == mig[m].index + 1 IN
         Kept(m, f) \/ mig[m].offset <= Len(staged[m][f])

(* "Workspace writes are sealed during migration": no write accepted by    *)
(* the source is missing from the target that replaces it.                 *)
SwitchKeepsWrites ==
  [][\A m \in Migs : row.pod = Source /\ row'.pod = m
       => agent[Source].files = manifest[m]]_vars
=============================================================================
