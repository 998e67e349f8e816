--------------------------- MODULE MigrationProofs ---------------------------
(***************************************************************************)
(* Invariants of Migration, for any number of calls, migrations, files and *)
(* chunks, and any number of faults and writes.                            *)
(***************************************************************************)
EXTENDS Migration, SequenceTheorems, TLAPS

Listed == 1 .. Files
Places ==
  [none |-> {"idle"},
   create |-> {"check", "seal", "scan", "plan", "target", "unseal", "failed", "record", "extend"},
   resume |-> {"load", "seal", "read", "write", "save", "manifest", "judge", "mismatch", "unseal",
               "failed", "stop", "release", "switch", "credential", "done"},
   confirm |-> {"delete", "row", "done"},
   stop |-> {"abort", "delete", "failed", "pod", "row"}]
Ops == {"none", "create", "resume", "confirm", "stop"}
Ats == {"idle", "check", "seal", "scan", "plan", "target", "unseal", "failed", "record", "extend",
        "load", "read", "write", "save", "manifest", "judge", "mismatch", "stop", "release",
        "switch", "credential", "done", "delete", "row", "abort", "pod"}

CallRecords ==
  [op : Ops, at : Ats, m : Migs \cup {None}, copy : Records, ws : Rows,
   data : Contents \cup {None} \cup Manifests, todo : SUBSET (Migs \X Records)]
Agents == [sealed : BOOLEAN, files : Manifests]

Types ==
  /\ row \in Rows /\ mig \in [Migs -> Records] /\ manifest \in [Migs -> Manifests]
  /\ secret \in Pods \cup {None} /\ tsecrets \in SUBSET Migs
  /\ pods \in [Pods -> {"unused", "running", "exited", "terminated"}]
  /\ agent \in [Pods -> Agents]
  /\ staged \in [Migs -> [Paths -> Seq(Contents \cup {Torn})]]
  /\ \A m \in Migs, f \in Paths : Len(staged[m][f]) <= Chunks
  /\ call \in [Calls -> CallRecords]
  /\ writer \in [pod : Pods \cup {None}, file : Paths]
  /\ writes \in Nat /\ faults \in Nat /\ writes <= MaxWrites /\ faults <= MaxFaults

(* A target that is there at the provider; one whose volume holds what its *)
(* manifest lists.                                                         *)
Used(m) == pods[m] # "unused"
Proven(m) == Used(m) /\ Holds(m)

(* What a record of a migration, stored or held by a call, stands for.     *)
Received(m, r) ==
  /\ \A f \in 1 .. r.index : Kept(m, f)
  /\ r.offset > 0 => /\ r.index < Files
                     /\ \/ Kept(m, r.index + 1)
                        \/ r.offset <= Len(staged[m][r.index + 1])
Scanned(m, r) ==
  r.tman # None => /\ r.target /\ agent[m].files[0] = r.tman[0]
                   /\ \A f \in Listed : agent[m].files[f] = r.tman[f] \/ Kept(m, f)
Sound(m, r) ==
  /\ r.target => Used(m)
  /\ r.state = "awaiting_confirmation" => Proven(m)
  /\ Received(m, r) /\ Scanned(m, r)

(* What a call k stands for at the place where it is.                      *)
Started(m) == mig[m].state # "none"
CallOK(k) ==
  /\ k.at \in Places[k.op]
  /\ k.m \in Migs => Started(k.m) /\ k.copy.state # "none" /\ Sound(k.m, k.copy)
  /\ \A t \in k.todo : Started(t[1]) /\ t[2].state # "none" /\ Sound(t[1], t[2])
  /\ k.ws.pod \in Migs => Proven(k.ws.pod)
  /\ k.op = "create" =>
       /\ k.at \in {"target", "failed", "record", "extend"} => k.m \in Migs
       /\ k.at = "plan" => k.data \in Manifests /\ \A f \in Listed : k.data[f] \in Contents
  /\ k.op = "resume" =>
       /\ k.m \in Migs
       /\ k.at # "load" => k.copy.target
       /\ k.at = "write" => k.copy.index < Files /\ k.data \in Contents
       /\ k.at = "judge" => k.copy.tman # None
       /\ k.at \in {"stop", "release", "switch", "credential", "done"} => Proven(k.m)
  /\ k.op = "confirm" => k.m \in Migs /\ Proven(k.m)
  /\ k.op = "stop" /\ k.at \in {"delete", "failed"} => k.m \in Migs

(* The target of a migration is created once.                              *)
TargetInv ==
  \A c \in Calls : At(c, "create", "target") =>
    /\ ~Used(call[c].m)
    /\ \A d \in Calls : At(d, "create", "target") /\ call[d].m = call[c].m => c = d

MigInv ==
  \A m \in Migs :
    /\ Sound(m, mig[m])
    /\ IF Started(m) THEN \A f \in Listed : manifest[m][f] \in Contents ELSE ~Used(m)
    /\ ~Used(m) => \A f \in Listed : agent[m].files[f] = None

RowInv ==
  /\ row.pod \in Migs => Proven(row.pod)
  /\ pods[Source] = "terminated" => \E m \in Migs : Proven(m)
  /\ \A f \in Listed : agent[Source].files[f] \in Contents
  /\ writer.pod # None => writer.file \in Listed /\ writes < MaxWrites

CallInv == \A c \in Calls : CallOK(call[c])
IInv == Types /\ CallInv /\ TargetInv /\ MigInv /\ RowInv

USE NamesAssumption, BoundsAssumption
-----------------------------------------------------------------------------
(* What only grows.                                                        *)

(* The volume of a target that is there keeps what it has, up to imports   *)
(* that its manifest lists, and chunks stay staged until their file is     *)
(* whole.                                                                  *)
Grows(m) ==
  /\ Used(m) => Used(m)'
  /\ manifest'[m] = manifest[m]
  /\ \A f \in Listed : /\ Kept(m, f) => Kept(m, f)'
                       /\ Used(m) => agent'[m].files[f] = agent[m].files[f] \/ Kept(m, f)'
                       /\ Kept(m, f)' \/ Len(staged[m][f]) <= Len(staged'[m][f])
  /\ Used(m) => agent'[m].files[0] = agent[m].files[0]

(* What ImportedIsManifested says of a step.                               *)
OnlyImported ==
  \A m \in Migs, f \in Listed :
    Used(m) /\ agent'[m].files[f] # agent[m].files[f] => Kept(m, f)'

LEMMA StagedTypes ==
  ASSUME NEW s \in [Migs -> [Paths -> Seq(Contents \cup {Torn})]],
         NEW m \in Migs, NEW f \in Paths
  PROVE  s[m][f] \in Seq(Contents \cup {Torn}) /\ Len(s[m][f]) \in Nat
<1>1. s[m][f] \in Seq(Contents \cup {Torn})
  OBVIOUS
<1>. QED
  BY <1>1, LenProperties

LEMMA KeptStays ==
  ASSUME NEW m \in Migs, Grows(m), NEW f \in Listed, Kept(m, f)
  PROVE  Kept(m, f)'
  BY DEF Grows

LEMMA ProvenStays ==
  ASSUME NEW m \in Migs, Grows(m), Proven(m)
  PROVE  Proven(m)'
<1>1. Used(m) /\ Used(m)' /\ manifest'[m] = manifest[m]
  BY DEF Grows, Proven
<1>2. ASSUME NEW f \in Paths PROVE Kept(m, f)'
  <2>1. Kept(m, f)
    BY DEF Proven, Holds
  <2>2. CASE f = 0
    BY <1>1, <2>1, <2>2 DEF Grows, Kept
  <2>3. CASE f # 0
    BY <2>1, <2>3, KeptStays DEF Paths, Listed
  <2>. QED
    BY <2>2, <2>3
<1>. QED
  BY <1>1, <1>2 DEF Proven, Holds, NoFiles

LEMMA SoundStays ==
  ASSUME Types, Types', NEW m \in Migs, Grows(m), NEW r \in Records, Sound(m, r)
  PROVE  Sound(m, r)'
<1>1. r.index \in 0 .. Files /\ r.offset \in Nat
  BY DEF Records
<1>2. Received(m, r)'
  <2>1. \A f \in 1 .. r.index : f \in Listed
    BY <1>1 DEF Listed
  <2>2. r.offset > 0 => r.index + 1 \in Listed
    BY <1>1 DEF Sound, Received, Listed
  <2>3. ASSUME NEW f \in Listed PROVE Len(staged[m][f]) \in Nat /\ Len(staged'[m][f]) \in Nat
    <3>1. f \in Paths
      BY <2>3 DEF Listed, Paths
    <3>2. /\ staged \in [Migs -> [Paths -> Seq(Contents \cup {Torn})]]
          /\ staged' \in [Migs -> [Paths -> Seq(Contents \cup {Torn})]]
      BY DEF Types
    <3>. QED
      BY <3>1, <3>2, StagedTypes
  <2>. QED
    BY <1>1, <2>1, <2>2, <2>3, KeptStays DEF Sound, Received, Grows
<1>3. Scanned(m, r)'
  BY KeptStays DEF Sound, Scanned, Grows
<1>. QED
  BY <1>2, <1>3, ProvenStays DEF Sound, Grows

(* What a call stands for, it stands for after steps of others.            *)
EnvGrows == \A m \in Migs : Started(m) => Started(m)' /\ Grows(m)

LEMMA CallStays ==
  ASSUME Types, Types', MigInv, EnvGrows, NEW k \in CallRecords, CallOK(k)
  PROVE  CallOK(k)'
<1>1. \A m \in Migs : Started(m) => Grows(m) /\ Started(m)'
  BY DEF EnvGrows
<1>2. \A m \in Migs : Proven(m) => Proven(m)'
  BY <1>1, ProvenStays DEF MigInv, Proven
<1>3. k.m \in Migs => Started(k.m)' /\ Sound(k.m, k.copy)'
  BY <1>1, SoundStays DEF CallOK, CallRecords
<1>4. ASSUME NEW t \in k.todo
      PROVE  Started(t[1])' /\ Sound(t[1], t[2])'
  <2>1. t[1] \in Migs /\ t[2] \in Records
    BY DEF CallRecords
  <2>. QED
    BY <1>1, <2>1, SoundStays DEF CallOK
<1>. QED
  BY <1>2, <1>3, <1>4 DEF CallOK
-----------------------------------------------------------------------------
(* Steps of one call.                                                      *)

(* What a step leaves to the volumes, the pods and other calls; targets    *)
(* are those it creates.                                                   *)
StepEnv(targets) ==
  /\ \A m \in Migs : /\ Grows(m) /\ (Used(m)' => Used(m) \/ m \in targets)
                     /\ ~Used(m)' => \A f \in Listed : agent'[m].files[f] = agent[m].files[f]
  /\ pods'[Source] = "terminated" =>
       pods[Source] = "terminated" \/ \E m \in Migs : Proven(m)
  /\ \A f \in Listed : agent'[Source].files[f] \in Contents
  /\ UNCHANGED manifest

(* It saves no record, or one that is sound; and the row likewise.         *)
SavesMig ==
  \/ UNCHANGED mig
  \/ \E m \in Migs, r \in Records :
       Started(m) /\ r.state # "none" /\ Sound(m, r)' /\ SaveMig(m, r)
SavesRow ==
  \/ UNCHANGED row
  \/ row' \in Rows /\ (row'.pod \in Migs => Proven(row'.pod))
WriterOK == writer'.pod # None => writer'.file \in Listed /\ writes' < MaxWrites

StepTypes ==
  /\ secret' \in Pods \cup {None} /\ tsecrets' \in SUBSET Migs
  /\ pods' \in [Pods -> {"unused", "running", "exited", "terminated"}]
  /\ agent' \in [Pods -> Agents]
  /\ staged' \in [Migs -> [Paths -> Seq(Contents \cup {Torn})]]
  /\ \A m \in Migs, f \in Paths : Len(staged'[m][f]) <= Chunks
  /\ faults' \in Nat /\ faults' <= MaxFaults

LEMMA StepKeepsTypes ==
  ASSUME Types, StepTypes, UNCHANGED manifest, SavesMig, SavesRow,
         call' \in [Calls -> CallRecords],
         writer' \in [pod : Pods \cup {None}, file : Paths], writes' \in Nat, writes' <= MaxWrites
  PROVE  Types'
<1>1. mig' \in [Migs -> Records] /\ row' \in Rows
  <2>1. mig \in [Migs -> Records] /\ row \in Rows
    BY DEF Types
  <2>2. mig' = mig \/ \E m \in Migs, r \in Records : mig' = [mig EXCEPT ![m] = r]
    BY DEF SavesMig, SaveMig
  <2>3. mig' \in [Migs -> Records]
    BY <2>1, <2>2
  <2>. QED
    BY <2>1, <2>3 DEF SavesRow
<1>. QED
  BY <1>1 DEF Types, StepTypes

(* The stored records and the volumes after a step.                        *)
LEMMA VolumesKeep ==
  ASSUME IInv, Types', NEW targets \in SUBSET Migs, \A m \in targets : Started(m),
         StepEnv(targets), SavesMig, SavesRow, WriterOK
  PROVE  EnvGrows /\ MigInv' /\ RowInv' /\ OnlyImported
<1>. USE DEF IInv
<1>1. \A m \in Migs : Grows(m)
  BY DEF StepEnv
<1>2. \A m \in Migs : /\ mig[m].state # "none" => mig'[m].state # "none"
                      /\ mig[m].state = "none" => mig'[m].state = "none"
  <2>1. CASE UNCHANGED mig
    BY <2>1
  <2>2. ASSUME NEW m \in Migs, NEW r \in Records,
               Started(m), r.state # "none", SaveMig(m, r)
        PROVE  \A x \in Migs : mig'[x] = IF x = m THEN r ELSE mig[x]
    BY <2>2 DEF SaveMig, Types
  <2>. QED
    BY <2>1, <2>2 DEF SavesMig, Started
<1>3. EnvGrows
  BY <1>1, <1>2 DEF EnvGrows, Started
<1>4. MigInv'
  <2>1. \A m \in Migs : Sound(m, mig[m])'
    <3>1. SUFFICES ASSUME NEW m \in Migs PROVE Sound(m, mig[m])'
      OBVIOUS
    <3>2. mig[m] \in Records /\ Sound(m, mig[m])
      BY DEF Types, MigInv
    <3>3. PICK x \in Records : x = mig[m]
      BY <3>2
    <3>4. Sound(m, x)'
      BY <1>1, <3>2, <3>3, SoundStays
    <3>5. mig'[m] = x \/ Sound(m, mig[m])'
      BY <3>3 DEF SavesMig, SaveMig, Types
    <3>. QED
      BY <3>4, <3>5
  <2>2. ASSUME NEW m \in Migs
        PROVE  IF Started(m)' THEN \A f \in Listed : manifest'[m][f] \in Contents ELSE ~Used(m)'
    BY <1>2, <2>2 DEF MigInv, Started, StepEnv
  <2>3. \A m \in Migs : ~Used(m)' => \A f \in Listed : agent'[m].files[f] = None
    BY DEF MigInv, StepEnv, Grows
  <2>. QED
    BY <2>1, <2>2, <2>3 DEF MigInv
<1>5. RowInv'
  <2>1. \A m \in Migs : Proven(m) => Proven(m)'
    BY <1>1, ProvenStays
  <2>2. row'.pod \in Migs => Proven(row'.pod)
    BY DEF SavesRow, RowInv
  <2>3. row'.pod \in Migs => Proven(row.pod)'
    BY <2>1, <2>2
  <2>. QED
    BY <2>1, <2>3 DEF RowInv, StepEnv, WriterOK
<1>6. OnlyImported
  BY <1>1 DEF OnlyImported, Grows
<1>. QED
  BY <1>3, <1>4, <1>5, <1>6

(* The calls that do not step.                                             *)
LEMMA OthersKeep ==
  ASSUME IInv, Types', EnvGrows, NEW d \in Calls, call'[d] = call[d]
  PROVE  CallOK(call[d])'
<1>1. call[d] \in CallRecords /\ CallOK(call[d])
  BY DEF IInv, CallInv, Types
<1>2. PICK x \in CallRecords : x = call[d]
  BY <1>1
<1>3. CallOK(x)'
  BY <1>1, <1>2, CallStays DEF IInv
<1>. QED
  BY <1>2, <1>3

LEMMA StepKeeps ==
  ASSUME IInv, StepTypes, NEW targets \in SUBSET Migs, StepEnv(targets), SavesMig, SavesRow,
         UNCHANGED <<writer, writes>>,
         NEW c \in Calls, NEW k \in CallRecords, call' = [call EXCEPT ![c] = k],
         \A m \in targets : At(c, "create", "target") /\ call[c].m = m,
         CallOK(k)', ~(k.op = "create" /\ k.at = "target")
  PROVE  IInv' /\ OnlyImported
<1>. USE DEF IInv
<1>1. /\ call' \in [Calls -> CallRecords]
      /\ \A d \in Calls : call'[d] = IF d = c THEN k ELSE call[d]
  BY DEF Types
<1>2. Types'
  BY <1>1, StepKeepsTypes DEF Types, StepEnv
<1>3. \A d \in Calls : At(d, "create", "target") => call[d].m \in Migs /\ Started(call[d].m)
  BY DEF At, CallInv, CallOK
<1>4. WriterOK
  BY DEF WriterOK, RowInv
<1>5. EnvGrows /\ MigInv' /\ RowInv' /\ OnlyImported
  BY <1>2, <1>3, <1>4, VolumesKeep
<1>6. CallInv'
  BY <1>1, <1>2, <1>5, OthersKeep DEF CallInv
<1>7. TargetInv'
  <2>1. \A d \in Calls : At(d, "create", "target")' => d # c /\ At(d, "create", "target")
    BY <1>1 DEF At
  <2>. QED
    BY <1>1, <1>3, <2>1 DEF TargetInv, StepEnv
<1>. QED
  BY <1>2, <1>5, <1>6, <1>7

(* A step of no call, or one that ends them all.                           *)
LEMMA UncalledKeeps ==
  ASSUME IInv, Types', StepEnv({}), UNCHANGED mig, SavesRow, WriterOK,
         UNCHANGED call \/ call' = [c \in Calls |-> Idle]
  PROVE  IInv' /\ OnlyImported
<1>1. EnvGrows /\ MigInv' /\ RowInv' /\ OnlyImported
  BY VolumesKeep DEF SavesMig
<1>2. CASE UNCHANGED call
  <2>1. CallInv'
    BY <1>1, <1>2, OthersKeep DEF CallInv
  <2>2. \A d \in Calls : At(d, "create", "target") => call[d].m \in Migs
    BY DEF IInv, At, CallInv, CallOK
  <2>3. \A m \in Migs : Used(m)' => Used(m)
    BY DEF StepEnv
  <2>4. TargetInv'
    BY <1>2, <2>2, <2>3 DEF IInv, TargetInv, At
  <2>. QED
    BY <1>1, <2>1, <2>4 DEF IInv
<1>3. CASE call' = [c \in Calls |-> Idle]
  <2>1. CallOK(Idle)'
    BY DEF Idle, CallOK, Places, NewRow, Pods
  <2>2. CallInv'
    BY <1>3, <2>1 DEF CallInv
  <2>3. TargetInv'
    BY <1>3 DEF TargetInv, At, Idle
  <2>. QED
    BY <1>1, <2>2, <2>3 DEF IInv
<1>. QED
  BY <1>2, <1>3
-----------------------------------------------------------------------------
(* Steps that change no volume.                                            *)

(* A seal, or a pod that was there is stopped or deleted: the original     *)
(* only once a target is proven.                                           *)
Remote ==
  \/ UNCHANGED <<pods, agent>>
  \/ UNCHANGED pods /\ \E p \in Pods, on \in BOOLEAN : Seal(p, on)
  \/ UNCHANGED agent /\ \E p \in Pods, s \in {"exited", "terminated"} :
       /\ Used(p) /\ Put(p, s)
       /\ p = Source /\ s = "terminated" => \E m \in Migs : Proven(m)

(* The records a call saves: sound before the step.                        *)
Saves ==
  \/ UNCHANGED mig
  \/ \E m \in Migs, r \in Records :
       Started(m) /\ r.state # "none" /\ Sound(m, r) /\ SaveMig(m, r)

LEMMA RemoteEnv ==
  ASSUME IInv, Remote, UNCHANGED <<manifest, staged>>
  PROVE  /\ StepEnv({})
         /\ pods' \in [Pods -> {"unused", "running", "exited", "terminated"}]
         /\ agent' \in [Pods -> Agents]
         /\ \A p \in Pods : agent'[p].files = agent[p].files
         /\ \A m \in Migs : Used(m)' = Used(m)
<1>. USE DEF IInv
<1>1. Source \in Pods /\ \A m \in Migs : m \in Pods /\ m # Source
  BY DEF Pods
<1>2. agent \in [Pods -> Agents] /\ pods \in [Pods -> {"unused", "running", "exited", "terminated"}]
  BY DEF Types
<1>3. agent' \in [Pods -> Agents] /\ \A p \in Pods : agent'[p].files = agent[p].files
  <2>1. ASSUME NEW p \in Pods, NEW on \in BOOLEAN, Seal(p, on)
        PROVE  agent' \in [Pods -> Agents] /\ \A q \in Pods : agent'[q].files = agent[q].files
    BY <1>2, <2>1 DEF Seal, Agents
  <2>. QED
    BY <1>2, <2>1 DEF Remote
<1>4. /\ pods' \in [Pods -> {"unused", "running", "exited", "terminated"}]
      /\ \A p \in Pods : Used(p)' = Used(p)
      /\ pods'[Source] = "terminated" =>
           pods[Source] = "terminated" \/ \E m \in Migs : Proven(m)
  <2>1. ASSUME NEW p \in Pods, NEW s \in {"exited", "terminated"}, Used(p), Put(p, s)
        PROVE  /\ pods' \in [Pods -> {"unused", "running", "exited", "terminated"}]
               /\ \A q \in Pods : Used(q)' = Used(q)
               /\ pods'[Source] = "terminated" => pods[Source] = "terminated" \/ (p = Source /\ s = "terminated")
    BY <1>1, <1>2, <2>1 DEF Put, Used
  <2>2. CASE UNCHANGED pods
    BY <1>2, <2>2 DEF Used
  <2>. QED
    BY <2>1, <2>2 DEF Remote
<1>5. ASSUME NEW m \in Migs PROVE Grows(m)
  <2>1. \A f \in Listed : Len(staged[m][f]) \in Nat
    BY StagedTypes DEF Types, Listed, Paths
  <2>. QED
    BY <1>1, <1>3, <1>4, <2>1 DEF Grows, Kept
<1>6. \A f \in Listed : agent'[Source].files[f] \in Contents
  BY <1>1, <1>3 DEF RowInv
<1>. QED
  BY <1>1, <1>3, <1>4, <1>5, <1>6 DEF StepEnv

LEMMA CallKeeps ==
  ASSUME IInv, Remote, Saves, SavesRow, UNCHANGED <<manifest, staged, writer, writes>>,
         secret' \in Pods \cup {None}, tsecrets' \in SUBSET Migs, UNCHANGED faults \/ Fault,
         NEW c \in Calls, NEW k \in CallRecords, call' = [call EXCEPT ![c] = k],
         CallOK(k), ~(k.op = "create" /\ k.at = "target")
  PROVE  IInv' /\ OnlyImported
<1>1. /\ StepEnv({})
      /\ pods' \in [Pods -> {"unused", "running", "exited", "terminated"}]
      /\ agent' \in [Pods -> Agents]
      /\ \A p \in Pods : agent'[p].files = agent[p].files
      /\ \A m \in Migs : Used(m)' = Used(m)
  BY RemoteEnv
<1>2. StepTypes
  BY <1>1 DEF StepTypes, Fault, IInv, Types
<1>3. ASSUME NEW m \in Migs, NEW f \in Paths PROVE Kept(m, f)' = Kept(m, f)
  <2>1. agent'[m].files = agent[m].files
    BY <1>1 DEF Pods
  <2>. QED
    BY <2>1 DEF Kept
<1>4. \A m \in Migs : Holds(m)' = Holds(m)
  BY <1>3 DEF Holds
<1>5. \A m \in Migs : Proven(m)' = Proven(m)
  BY <1>1, <1>4 DEF Proven
<1>6. ASSUME NEW m \in Migs, NEW r \in Records, Sound(m, r) PROVE Sound(m, r)'
  <2>1. r.index \in 0 .. Files /\ r.offset \in Nat
    BY DEF Records
  <2>2. \A f \in 1 .. r.index : f \in Paths
    BY <2>1 DEF Paths
  <2>3. r.offset > 0 => r.index + 1 \in Paths
    BY <2>1, <1>6 DEF Sound, Received, Paths
  <2>4. Received(m, r)'
    BY <1>3, <1>6, <2>2, <2>3 DEF Sound, Received
  <2>5. Scanned(m, r)'
    <3>1. agent'[m].files = agent[m].files
      BY <1>1 DEF Pods
    <3>2. \A f \in Listed : f \in Paths
      BY DEF Listed, Paths
    <3>. QED
      BY <1>3, <1>6, <3>1, <3>2 DEF Sound, Scanned
  <2>. QED
    BY <1>1, <1>5, <1>6, <2>4, <2>5 DEF Sound
<1>7. SavesMig
  BY <1>6 DEF Saves, SavesMig
<1>8. \A m \in Migs : Started(m) => Started(m)'
  BY DEF Saves, SaveMig, Started, IInv, Types
<1>9. CallOK(k)'
  <2>1. k.m \in Migs => Started(k.m)' /\ Sound(k.m, k.copy)'
    BY <1>6, <1>8 DEF CallOK, CallRecords
  <2>2. ASSUME NEW t \in k.todo
        PROVE  Started(t[1])' /\ Sound(t[1], t[2])'
    <3>1. t[1] \in Migs /\ t[2] \in Records
      BY DEF CallRecords
    <3>. QED
      BY <1>6, <1>8, <3>1 DEF CallOK
  <2>. QED
    BY <1>5, <2>1, <2>2 DEF CallOK
<1>. QED
  BY <1>1, <1>2, <1>7, <1>9, StepKeeps

(* The end of a call.                                                      *)
LEMMA IdleRecord == Idle \in CallRecords /\ CallOK(Idle)
<1>1. NewRow \in Rows /\ NoRecord \in Records
  BY DEF NewRow, Rows, NoRecord, Records, Pods, Active
<1>2. Idle \in CallRecords
  BY <1>1 DEF Idle, CallRecords, Ops, Ats
<1>. QED
  BY <1>2 DEF Idle, CallOK, Places, NewRow, Pods

(* The next place of a call, with or without a new copy.                   *)
LEMMA AtRecord ==
  ASSUME NEW r \in CallRecords, NEW at \in Ats
  PROVE  LET k == [r EXCEPT !.at = at] IN
           /\ k \in CallRecords /\ k.at = at
           /\ k.op = r.op /\ k.m = r.m /\ k.copy = r.copy /\ k.ws = r.ws
           /\ k.data = r.data /\ k.todo = r.todo
  BY DEF CallRecords

(* A call keeps what it stands for, where its place asks for no more.      *)
LEMMA GotoKeeps ==
  ASSUME IInv, Remote, Saves, SavesRow, UNCHANGED <<manifest, staged, writer, writes>>,
         secret' \in Pods \cup {None}, tsecrets' \in SUBSET Migs, UNCHANGED faults \/ Fault,
         NEW c \in Calls, NEW at \in Ats, Goto(c, at), at \in Places[call[c].op],
         call[c].op = "create" /\ at \in {"failed", "record", "extend"} => call[c].m \in Migs,
         call[c].op = "create" => at \notin {"target", "plan"},
         call[c].op = "resume" => call[c].copy.target,
         call[c].op = "resume" => at # "write",
         call[c].op = "resume" /\ at = "judge" => call[c].copy.tman # None,
         call[c].op = "resume" /\ at \in {"stop", "release", "switch", "credential", "done"}
           => Proven(call[c].m),
         call[c].op = "stop" /\ at \in {"delete", "failed"} => call[c].m \in Migs
  PROVE  IInv' /\ OnlyImported
<1>1. call[c] \in CallRecords /\ CallOK(call[c])
  BY DEF IInv, Types, CallInv
<1>. DEFINE k == [call[c] EXCEPT !.at = at]
<1>2. call' = [call EXCEPT ![c] = k]
  BY DEF Goto, IInv, Types
<1>3. /\ k \in CallRecords /\ k.at = at
      /\ k.op = call[c].op /\ k.m = call[c].m /\ k.copy = call[c].copy /\ k.ws = call[c].ws
      /\ k.data = call[c].data /\ k.todo = call[c].todo
  BY <1>1, AtRecord
<1>. HIDE DEF k
<1>4. CallOK(k)
  BY <1>1, <1>3 DEF CallOK
<1>. QED
  BY <1>2, <1>3, <1>4, CallKeeps

LEMMA ReturnKeeps ==
  ASSUME IInv, Remote, Saves, SavesRow, UNCHANGED <<manifest, staged, writer, writes>>,
         secret' \in Pods \cup {None}, tsecrets' \in SUBSET Migs, UNCHANGED faults \/ Fault,
         NEW c \in Calls, Return(c)
  PROVE  IInv' /\ OnlyImported
<1>1. Idle.op # "create"
  BY DEF Idle
<1>. QED
  BY <1>1, IdleRecord, CallKeeps DEF Return
-----------------------------------------------------------------------------
(* The creation.                                                           *)

LEMMA CallFacts ==
  ASSUME IInv, NEW c \in Calls
  PROVE  /\ call[c] \in CallRecords /\ CallOK(call[c])
         /\ call[c].op = "create" /\ call[c].at \in {"target", "failed", "record", "extend"}
              => call[c].m \in Migs
         /\ call[c].op \in {"resume", "confirm"} => call[c].m \in Migs
         /\ call[c].op = "stop" /\ call[c].at \in {"delete", "failed"} => call[c].m \in Migs
         /\ secret \in Pods \cup {None} /\ tsecrets \in SUBSET Migs
         /\ row \in Rows /\ mig \in [Migs -> Records]
  BY DEF IInv, Types, CallInv, CallOK

LEMMA CallOfFields ==
  ASSUME NEW A, NEW B, NEW C, NEW D, NEW E, NEW F, NEW G, NEW o \in A, NEW t \in B, NEW w \in E,
         NEW i \in [op : A, at : B, m : C, copy : D, ws : E, data : F, todo : G]
  PROVE  LET k == [i EXCEPT !.op = o, !.at = t, !.ws = w]
         IN  /\ k \in [op : A, at : B, m : C, copy : D, ws : E, data : F, todo : G]
             /\ k.op = o /\ k.at = t /\ k.ws = w /\ k.m = i.m /\ k.todo = i.todo
  OBVIOUS

LEMMA CreateKeeps ==
  ASSUME IInv, NEW c \in Calls, Create(c)
  PROVE  IInv' /\ OnlyImported
<1>. USE DEF Create, stored, remote, bounds
<1>. DEFINE k == [Idle EXCEPT !.op = "create", !.at = "check", !.ws = row]
<1>1. Idle \in CallRecords /\ CallOK(Idle)
  BY IdleRecord
<1>2. /\ k \in CallRecords /\ k.op = "create" /\ k.at = "check" /\ k.ws = row
      /\ k.m = None /\ k.todo = {}
  <2>. DEFINE C == Migs \cup {None}
              F == Contents \cup {None} \cup Manifests
              G == SUBSET (Migs \X Records)
  <2>1. CallRecords = [op : Ops, at : Ats, m : C, copy : Records, ws : Rows, data : F, todo : G]
    BY DEF CallRecords
  <2>2. "create" \in Ops /\ "check" \in Ats
    BY DEF Ops, Ats
  <2>3. Idle.m = None /\ Idle.todo = {}
    BY DEF Idle
  <2>. HIDE DEF C, F, G
  <2>4. row \in Rows /\ Idle \in CallRecords
    BY <1>1, CallFacts
  <2>5. /\ k \in CallRecords /\ k.op = "create" /\ k.at = "check" /\ k.ws = row
        /\ k.m = Idle.m /\ k.todo = Idle.todo
    BY ONLY <2>1, <2>2, <2>4, CallOfFields
  <2>6. QED
    BY ONLY <2>3, <2>5
<1>3. row.pod \in Migs => Proven(row.pod)
  BY DEF IInv, RowInv
<1>. HIDE DEF k
<1>4. CallOK(k)
  BY <1>2, <1>3 DEF CallOK, Places, Pods
<1>5. call' = [call EXCEPT ![c] = k]
  BY DEF k
<1>. QED
  BY <1>2, <1>4, <1>5, CallFacts, CallKeeps DEF Remote, Saves, SavesRow

LEMMA CreateChecksKeeps ==
  ASSUME IInv, NEW c \in Calls, CreateChecks(c)
  PROVE  IInv' /\ OnlyImported
<1>. USE CallFacts DEF CreateChecks, At, stored, remote, bounds, Remote, Saves, SavesRow, Places, Ats
<1>1. CASE Ongoing = {}
  BY <1>1, GotoKeeps
<1>2. CASE Ongoing # {}
  BY <1>2, ReturnKeeps
<1>. QED
  BY <1>1, <1>2

(* A seal or its removal at an agent that answers, or not.                 *)
LEMMA SealRemote ==
  ASSUME NEW p \in Pods, NEW on \in BOOLEAN, UNCHANGED pods,
         Answered(Up(p), Seal(p, on)) \/ Lost(Up(p), Seal(p, on), UNCHANGED agent)
  PROVE  Remote /\ (UNCHANGED faults \/ Fault)
  BY DEF Answered, Lost, Remote

LEMMA CreateSealsKeeps ==
  ASSUME IInv, NEW c \in Calls, CreateSeals(c)
  PROVE  IInv' /\ OnlyImported
<1>. USE CallFacts DEF CreateSeals, At, stored, Saves, SavesRow, Places, Ats, AgentFrame
<1>0. Remote /\ (UNCHANGED faults \/ Fault)
  BY SealRemote DEF Pods
<1>1. CASE Goto(c, "scan")
  BY <1>0, <1>1, GotoKeeps
<1>2. CASE Return(c)
  BY <1>0, <1>2, ReturnKeeps
<1>. QED
  BY <1>1, <1>2

LEMMA CreateScansKeeps ==
  ASSUME IInv, NEW c \in Calls, CreateScans(c)
  PROVE  IInv' /\ OnlyImported
<1>0. call[c] \in CallRecords /\ CallOK(call[c])
  BY CallFacts
<1>1. CASE Return(c)
  BY <1>1, ReturnKeeps, CallFacts
     DEF CreateScans, stored, remote, bounds, Remote, Saves, SavesRow
<1>2. CASE ~Return(c)
  <2>1. PICK files \in Manifests :
          files = agent[Source].files /\ \A f \in Listed : files[f] \in Contents
    BY DEF IInv, Types, RowInv, Pods, Agents
  <2>. DEFINE k == [call[c] EXCEPT !.at = "plan", !.data = files]
  <2>2. /\ k \in CallRecords /\ k.at = "plan" /\ k.data = files
        /\ k.op = "create" /\ k.m = call[c].m /\ k.copy = call[c].copy /\ k.ws = call[c].ws
        /\ k.todo = call[c].todo
    <3>1. "plan" \in Ats /\ call[c].op = "create"
      BY DEF Ats, CreateScans, At
    <3>2. files \in Contents \cup {None} \cup Manifests
      BY <2>1
    <3>3. /\ k \in CallRecords /\ k.at = "plan" /\ k.data = files
          /\ k.op = call[c].op /\ k.m = call[c].m /\ k.copy = call[c].copy
          /\ k.ws = call[c].ws /\ k.todo = call[c].todo
      <4>1. call[c] \in CallRecords
        BY <1>0
      <4>. QED
        BY <3>1, <3>2, <4>1 DEF CallRecords
    <3>. QED
      BY <3>1, <3>3
  <2>3. call' = [call EXCEPT ![c] = k]
    BY <1>2, <2>1 DEF IInv, Types, CreateScans
  <2>. HIDE DEF k
  <2>4. CallOK(k)
    BY <1>0, <2>1, <2>2 DEF CallOK, Places
  <2>. QED
    BY <2>2, <2>3, <2>4, CallKeeps, CallFacts
       DEF CreateScans, stored, remote, bounds, Remote, Saves, SavesRow
<1>. QED
  BY <1>1, <1>2

LEMMA CreateUnsealsKeeps ==
  ASSUME IInv, NEW c \in Calls, CreateUnseals(c)
  PROVE  IInv' /\ OnlyImported
<1>. USE CallFacts DEF CreateUnseals, At, stored, Saves, SavesRow, Places, Ats, AgentFrame, CallRecords
<1>0. Remote /\ (UNCHANGED faults \/ Fault)
  BY SealRemote DEF Pods
<1>1. CASE Goto(c, "failed") /\ call[c].m # None
  BY <1>0, <1>1, GotoKeeps
<1>2. CASE Return(c)
  BY <1>0, <1>2, ReturnKeeps
<1>. QED
  BY <1>1, <1>2

(* A record with another state is as sound, where no proof is claimed.     *)
LEMMA StateSound ==
  ASSUME NEW m \in Migs, NEW r \in Records, Sound(m, r), NEW s \in Active \cup {"completed", "failed"}
  PROVE  LET q == [r EXCEPT !.state = s] IN
           q \in Records /\ q.state = s /\ q.target = r.target /\ Sound(m, q)
<1>. DEFINE q == [r EXCEPT !.state = s]
<1>1. /\ q \in Records /\ q.state = s /\ q.target = r.target /\ q.index = r.index
      /\ q.offset = r.offset /\ q.tman = r.tman
  BY DEF Records
<1>. HIDE DEF q
<1>2. q.state # "awaiting_confirmation"
  BY <1>1 DEF Active
<1>3. Sound(m, q)
  BY <1>1, <1>2 DEF Sound, Received, Scanned
<1>. QED
  BY <1>1, <1>3 DEF q

LEMMA FailsKeeps ==
  ASSUME IInv, NEW c \in Calls, CreateFails(c) \/ ResumeFails(c)
  PROVE  IInv' /\ OnlyImported
<1>. USE DEF CreateFails, ResumeFails
<1>1. /\ call[c].m \in Migs /\ call[c].copy \in Records
      /\ Started(call[c].m) /\ Sound(call[c].m, call[c].copy)
  BY CallFacts DEF At, CallOK, CallRecords
<1>. DEFINE r == [call[c].copy EXCEPT !.state = "failed"]
<1>2. SaveMig(call[c].m, r)
  OBVIOUS
<1>3. r \in Records /\ r.state = "failed" /\ Sound(call[c].m, r)
  <2>. HIDE DEF CreateFails, ResumeFails
  <2>. QED
    BY <1>1, StateSound
<1>. HIDE DEF r
<1>4. Saves
  BY <1>1, <1>2, <1>3 DEF Saves
<1>. QED
  BY <1>4, ReturnKeeps, CallFacts DEF remote, bounds, StoreFrame, Remote, SavesRow

LEMMA CreateRecordsKeeps ==
  ASSUME IInv, NEW c \in Calls, CreateRecords(c)
  PROVE  IInv' /\ OnlyImported
<1>. USE CallFacts DEF CreateRecords, At, remote, bounds, StoreFrame, Remote, SavesRow, Places, Ats
<1>1. /\ call[c].m \in Migs /\ call[c].copy \in Records /\ call[c].copy.state # "none"
      /\ Started(call[c].m) /\ Sound(call[c].m, call[c].copy)
  BY DEF CallOK, CallRecords
<1>2. Saves
  BY <1>1 DEF Saves
<1>. QED
  BY <1>1, <1>2, GotoKeeps

LEMMA CreateExtendsKeeps ==
  ASSUME IInv, NEW c \in Calls, CreateExtends(c)
  PROVE  IInv' /\ OnlyImported
<1>. USE CallFacts DEF CreateExtends, remote, bounds, StoreFrame, Remote, Saves
<1>1. SavesRow
  BY DEF SavesRow, CallOK, CallRecords
<1>. QED
  BY <1>1, ReturnKeeps
-----------------------------------------------------------------------------
(* The resumption, but for the chunk it imports.                           *)

LEMMA ResumeKeeps ==
  ASSUME IInv, NEW c \in Calls, NEW m \in Migs, Resume(c, m)
  PROVE  IInv' /\ OnlyImported
<1>. DEFINE k == [Idle EXCEPT !.op = "resume", !.at = "load", !.m = m, !.copy = mig[m]]
<1>1. mig[m] \in Records /\ Sound(m, mig[m]) /\ Started(m) /\ mig[m].state # "none"
  BY DEF IInv, Types, MigInv, Resume, Active, Started
<1>2. /\ k \in CallRecords /\ k.op = "resume" /\ k.at = "load" /\ k.ws = Idle.ws
      /\ k.m = m /\ k.copy = mig[m] /\ k.todo = {}
  BY <1>1, IdleRecord DEF CallRecords, Idle, Ops, Ats
<1>3. call' = [call EXCEPT ![c] = k]
  BY DEF Resume
<1>4. Idle.ws.pod \notin Migs
  BY DEF Idle, NewRow
<1>. HIDE DEF k
<1>5. CallOK(k)
  BY <1>1, <1>2, <1>4 DEF CallOK, Places
<1>. QED
  BY <1>2, <1>3, <1>5, CallFacts, CallKeeps
     DEF Resume, stored, remote, bounds, Remote, Saves, SavesRow

LEMMA EntryPlace ==
  ASSUME NEW s
  PROVE  Entry(s) \in {"seal", "read", "manifest"}
  BY DEF Entry

LEMMA ResumeLoadsKeeps ==
  ASSUME IInv, NEW c \in Calls, ResumeLoads(c)
  PROVE  IInv' /\ OnlyImported
<1>0. /\ call[c] \in CallRecords /\ CallOK(call[c]) /\ call[c].op = "resume"
      /\ row \in Rows /\ (row.pod \in Migs => Proven(row.pod))
  BY CallFacts DEF ResumeLoads, At, IInv, RowInv
<1>1. CASE Return(c)
  BY <1>1, ReturnKeeps, CallFacts
     DEF ResumeLoads, stored, remote, bounds, Remote, Saves, SavesRow
<1>2. CASE ~Return(c)
  <2>1. PICK at \in {"seal", "read", "manifest"} : at = Entry(call[c].copy.state)
    BY EntryPlace
  <2>. DEFINE k == [call[c] EXCEPT !.at = at, !.ws = row]
  <2>2. call' = [call EXCEPT ![c] = k] /\ call[c].copy.target
    BY <1>2, <2>1 DEF ResumeLoads, IInv, Types
  <2>3. /\ k \in CallRecords /\ k.at = at /\ k.ws = row
        /\ k.op = "resume" /\ k.m = call[c].m /\ k.copy = call[c].copy /\ k.todo = call[c].todo
    <3>1. at \in Ats /\ call[c] \in CallRecords
      BY <1>0 DEF Ats
    <3>. QED
      BY <1>0, <3>1 DEF CallRecords
  <2>. HIDE DEF k
  <2>4. CallOK(k)
    BY <1>0, <2>2, <2>3 DEF CallOK, Places
  <2>. QED
    BY <2>2, <2>3, <2>4, CallKeeps, CallFacts
       DEF ResumeLoads, stored, remote, bounds, Remote, Saves, SavesRow
<1>. QED
  BY <1>1, <1>2

(* A new copy: sound for the same migration, whose target is there.        *)
LEMMA CopiesKeeps ==
  ASSUME IInv, Remote, Saves, SavesRow, UNCHANGED <<manifest, staged, writer, writes>>,
         secret' \in Pods \cup {None}, tsecrets' \in SUBSET Migs, UNCHANGED faults \/ Fault,
         NEW c \in Calls, call[c].op = "resume",
         NEW at \in {"save", "judge"}, NEW copy \in Records, Copies(c, at, copy),
         copy.target, copy.state # "none", Sound(call[c].m, copy),
         at = "judge" => copy.tman # None
  PROVE  IInv' /\ OnlyImported
<1>0. call[c] \in CallRecords /\ CallOK(call[c])
  BY CallFacts
<1>. DEFINE k == [call[c] EXCEPT !.at = at, !.copy = copy]
<1>1. call' = [call EXCEPT ![c] = k]
  BY DEF Copies, IInv, Types
<1>2. /\ k \in CallRecords /\ k.at = at /\ k.copy = copy
      /\ k.op = "resume" /\ k.m = call[c].m /\ k.ws = call[c].ws /\ k.todo = call[c].todo
  <2>1. at \in Ats /\ call[c] \in CallRecords
    BY <1>0 DEF Ats
  <2>. QED
    BY <1>0, <2>1 DEF CallRecords
<1>. HIDE DEF k
<1>3. CallOK(k)
  BY <1>0, <1>2 DEF CallOK, Places
<1>. QED
  BY <1>1, <1>2, <1>3, CallKeeps

LEMMA ResumeFacts ==
  ASSUME IInv, NEW c \in Calls, call[c].op = "resume"
  PROVE  /\ call[c].m \in Migs /\ Started(call[c].m)
         /\ call[c].copy \in Records /\ call[c].copy.state # "none"
         /\ Sound(call[c].m, call[c].copy)
         /\ call[c].at # "load" => call[c].copy.target
         /\ call[c].at = "judge" => call[c].copy.tman # None
         /\ call[c].at \in {"stop", "release", "switch", "credential", "done"} => Proven(call[c].m)
         /\ call[c].ws \in Rows
  BY CallFacts DEF CallOK, CallRecords

LEMMA ResumeSealsKeeps ==
  ASSUME IInv, NEW c \in Calls, ResumeSeals(c)
  PROVE  IInv' /\ OnlyImported
<1>0. call[c].op = "resume" /\ call[c].at = "seal"
  BY DEF ResumeSeals, At
<1>1. Remote /\ (UNCHANGED faults \/ Fault) /\ Saves /\ SavesRow
      /\ UNCHANGED <<manifest, staged, writer, writes, secret, tsecrets>>
  BY <1>0, ResumeFacts, SealRemote DEF ResumeSeals, Pods, AgentFrame, stored, Saves, SavesRow
<1>2. CASE Return(c)
  BY <1>1, <1>2, ReturnKeeps, CallFacts
<1>3. CASE ~Return(c)
  <2>. DEFINE r == [call[c].copy EXCEPT !.state = "copying"]
  <2>1. Copies(c, "save", r)
    BY <1>3 DEF ResumeSeals
  <2>2. r \in Records /\ r.state = "copying" /\ r.target = call[c].copy.target /\ Sound(call[c].m, r)
    BY <1>0, ResumeFacts, StateSound DEF Active
  <2>. HIDE DEF r
  <2>. QED
    BY <1>0, <1>1, <2>1, <2>2, ResumeFacts, CallFacts, CopiesKeeps
<1>. QED
  BY <1>2, <1>3

LEMMA ResumeSavesKeeps ==
  ASSUME IInv, NEW c \in Calls, ResumeSaves(c)
  PROVE  IInv' /\ OnlyImported
<1>0. call[c].op = "resume" /\ call[c].at = "save"
  BY DEF ResumeSaves, At
<1>1. Saves
  BY <1>0, ResumeFacts DEF ResumeSaves, Saves
<1>2. /\ Remote /\ SavesRow
      /\ UNCHANGED <<manifest, staged, writer, writes, secret, tsecrets, faults>>
  BY DEF ResumeSaves, StoreFrame, remote, bounds, Remote, SavesRow
<1>3. CASE Return(c)
  BY <1>1, <1>2, <1>3, ReturnKeeps, CallFacts
<1>4. CASE Goto(c, Entry(call[c].copy.state))
  <2>1. PICK at \in {"seal", "read", "manifest"} : at = Entry(call[c].copy.state)
    BY EntryPlace
  <2>2. at \in Ats /\ at \in Places["resume"] /\ Goto(c, at)
    BY <1>4, <2>1 DEF Ats, Places
  <2>. QED
    BY <1>0, <1>1, <1>2, <2>1, <2>2, GotoKeeps, CallFacts, ResumeFacts
<1>. QED
  BY <1>3, <1>4 DEF ResumeSaves

LEMMA ResumeScansKeeps ==
  ASSUME IInv, NEW c \in Calls, ResumeScans(c)
  PROVE  IInv' /\ OnlyImported
<1>0. call[c].op = "resume" /\ call[c].at = "manifest"
  BY DEF ResumeScans, At
<1>1. /\ Remote /\ SavesRow /\ Saves /\ (UNCHANGED faults \/ Fault)
      /\ UNCHANGED <<manifest, staged, writer, writes, secret, tsecrets>>
  BY DEF ResumeScans, stored, remote, Remote, SavesRow, Saves, Answered, Lost
<1>2. CASE Return(c)
  BY <1>1, <1>2, ReturnKeeps, CallFacts
<1>3. CASE call[c].copy.tman # None /\ Goto(c, "judge")
  <2>1. "judge" \in Ats /\ "judge" \in Places["resume"]
    BY DEF Ats, Places
  <2>. QED
    BY <1>0, <1>1, <1>3, <2>1, GotoKeeps, CallFacts, ResumeFacts
<1>4. CASE call[c].copy.tman = None /\ ~Return(c)
  <2>. DEFINE m == call[c].m
  <2>1. /\ m \in Migs /\ call[c].copy \in Records /\ call[c].copy.state # "none"
        /\ Sound(m, call[c].copy) /\ call[c].copy.target
    BY <1>0, ResumeFacts
  <2>2. agent[m].files \in Manifests /\ agent[m].files # None
    BY <2>1, ManifestsAssumption DEF IInv, Types, Agents, Pods
  <2>. DEFINE r == [call[c].copy EXCEPT !.tman = agent[m].files]
  <2>3. Copies(c, "judge", r)
    BY <1>4 DEF ResumeScans
  <2>4. /\ r \in Records /\ r.tman = agent[m].files /\ r.state = call[c].copy.state
        /\ r.target = call[c].copy.target /\ r.index = call[c].copy.index
        /\ r.offset = call[c].copy.offset
    BY <2>1, <2>2 DEF Records
  <2>. HIDE DEF r
  <2>5. Sound(m, r)
    BY <2>1, <2>4 DEF Sound, Received, Scanned
  <2>. QED
    BY <1>0, <1>1, <2>1, <2>2, <2>3, <2>4, <2>5, CallFacts, CopiesKeeps
<1>. QED
  BY <1>2, <1>3, <1>4 DEF ResumeScans

(* What matches is proven, however it has grown since it was scanned.      *)
LEMMA MatchProves ==
  ASSUME IInv, NEW m \in Migs, NEW r \in Records, Sound(m, r), Started(m), r.tman # None,
         Matches(m, r.tman)
  PROVE  Proven(m)
<1>1. Used(m)
  BY DEF Sound, Scanned
<1>2. \A f \in Paths : f = 0 \/ f \in Listed
  BY DEF Paths, Listed
<1>3. \A f \in Paths : Kept(m, f)
  BY <1>2 DEF Sound, Scanned, Matches, Kept
<1>4. manifest[m][1] # None
  BY DEF IInv, MigInv, Listed, Contents
<1>5. manifest[m] # NoFiles
  BY <1>4 DEF NoFiles, Paths
<1>. QED
  BY <1>1, <1>3, <1>5 DEF Proven, Holds

LEMMA ResumeJudgesKeeps ==
  ASSUME IInv, NEW c \in Calls, ResumeJudges(c)
  PROVE  IInv' /\ OnlyImported
<1>0. call[c].op = "resume" /\ call[c].at = "judge"
  BY DEF ResumeJudges, At
<1>1. Saves
  BY <1>0, ResumeFacts DEF ResumeJudges, Saves
<1>2. /\ Remote /\ SavesRow
      /\ UNCHANGED <<manifest, staged, writer, writes, secret, tsecrets, faults>>
  BY DEF ResumeJudges, StoreFrame, remote, bounds, Remote, SavesRow
<1>3. {"stop", "mismatch"} \subseteq Ats /\ {"stop", "mismatch"} \subseteq Places["resume"]
  BY DEF Ats, Places
<1>4. CASE Matches(call[c].m, call[c].copy.tman) /\ Goto(c, "stop")
  <2>1. Proven(call[c].m)
    BY <1>0, <1>4, ResumeFacts, MatchProves
  <2>. QED
    BY <1>0, <1>1, <1>2, <1>3, <1>4, <2>1, GotoKeeps, CallFacts, ResumeFacts
<1>5. CASE Goto(c, "mismatch")
  BY <1>0, <1>1, <1>2, <1>3, <1>5, GotoKeeps, CallFacts, ResumeFacts
<1>. QED
  BY <1>4, <1>5 DEF ResumeJudges

(* The source answers, or not, when its chunk is read.                     *)
LEMMA ResumeReadsKeeps ==
  ASSUME IInv, NEW c \in Calls, ResumeReads(c)
  PROVE  IInv' /\ OnlyImported
<1>0. call[c].op = "resume" /\ call[c].at = "read"
  BY DEF ResumeReads, At
<1>1. /\ Remote /\ SavesRow /\ Saves /\ (UNCHANGED faults \/ Fault)
      /\ UNCHANGED <<manifest, staged, writer, writes, secret, tsecrets>>
  BY DEF ResumeReads, stored, remote, Remote, SavesRow, Saves, Answered, Lost
<1>2. /\ call[c].m \in Migs /\ call[c].copy \in Records /\ call[c].copy.state # "none"
      /\ Sound(call[c].m, call[c].copy) /\ call[c].copy.target
  BY <1>0, ResumeFacts
<1>3. CASE Return(c)
  BY <1>1, <1>3, ReturnKeeps, CallFacts
<1>4. CASE call[c].copy.index = Files /\ ~Return(c)
  <2>. DEFINE r == [call[c].copy EXCEPT !.state = "verifying"]
  <2>1. Copies(c, "save", r)
    BY <1>4 DEF ResumeReads
  <2>2. r \in Records /\ r.state = "verifying" /\ r.target = call[c].copy.target /\ Sound(call[c].m, r)
    BY <1>2, StateSound DEF Active
  <2>. HIDE DEF r
  <2>. QED
    BY <1>0, <1>1, <1>2, <2>1, <2>2, CallFacts, CopiesKeeps
<1>5. CASE call[c].copy.index # Files /\ ~Return(c)
  <2>1. call[c].copy.index < Files /\ call[c].copy.index + 1 \in Listed
    BY <1>2, <1>5 DEF Records, Listed
  <2>2. PICK data \in Contents : data = agent[Source].files[call[c].copy.index + 1]
    BY <2>1 DEF IInv, RowInv
  <2>. DEFINE k == [call[c] EXCEPT !.at = "write", !.data = data]
  <2>3. call' = [call EXCEPT ![c] = k]
    BY <1>5, <2>2 DEF ResumeReads, IInv, Types
  <2>4. call[c] \in CallRecords /\ CallOK(call[c])
    BY CallFacts
  <2>5. /\ k \in CallRecords /\ k.at = "write" /\ k.data = data
        /\ k.op = "resume" /\ k.m = call[c].m /\ k.copy = call[c].copy /\ k.ws = call[c].ws
        /\ k.todo = call[c].todo
    <3>1. "write" \in Ats /\ data \in Contents \cup {None} \cup Manifests
      BY DEF Ats
    <3>. QED
      BY <1>0, <2>4, <3>1 DEF CallRecords
  <2>. HIDE DEF k
  <2>6. CallOK(k)
    BY <1>2, <2>1, <2>4, <2>5 DEF CallOK, Places
  <2>. QED
    BY <1>1, <2>3, <2>5, <2>6, CallKeeps, CallFacts
<1>. QED
  BY <1>3, <1>4, <1>5

(* A request to stop or delete a pod the provider knows.                   *)
LEMMA PutRemote ==
  ASSUME IInv, NEW p \in Pods \cup {None}, NEW s \in {"exited", "terminated"}, UNCHANGED agent,
         p = Source /\ s = "terminated" => \E m \in Migs : Proven(m),
         Answered(Known(p), Put(p, s)) \/ Lost(Known(p), Put(p, s), UNCHANGED pods)
  PROVE  Remote /\ (UNCHANGED faults \/ Fault)
<1>1. Known(p) => p \in Pods /\ Used(p)
  BY DEF Known, Used
<1>. QED
  BY <1>1 DEF Answered, Lost, Remote

LEMMA ResumeDeletesTargetKeeps ==
  ASSUME IInv, NEW c \in Calls, ResumeDeletesTarget(c)
  PROVE  IInv' /\ OnlyImported
<1>0. call[c].op = "resume" /\ call[c].at = "mismatch"
  BY DEF ResumeDeletesTarget, At
<1>1. call[c].m \in Migs /\ call[c].m \in Pods /\ call[c].m # Source
  BY <1>0, ResumeFacts DEF Pods
<1>2. Remote /\ (UNCHANGED faults \/ Fault)
  BY <1>1, PutRemote DEF ResumeDeletesTarget
<1>3. /\ SavesRow /\ Saves /\ tsecrets' \in SUBSET Migs
      /\ UNCHANGED <<manifest, staged, writer, writes, secret>>
  BY CallFacts DEF ResumeDeletesTarget, SavesRow, Saves
<1>4. "unseal" \in Ats /\ "unseal" \in Places["resume"]
  BY DEF Ats, Places
<1>5. CASE Goto(c, "unseal")
  BY <1>0, <1>2, <1>3, <1>4, <1>5, GotoKeeps, CallFacts, ResumeFacts
<1>6. CASE Return(c)
  BY <1>2, <1>3, <1>6, ReturnKeeps, CallFacts
<1>. QED
  BY <1>5, <1>6 DEF ResumeDeletesTarget

LEMMA ResumeUnsealsSourceKeeps ==
  ASSUME IInv, NEW c \in Calls, ResumeUnsealsSource(c)
  PROVE  IInv' /\ OnlyImported
<1>0. call[c].op = "resume" /\ call[c].at = "unseal"
  BY DEF ResumeUnsealsSource, At
<1>1. Remote /\ (UNCHANGED faults \/ Fault) /\ Saves /\ SavesRow
      /\ UNCHANGED <<manifest, staged, writer, writes, secret, tsecrets>>
  BY SealRemote DEF ResumeUnsealsSource, Pods, AgentFrame, stored, Saves, SavesRow
<1>2. "failed" \in Ats /\ "failed" \in Places["resume"]
  BY DEF Ats, Places
<1>3. CASE Goto(c, "failed")
  BY <1>0, <1>1, <1>2, <1>3, GotoKeeps, CallFacts, ResumeFacts
<1>4. CASE Return(c)
  BY <1>1, <1>4, ReturnKeeps, CallFacts
<1>. QED
  BY <1>3, <1>4 DEF ResumeUnsealsSource

LEMMA ResumeStopsSourceKeeps ==
  ASSUME IInv, NEW c \in Calls, ResumeStopsSource(c)
  PROVE  IInv' /\ OnlyImported
<1>0. call[c].op = "resume" /\ call[c].at = "stop"
  BY DEF ResumeStopsSource, At
<1>1. Remote /\ (UNCHANGED faults \/ Fault)
  BY PutRemote DEF ResumeStopsSource, ProviderFrame, Pods
<1>2. Saves /\ SavesRow /\ UNCHANGED <<manifest, staged, writer, writes, secret, tsecrets>>
  BY DEF ResumeStopsSource, ProviderFrame, stored, Saves, SavesRow
<1>3. "release" \in Ats /\ "release" \in Places["resume"]
  BY DEF Ats, Places
<1>4. CASE Goto(c, "release")
  BY <1>0, <1>1, <1>2, <1>3, <1>4, GotoKeeps, CallFacts, ResumeFacts
<1>5. CASE Return(c)
  BY <1>1, <1>2, <1>5, ReturnKeeps, CallFacts
<1>. QED
  BY <1>4, <1>5 DEF ResumeStopsSource

LEMMA ResumeUnsealsTargetKeeps ==
  ASSUME IInv, NEW c \in Calls, ResumeUnsealsTarget(c)
  PROVE  IInv' /\ OnlyImported
<1>0. call[c].op = "resume" /\ call[c].at = "release"
  BY DEF ResumeUnsealsTarget, At
<1>1. call[c].m \in Pods
  BY <1>0, ResumeFacts DEF Pods
<1>2. Remote /\ (UNCHANGED faults \/ Fault) /\ Saves /\ SavesRow
      /\ UNCHANGED <<manifest, staged, writer, writes, secret, tsecrets>>
  BY <1>1, SealRemote DEF ResumeUnsealsTarget, AgentFrame, stored, Saves, SavesRow
<1>3. "switch" \in Ats /\ "switch" \in Places["resume"]
  BY DEF Ats, Places
<1>4. CASE Goto(c, "switch")
  BY <1>0, <1>2, <1>3, <1>4, GotoKeeps, CallFacts, ResumeFacts
<1>5. CASE Return(c)
  BY <1>2, <1>5, ReturnKeeps, CallFacts
<1>. QED
  BY <1>4, <1>5 DEF ResumeUnsealsTarget

LEMMA ResumeSwitchesKeeps ==
  ASSUME IInv, NEW c \in Calls, ResumeSwitches(c)
  PROVE  IInv' /\ OnlyImported
<1>0. call[c].op = "resume" /\ call[c].at = "switch"
  BY DEF ResumeSwitches, At
<1>1. /\ Remote /\ Saves
      /\ UNCHANGED <<manifest, staged, writer, writes, secret, tsecrets, faults>>
  BY DEF ResumeSwitches, StoreFrame, remote, bounds, Remote, Saves
<1>2. call[c].ws \in Rows /\ call[c].m \in Migs /\ Proven(call[c].m)
  BY <1>0, ResumeFacts
<1>3. row' \in Rows /\ row'.pod = call[c].m
  BY <1>2 DEF ResumeSwitches, Rows, Pods
<1>4. "credential" \in Ats /\ "credential" \in Places["resume"]
  BY DEF Ats, Places
<1>. QED
  BY <1>0, <1>1, <1>2, <1>3, <1>4, GotoKeeps, CallFacts, ResumeFacts DEF ResumeSwitches, SavesRow

LEMMA ResumeHandsOverKeeps ==
  ASSUME IInv, NEW c \in Calls, ResumeHandsOver(c)
  PROVE  IInv' /\ OnlyImported
<1>0. call[c].op = "resume" /\ call[c].at = "credential"
  BY DEF ResumeHandsOver, At
<1>1. Remote /\ Saves /\ SavesRow /\ UNCHANGED <<manifest, staged, writer, writes, faults>>
  BY DEF ResumeHandsOver, StoreFrame, remote, bounds, Remote, Saves, SavesRow
<1>2. secret' \in Pods \cup {None} /\ tsecrets' \in SUBSET Migs
  BY <1>0, CallFacts DEF ResumeHandsOver, Pods
<1>3. "done" \in Ats /\ "done" \in Places["resume"]
  BY DEF Ats, Places
<1>. QED
  BY <1>0, <1>1, <1>2, <1>3, GotoKeeps, ResumeFacts DEF ResumeHandsOver

LEMMA ResumeEndsKeeps ==
  ASSUME IInv, NEW c \in Calls, ResumeEnds(c)
  PROVE  IInv' /\ OnlyImported
<1>0. call[c].op = "resume" /\ call[c].at = "done"
  BY DEF ResumeEnds, At
<1>1. /\ Remote /\ SavesRow
      /\ UNCHANGED <<manifest, staged, writer, writes, secret, tsecrets, faults>>
  BY DEF ResumeEnds, StoreFrame, remote, bounds, Remote, SavesRow
<1>. DEFINE m == call[c].m
            r == [call[c].copy EXCEPT !.state = "awaiting_confirmation"]
<1>2. /\ m \in Migs /\ Started(m) /\ call[c].copy \in Records
      /\ Sound(m, call[c].copy) /\ Proven(m)
  BY <1>0, ResumeFacts
<1>3. SaveMig(m, r)
  BY DEF ResumeEnds
<1>4. /\ r \in Records /\ r.state = "awaiting_confirmation" /\ r.target = call[c].copy.target
      /\ r.index = call[c].copy.index /\ r.offset = call[c].copy.offset /\ r.tman = call[c].copy.tman
  BY <1>2 DEF Records
<1>. HIDE DEF r
<1>5. Sound(m, r)
  BY <1>2, <1>4 DEF Sound, Received, Scanned
<1>6. Saves
  BY <1>2, <1>3, <1>4, <1>5 DEF Saves
<1>. QED
  BY <1>1, <1>6, ReturnKeeps, CallFacts DEF ResumeEnds
-----------------------------------------------------------------------------
(* The confirmation.                                                       *)

LEMMA ConfirmKeeps ==
  ASSUME IInv, NEW c \in Calls, NEW m \in Migs, Confirm(c, m)
  PROVE  IInv' /\ OnlyImported
<1>. DEFINE k == [Idle EXCEPT !.op = "confirm", !.at = "delete", !.m = m, !.copy = mig[m], !.ws = row]
<1>1. /\ mig[m] \in Records /\ Sound(m, mig[m]) /\ Started(m) /\ mig[m].state # "none"
      /\ Proven(m) /\ row \in Rows /\ (row.pod \in Migs => Proven(row.pod))
  BY DEF IInv, Types, MigInv, RowInv, Confirm, Started, Sound
<1>2. /\ k \in CallRecords /\ k.op = "confirm" /\ k.at = "delete" /\ k.ws = row
      /\ k.m = m /\ k.copy = mig[m] /\ k.todo = {}
  BY <1>1, IdleRecord DEF CallRecords, Idle, Ops, Ats
<1>3. call' = [call EXCEPT ![c] = k]
  BY DEF Confirm
<1>. HIDE DEF k
<1>4. CallOK(k)
  BY <1>1, <1>2 DEF CallOK, Places
<1>. QED
  BY <1>2, <1>3, <1>4, CallFacts, CallKeeps
     DEF Confirm, stored, remote, bounds, Remote, Saves, SavesRow

LEMMA ConfirmDeletesKeeps ==
  ASSUME IInv, NEW c \in Calls, ConfirmDeletes(c)
  PROVE  IInv' /\ OnlyImported
<1>0. call[c].op = "confirm" /\ call[c].at = "delete" /\ call[c].m \in Migs /\ Proven(call[c].m)
  BY CallFacts DEF ConfirmDeletes, At, CallOK
<1>1. Remote /\ (UNCHANGED faults \/ Fault)
  BY <1>0, PutRemote DEF ConfirmDeletes, ProviderFrame, Pods
<1>2. Saves /\ SavesRow /\ UNCHANGED <<manifest, staged, writer, writes, secret, tsecrets>>
  BY DEF ConfirmDeletes, ProviderFrame, stored, Saves, SavesRow
<1>3. "row" \in Ats /\ "row" \in Places["confirm"]
  BY DEF Ats, Places
<1>4. CASE Goto(c, "row")
  BY <1>0, <1>1, <1>2, <1>3, <1>4, GotoKeeps, CallFacts
<1>5. CASE Return(c)
  BY <1>1, <1>2, <1>5, ReturnKeeps, CallFacts
<1>. QED
  BY <1>4, <1>5 DEF ConfirmDeletes

LEMMA ConfirmSavesKeeps ==
  ASSUME IInv, NEW c \in Calls, ConfirmSaves(c)
  PROVE  IInv' /\ OnlyImported
<1>0. call[c].op = "confirm" /\ call[c].at = "row"
  BY DEF ConfirmSaves, At
<1>1. /\ Remote /\ Saves
      /\ UNCHANGED <<manifest, staged, writer, writes, secret, tsecrets, faults>>
  BY DEF ConfirmSaves, StoreFrame, remote, bounds, Remote, Saves
<1>2. call[c].ws \in Rows /\ (call[c].ws.pod \in Migs => Proven(call[c].ws.pod))
  BY CallFacts DEF CallOK, CallRecords
<1>3. row' \in Rows /\ row'.pod = call[c].ws.pod
  BY <1>2 DEF ConfirmSaves, Rows
<1>4. "done" \in Ats /\ "done" \in Places["confirm"]
  BY DEF Ats, Places
<1>. QED
  BY <1>0, <1>1, <1>2, <1>3, <1>4, GotoKeeps, CallFacts DEF ConfirmSaves, SavesRow

LEMMA ConfirmEndsKeeps ==
  ASSUME IInv, NEW c \in Calls, ConfirmEnds(c)
  PROVE  IInv' /\ OnlyImported
<1>1. /\ Remote /\ SavesRow
      /\ UNCHANGED <<manifest, staged, writer, writes, secret, tsecrets, faults>>
  BY DEF ConfirmEnds, StoreFrame, remote, bounds, Remote, SavesRow
<1>. DEFINE m == call[c].m
            r == [call[c].copy EXCEPT !.state = "completed"]
<1>2. m \in Migs /\ Started(m) /\ call[c].copy \in Records /\ Sound(m, call[c].copy)
  BY CallFacts DEF ConfirmEnds, At, CallOK, CallRecords
<1>3. SaveMig(m, r)
  BY DEF ConfirmEnds
<1>4. r \in Records /\ r.state = "completed" /\ Sound(m, r)
  BY <1>2, StateSound
<1>. HIDE DEF r
<1>5. Saves
  BY <1>2, <1>3, <1>4 DEF Saves
<1>. QED
  BY <1>1, <1>5, ReturnKeeps, CallFacts DEF ConfirmEnds

-----------------------------------------------------------------------------
(* The stop.                                                               *)

LEMMA StopKeeps ==
  ASSUME IInv, NEW c \in Calls, Stop(c)
  PROVE  IInv' /\ OnlyImported
<1>. DEFINE todo == {<<m, mig[m]>> : m \in Ongoing}
            k == [Idle EXCEPT !.op = "stop", !.at = "abort", !.todo = todo]
<1>1. ASSUME NEW m \in Ongoing
      PROVE  m \in Migs /\ mig[m] \in Records /\ mig[m].state # "none" /\ Started(m) /\ Sound(m, mig[m])
  BY DEF Ongoing, Active, IInv, Types, MigInv, Started
<1>2. todo \in SUBSET (Migs \X Records)
  BY <1>1
<1>3. \A t \in todo : Started(t[1]) /\ t[2].state # "none" /\ Sound(t[1], t[2])
  BY <1>1
<1>. HIDE DEF todo
<1>4. /\ k \in CallRecords /\ k.op = "stop" /\ k.at = "abort" /\ k.ws = Idle.ws
      /\ k.m = None /\ k.todo = todo
  BY <1>2, IdleRecord DEF CallRecords, Idle, Ops, Ats
<1>5. call' = [call EXCEPT ![c] = k]
  BY DEF Stop, todo
<1>6. Idle.ws.pod \notin Migs /\ None \notin Migs
  BY DEF Idle, NewRow, Pods
<1>. HIDE DEF k
<1>7. CallOK(k)
  BY <1>3, <1>4, <1>6 DEF CallOK, Places
<1>. QED
  BY <1>4, <1>5, <1>7, CallFacts, CallKeeps
     DEF Stop, stored, remote, bounds, Remote, Saves, SavesRow

LEMMA StopUnsealsKeeps ==
  ASSUME IInv, NEW c \in Calls, StopUnseals(c)
  PROVE  IInv' /\ OnlyImported
<1>0. call[c].op = "stop" /\ call[c].at = "abort" /\ call[c] \in CallRecords /\ CallOK(call[c])
  BY CallFacts DEF StopUnseals, At
<1>1. Remote /\ (UNCHANGED faults \/ Fault) /\ Saves /\ SavesRow
      /\ UNCHANGED <<manifest, staged, writer, writes, secret, tsecrets>>
  <2>1. \/ UNCHANGED <<agent, faults>>
        \/ Answered(Up(Source), Seal(Source, FALSE))
        \/ Lost(Up(Source), Seal(Source, FALSE), UNCHANGED agent)
    BY DEF StopUnseals
  <2>2. UNCHANGED <<stored, pods, staged, writer, writes>>
    BY DEF StopUnseals, AgentFrame
  <2>. QED
    BY <2>1, <2>2, SealRemote DEF Pods, stored, Saves, SavesRow, Remote
<1>2. CASE Return(c)
  BY <1>1, <1>2, ReturnKeeps, CallFacts
<1>3. CASE ~Return(c)
  <2>1. PICK t \in call[c].todo :
          call' = [call EXCEPT ![c].at = "delete", ![c].m = t[1], ![c].copy = t[2]]
    BY <1>3 DEF StopUnseals
  <2>2. PICK m \in Migs, r \in Records : t = <<m, r>>
    BY <1>0 DEF CallRecords
  <2>3. Started(m) /\ r.state # "none" /\ Sound(m, r)
    BY <1>0, <2>2 DEF CallOK
  <2>. DEFINE k == [call[c] EXCEPT !.at = "delete", !.m = m, !.copy = r]
  <2>4. call' = [call EXCEPT ![c] = k]
    BY <2>1, <2>2 DEF IInv, Types
  <2>5. /\ k \in CallRecords /\ k.at = "delete" /\ k.op = "stop" /\ k.m = m /\ k.copy = r
        /\ k.ws = call[c].ws /\ k.todo = call[c].todo
    <3>1. "delete" \in Ats /\ call[c] \in CallRecords
      BY <1>0 DEF Ats
    <3>. QED
      BY <1>0, <3>1 DEF CallRecords
  <2>. HIDE DEF k
  <2>6. CallOK(k)
    BY <1>0, <2>3, <2>5 DEF CallOK, Places
  <2>. QED
    BY <1>1, <2>4, <2>5, <2>6, CallKeeps, CallFacts
<1>. QED
  BY <1>2, <1>3

LEMMA StopDeletesTargetKeeps ==
  ASSUME IInv, NEW c \in Calls, StopDeletesTarget(c)
  PROVE  IInv' /\ OnlyImported
<1>0. call[c].op = "stop" /\ call[c].at = "delete" /\ call[c].m \in Migs
  BY CallFacts DEF StopDeletesTarget, At
<1>1. call[c].m \in Pods /\ call[c].m # Source
  BY <1>0 DEF Pods
<1>2. Remote /\ (UNCHANGED faults \/ Fault)
  <2>1. UNCHANGED agent
    BY DEF StopDeletesTarget, ProviderFrame
  <2>2. CASE UNCHANGED <<pods, faults>>
    BY <2>1, <2>2 DEF Remote
  <2>3. CASE ~UNCHANGED <<pods, faults>>
    BY <1>1, <2>1, <2>3, PutRemote DEF StopDeletesTarget
  <2>. QED
    BY <2>2, <2>3
<1>3. Saves /\ SavesRow /\ UNCHANGED <<manifest, staged, writer, writes, secret, tsecrets>>
  BY DEF StopDeletesTarget, ProviderFrame, stored, Saves, SavesRow
<1>4. "failed" \in Ats /\ "failed" \in Places["stop"]
  BY DEF Ats, Places
<1>5. CASE Goto(c, "failed")
  BY <1>0, <1>2, <1>3, <1>4, <1>5, GotoKeeps, CallFacts
<1>6. CASE Return(c)
  BY <1>2, <1>3, <1>6, ReturnKeeps, CallFacts
<1>. QED
  BY <1>5, <1>6 DEF StopDeletesTarget

LEMMA StopFailsKeeps ==
  ASSUME IInv, NEW c \in Calls, StopFails(c)
  PROVE  IInv' /\ OnlyImported
<1>0. /\ call[c].op = "stop" /\ call[c].at = "failed"
      /\ call[c] \in CallRecords /\ CallOK(call[c])
  BY CallFacts DEF StopFails, At
<1>. DEFINE m == call[c].m
            r == [call[c].copy EXCEPT !.state = "failed"]
            todo == {t \in call[c].todo : t[1] # m}
            k == [call[c] EXCEPT !.at = "abort", !.m = None, !.copy = NoRecord, !.todo = todo]
<1>1. m \in Migs /\ Started(m) /\ call[c].copy \in Records /\ Sound(m, call[c].copy)
  BY <1>0 DEF CallOK, CallRecords
<1>2. SaveMig(m, r) /\ call' = [call EXCEPT ![c] = k] /\ tsecrets' = tsecrets \ {m}
  BY DEF StopFails, IInv, Types
<1>3. r \in Records /\ r.state = "failed" /\ Sound(m, r)
  BY <1>1, StateSound
<1>. HIDE DEF r
<1>4. Saves
  BY <1>1, <1>2, <1>3 DEF Saves
<1>5. todo \subseteq call[c].todo
  OBVIOUS
<1>. HIDE DEF todo
<1>6. /\ k \in CallRecords /\ k.at = "abort" /\ k.op = "stop" /\ k.m = None
      /\ k.ws = call[c].ws /\ k.todo = todo
  <2>1. "abort" \in Ats /\ call[c] \in CallRecords
    BY <1>0 DEF Ats
  <2>2. NoRecord \in Records
    BY DEF NoRecord, Records
  <2>. QED
    BY <1>0, <1>5, <2>1, <2>2 DEF CallRecords
<1>. HIDE DEF k
<1>7. CallOK(k)
  BY <1>0, <1>5, <1>6 DEF CallOK, Places, Pods
<1>8. /\ Remote /\ SavesRow
      /\ UNCHANGED <<manifest, staged, writer, writes, secret, faults>>
  BY DEF StopFails, StoreFrame, remote, bounds, Remote, SavesRow
<1>. QED
  BY <1>2, <1>4, <1>6, <1>7, <1>8, CallFacts, CallKeeps

LEMMA StopClaimsKeeps ==
  ASSUME IInv, NEW c \in Calls, StopClaims(c)
  PROVE  IInv' /\ OnlyImported
<1>0. /\ call[c].op = "stop" /\ call[c] \in CallRecords /\ CallOK(call[c])
      /\ row \in Rows /\ (row.pod \in Migs => Proven(row.pod))
  BY CallFacts DEF StopClaims, At, IInv, RowInv
<1>1. /\ Remote /\ Saves
      /\ UNCHANGED <<manifest, staged, writer, writes, secret, tsecrets, faults>>
  BY DEF StopClaims, StoreFrame, remote, bounds, Remote, Saves
<1>2. CASE Return(c) /\ UNCHANGED row
  BY <1>1, <1>2, ReturnKeeps, CallFacts DEF SavesRow
<1>3. CASE row.state \in {"ready", "error"}
  <2>1. row' = [row EXCEPT !.state = "stopping"] /\ call' = [call EXCEPT ![c].at = "pod", ![c].ws = row']
    BY <1>3 DEF StopClaims
  <2>2. PICK ws \in Rows : ws = row' /\ ws.pod = row.pod
    BY <1>0, <2>1 DEF Rows
  <2>. DEFINE k == [call[c] EXCEPT !.at = "pod", !.ws = ws]
  <2>3. call' = [call EXCEPT ![c] = k]
    BY <2>1, <2>2 DEF IInv, Types
  <2>4. /\ k \in CallRecords /\ k.at = "pod" /\ k.op = "stop" /\ k.m = call[c].m
        /\ k.copy = call[c].copy /\ k.ws = ws /\ k.todo = call[c].todo
    <3>1. "pod" \in Ats /\ call[c] \in CallRecords
      BY <1>0 DEF Ats
    <3>. QED
      BY <1>0, <3>1 DEF CallRecords
  <2>. HIDE DEF k
  <2>5. CallOK(k)
    BY <1>0, <2>2, <2>4 DEF CallOK, Places
  <2>6. SavesRow
    BY <1>0, <2>2 DEF SavesRow
  <2>. QED
    BY <1>1, <2>3, <2>4, <2>5, <2>6, CallFacts, CallKeeps
<1>. QED
  BY <1>2, <1>3 DEF StopClaims

LEMMA StopsPodKeeps ==
  ASSUME IInv, NEW c \in Calls, StopsPod(c)
  PROVE  IInv' /\ OnlyImported
<1>. DEFINE ws == call[c].ws
            p == ws.pod
            s == IF p = Source THEN "exited" ELSE "terminated"
<1>0. /\ call[c].op = "stop" /\ call[c].at = "pod"
      /\ call[c] \in CallRecords /\ CallOK(call[c])
      /\ ws \in Rows /\ p \in Pods \cup {None} /\ (p \in Migs => Proven(p))
  BY CallFacts DEF StopsPod, At, CallOK, CallRecords, Rows
<1>1. Remote /\ (UNCHANGED faults \/ Fault)
  <2>1. Answered(Known(p), Put(p, s)) \/ Lost(Known(p), Put(p, s), UNCHANGED pods)
    BY DEF StopsPod
  <2>2. s \in {"exited", "terminated"} /\ (p = Source => s # "terminated")
    OBVIOUS
  <2>3. UNCHANGED agent
    BY DEF StopsPod
  <2>. HIDE DEF s
  <2>. QED
    BY <1>0, <2>1, <2>2, <2>3, PutRemote
<1>2. /\ Saves /\ SavesRow /\ UNCHANGED <<manifest, staged, writer, writes, tsecrets>>
      /\ secret' \in Pods \cup {None}
  BY CallFacts DEF StopsPod, Saves, SavesRow
<1>3. PICK new \in Rows : /\ call' = [call EXCEPT ![c].at = "row", ![c].ws = new]
                          /\ new.pod \in {p, None}
  BY <1>0 DEF StopsPod, Rows
<1>. DEFINE k == [call[c] EXCEPT !.at = "row", !.ws = new]
<1>4. call' = [call EXCEPT ![c] = k]
  BY <1>3 DEF IInv, Types
<1>5. /\ k \in CallRecords /\ k.at = "row" /\ k.op = "stop" /\ k.m = call[c].m
      /\ k.copy = call[c].copy /\ k.ws = new /\ k.todo = call[c].todo
  <2>1. "row" \in Ats /\ call[c] \in CallRecords
    BY <1>0 DEF Ats
  <2>. QED
    BY <1>0, <2>1 DEF CallRecords
<1>. HIDE DEF k
<1>6. CallOK(k)
  BY <1>0, <1>3, <1>5 DEF CallOK, Places, Pods
<1>. QED
  BY <1>1, <1>2, <1>4, <1>5, <1>6, CallFacts, CallKeeps

LEMMA StopSavesKeeps ==
  ASSUME IInv, NEW c \in Calls, StopSaves(c)
  PROVE  IInv' /\ OnlyImported
<1>1. /\ Remote /\ Saves
      /\ UNCHANGED <<manifest, staged, writer, writes, secret, tsecrets, faults>>
  BY DEF StopSaves, StoreFrame, remote, bounds, Remote, Saves
<1>2. SavesRow
  BY CallFacts DEF StopSaves, SavesRow, CallOK, CallRecords
<1>. QED
  BY <1>1, <1>2, ReturnKeeps, CallFacts DEF StopSaves
-----------------------------------------------------------------------------
(* The creation's plan and target, and the import of a chunk.              *)

LEMMA IdleAfter == CallOK(Idle)'
  BY DEF Idle, CallOK, Places, NewRow, Pods

(* What the call that steps, x, stands for after the step.                 *)
LEMMA SelfStays ==
  ASSUME IInv, Types', EnvGrows, NEW c \in Calls, NEW x \in CallRecords, x = call[c]
  PROVE  /\ x.m \in Migs => Started(x.m)' /\ x.copy.state # "none" /\ Sound(x.m, x.copy)'
         /\ \A t \in x.todo : Started(t[1])' /\ t[2].state # "none" /\ Sound(t[1], t[2])'
         /\ x.ws.pod \in Migs => Proven(x.ws.pod)'
<1>1. CallOK(x)
  BY CallFacts
<1>2. CallOK(x)'
  BY <1>1, CallStays DEF IInv
<1>. QED
  BY <1>2 DEF CallOK

LEMMA CreatePlansKeeps ==
  ASSUME IInv, NEW c \in Calls, CreatePlans(c)
  PROVE  IInv' /\ OnlyImported
<1>0. /\ call[c].op = "create" /\ call[c].at = "plan"
      /\ call[c] \in CallRecords /\ CallOK(call[c])
      /\ call[c].data \in Manifests /\ \A f \in Listed : call[c].data[f] \in Contents
  BY CallFacts DEF CreatePlans, At, CallOK
<1>. DEFINE again == /\ call' = [call EXCEPT ![c].at = "unseal", ![c].data = None]
                     /\ UNCHANGED <<mig, manifest, tsecrets>>
<1>1. UNCHANGED <<row, secret, pods, agent, staged, writer, writes, faults>>
  BY DEF CreatePlans, StoreFrame, remote, bounds
<1>2. CASE again
  <2>. DEFINE k == [call[c] EXCEPT !.at = "unseal", !.data = None]
  <2>1. call' = [call EXCEPT ![c] = k]
    BY <1>2 DEF IInv, Types
  <2>2. /\ k \in CallRecords /\ k.at = "unseal" /\ k.op = "create" /\ k.m = call[c].m
        /\ k.copy = call[c].copy /\ k.ws = call[c].ws /\ k.todo = call[c].todo
    <3>1. "unseal" \in Ats /\ call[c] \in CallRecords
      BY <1>0 DEF Ats
    <3>. QED
      BY <1>0, <3>1 DEF CallRecords
  <2>. HIDE DEF k
  <2>3. CallOK(k)
    BY <1>0, <2>2 DEF CallOK, Places
  <2>. QED
    BY <1>1, <1>2, <2>1, <2>2, <2>3, CallKeeps, CallFacts DEF Remote, Saves, SavesRow
<1>3. CASE ~again
  <2>. DEFINE new == [NoRecord EXCEPT !.state = "preparing"]
  <2>1. PICK m \in Migs :
          /\ mig[m].state = "none" /\ mig' = [mig EXCEPT ![m] = new]
          /\ manifest' = [manifest EXCEPT ![m] = call[c].data]
          /\ tsecrets' = tsecrets \cup {m}
          /\ call' = [call EXCEPT ![c].at = "target", ![c].m = m, ![c].data = None, ![c].copy = new]
    <3>. HIDE DEF new
    <3>. QED
      BY <1>3 DEF CreatePlans, SaveMig, new
  <2>2. /\ new \in Records /\ new.state = "preparing" /\ ~new.target /\ new.tman = None
        /\ new.index = 0 /\ new.offset = 0
    <3>1. NoRecord \in Records
      BY IdleRecord DEF NoRecord, Records
    <3>2. /\ ~NoRecord.target /\ NoRecord.tman = None
          /\ NoRecord.index = 0 /\ NoRecord.offset = 0
      BY DEF NoRecord
    <3>3. "preparing" \in Active
      BY DEF Active
    <3>. QED
      BY <3>1, <3>2, <3>3 DEF Records
  <2>. HIDE DEF new
  <2>3. ~Started(m) /\ ~Used(m)
    BY <2>1 DEF Started, IInv, MigInv
  <2>4. \A x \in Migs : /\ mig'[x] = IF x = m THEN new ELSE mig[x]
                        /\ manifest'[x] = IF x = m THEN call[c].data ELSE manifest[x]
    BY <2>1 DEF IInv, Types
  <2>5. \A x \in Migs : Started(x)' /\ x # m => Started(x)
    BY <2>4 DEF Started
  <2>6. EnvGrows
    <3>1. \A x \in Migs, f \in Listed : Len(staged[x][f]) \in Nat
      BY StagedTypes DEF IInv, Types, Listed, Paths
    <3>. QED
      BY <1>1, <2>2, <2>3, <2>4, <3>1 DEF EnvGrows, Started, Grows, Kept, Used
  <2>7. PICK own \in CallRecords : own = call[c]
    BY <1>0
  <2>8. PICK k \in CallRecords :
          /\ call' = [call EXCEPT ![c] = k]
          /\ k.at = "target" /\ k.op = "create" /\ k.m = m /\ k.copy = new
          /\ k.ws = own.ws /\ k.todo = own.todo
    <3>. DEFINE r == [own EXCEPT !.at = "target", !.m = m, !.data = None, !.copy = new]
    <3>1. call' = [call EXCEPT ![c] = r]
      BY <2>1, <2>7 DEF IInv, Types
    <3>2. "target" \in Ats
      BY DEF Ats
    <3>3. /\ r \in CallRecords /\ r.at = "target" /\ r.op = "create" /\ r.m = m /\ r.copy = new
          /\ r.ws = own.ws /\ r.todo = own.todo
      BY <1>0, <2>2, <2>7, <3>2 DEF CallRecords
    <3>. HIDE DEF r
    <3>. QED
      BY <3>1, <3>3
  <2>9. /\ call' \in [Calls -> CallRecords]
        /\ \A d \in Calls : call'[d] = IF d = c THEN k ELSE call[d]
    BY <2>8 DEF IInv, Types
  <2>10. Types'
    <3>1. mig' \in [Migs -> Records] /\ manifest' \in [Migs -> Manifests] /\ tsecrets' \in SUBSET Migs
      BY <1>0, <2>1, <2>2 DEF IInv, Types
    <3>. QED
      BY <1>1, <2>9, <3>1 DEF IInv, Types
  <2>11. Sound(m, new)'
    BY <2>2 DEF Sound, Received, Scanned
  <2>12. \A x \in Migs : x # m => Sound(x, mig[x])'
    <3>1. SUFFICES ASSUME NEW x \in Migs, x # m PROVE Sound(x, mig[x])'
      OBVIOUS
    <3>2. PICK r \in Records : r = mig[x] /\ Sound(x, r)
      BY DEF IInv, Types, MigInv
    <3>3. Grows(x)
      <4>1. \A f \in Listed : Len(staged[x][f]) \in Nat
        BY StagedTypes DEF IInv, Types, Listed, Paths
      <4>. QED
        BY <1>1, <2>4, <3>1, <4>1 DEF Grows, Kept, Used
    <3>4. Sound(x, r)'
      BY <2>10, <3>2, <3>3, SoundStays DEF IInv
    <3>. QED
      BY <2>4, <3>1, <3>2, <3>4
  <2>13. CallOK(k)'
    <3>1. Started(m)'
      BY <2>2, <2>4 DEF Started
    <3>2. \A t \in k.todo : Started(t[1])' /\ t[2].state # "none" /\ Sound(t[1], t[2])'
      BY <2>6, <2>7, <2>8, <2>10, SelfStays
    <3>3. k.ws.pod \in Migs => Proven(k.ws.pod)'
      BY <2>6, <2>7, <2>8, <2>10, SelfStays
    <3>4. k.m \in Migs => Started(k.m)' /\ k.copy.state # "none" /\ Sound(k.m, k.copy)'
      BY <2>2, <2>8, <2>11, <3>1
    <3>. QED
      BY <2>8, <3>2, <3>3, <3>4 DEF CallOK, Places
  <2>14. CallInv'
    <3>1. SUFFICES ASSUME NEW d \in Calls PROVE CallOK(call[d])'
      BY DEF CallInv
    <3>2. CASE d = c
      <4>1. call'[d] = k
        BY <2>9, <3>2
      <4>. QED
        BY <2>13, <4>1
    <3>3. CASE d # c
      <4>1. call'[d] = call[d]
        BY <2>9, <3>3
      <4>. QED
        BY <2>6, <2>10, <4>1, OthersKeep
    <3>. QED
      BY <3>2, <3>3
  <2>15. TargetInv'
    <3>1. \A d \in Calls : d # c /\ At(d, "create", "target") => call[d].m \in Migs /\ call[d].m # m
      BY <2>3 DEF IInv, At, CallInv, CallOK
    <3>. QED
      BY <1>1, <2>3, <2>8, <2>9, <3>1 DEF IInv, TargetInv, At, Used
  <2>16. MigInv'
    <3>1. \A x \in Migs : IF Started(x)' THEN \A f \in Listed : manifest'[x][f] \in Contents ELSE ~Used(x)'
      BY <1>0, <1>1, <2>4, <2>5, <2>3 DEF IInv, MigInv, Started, Used
    <3>2. \A x \in Migs : ~Used(x)' => \A f \in Listed : agent'[x].files[f] = None
      BY <1>1 DEF IInv, MigInv, Used
    <3>. QED
      BY <2>4, <2>11, <2>12, <3>1, <3>2 DEF MigInv
  <2>17. \A x \in Migs : Proven(x) => Proven(x)'
    BY <2>6, ProvenStays DEF EnvGrows, IInv, MigInv, Proven
  <2>18. RowInv'
    BY <1>1, <2>17 DEF IInv, RowInv
  <2>19. OnlyImported
    BY <1>1 DEF OnlyImported
  <2>. QED
    BY <2>10, <2>14, <2>15, <2>16, <2>18, <2>19 DEF IInv
<1>. QED
  BY <1>2, <1>3

LEMMA CreatesTargetKeeps ==
  ASSUME IInv, NEW c \in Calls, CreatesTarget(c)
  PROVE  IInv' /\ OnlyImported
<1>0. At(c, "create", "target") /\ call[c].op = "create" /\ call[c].at = "target"
  BY DEF CreatesTarget, At
<1>1. PICK m \in Migs : m = call[c].m
  BY <1>0, CallFacts
<1>2. /\ call[c] \in CallRecords /\ call[c].copy \in Records /\ call[c].copy.state # "none"
      /\ Sound(m, call[c].copy) /\ Started(m) /\ ~Used(m)
  BY <1>0, <1>1, CallFacts DEF CallOK, CallRecords, IInv, TargetInv
<1>3. m \in Pods /\ m # Source /\ Source \in Pods /\ \A x \in Migs : x \in Pods
  BY DEF Pods
<1>4. UNCHANGED <<row, mig, manifest, secret, staged, writer, writes>> /\ tsecrets' \in SUBSET Migs
  BY CallFacts DEF CreatesTarget
<1>5. /\ UNCHANGED pods \/ Put(m, "running")
      /\ UNCHANGED faults \/ Fault
  BY <1>1 DEF CreatesTarget
<1>6. /\ pods' \in [Pods -> {"unused", "running", "exited", "terminated"}]
      /\ \A x \in Pods : x # m => pods'[x] = pods[x]
      /\ \A x \in Pods : Used(x) => Used(x)'
  BY <1>2, <1>3, <1>5 DEF Put, Used, IInv, Types
<1>7. /\ UNCHANGED agent \/ \E held \in Volumes, sealed \in BOOLEAN :
           agent' = [agent EXCEPT ![m] = [sealed |-> sealed, files |-> held]]
      /\ UNCHANGED agent \/ Put(m, "running")
  BY <1>1 DEF CreatesTarget
<1>8. /\ agent' \in [Pods -> Agents]
      /\ \A x \in Pods : x # m => agent'[x] = agent[x]
  <2>1. agent \in [Pods -> Agents] /\ Volumes \subseteq Manifests
    BY DEF IInv, Types, Volumes, Manifests, Contents
  <2>2. ASSUME NEW held \in Volumes, NEW sealed \in BOOLEAN
        PROVE  [sealed |-> sealed, files |-> held] \in Agents
    BY <2>1 DEF Agents
  <2>. QED
    BY <1>3, <1>7, <2>1, <2>2
<1>9. \A x \in Migs : Grows(x)
  <2>1. \A x \in Migs, f \in Listed : Len(staged[x][f]) \in Nat
    BY StagedTypes DEF IInv, Types, Listed, Paths
  <2>2. ASSUME NEW x \in Migs, x # m PROVE Grows(x)
    BY <1>3, <1>4, <1>6, <1>8, <2>1, <2>2 DEF Grows, Kept
  <2>3. ASSUME NEW f \in Listed PROVE ~Kept(m, f)
    <3>1. agent[m].files[f] = None /\ manifest[m][f] \in Contents
      BY <1>2 DEF IInv, MigInv
    <3>. QED
      BY <3>1 DEF Kept, Contents, Pods
  <2>4. Grows(m)
    BY <1>2, <1>4, <2>1, <2>3 DEF Grows
  <2>. QED
    BY <2>2, <2>4
<1>10. StepEnv({m})
  <2>1. \A x \in Migs : Used(x)' => Used(x) \/ x \in {m}
    BY <1>3, <1>6 DEF Used
  <2>2. ASSUME NEW x \in Migs, ~Used(x)'
        PROVE  \A f \in Listed : agent'[x].files[f] = agent[x].files[f]
    <3>1. Put(m, "running") => Used(m)'
      BY <1>3 DEF Put, Used, IInv, Types
    <3>. QED
      BY <1>3, <1>7, <1>8, <2>2, <3>1
  <2>3. pods'[Source] = pods[Source] /\ agent'[Source] = agent[Source]
    BY <1>3, <1>6, <1>8
  <2>. QED
    BY <1>4, <1>9, <2>1, <2>2, <2>3 DEF StepEnv, IInv, RowInv
<1>11. StepTypes
  BY <1>4, <1>5, <1>6, <1>8 DEF StepTypes, IInv, Types, Fault
<1>12. SavesMig /\ SavesRow
  BY <1>4 DEF SavesMig, SavesRow
<1>13. PICK at \in {"record", "unseal"}, copy \in Records :
         /\ call' = [call EXCEPT ![c].at = at, ![c].copy = copy]
         /\ copy.state = call[c].copy.state /\ copy.index = call[c].copy.index
         /\ copy.offset = call[c].copy.offset /\ copy.tman = call[c].copy.tman
         /\ copy.target => Used(m)'
  <2>1. CASE Put(m, "running") /\ Copies(c, "record", [call[c].copy EXCEPT !.target = TRUE])
    <3>. DEFINE r == [call[c].copy EXCEPT !.target = TRUE]
    <3>1. /\ r \in Records /\ r.state = call[c].copy.state /\ r.index = call[c].copy.index
          /\ r.offset = call[c].copy.offset /\ r.tman = call[c].copy.tman
      BY <1>2 DEF Records
    <3>2. Used(m)'
      BY <1>3, <2>1 DEF Put, Used, IInv, Types
    <3>3. call' = [call EXCEPT ![c].at = "record", ![c].copy = r]
      BY <2>1 DEF Copies
    <3>. HIDE DEF r
    <3>. QED
      BY <3>1, <3>2, <3>3
  <2>2. CASE Goto(c, "unseal")
    <3>1. call' = [call EXCEPT ![c].at = "unseal", ![c].copy = call[c].copy]
      BY <1>2, <2>2 DEF Goto, IInv, Types, CallRecords
    <3>2. ~call[c].copy.target
      BY <1>2 DEF Sound
    <3>. QED
      BY <1>2, <3>1, <3>2
  <2>. QED
    BY <1>1, <2>1, <2>2 DEF CreatesTarget
<1>14. PICK x \in CallRecords : x = call[c]
  BY <1>2
<1>15. PICK k \in CallRecords :
         /\ call' = [call EXCEPT ![c] = k]
         /\ k.at = at /\ k.op = "create" /\ k.m = m /\ k.copy = copy
         /\ k.ws = x.ws /\ k.todo = x.todo
  <2>. DEFINE r == [x EXCEPT !.at = at, !.copy = copy]
  <2>1. call' = [call EXCEPT ![c] = r]
    BY <1>13, <1>14 DEF IInv, Types
  <2>2. at \in Ats
    BY DEF Ats
  <2>3. /\ r \in CallRecords /\ r.at = at /\ r.op = "create" /\ r.m = m /\ r.copy = copy
        /\ r.ws = x.ws /\ r.todo = x.todo
    BY <1>0, <1>1, <1>14, <2>2 DEF CallRecords
  <2>. HIDE DEF r
  <2>. QED
    BY <2>1, <2>3
<1>16. Types'
  <2>1. call' \in [Calls -> CallRecords]
    BY <1>15 DEF IInv, Types
  <2>. QED
    BY <1>4, <1>11, <1>12, <2>1, StepKeepsTypes DEF IInv, Types
<1>17. EnvGrows
  BY <1>4, <1>9 DEF EnvGrows, Started
<1>18. /\ x.m = m /\ Started(m)' /\ Sound(m, x.copy)'
       /\ \A t \in k.todo : Started(t[1])' /\ t[2].state # "none" /\ Sound(t[1], t[2])'
       /\ k.ws.pod \in Migs => Proven(k.ws.pod)'
  BY <1>1, <1>14, <1>15, <1>16, <1>17, SelfStays
<1>19. Sound(m, copy)'
  <2>1. call[c].copy.state # "awaiting_confirmation" /\ call[c].copy.tman = None
    BY <1>2 DEF Sound, Scanned, Proven
  <2>2. Received(m, x.copy)'
    BY <1>18 DEF Sound
  <2>3. Received(m, copy)'
    BY <1>13, <1>14, <2>2 DEF Received
  <2>. QED
    BY <1>13, <2>1, <2>3 DEF Sound, Scanned
<1>20. CallOK(k)'
  <2>1. k.m \in Migs /\ Started(k.m)' /\ k.copy.state # "none" /\ Sound(k.m, k.copy)'
    BY <1>2, <1>13, <1>15, <1>18, <1>19
  <2>. QED
    BY <1>15, <1>18, <2>1 DEF CallOK, Places
<1>21. ~(k.op = "create" /\ k.at = "target")
  BY <1>15
<1>22. PICK targets \in SUBSET Migs : targets = {m}
  OBVIOUS
<1>23. StepEnv(targets) /\ \A x1 \in targets : At(c, "create", "target") /\ call[c].m = x1
  BY <1>0, <1>1, <1>10, <1>22
<1>24. UNCHANGED <<writer, writes>> /\ call' = [call EXCEPT ![c] = k]
  BY <1>4, <1>15
<1>. QED
  BY <1>11, <1>12, <1>20, <1>21, <1>23, <1>24, StepKeeps

(* What an agent does with a chunk: nothing, or more is staged for the     *)
(* file, or the file is whole, has its checksum and is imported.           *)
Stages(m, f, s) == staged' = [staged EXCEPT ![m][f] = s] /\ UNCHANGED agent
Imports(m, f) == /\ agent' = [agent EXCEPT ![m].files[f] = manifest[m][f]]
                 /\ staged' = [staged EXCEPT ![m][f] = <<>>]

LEMMA ChunkEnv ==
  ASSUME IInv, NEW m \in Migs, NEW f \in Listed, Started(m),
         NEW s \in Seq(Contents \cup {Torn}), Len(staged[m][f]) <= Len(s), Len(s) <= Chunks,
         UNCHANGED <<agent, staged>> \/ Stages(m, f, s) \/ Imports(m, f),
         UNCHANGED <<pods, manifest>>, Used(m)
  PROVE  /\ StepEnv({}) /\ agent' \in [Pods -> Agents]
         /\ staged' \in [Migs -> [Paths -> Seq(Contents \cup {Torn})]]
         /\ \A x \in Migs, g \in Paths : Len(staged'[x][g]) <= Chunks
         /\ Stages(m, f, s) => staged'[m][f] = s
         /\ Imports(m, f) => Kept(m, f)'
<1>1. /\ m \in Pods /\ m # Source /\ Source \in Pods /\ \A x \in Migs : x \in Pods
      /\ f \in Paths /\ f # 0 /\ 0 \in Paths /\ Listed \subseteq Paths
  BY DEF Pods, Paths, Listed
<1>2. /\ agent \in [Pods -> Agents]
      /\ staged \in [Migs -> [Paths -> Seq(Contents \cup {Torn})]]
      /\ \A x \in Migs, g \in Paths : Len(staged[x][g]) <= Chunks
      /\ manifest[m][f] \in Contents
  BY DEF IInv, Types, MigInv
<1>3. \A x \in Migs, g \in Listed : Len(staged[x][g]) \in Nat
  BY <1>1, <1>2, StagedTypes
<1>4. /\ agent' \in [Pods -> Agents]
      /\ \A x \in Pods : x # m => agent'[x] = agent[x]
      /\ \A g \in Paths : g # f => agent'[m].files[g] = agent[m].files[g]
      /\ ~Imports(m, f) => agent'[m].files[f] = agent[m].files[f]
      /\ Imports(m, f) => agent'[m].files[f] = manifest[m][f]
  <2>1. CASE UNCHANGED agent /\ ~Imports(m, f)
    BY <1>2, <2>1
  <2>2. CASE Imports(m, f)
    <3>1. PICK a \in Agents : a = agent[m]
      BY <1>1, <1>2
    <3>2. PICK v \in Contents : v = manifest[m][f]
      BY <1>2
    <3>3. /\ [a EXCEPT !.files[f] = v] \in Agents
          /\ [a EXCEPT !.files[f] = v].files[f] = v
          /\ \A g \in Paths : g # f => [a EXCEPT !.files[f] = v].files[g] = a.files[g]
      BY <1>1 DEF Agents, Manifests
    <3>4. agent' = [agent EXCEPT ![m] = [a EXCEPT !.files[f] = v]]
      BY <2>2, <3>1, <3>2 DEF Imports
    <3>. QED
      BY <1>1, <1>2, <2>2, <3>1, <3>2, <3>3, <3>4
  <2>. QED
    BY <2>1, <2>2 DEF Stages
<1>5. /\ staged' \in [Migs -> [Paths -> Seq(Contents \cup {Torn})]]
      /\ \A x \in Migs, g \in Paths : x # m \/ g # f => staged'[x][g] = staged[x][g]
      /\ ~Imports(m, f) => staged'[m][f] \in {s, staged[m][f]}
      /\ Imports(m, f) => staged'[m][f] = <<>>
      /\ Stages(m, f, s) => staged'[m][f] = s
  <2>1. << >> \in Seq(Contents \cup {Torn})
    OBVIOUS
  <2>2. ASSUME NEW t \in Seq(Contents \cup {Torn}), staged' = [staged EXCEPT ![m][f] = t]
        PROVE  /\ staged' \in [Migs -> [Paths -> Seq(Contents \cup {Torn})]]
               /\ \A x \in Migs, g \in Paths : x # m \/ g # f => staged'[x][g] = staged[x][g]
               /\ staged'[m][f] = t
    BY <1>1, <1>2, <2>2
  <2>3. CASE Imports(m, f)
    <3>1. staged' = [staged EXCEPT ![m][f] = <<>>] /\ agent'[m].files[f] = manifest[m][f]
      BY <1>4, <2>3 DEF Imports
    <3>2. /\ staged' \in [Migs -> [Paths -> Seq(Contents \cup {Torn})]]
          /\ \A x \in Migs, g \in Paths : x # m \/ g # f => staged'[x][g] = staged[x][g]
          /\ staged'[m][f] = <<>>
      BY <2>1, <2>2, <3>1
    <3>3. Stages(m, f, s) => staged'[m][f] = s
      BY <2>2 DEF Stages
    <3>. QED
      BY <2>3, <3>2, <3>3
  <2>4. CASE Stages(m, f, s)
    BY <2>2, <2>3, <2>4 DEF Stages
  <2>5. CASE UNCHANGED <<agent, staged>> /\ ~Imports(m, f) /\ ~Stages(m, f, s)
    BY <1>2, <2>5
  <2>. QED
    BY <2>3, <2>4, <2>5
<1>6. \A x \in Migs, g \in Paths : Len(staged'[x][g]) <= Chunks
  <2>1. Len(<< >>) <= Chunks
    OBVIOUS
  <2>. QED
    BY <1>2, <1>5, <2>1
<1>7. \A x \in Migs : manifest'[x] = manifest[x] /\ (Used(x)' <=> Used(x))
  BY DEF Used
<1>8. Imports(m, f) => Kept(m, f)'
  BY <1>4, <1>7 DEF Kept
<1>9. \A x \in Migs : Grows(x)
  <2>1. ASSUME NEW x \in Migs, x # m PROVE Grows(x)
    BY <1>1, <1>3, <1>4, <1>5, <1>7, <2>1 DEF Grows, Kept
  <2>2. Grows(m)
    <3>1. ASSUME NEW g \in Listed
          PROVE  /\ agent'[m].files[g] = agent[m].files[g] \/ Kept(m, g)'
                 /\ Kept(m, g)' \/ Len(staged[m][g]) <= Len(staged'[m][g])
      <4>1. CASE g # f
        BY <1>1, <1>3, <1>4, <1>5, <4>1
      <4>2. CASE g = f /\ Imports(m, f)
        BY <1>8, <4>2
      <4>3. CASE g = f /\ ~Imports(m, f)
        BY <1>3, <1>4, <1>5, <4>3
      <4>. QED
        BY <4>1, <4>2, <4>3
    <3>2. agent'[m].files[0] = agent[m].files[0]
      BY <1>1, <1>4
    <3>. QED
      BY <1>7, <3>1, <3>2 DEF Grows, Kept
  <2>. QED
    BY <2>1, <2>2
<1>10. StepEnv({})
  <2>1. \A x \in Migs : ~Used(x)' => \A g \in Listed : agent'[x].files[g] = agent[x].files[g]
    BY <1>1, <1>4, <1>7
  <2>2. \A g \in Listed : agent'[Source].files[g] \in Contents
    BY <1>1, <1>4 DEF IInv, RowInv
  <2>. QED
    BY <1>7, <1>9, <2>1, <2>2 DEF StepEnv
<1>. QED
  BY <1>4, <1>5, <1>6, <1>8, <1>10

LEMMA ResumeWritesKeeps ==
  ASSUME IInv, NEW c \in Calls, ResumeWrites(c)
  PROVE  IInv' /\ OnlyImported
<1>0. /\ call[c].op = "resume" /\ call[c].at = "write" /\ call[c] \in CallRecords
      /\ CallOK(call[c])
  BY CallFacts DEF ResumeWrites, At
<1>1. PICK m \in Migs, copy \in Records, data \in Contents :
        m = call[c].m /\ copy = call[c].copy /\ data = call[c].data
  BY <1>0 DEF CallOK, CallRecords
<1>2. /\ Started(m) /\ Sound(m, copy) /\ copy.state # "none" /\ copy.target
      /\ copy.index < Files /\ Used(m)
  BY <1>0, <1>1 DEF CallOK, Sound
<1>3. PICK f \in Listed : f = copy.index + 1
  BY <1>2 DEF Records, Listed
<1>4. /\ f \in Paths
      /\ staged[m][f] \in Seq(Contents \cup {Torn})
      /\ Len(staged[m][f]) \in Nat /\ Len(staged[m][f]) <= Chunks
      /\ copy.offset \in 0 .. Chunks - 1
      /\ copy.index \in Nat
  <2>1. f \in Paths
    BY DEF Listed, Paths
  <2>2. copy.offset \in 0 .. Chunks - 1 /\ copy.index \in Nat
    BY DEF Records
  <2>3. /\ staged \in [Migs -> [Paths -> Seq(Contents \cup {Torn})]]
        /\ Len(staged[m][f]) <= Chunks
    BY <2>1 DEF IInv, Types
  <2>. QED
    BY <2>1, <2>2, <2>3, StagedTypes
<1>. DEFINE s == IF Whole(m, f) THEN staged[m][f] ELSE Staged(m, f, copy.offset, data)
            next == IF Whole(m, f) THEN Chunks ELSE Len(s)
            effect == IF Whole(m, f) THEN UNCHANGED <<agent, staged>> ELSE Import(m, f, s)
            ok == Accepts(m, f, copy.offset, data)
            torn == Append(staged[m][f], Torn)
            saved == /\ Answered(ok, effect)
                     /\ Whole(m, f) \/ Len(s) < Chunks \/ Verified(m, f, s)
                     /\ call' = [call EXCEPT ![c].at = "save", ![c].data = None,
                                             ![c].copy = Advanced(copy, next)]
            left == Return(c) /\ \/ effect /\ UNCHANGED faults
                                 \/ Lost(ok, effect, UNCHANGED <<agent, staged>>)
                                 \/ /\ Len(s) > Len(staged[m][f]) /\ Fault
                                    /\ staged' = [staged EXCEPT ![m][f] = torn] /\ UNCHANGED agent
<1>5. saved \/ left
  BY <1>1, <1>3 DEF ResumeWrites
<1>6. UNCHANGED <<stored, pods, writer, writes>>
  BY DEF ResumeWrites
<1>7. /\ s \in Seq(Contents \cup {Torn}) /\ Len(s) \in Nat
      /\ Len(staged[m][f]) <= Len(s) /\ Len(s) <= Chunks
  <2>1. Append(staged[m][f], data) \in Seq(Contents \cup {Torn})
        /\ Len(Append(staged[m][f], data)) = Len(staged[m][f]) + 1
    BY <1>4
  <2>2. copy.offset = Len(staged[m][f]) => Len(staged[m][f]) + 1 <= Chunks
    BY <1>4
  <2>. QED
    BY <1>4, <2>1, <2>2 DEF Staged
<1>8. torn \in Seq(Contents \cup {Torn}) /\ Len(torn) = Len(staged[m][f]) + 1
  BY <1>4
<1>9. effect => \/ UNCHANGED <<agent, staged>> /\ (saved => Whole(m, f))
                \/ Stages(m, f, s) /\ (saved => ~Whole(m, f) /\ Len(s) < Chunks)
                \/ Imports(m, f)
  <2>1. ASSUME Import(m, f, s), ~Verified(m, f, s) PROVE Stages(m, f, s)
    BY <2>1 DEF Import, Stages
  <2>2. ASSUME Import(m, f, s), Verified(m, f, s) PROVE Imports(m, f)
    <3>1. s[1] = manifest[m][f]
      BY <2>2 DEF Verified
    <3>. QED
      BY <2>2, <3>1 DEF Import, Imports
  <2>. HIDE DEF s
  <2>. QED
    BY <2>1, <2>2
<1>10. UNCHANGED faults \/ Fault
  BY <1>5 DEF Answered, Lost
<1>11. PICK t \in Seq(Contents \cup {Torn}) :
         /\ Len(staged[m][f]) <= Len(t) /\ Len(t) <= Chunks
         /\ UNCHANGED <<agent, staged>> \/ Stages(m, f, t) \/ Imports(m, f)
         /\ saved => /\ t = s
                     /\ \/ UNCHANGED <<agent, staged>> /\ Whole(m, f)
                        \/ Stages(m, f, s) /\ ~Whole(m, f) /\ Len(s) < Chunks
                        \/ Imports(m, f)
  <2>1. CASE effect
    <3>. HIDE DEF s, saved, effect
    <3>. QED
      BY <1>7, <1>9, <2>1
  <2>2. CASE ~effect
    <3>1. ~saved
      BY <2>2 DEF Answered
    <3>2. \/ UNCHANGED <<agent, staged>>
          \/ Len(s) > Len(staged[m][f]) /\ Stages(m, f, torn)
      <4>1. left
        BY <1>5, <3>1
      <4>2. Lost(ok, effect, UNCHANGED <<agent, staged>>) => UNCHANGED <<agent, staged>>
        BY <2>2 DEF Lost
      <4>. HIDE DEF s, effect, saved, torn, ok
      <4>. QED
        BY <2>2, <4>1, <4>2 DEF Stages
    <3>. HIDE DEF s, effect, saved, torn
    <3>. QED
      BY <1>4, <1>7, <1>8, <3>1, <3>2
  <2>. QED
    BY <2>1, <2>2
<1>12. /\ StepEnv({}) /\ agent' \in [Pods -> Agents]
       /\ staged' \in [Migs -> [Paths -> Seq(Contents \cup {Torn})]]
       /\ \A x \in Migs, g \in Paths : Len(staged'[x][g]) <= Chunks
       /\ Stages(m, f, t) => staged'[m][f] = t
       /\ Imports(m, f) => Kept(m, f)'
  BY <1>2, <1>6, <1>11, ChunkEnv DEF stored
<1>13. StepTypes
  BY <1>6, <1>10, <1>12 DEF StepTypes, IInv, Types, Fault, stored
<1>14. SavesMig /\ SavesRow /\ UNCHANGED <<manifest, writer, writes, mig>>
  BY <1>6 DEF SavesMig, SavesRow, stored
<1>15. EnvGrows
  BY <1>12, <1>14 DEF StepEnv, EnvGrows, Started
<1>16. CASE left
  <2>1. call' = [call EXCEPT ![c] = Idle] /\ Idle \in CallRecords /\ Idle.op # "create"
    BY <1>16, IdleRecord DEF Return, Idle
  <2>. HIDE DEF s, effect, saved, torn, ok, left
  <2>. QED
    BY <1>12, <1>13, <1>14, <2>1, IdleAfter, StepKeeps
<1>17. CASE saved
  <2>2. \/ next = Chunks /\ ((UNCHANGED <<agent, staged>> /\ Whole(m, f)) \/ Imports(m, f))
        \/ next \in Nat /\ next < Chunks /\ (Imports(m, f) \/ (staged'[m][f] = s /\ next = Len(s)))
    <3>1. /\ t = s
          /\ \/ UNCHANGED <<agent, staged>> /\ Whole(m, f)
             \/ Stages(m, f, s) /\ ~Whole(m, f) /\ Len(s) < Chunks
             \/ Imports(m, f)
      BY <1>11, <1>17
    <3>2. next \in Nat /\ next <= Chunks
      BY <1>7
    <3>3. Whole(m, f) => next = Chunks
      OBVIOUS
    <3>4. ~Whole(m, f) => next = Len(s)
      OBVIOUS
    <3>. HIDE DEF s, next, saved
    <3>. QED
      BY <1>12, <3>1, <3>2, <3>3, <3>4
  <2>. HIDE DEF s, next, saved, left, effect
  <2>3. PICK new \in Records :
          /\ new = Advanced(copy, next) /\ new.state = copy.state /\ new.target = copy.target
          /\ new.tman = copy.tman
          /\ \/ new.index = copy.index + 1 /\ new.offset = 0 /\ next = Chunks
             \/ new.index = copy.index /\ new.offset = next /\ next < Chunks
    <3>. DEFINE r == Advanced(copy, next)
    <3>1. CASE next = Chunks
      <4>1. copy.index + 1 \in 0 .. Files /\ 0 \in 0 .. Chunks - 1
        BY <1>3, <1>4 DEF Listed
      <4>2. r = [copy EXCEPT !.index = copy.index + 1, !.offset = 0]
        BY <3>1 DEF Advanced
      <4>. HIDE DEF r
      <4>3. /\ r \in Records /\ r.state = copy.state /\ r.target = copy.target
            /\ r.tman = copy.tman /\ r.index = copy.index + 1 /\ r.offset = 0
        BY <4>1, <4>2 DEF Records
      <4>. QED
        BY <3>1, <4>3 DEF r
    <3>2. CASE next # Chunks
      <4>1. next \in 0 .. Chunks - 1 /\ next < Chunks
        BY <2>2, <3>2
      <4>2. r = [copy EXCEPT !.offset = next]
        BY <3>2 DEF Advanced
      <4>. HIDE DEF r
      <4>3. /\ r \in Records /\ r.state = copy.state /\ r.target = copy.target
            /\ r.tman = copy.tman /\ r.index = copy.index /\ r.offset = next
        BY <4>1, <4>2 DEF Records
      <4>. QED
        BY <4>1, <4>3 DEF r
    <3>. QED
      BY <3>1, <3>2
  <2>1. PICK x \in CallRecords : x = call[c]
    BY <1>0
  <2>4. PICK k \in CallRecords :
          /\ call' = [call EXCEPT ![c] = k]
          /\ k.at = "save" /\ k.op = "resume" /\ k.m = m /\ k.copy = new
          /\ k.ws = x.ws /\ k.todo = x.todo
    <3>. DEFINE r == [x EXCEPT !.at = "save", !.data = None, !.copy = new]
    <3>1. call' = [call EXCEPT ![c] = r]
      BY <1>17, <2>1, <2>3 DEF IInv, Types, saved
    <3>2. "save" \in Ats
      BY DEF Ats
    <3>3. /\ r \in CallRecords /\ r.at = "save" /\ r.op = "resume" /\ r.m = m /\ r.copy = new
          /\ r.ws = x.ws /\ r.todo = x.todo
      BY <1>0, <1>1, <2>1, <3>2 DEF CallRecords
    <3>. HIDE DEF r
    <3>. QED
      BY <3>1, <3>3
  <2>5. Types'
    <3>1. call' \in [Calls -> CallRecords]
      BY <2>4 DEF IInv, Types
    <3>. QED
      BY <1>13, <1>14, <3>1, StepKeepsTypes DEF IInv, Types
  <2>6. /\ Started(m)' /\ Sound(m, copy)'
        /\ \A t1 \in k.todo : Started(t1[1])' /\ t1[2].state # "none" /\ Sound(t1[1], t1[2])'
        /\ k.ws.pod \in Migs => Proven(k.ws.pod)'
    <3>1. x.m = m /\ x.copy = copy
      BY <1>1, <2>1
    <3>. QED
      BY <1>15, <2>1, <2>4, <2>5, <3>1, SelfStays
  <2>7. Sound(m, new)'
    <3>1. \A g \in 1 .. copy.index : Kept(m, g)'
      BY <2>6 DEF Sound, Received
    <3>2. Scanned(m, new)'
      BY <2>3, <2>6 DEF Sound, Scanned
    <3>3. Received(m, new)'
      <4>1. CASE new.index = copy.index + 1 /\ new.offset = 0 /\ next = Chunks
        <5>1. Kept(m, f)'
          <6>1. Whole(m, f) /\ UNCHANGED <<agent, manifest>> => Kept(m, f)'
            BY DEF Whole, Kept
          <6>. QED
            BY <1>12, <1>14, <2>2, <4>1, <6>1
        <5>2. ASSUME NEW g \in 1 .. new.index PROVE Kept(m, g)'
          <6>1. g \in 1 .. copy.index \/ g = f
            BY <1>3, <1>4, <4>1
          <6>. QED
            BY <3>1, <5>1, <6>1
        <5>. QED
          BY <4>1, <5>2 DEF Received
      <4>2. CASE new.index = copy.index /\ new.offset = next /\ next < Chunks
        <5>1. Imports(m, f) \/ (staged'[m][f] = s /\ next = Len(s))
          BY <2>2, <4>2
        <5>2. Kept(m, f)' \/ next <= Len(staged'[m][f])
          BY <1>7, <1>12, <5>1
        <5>. QED
          BY <1>2, <1>3, <3>1, <4>2, <5>2 DEF Received
      <4>. QED
        BY <2>3, <4>1, <4>2
    <3>. QED
      BY <2>3, <2>6, <3>2, <3>3 DEF Sound
  <2>8. CallOK(k)'
    <3>1. k.m \in Migs /\ Started(k.m)' /\ k.copy.state # "none" /\ Sound(k.m, k.copy)'
          /\ k.copy.target
      BY <1>2, <2>3, <2>4, <2>6, <2>7
    <3>. QED
      BY <2>4, <2>6, <3>1 DEF CallOK, Places
  <2>9. ~(k.op = "create" /\ k.at = "target")
    BY <2>4
  <2>. QED
    BY <1>12, <1>13, <1>14, <2>4, <2>8, <2>9, StepKeeps
<1>. QED
  BY <1>5, <1>16, <1>17
-----------------------------------------------------------------------------
(* Steps of no call.                                                       *)

LEMMA WriteAdmittedKeeps ==
  ASSUME IInv, NEW f \in Listed, WriteAdmitted(f)
  PROVE  IInv' /\ OnlyImported
<1>1. UNCHANGED <<row, mig, manifest, secret, tsecrets, pods, agent, staged, call, writes, faults>>
  BY DEF WriteAdmitted, stored, remote
<1>2. Remote /\ SavesRow
  BY <1>1 DEF Remote, SavesRow
<1>3. StepEnv({})
  BY <1>1, <1>2, RemoteEnv
<1>4. /\ row.pod \in Pods \cup {None} /\ row.pod # None /\ f \in Paths /\ writes < MaxWrites
      /\ writer' = [pod |-> row.pod, file |-> f]
  BY CallFacts DEF WriteAdmitted, Up, IInv, Types, Rows, Listed, Paths
<1>5. Types' /\ WriterOK
  BY <1>1, <1>4 DEF IInv, Types, WriterOK
<1>. QED
  BY <1>1, <1>2, <1>3, <1>5, UncalledKeeps

(* A write is the pod's own content: it belongs on a target, and is what   *)
(* the source is to hold.                                                  *)
LEMMA WriteLandsKeeps ==
  ASSUME IInv, WriteLands
  PROVE  IInv' /\ OnlyImported
<1>1. /\ UNCHANGED <<row, mig, manifest, secret, tsecrets, pods, staged, call, faults>>
      /\ writer.pod \in Pods /\ writer.file \in Listed /\ writer.file \in Paths
      /\ writer' = [pod |-> None, file |-> 0] /\ 0 \in Paths
      /\ writes \in Nat /\ writes < MaxWrites
  BY DEF WriteLands, stored, IInv, Types, RowInv, Listed, Paths
<1>2. PICK p \in Pods, f \in Listed : p = writer.pod /\ f = writer.file
  BY <1>1
<1>3. writes' \in Nat /\ writes' <= MaxWrites
  BY <1>1 DEF WriteLands
<1>4. \/ UNCHANGED agent
      \/ pods[p] = "running" /\ agent' = [agent EXCEPT ![p].files[f] = p]
  BY <1>2 DEF WriteLands, Up
<1>5. /\ agent' \in [Pods -> Agents]
      /\ \A x \in Pods : x # p => agent'[x] = agent[x]
      /\ \A g \in Paths : g # f => agent'[p].files[g] = agent[p].files[g]
      /\ agent'[p].files[f] \in {agent[p].files[f], p}
      /\ UNCHANGED agent \/ pods[p] = "running"
  <2>1. agent \in [Pods -> Agents] /\ p \in Contents /\ f \in Paths
    BY DEF IInv, Types, Contents, Listed, Paths
  <2>2. PICK a \in Agents : a = agent[p]
    BY <2>1
  <2>3. /\ [a EXCEPT !.files[f] = p] \in Agents
        /\ [a EXCEPT !.files[f] = p].files[f] = p
        /\ \A g \in Paths : g # f => [a EXCEPT !.files[f] = p].files[g] = a.files[g]
    BY <2>1 DEF Agents, Manifests
  <2>4. CASE UNCHANGED agent
    BY <2>1, <2>4
  <2>5. CASE pods[p] = "running" /\ agent' = [agent EXCEPT ![p] = [a EXCEPT !.files[f] = p]]
    BY <2>1, <2>2, <2>3, <2>5
  <2>. QED
    BY <1>4, <2>2, <2>4, <2>5
<1>6. StepEnv({})
  <2>1. \A m \in Migs : m \in Pods /\ m # Source
    BY DEF Pods
  <2>2. \A m \in Migs : Used(m)' <=> Used(m)
    BY <1>1 DEF Used
  <2>3. \A m \in Migs, g \in Listed : Len(staged[m][g]) \in Nat
    BY StagedTypes DEF IInv, Types, Listed, Paths
  <2>4. ASSUME NEW m \in Migs, NEW g \in Listed
        PROVE  agent'[m].files[g] = agent[m].files[g] \/ Kept(m, g)'
    <3>1. g \in Paths
      BY DEF Listed, Paths
    <3>2. agent'[m].files[g] = agent[m].files[g] \/ agent'[m].files[g] = m
      BY <1>5, <2>1, <3>1
    <3>. QED
      BY <3>2 DEF Kept
  <2>5. \A m \in Migs : agent'[m].files[0] = agent[m].files[0]
    BY <1>1, <1>5, <2>1 DEF Listed
  <2>6. \A m \in Migs : Grows(m)
    BY <1>1, <2>2, <2>3, <2>4, <2>5 DEF Grows, Kept
  <2>7. ASSUME NEW m \in Migs, ~Used(m)
        PROVE  \A g \in Listed : agent'[m].files[g] = agent[m].files[g]
    BY <1>5, <2>1, <2>7 DEF Used
  <2>8. \A g \in Listed : agent'[Source].files[g] \in Contents
    <3>1. Source \in Pods /\ \A g \in Listed : g \in Paths /\ agent[Source].files[g] \in Contents
      BY DEF Pods, Listed, Paths, IInv, RowInv
    <3>2. p \in Contents
      BY DEF Contents
    <3>. QED
      BY <1>5, <3>1, <3>2
  <2>. QED
    BY <1>1, <2>2, <2>6, <2>7, <2>8 DEF StepEnv
<1>7. Types'
  <2>1. writer' \in [pod : Pods \cup {None}, file : Paths]
    BY <1>1
  <2>. QED
    BY <1>1, <1>3, <1>5, <2>1 DEF IInv, Types
<1>8. WriterOK /\ SavesRow
  BY <1>1 DEF WriterOK, SavesRow
<1>. QED
  BY <1>1, <1>6, <1>7, <1>8, UncalledKeeps

LEMMA PodGoesKeeps ==
  ASSUME IInv, NEW p \in Pods, PodGoes(p)
  PROVE  IInv' /\ OnlyImported
<1>1. /\ UNCHANGED <<row, mig, manifest, secret, tsecrets, agent, staged, call, writer, writes>>
      /\ Fault
  BY DEF PodGoes, stored
<1>2. Remote
  BY DEF PodGoes, Remote, Up, Used
<1>3. StepEnv({}) /\ pods' \in [Pods -> {"unused", "running", "exited", "terminated"}]
  BY <1>1, <1>2, RemoteEnv
<1>4. Types' /\ WriterOK /\ SavesRow
  BY <1>1, <1>3 DEF IInv, Types, Fault, WriterOK, RowInv, SavesRow
<1>. QED
  BY <1>1, <1>3, <1>4, UncalledKeeps

LEMMA RestartKeeps ==
  ASSUME IInv, Restart
  PROVE  IInv' /\ OnlyImported
<1>1. /\ UNCHANGED <<mig, manifest, tsecrets, pods, agent, staged, writer, writes>> /\ Fault
      /\ row' = Refreshed /\ secret' \in Pods \cup {None}
      /\ call' = [c \in Calls |-> Idle]
  BY DEF Restart, remote, IInv, Types
<1>2. Refreshed \in Rows /\ Refreshed.pod \in {row.pod, None}
  <2>1. row \in Rows
    BY DEF IInv, Types
  <2>2. \A s \in {"ready", "stopped"} : [row EXCEPT !.state = s] \in Rows
                                        /\ [row EXCEPT !.state = s].pod = row.pod
    BY <2>1 DEF Rows
  <2>3. /\ [row EXCEPT !.state = "stopped", !.pod = None] \in Rows
        /\ [row EXCEPT !.state = "stopped", !.pod = None].pod = None
    BY <2>1 DEF Rows
  <2>. QED
    BY <2>1, <2>2, <2>3 DEF Refreshed
<1>3. SavesRow
  <2>1. None \notin Migs
    BY DEF Pods
  <2>. QED
    BY <1>1, <1>2, <2>1 DEF SavesRow, IInv, RowInv
<1>4. StepEnv({})
  BY <1>1, RemoteEnv DEF Remote
<1>5. Types'
  <2>1. Idle \in CallRecords
    BY IdleRecord
  <2>. QED
    BY <1>1, <1>2, <2>1 DEF IInv, Types, Fault
<1>6. WriterOK
  BY <1>1 DEF WriterOK, IInv, RowInv
<1>. QED
  BY <1>1, <1>3, <1>4, <1>5, <1>6, UncalledKeeps

LEMMA StutterKeeps ==
  ASSUME IInv, UNCHANGED vars
  PROVE  IInv' /\ OnlyImported
<1>1. UNCHANGED <<row, mig, manifest, secret, tsecrets, pods, agent, staged, call, writer, writes, faults>>
  BY DEF vars, stored, remote, bounds
<1>2. StepEnv({})
  BY <1>1, RemoteEnv DEF Remote
<1>3. Types' /\ WriterOK /\ SavesRow
  BY <1>1 DEF IInv, Types, WriterOK, RowInv, SavesRow
<1>. QED
  BY <1>1, <1>2, <1>3, UncalledKeeps
-----------------------------------------------------------------------------
LEMMA InitHolds == Init => IInv
<1>. SUFFICES ASSUME Init PROVE IInv
  OBVIOUS
<1>. USE DEF Init
<1>1. /\ NewRow \in Rows /\ NoRecord \in Records /\ NoFiles \in Manifests
      /\ [f \in Paths |-> <<>>] \in [Paths -> Seq(Contents \cup {Torn})]
  BY IdleRecord DEF NewRow, Rows, NoRecord, Records, NoFiles, Manifests, Pods, Active
<1>2. Source \in Pods /\ \A m \in Migs : m \in Pods /\ m # Source
  BY DEF Pods
<1>3. agent \in [Pods -> Agents]
  <2>1. ASSUME NEW p \in Pods
        PROVE  [f \in Paths |-> IF p = Source /\ f > 0 THEN Old ELSE None] \in Manifests
    BY DEF Manifests, Contents
  <2>. QED
    BY <2>1 DEF Agents
<1>4. Types
  <2>1. \A m \in Migs, f \in Paths : staged[m][f] = <<>>
    OBVIOUS
  <2>2. staged \in [Migs -> [Paths -> Seq(Contents \cup {Torn})]]
    BY <1>1
  <2>3. writer \in [pod : Pods \cup {None}, file : Paths]
    BY DEF Paths
  <2>4. call \in [Calls -> CallRecords]
    BY IdleRecord
  <2>5. \A m \in Migs, f \in Paths : Len(staged[m][f]) <= Chunks
    BY <2>1
  <2>. QED
    BY <1>1, <1>2, <1>3, <2>2, <2>3, <2>4, <2>5 DEF Types
<1>5. CallInv
  BY IdleRecord DEF CallInv
<1>6. TargetInv
  BY DEF TargetInv, At, Idle
<1>7. \A m \in Migs : ~Used(m) /\ ~Started(m) /\ \A f \in Listed : agent[m].files[f] = None
  BY <1>2 DEF Used, Started, NoRecord, Listed, Paths
<1>8. MigInv
  <2>1. \A m \in Migs : Sound(m, NoRecord)
    BY DEF Sound, Received, Scanned, NoRecord
  <2>. QED
    BY <1>7, <2>1 DEF MigInv
<1>9. RowInv
  BY <1>2 DEF RowInv, NewRow, Listed, Paths, Contents
<1>. QED
  BY <1>4, <1>5, <1>6, <1>8, <1>9 DEF IInv

LEMMA NextKeeps ==
  ASSUME IInv, [Next]_vars
  PROVE  IInv' /\ OnlyImported
<1>1. CASE UNCHANGED vars
  BY <1>1, StutterKeeps
<1>2. ASSUME NEW c \in Calls, Create(c) \/ Stop(c) \/ \E m \in Migs : Resume(c, m) \/ Confirm(c, m)
      PROVE  IInv' /\ OnlyImported
  BY <1>2, CreateKeeps, StopKeeps, ResumeKeeps, ConfirmKeeps
<1>3. ASSUME NEW c \in Calls, CallStep(c)
      PROVE  IInv' /\ OnlyImported
  <2>1. CASE \/ CreateChecks(c) \/ CreateSeals(c) \/ CreateScans(c) \/ CreatePlans(c)
             \/ CreatesTarget(c) \/ CreateUnseals(c) \/ CreateFails(c) \/ CreateRecords(c)
             \/ CreateExtends(c)
    BY <2>1, CreateChecksKeeps, CreateSealsKeeps, CreateScansKeeps, CreatePlansKeeps,
       CreatesTargetKeeps, CreateUnsealsKeeps, FailsKeeps, CreateRecordsKeeps, CreateExtendsKeeps
  <2>2. CASE \/ ResumeLoads(c) \/ ResumeSeals(c) \/ ResumeReads(c) \/ ResumeWrites(c)
             \/ ResumeSaves(c) \/ ResumeScans(c) \/ ResumeJudges(c)
    BY <2>2, ResumeLoadsKeeps, ResumeSealsKeeps, ResumeReadsKeeps, ResumeWritesKeeps,
       ResumeSavesKeeps, ResumeScansKeeps, ResumeJudgesKeeps
  <2>3. CASE \/ ResumeDeletesTarget(c) \/ ResumeUnsealsSource(c) \/ ResumeFails(c)
             \/ ResumeStopsSource(c) \/ ResumeUnsealsTarget(c) \/ ResumeSwitches(c)
             \/ ResumeHandsOver(c) \/ ResumeEnds(c)
    BY <2>3, ResumeDeletesTargetKeeps, ResumeUnsealsSourceKeeps, FailsKeeps,
       ResumeStopsSourceKeeps, ResumeUnsealsTargetKeeps, ResumeSwitchesKeeps,
       ResumeHandsOverKeeps, ResumeEndsKeeps
  <2>4. CASE \/ ConfirmDeletes(c) \/ ConfirmSaves(c) \/ ConfirmEnds(c)
             \/ StopUnseals(c) \/ StopDeletesTarget(c) \/ StopFails(c) \/ StopClaims(c)
             \/ StopsPod(c) \/ StopSaves(c)
    BY <2>4, ConfirmDeletesKeeps, ConfirmSavesKeeps, ConfirmEndsKeeps, StopUnsealsKeeps,
       StopDeletesTargetKeeps, StopFailsKeeps, StopClaimsKeeps, StopsPodKeeps, StopSavesKeeps
  <2>. QED
    BY <1>3, <2>1, <2>2, <2>3, <2>4 DEF CallStep
<1>4. CASE Restart
  BY <1>4, RestartKeeps
<1>5. CASE \E f \in 1 .. Files : WriteAdmitted(f)
  BY <1>5, WriteAdmittedKeeps DEF Listed
<1>6. CASE WriteLands
  BY <1>6, WriteLandsKeeps
<1>7. CASE \E p \in Pods : PodGoes(p)
  BY <1>7, PodGoesKeeps
<1>. QED
  BY <1>1, <1>2, <1>3, <1>4, <1>5, <1>6, <1>7 DEF Next

(* Whatever calls overlap, fail, are cut short or repeated: what records   *)
(* and calls stand for is so on the volumes.                               *)
THEOREM MigrationInvariant == Spec => []IInv
<1>1. IInv /\ [Next]_vars => IInv'
  BY NextKeeps
<1>. QED
  BY <1>1, InitHolds, PTL DEF Spec

(* Every variable keeps its type, the staged chunks among them.            *)
THEOREM TypeCorrect == Spec => []TypeOK
<1>1. IInv => TypeOK
  <2>. SUFFICES ASSUME IInv PROVE TypeOK
    OBVIOUS
  <2>. USE DEF IInv
  <2>1. ASSUME NEW m \in Migs, NEW f \in Paths
        PROVE  /\ Len(staged[m][f]) <= Chunks
               /\ \A i \in 1 .. Len(staged[m][f]) : staged[m][f][i] \in Contents \cup {Torn}
    <3>1. staged[m][f] \in Seq(Contents \cup {Torn})
      BY StagedTypes DEF Types
    <3>. QED
      BY <3>1 DEF Types
  <2>2. ASSUME NEW c \in Calls
        PROVE  /\ call[c].op \in {"none", "create", "resume", "confirm", "stop"}
               /\ call[c].m \in Migs \cup {None} /\ call[c].copy \in Records
               /\ call[c].ws \in Rows /\ call[c].todo \subseteq Migs \X Records
    BY CallFacts DEF CallRecords, Ops
  <2>. QED
    BY <2>1, <2>2 DEF Types, TypeOK, Agents
<1>. QED
  BY <1>1, MigrationInvariant, PTL

(* "Manifest-gated switchover", for any number of migrations and calls:    *)
(* the row is on a target, and the original deleted, only when the         *)
(* target's volume holds what was scanned at the source.                   *)
THEOREM SwitchAlwaysVerified == Spec => []SwitchIsVerified
<1>1. IInv => SwitchIsVerified
  BY DEF IInv, RowInv, Proven, SwitchIsVerified
<1>. QED
  BY <1>1, MigrationInvariant, PTL

(* Whatever a target's volume held under a path, nothing replaces it but   *)
(* the file that the manifest lists or a later write to the target,        *)
(* whatever chunks were repeated, torn or interleaved.                     *)
THEOREM ImportedAlwaysManifested == Spec => ImportedIsManifested
<1>1. IInv /\ [Next]_vars => OnlyImported
  BY NextKeeps
<1>2. OnlyImported =>
        [\A m \in Migs, f \in 1 .. Files :
           pods[m] # "unused" /\ agent'[m].files[f] # agent[m].files[f] => Kept(m, f)']_vars
  BY DEF OnlyImported, Used, Listed
<1>. QED
  BY <1>1, <1>2, MigrationInvariant, PTL DEF Spec, ImportedIsManifested

(* What a stored record claims is copied has been received, also when an   *)
(* older call has saved its copy over a newer one.                         *)
THEOREM ProgressAlwaysReceived == Spec => []ProgressIsReceived
<1>1. IInv => ProgressIsReceived
  BY DEF IInv, MigInv, Sound, Received, ProgressIsReceived
<1>. QED
  BY <1>1, MigrationInvariant, PTL
=============================================================================
