------------------------ MODULE WorkerRuntimeProofs ------------------------
(***************************************************************************)
(* The worker's runtime, for any requests, any settings of the load and    *)
(* any number of jobs: its types, the free-memory floors through retries,  *)
(* that a job starts from a clean baseline, that an edit stays in its mask *)
(* and that the delta of a LoRA of subjects stays with their tokens.       *)
(***************************************************************************)
EXTENDS WorkerRuntime, RegionalPlanProofs

(* The phases of a command.                                                *)
Phases(kind) == {Steps(kind)[i] : i \in DOMAIN Steps(kind)}

PhaseNames ==
  {"idle", "recover", "validate", "plan", "encode", "encode_image", "check", "project", "adapt",
   "install", "identity", "sample", "handoff", "decode", "upscale", "save", "retain"}
JobType == [kind : Kinds \cup {None}, request : Requests \cup {None}, phase : PhaseNames,
            attempt : 1..2, model : Models, crops : SUBSET AllCrops, tile : {512, 256, 128}]

(* The command being served, and what of the load it may rely on.          *)
JobInv ==
  /\ job \in JobType /\ jobs \in 0..MaxJobs
  /\ proc \in {"new", "waiting", "busy", "abandoned", "exited", "failed"}
  /\ proc # "busy" => job = Idle
  /\ proc = "busy" => /\ job.kind \in Kinds /\ job.request \in Requests
                      /\ job.phase \in Phases(job.kind) \cup {"recover"}
  /\ At("recover") => job.kind = "generate" /\ job.attempt = 1

LoadInv ==
  /\ load \in Loads \cup {None}
  /\ load = None => proc \in {"new", "failed"}
  /\ parts \subseteq Parts /\ vaeOnCpu \in BOOLEAN
  /\ proc \in {"waiting", "busy"} => parts = Parts
  /\ proc = "busy" /\ job.attempt = 2 => vaeOnCpu

(* The floors f of a worker loaded with l.                                 *)
FloorsOf(l, f) ==
  /\ f.critical <= f.warning /\ f.reserve <= f.warning
  /\ f.reserve <= Greater(Floors(l).reserve, Capacity(l.total))
  /\ f.reserve >= Floors(l).reserve
FloorsInv == floors \in Policies /\ (load # None => FloorsOf(load, floors))

(* The models whose options may hold the override of job j.                *)
Held(j) ==
  IF Spatial(j.kind, j.request) /\ (j.phase = "sample" \/ (j.kind = "edit" /\ j.phase = "check"))
  THEN {j.model} ELSE {}

(* image2image's clone is remembered from its identity step to the         *)
(* handoff; nothing releases it after that.                                *)
Remembered(j, a) ==
  j.kind = "image2image" =>
    /\ j.phase \in {"sample", "handoff"} => a = "identity" /\ j.model = "identity"
    /\ j.phase \in {"decode", "upscale", "save", "retain"} => a = None

ModelInv ==
  /\ active \in Models \cup {None} /\ overridden \subseteq Models
  /\ gpu \in Models \cup {"empty"}
  /\ proc \in {"new", "waiting"} \/ At("plan") =>
       active = None /\ overridden = {} /\ gpu \in {"empty", "baseline"}
  /\ proc = "busy" => overridden \subseteq Held(job) /\ Remembered(job, active)

IInv == JobInv /\ LoadInv /\ FloorsInv /\ ModelInv

(* The three ways a busy worker goes on: the command ends for good, it is  *)
(* tried again, or its next phase begins.                                  *)
Ended ==
  /\ proc' \in {"abandoned", "exited", "failed"} /\ job' = Idle
  /\ active' \in Models \cup {None} /\ gpu' \in Models \cup {"empty"}
  /\ overridden' \subseteq Models
  /\ parts' \subseteq Parts /\ vaeOnCpu' \in BOOLEAN
  /\ floors' \in {floors, Recovered(floors, load.total)} /\ UNCHANGED <<load, jobs>>

Retries ==
  /\ job.kind = "generate" /\ job.attempt = 1
  /\ job' = [job EXCEPT !.phase = "recover"]
  /\ overridden' = {} /\ UNCHANGED <<proc, active, gpu, Settings>>

Moves ==
  /\ job' \in JobType /\ job'.kind = job.kind /\ job'.request = job.request
  /\ job'.attempt = job.attempt /\ job'.phase \in Phases(job.kind) \ {"plan", "recover"}
  /\ active' \in Models \cup {None} /\ gpu' \in Models \cup {"empty"}
  /\ overridden' \subseteq Held(job') /\ Remembered(job', active')
  /\ UNCHANGED <<proc, Settings>>

-----------------------------------------------------------------------------
(* The order of the phases.                                                *)

LEMMA RefineSequence ==
  RefineSteps = <<"plan", "encode", "encode_image", "check", "adapt", "sample", "handoff",
                  "decode", "save", "retain">>
<1>. DEFINE S == {"plan", "encode", "encode_image", "check", "adapt", "sample", "handoff",
                  "decode", "save", "retain"}
            s1 == <<"plan">>
            s2 == <<"encode", "encode_image", "check", "adapt", "sample", "handoff", "decode">>
            s3 == <<"save", "retain">>
            order == <<"plan", "encode", "encode_image", "check", "adapt", "sample", "handoff",
                       "decode", "save", "retain">>
<1>1. s1 \in Seq(S) /\ s2 \in Seq(S) /\ s3 \in Seq(S) /\ order \in Seq(S)
  OBVIOUS
<1>2. Len(s1) = 1 /\ Len(s2) = 7 /\ Len(s3) = 2 /\ Len(order) = 10
  OBVIOUS
<1>3. /\ s1 \o s2 \in Seq(S) /\ Len(s1 \o s2) = 8
      /\ \A i \in 1..8 : (s1 \o s2)[i] = IF i <= 1 THEN s1[i] ELSE s2[i - 1]
  <2>. HIDE DEF S, s1, s2
  <2>1. /\ s1 \o s2 \in Seq(S) /\ Len(s1 \o s2) = Len(s1) + Len(s2)
        /\ \A i \in 1..Len(s1) + Len(s2) :
              (s1 \o s2)[i] = IF i <= Len(s1) THEN s1[i] ELSE s2[i - Len(s1)]
    BY <1>1, ConcatProperties
  <2>2. Len(s1) + Len(s2) = 8
    BY <1>2
  <2>. QED
    BY <1>2, <2>1, <2>2
<1>4. \A i \in 1..8 : (s1 \o s2)[i] = order[i]
  BY <1>3
<1>5. /\ (s1 \o s2) \o s3 \in Seq(S) /\ Len((s1 \o s2) \o s3) = 10
      /\ \A i \in 1..10 : ((s1 \o s2) \o s3)[i] = IF i <= 8 THEN (s1 \o s2)[i] ELSE s3[i - 8]
  <2>. DEFINE s12 == s1 \o s2
  <2>1. s12 \in Seq(S) /\ Len(s12) = 8
    BY <1>3
  <2>. HIDE DEF S, s12, s3
  <2>2. /\ s12 \o s3 \in Seq(S) /\ Len(s12 \o s3) = 10
        /\ \A i \in 1..10 : (s12 \o s3)[i] = IF i <= 8 THEN s12[i] ELSE s3[i - 8]
    <3>1. /\ s12 \o s3 \in Seq(S) /\ Len(s12 \o s3) = Len(s12) + Len(s3)
          /\ \A i \in 1..Len(s12) + Len(s3) :
                (s12 \o s3)[i] = IF i <= Len(s12) THEN s12[i] ELSE s3[i - Len(s12)]
      BY <1>1, <2>1, ConcatProperties
    <3>2. Len(s12) + Len(s3) = 10
      BY <1>2, <2>1
    <3>. QED
      BY <1>2, <2>1, <3>1, <3>2
  <2>. QED
    BY <2>2 DEF s12
<1>6. \A i \in 9..10 : s3[i - 8] = order[i]
  OBVIOUS
<1>7. \A i \in 1..10 : ((s1 \o s2) \o s3)[i] = order[i]
  <2>. TAKE i \in 1..10
  <2>. DEFINE s12 == s1 \o s2
  <2>1. ((s12 \o s3)[i] = IF i <= 8 THEN s12[i] ELSE s3[i - 8])
    BY <1>5
  <2>2. (i <= 8 => s12[i] = order[i]) /\ (i > 8 => s3[i - 8] = order[i])
    BY <1>4, <1>6
  <2>. HIDE DEF order, s12, s3
  <2>3. (s12 \o s3)[i] = order[i]
    BY <2>1, <2>2
  <2>. QED
    BY <2>3 DEF s12
<1>8. (s1 \o s2) \o s3 = order
  <2>. HIDE DEF order, s1, s2, s3, S
  <2>. QED
    BY <1>1, <1>2, <1>5, <1>7, SeqEqual
<1>9. QED
  BY <1>8 DEF RefineSteps, CropSteps

LEMMA PhaseSets ==
  /\ Phases("generate") = {"plan", "encode", "check", "project", "adapt", "install", "sample",
                           "handoff", "decode", "upscale", "save", "retain"}
  /\ Phases("edit") = {"plan", "encode", "encode_image", "project", "adapt", "install", "check",
                       "sample", "handoff", "decode", "save", "retain"}
  /\ Phases("refine") = {"plan", "encode", "encode_image", "check", "adapt", "sample",
                         "handoff", "decode", "save", "retain"}
  /\ Phases("image2image") = {"plan", "encode", "project", "adapt", "encode_image", "identity",
                              "sample", "handoff", "decode", "upscale", "save", "retain"}
  /\ Phases("validate") = {"validate"}
<1>1. Phases("generate") = {"plan", "encode", "check", "project", "adapt", "install", "sample",
                            "handoff", "decode", "upscale", "save", "retain"}
  BY DEF Phases, Steps, GenerateSteps
<1>2. Phases("edit") = {"plan", "encode", "encode_image", "project", "adapt", "install", "check",
                        "sample", "handoff", "decode", "save", "retain"}
  BY DEF Phases, Steps, EditSteps
<1>3. Phases("refine") = {"plan", "encode", "encode_image", "check", "adapt", "sample",
                          "handoff", "decode", "save", "retain"}
  BY RefineSequence DEF Phases, Steps
<1>4. Phases("image2image") = {"plan", "encode", "project", "adapt", "encode_image", "identity",
                               "sample", "handoff", "decode", "upscale", "save", "retain"}
  BY DEF Phases, Steps, Image2ImageSteps
<1>5. Phases("validate") = {"validate"}
  BY DEF Phases, Steps
<1>6. QED
  BY <1>1, <1>2, <1>3, <1>4, <1>5

LEMMA GenerateOrder ==
  ASSUME NEW p \in Phases("generate") \ {"retain"}
  PROVE  /\ After("generate", p) \in Phases("generate") \ {"plan", "recover"}
         /\ p = "install" => After("generate", p) = "sample"
         /\ After("generate", p) = "install" => p = "adapt"
         /\ After("generate", p) = "sample" => p = "install"
<1>1. p \in {"plan", "encode", "check", "project", "adapt", "install", "sample", "handoff",
             "decode", "upscale", "save"}
  BY PhaseSets
<1>2. /\ After("generate", "plan") = "encode" /\ After("generate", "encode") = "check"
      /\ After("generate", "check") = "project" /\ After("generate", "project") = "adapt"
      /\ After("generate", "adapt") = "install" /\ After("generate", "install") = "sample"
  BY DEF After, Steps, GenerateSteps
<1>3. /\ After("generate", "sample") = "handoff" /\ After("generate", "handoff") = "decode"
      /\ After("generate", "decode") = "upscale" /\ After("generate", "upscale") = "save"
      /\ After("generate", "save") = "retain"
  BY DEF After, Steps, GenerateSteps
<1>4. QED
  BY <1>1, <1>2, <1>3, PhaseSets

LEMMA EditOrder ==
  ASSUME NEW p \in Phases("edit") \ {"retain"}
  PROVE  /\ After("edit", p) \in Phases("edit") \ {"plan", "recover"}
         /\ p = "install" => After("edit", p) = "check"
         /\ p = "check" => After("edit", p) = "sample"
         /\ After("edit", p) = "install" => p = "adapt"
         /\ After("edit", p) = "check" => p = "install"
         /\ After("edit", p) = "sample" => p = "check"
<1>1. p \in {"plan", "encode", "encode_image", "project", "adapt", "install", "check", "sample",
             "handoff", "decode", "save"}
  BY PhaseSets
<1>2. /\ After("edit", "plan") = "encode" /\ After("edit", "encode") = "encode_image"
      /\ After("edit", "encode_image") = "project" /\ After("edit", "project") = "adapt"
      /\ After("edit", "adapt") = "install" /\ After("edit", "install") = "check"
  BY DEF After, Steps, EditSteps
<1>3. /\ After("edit", "check") = "sample" /\ After("edit", "sample") = "handoff"
      /\ After("edit", "handoff") = "decode" /\ After("edit", "decode") = "save"
      /\ After("edit", "save") = "retain"
  BY DEF After, Steps, EditSteps
<1>4. QED
  BY <1>1, <1>2, <1>3, PhaseSets

LEMMA RefineOrder ==
  ASSUME NEW p \in Phases("refine") \ {"retain"}
  PROVE  /\ After("refine", p) \in Phases("refine") \ {"plan", "recover"}
         /\ After("refine", p) = "sample" => p = "adapt"
<1>1. p \in {"plan", "encode", "encode_image", "check", "adapt", "sample", "handoff", "decode",
             "save"}
  BY PhaseSets
<1>2. /\ After("refine", "plan") = "encode" /\ After("refine", "encode") = "encode_image"
      /\ After("refine", "encode_image") = "check" /\ After("refine", "check") = "adapt"
      /\ After("refine", "adapt") = "sample" /\ After("refine", "sample") = "handoff"
      /\ After("refine", "handoff") = "decode" /\ After("refine", "decode") = "save"
      /\ After("refine", "save") = "retain"
  BY RefineSequence DEF After, Steps
<1>3. QED
  BY <1>1, <1>2, PhaseSets

LEMMA Image2ImageOrder ==
  ASSUME NEW p \in Phases("image2image") \ {"retain"}
  PROVE  LET q == After("image2image", p)
         IN  /\ q \in Phases("image2image") \ {"plan", "recover"}
             /\ q \in {"sample", "handoff"} => p \in {"identity", "sample"}
             /\ q = "encode_image" => p = "adapt"
             /\ q = "identity" => p = "encode_image"
             /\ q = "sample" => p = "identity"
             /\ q \in {"decode", "upscale", "save", "retain"} =>
                  p \in {"handoff", "decode", "upscale", "save"}
<1>1. p \in {"plan", "encode", "project", "adapt", "encode_image", "identity", "sample",
             "handoff", "decode", "upscale", "save"}
  BY PhaseSets
<1>2. /\ After("image2image", "plan") = "encode" /\ After("image2image", "encode") = "project"
      /\ After("image2image", "project") = "adapt"
      /\ After("image2image", "adapt") = "encode_image"
      /\ After("image2image", "encode_image") = "identity"
      /\ After("image2image", "identity") = "sample"
  BY DEF After, Steps, Image2ImageSteps
<1>3. /\ After("image2image", "sample") = "handoff"
      /\ After("image2image", "handoff") = "decode"
      /\ After("image2image", "decode") = "upscale" /\ After("image2image", "upscale") = "save"
      /\ After("image2image", "save") = "retain"
  BY DEF After, Steps, Image2ImageSteps
<1>4. QED
  BY <1>1, <1>2, <1>3, PhaseSets

LEMMA NextPhase ==
  ASSUME NEW k \in Kinds, NEW p \in Phases(k), p \notin {"retain", "validate"}
  PROVE  After(k, p) \in Phases(k) \ {"plan", "recover"}
<1>1. k # "validate"
  BY PhaseSets
<1>2. k \in {"generate", "edit", "refine", "image2image"}
  BY <1>1 DEF Kinds
<1>3. QED
  BY <1>2, GenerateOrder, EditOrder, RefineOrder, Image2ImageOrder

-----------------------------------------------------------------------------
(* The floors.                                                             *)

LEMMA FloorsOfLoad ==
  ASSUME NEW l \in Loads
  PROVE  Floors(l) \in Policies /\ FloorsOf(l, Floors(l))
<1>1. l.reserve \in Nat /\ l.policy.reserve \in Nat /\ l.policy.warning \in Nat
      /\ l.policy.critical \in Nat
  BY LoadsAssumption DEF Policies
<1>2. PICK c \in Int : c = Capacity(l.total)
  BY LoadsAssumption DEF Capacity, Greater
<1>3. QED
  BY <1>1, <1>2 DEF Floors, FloorsOf, Policies, Greater, Lesser

LEMMA FloorsOfRetry ==
  ASSUME NEW l \in Loads, NEW f \in Policies, FloorsOf(l, f)
  PROVE  Recovered(f, l.total) \in Policies /\ FloorsOf(l, Recovered(f, l.total))
<1>. DEFINE reserve == RetryReserve(f.reserve, l.total)
            cap     == Capacity(l.total)
            step    == Greater(50, Lesser(150, l.total \div 16))
<1>1. l.total \in Nat /\ f.reserve \in Nat /\ f.warning \in Nat /\ f.critical \in Nat
  BY LoadsAssumption DEF Policies
<1>2. cap \in Nat
  BY <1>1 DEF Capacity, Greater
<1>3. step \in Nat
  BY <1>1 DEF Greater, Lesser
<1>4. reserve = f.reserve + Lesser(step, Greater(0, cap - f.reserve))
  BY DEF RetryReserve
<1>5. reserve \in Nat /\ reserve >= f.reserve /\ reserve <= Greater(f.reserve, cap)
  <2>. HIDE DEF cap, step, reserve
  <2>. QED
    BY <1>1, <1>2, <1>3, <1>4 DEF Lesser, Greater
<1>6. Recovered(f, l.total) = [f EXCEPT !.reserve = reserve, !.warning = Greater(@, reserve)]
  BY DEF Recovered
<1>7. PICK first \in Nat : first = Floors(l).reserve
  BY FloorsOfLoad DEF Policies
<1>8. QED
  <2>. HIDE DEF cap, step, reserve
  <2>1. f.critical <= f.warning /\ f.reserve <= f.warning /\ f.reserve >= first
        /\ f.reserve <= Greater(first, cap)
    BY <1>7 DEF FloorsOf, cap
  <2>2. reserve <= Greater(first, cap) /\ reserve >= first
    BY <2>1, <1>1, <1>2, <1>5 DEF Greater
  <2>3. Recovered(f, l.total) \in Policies
    BY <1>1, <1>5, <1>6 DEF Policies, Greater
  <2>4. FloorsOf(l, Recovered(f, l.total))
    BY <1>1, <1>5, <1>6, <1>7, <2>1, <2>2 DEF Policies, FloorsOf, Greater, cap
  <2>5. QED
    BY <2>3, <2>4

-----------------------------------------------------------------------------
(* Each of the three ways keeps the invariant.                             *)

LEMMA Commanded ==
  ASSUME NEW kind \in Kinds \cup {None}, NEW r \in Requests \cup {None},
         NEW q \in {"idle", "plan", "validate", "encode"}, NEW a \in 1..2
  PROVE  LET k == Command(kind, r, q, a)
         IN  k \in JobType /\ k.kind = kind /\ k.request = r /\ k.phase = q /\ k.attempt = a
  BY DEF Command, JobType, PhaseNames, Models

LEMMA IdleCommand == Idle \in JobType /\ Idle.kind = None
  BY Commanded DEF Idle

LEMMA EndedKeeps ==
  ASSUME IInv, proc = "busy", Ended
  PROVE  IInv'
<1>1. load \in Loads /\ load # None
  BY NamesAssumption DEF IInv, LoadInv
<1>2. JobInv'
  BY IdleCommand DEF IInv, JobInv, Ended, At
<1>3. LoadInv'
  BY <1>1 DEF IInv, LoadInv, Ended
<1>4. FloorsInv'
  BY <1>1, FloorsOfRetry DEF IInv, FloorsInv, Ended
<1>5. ModelInv'
  BY DEF Ended, ModelInv, At
<1>6. QED
  BY <1>2, <1>3, <1>4, <1>5 DEF IInv

LEMMA RetriesKeeps ==
  ASSUME IInv, proc = "busy", Retries
  PROVE  IInv'
<1>1. JobInv'
  BY DEF IInv, JobInv, Retries, At, JobType, Settings, PhaseNames
<1>2. LoadInv'
  BY DEF IInv, LoadInv, Retries, JobInv, JobType, Settings
<1>3. FloorsInv'
  BY DEF IInv, FloorsInv, Retries, Settings
<1>4. job'.phase = "recover"
  BY DEF IInv, JobInv, JobType, Retries
<1>5. ModelInv'
  BY <1>4 DEF IInv, ModelInv, Retries, At, Remembered
<1>6. QED
  BY <1>1, <1>2, <1>3, <1>5 DEF IInv

LEMMA MovesKeeps ==
  ASSUME IInv, proc = "busy", Moves
  PROVE  IInv'
<1>1. JobInv'
  BY DEF IInv, JobInv, Moves, At, JobType, Settings
<1>2. LoadInv'
  BY DEF IInv, LoadInv, Moves, Settings
<1>3. FloorsInv'
  BY DEF IInv, FloorsInv, Moves, Settings
<1>4. overridden' \subseteq Models
  BY DEF Moves, Held, JobType
<1>5. ModelInv'
  BY <1>4 DEF ModelInv, Moves, At
<1>6. QED
  BY <1>1, <1>2, <1>3, <1>5 DEF IInv

-----------------------------------------------------------------------------
(* What the steps have in common.                                          *)

LEMMA FailEnds ==
  ASSUME IInv, proc = "busy", NEW err, Fail(err), overridden' \subseteq Models,
         floors' \in {floors, Recovered(floors, load.total)}, UNCHANGED <<load, jobs>>,
         parts' \subseteq Parts, vaeOnCpu' \in BOOLEAN
  PROVE  Ended
  BY DEF IInv, ModelInv, Fail, ReleaseClone, Ended

LEMMA RaiseLeaves ==
  ASSUME IInv, proc = "busy", NEW err, Raise(err), overridden' = {}, UNCHANGED Settings
  PROVE  Ended \/ Retries
<1>1. CASE Recoverable(err)
  BY <1>1 DEF Raise, Recoverable, Retries
<1>2. CASE ~Recoverable(err)
  <2>1. Fail(err) /\ UNCHANGED <<load, jobs, floors, parts, vaeOnCpu>>
    BY <1>2 DEF Raise, Settings
  <2>2. parts' \subseteq Parts /\ vaeOnCpu' \in BOOLEAN
    BY <2>1 DEF IInv, LoadInv
  <2>3. QED
    BY <2>1, <2>2, FailEnds
<1>3. QED
  BY <1>1, <1>2

LEMMA MemoryLow ==
  ASSUME IInv, proc = "busy", Fail("ram"), UNCHANGED <<Settings, overridden>>
  PROVE  Ended
<1>1. /\ UNCHANGED <<load, jobs, floors, parts, vaeOnCpu>> /\ overridden' \subseteq Models
      /\ parts' \subseteq Parts /\ vaeOnCpu' \in BOOLEAN
  BY DEF Settings, IInv, LoadInv, ModelInv
<1>2. QED
  BY <1>1, FailEnds

LEMMA Rephased ==
  ASSUME NEW j \in JobType, NEW q \in PhaseNames
  PROVE  LET k == [j EXCEPT !.phase = q]
         IN  /\ k \in JobType /\ k.kind = j.kind /\ k.request = j.request
             /\ k.attempt = j.attempt /\ k.model = j.model /\ k.phase = q
  BY DEF JobType

LEMMA Remodelled ==
  ASSUME NEW j \in JobType, NEW m \in Models
  PROVE  LET k == [j EXCEPT !.model = m]
         IN  /\ k \in JobType /\ k.kind = j.kind /\ k.request = j.request
             /\ k.attempt = j.attempt /\ k.model = m /\ k.phase = j.phase
  BY DEF JobType

LEMMA RecroppedRecord ==
  ASSUME NEW A, NEW B, NEW C, NEW D, NEW E, NEW F, NEW G, NEW q \in C, NEW c \in F,
         NEW j \in [kind : A, request : B, phase : C, attempt : D, model : E, crops : F, tile : G]
  PROVE  LET k == [j EXCEPT !.phase = q, !.crops = c]
         IN  /\ k \in [kind : A, request : B, phase : C, attempt : D, model : E, crops : F, tile : G]
             /\ k.kind = j.kind /\ k.request = j.request /\ k.attempt = j.attempt /\ k.phase = q
  OBVIOUS

LEMMA RecroppedToSelf ==
  ASSUME NEW A, NEW B, NEW C, NEW D, NEW E, NEW F, NEW G, NEW q \in C,
         NEW j \in [kind : A, request : B, phase : C, attempt : D, model : E, crops : F, tile : G]
  PROVE  [j EXCEPT !.phase = q, !.crops = j.crops] = [j EXCEPT !.phase = q]
  OBVIOUS

LEMMA NextFaceRecord ==
  ASSUME NEW A, NEW B, NEW C, NEW D, NEW E, NEW F, NEW G, NEW q \in C, NEW c \in F, NEW m \in E,
         NEW j \in [kind : A, request : B, phase : C, attempt : D, model : E, crops : F, tile : G]
  PROVE  LET k == [j EXCEPT !.phase = q, !.crops = c, !.model = m]
         IN  /\ k \in [kind : A, request : B, phase : C, attempt : D, model : E, crops : F, tile : G]
             /\ k.kind = j.kind /\ k.request = j.request /\ k.attempt = j.attempt /\ k.phase = q
  OBVIOUS

LEMMA Recropped ==
  ASSUME NEW j \in JobType, NEW q \in PhaseNames, NEW c \in SUBSET AllCrops
  PROVE  LET k == [j EXCEPT !.phase = q, !.crops = c]
         IN  /\ k \in JobType /\ k.kind = j.kind /\ k.request = j.request
             /\ k.attempt = j.attempt /\ k.phase = q
<1>. DEFINE A == Kinds \cup {None}
            B == Requests \cup {None}
            C == 1..2
            D == SUBSET AllCrops
            E == {512, 256, 128}
<1>1. JobType = [kind : A, request : B, phase : PhaseNames, attempt : C, model : Models,
                 crops : D, tile : E]
  BY DEF JobType
<1>2. c \in D
  OBVIOUS
<1>. HIDE DEF A, B, C, D, E
<1>3. QED
  BY <1>1, <1>2, RecroppedRecord

LEMMA CropsKept ==
  ASSUME NEW j \in JobType, NEW q \in PhaseNames
  PROVE  /\ j.crops \in SUBSET AllCrops
         /\ [j EXCEPT !.phase = q, !.crops = j.crops] = [j EXCEPT !.phase = q]
<1>. DEFINE A == Kinds \cup {None}
            B == Requests \cup {None}
            C == 1..2
            D == SUBSET AllCrops
            E == {512, 256, 128}
<1>1. JobType = [kind : A, request : B, phase : PhaseNames, attempt : C, model : Models,
                 crops : D, tile : E]
  BY DEF JobType
<1>. HIDE DEF A, B, C, D, E
<1>2. [j EXCEPT !.phase = q, !.crops = j.crops] = [j EXCEPT !.phase = q]
  BY <1>1, RecroppedToSelf
<1>3. j.crops \in D
  BY <1>1
<1>4. QED
  BY <1>2, <1>3 DEF D

LEMMA NextFace ==
  ASSUME NEW j \in JobType, NEW c \in SUBSET AllCrops
  PROVE  LET k == [j EXCEPT !.phase = "encode", !.crops = c, !.model = "baseline"]
         IN  /\ k \in JobType /\ k.kind = j.kind /\ k.request = j.request
             /\ k.attempt = j.attempt /\ k.phase = "encode"
<1>. DEFINE A == Kinds \cup {None}
            B == Requests \cup {None}
            C == 1..2
            D == SUBSET AllCrops
            E == {512, 256, 128}
<1>1. JobType = [kind : A, request : B, phase : PhaseNames, attempt : C, model : Models,
                 crops : D, tile : E]
  BY DEF JobType
<1>2. c \in D
  OBVIOUS
<1>3. "encode" \in PhaseNames /\ "baseline" \in Models
  BY DEF PhaseNames, Models
<1>. HIDE DEF A, B, C, D, E
<1>4. QED
  BY <1>1, <1>2, <1>3, NextFaceRecord

LEMMA AdvancedJob ==
  ASSUME NEW j \in JobType, j.kind \in Kinds, j.phase \in Phases(j.kind),
         j.phase \notin {"retain", "validate"}
  PROVE  LET i == Advanced(j)
         IN  /\ i \in JobType /\ i.kind = j.kind /\ i.request = j.request
             /\ i.attempt = j.attempt /\ i.model = j.model /\ i.phase = After(j.kind, j.phase)
             /\ i.phase \in Phases(j.kind) \ {"plan", "recover"}
<1>1. After(j.kind, j.phase) \in Phases(j.kind) \ {"plan", "recover"}
  BY NextPhase
<1>2. After(j.kind, j.phase) \in PhaseNames
  BY <1>1, PhaseSets DEF Kinds, PhaseNames
<1>3. Advanced(j) = [j EXCEPT !.phase = After(j.kind, j.phase)]
  BY DEF Advanced
<1>4. QED
  BY <1>1, <1>2, <1>3, Rephased

LEMMA RemodelledJob ==
  ASSUME NEW j \in JobType, j.kind \in Kinds, j.phase \in Phases(j.kind),
         j.phase \notin {"retain", "validate"}, NEW m \in Models
  PROVE  LET k == [Advanced(j) EXCEPT !.model = m]
         IN  /\ k \in JobType /\ k.kind = j.kind /\ k.request = j.request
             /\ k.attempt = j.attempt /\ k.model = m /\ k.phase = After(j.kind, j.phase)
             /\ k.phase \in Phases(j.kind) \ {"plan", "recover"}
<1>. DEFINE i == Advanced(j)
<1>1. /\ i \in JobType /\ i.kind = j.kind /\ i.request = j.request
      /\ i.attempt = j.attempt /\ i.model = j.model /\ i.phase = After(j.kind, j.phase)
      /\ i.phase \in Phases(j.kind) \ {"plan", "recover"}
  BY AdvancedJob
<1>. HIDE DEF i
<1>2. LET k == [i EXCEPT !.model = m]
      IN  /\ k \in JobType /\ k.kind = j.kind /\ k.request = j.request
          /\ k.attempt = j.attempt /\ k.model = m /\ k.phase = After(j.kind, j.phase)
          /\ k.phase \in Phases(j.kind) \ {"plan", "recover"}
  BY <1>1, Remodelled
<1>3. QED
  BY <1>2 DEF i

(* The command goes on to its next phase, perhaps with another model.      *)
Advances ==
  /\ job' \in JobType /\ job'.kind = job.kind /\ job'.request = job.request
  /\ job'.attempt = job.attempt /\ job'.phase = After(job.kind, job.phase)
  /\ job'.phase \in Phases(job.kind) \ {"plan", "recover"}

LEMMA Advancing ==
  ASSUME IInv, proc = "busy", job.phase \notin {"retain", "validate", "recover"}
  PROVE  /\ job' = Advanced(job) => Advances /\ job'.model = job.model
         /\ \A m \in Models : job' = [Advanced(job) EXCEPT !.model = m] =>
                              Advances /\ job'.model = m
<1>1. job \in JobType /\ job.kind \in Kinds /\ job.phase \in Phases(job.kind)
  BY DEF IInv, JobInv
<1>2. job' = Advanced(job) => Advances /\ job'.model = job.model
  BY <1>1, AdvancedJob DEF Advances
<1>3. ASSUME NEW m \in Models, job' = [Advanced(job) EXCEPT !.model = m]
      PROVE  Advances /\ job'.model = m
  BY <1>1, <1>3, RemodelledJob DEF Advances
<1>4. QED
  BY <1>2, <1>3

(* A step that only goes on, where nothing of the override is held.        *)
LEMMA Proceeding ==
  ASSUME IInv, proc = "busy", job.phase \notin {"retain", "validate", "recover", "identity",
                                                 "handoff"},
         Proceeds, UNCHANGED <<active, Settings>>, gpu' \in Models \cup {"empty"},
         overridden' \subseteq Held(job')
  PROVE  Moves
<1>2. Advances /\ job'.model = job.model
  BY Advancing DEF Proceeds
<1>3. Remembered(job', active')
  <2>1. SUFFICES ASSUME job.kind = "image2image"
                 PROVE  Remembered(job', active')
    BY <1>2 DEF Remembered, Advances
  <2>2. job.phase \in Phases("image2image") \ {"retain"}
    BY <2>1 DEF IInv, JobInv
  <2>3. Remembered(job, active)
    BY DEF IInv, ModelInv
  <2>4. QED
    BY <1>2, <2>1, <2>2, <2>3, Image2ImageOrder DEF Remembered, Advances
<1>4. active' \in Models \cup {None} /\ UNCHANGED proc
  BY DEF IInv, ModelInv, Proceeds
<1>5. QED
  BY <1>2, <1>3, <1>4 DEF Moves, Advances

(* Only a sampling job holds an override.                                  *)
LEMMA NothingHeld ==
  ASSUME IInv, proc = "busy", job.phase # "sample", ~(job.kind = "edit" /\ job.phase = "check")
  PROVE  overridden = {}
  BY DEF IInv, ModelInv, Held

-----------------------------------------------------------------------------
(* The steps of a command.                                                 *)

LEMMA PlanStep ==
  ASSUME IInv, Plan
  PROVE  Ended \/ Retries \/ Moves
<1>1. proc = "busy" /\ job.phase = "plan" /\ UNCHANGED <<Settings, overridden>>
  BY DEF Plan, At
<1>2. overridden' = {}
  BY <1>1, NothingHeld
<1>3. CASE Raise("error")
  BY <1>1, <1>2, <1>3, RaiseLeaves
<1>4. CASE Proceeds /\ UNCHANGED <<active, gpu>>
  <2>1. gpu' \in Models \cup {"empty"}
    BY <1>4 DEF IInv, ModelInv
  <2>2. QED
    BY <1>1, <1>2, <1>4, <2>1, Proceeding
<1>5. ASSUME job.kind = "refine", UNCHANGED <<proc, active, gpu>>, NEW q \in {"save", "encode"},
             NEW c \in SUBSET AllCrops, job' = [job EXCEPT !.phase = q, !.crops = c]
      PROVE  Moves
  <2>1. /\ job' \in JobType /\ job'.kind = job.kind /\ job'.request = job.request
        /\ job'.attempt = job.attempt /\ job'.phase = q
    <3>1. job \in JobType /\ q \in PhaseNames
      BY DEF IInv, JobInv, PhaseNames
    <3>2. LET k == [job EXCEPT !.phase = q, !.crops = c]
          IN  /\ k \in JobType /\ k.kind = job.kind /\ k.request = job.request
              /\ k.attempt = job.attempt /\ k.phase = q
      BY <3>1, Recropped
    <3>3. QED
      BY <1>5, <3>2
  <2>2. q \in Phases("refine") \ {"plan", "recover"}
    BY PhaseSets
  <2>3. Remembered(job', active')
    BY <1>5, <2>1 DEF Remembered
  <2>4. active' \in Models \cup {None} /\ gpu' \in Models \cup {"empty"}
    BY <1>5 DEF IInv, ModelInv
  <2>5. QED
    BY <1>1, <1>2, <1>5, <2>1, <2>2, <2>3, <2>4 DEF Moves
<1>6. CASE job.kind = "refine" /\ ~Raise("error")
  <2>1. UNCHANGED <<proc, active, gpu>>
    BY <1>6 DEF Plan
  <2>2. Crops(job.request) \in SUBSET AllCrops
    BY <1>1 DEF IInv, JobInv, AllCrops
  <2>3. CASE Crops(job.request) = {}
    <3>1. job' = [job EXCEPT !.phase = "save"]
      BY <1>6, <2>3 DEF Plan
    <3>2. job' = [job EXCEPT !.phase = "save", !.crops = job.crops]
          /\ job.crops \in SUBSET AllCrops
      BY <3>1 DEF IInv, JobInv, JobType
    <3>3. QED
      BY <1>5, <1>6, <2>1, <3>2
  <2>4. CASE Crops(job.request) # {}
    <3>1. job' = [Advanced(job) EXCEPT !.crops = Crops(job.request)]
      BY <1>6, <2>4 DEF Plan
    <3>2. After("refine", "plan") = "encode"
      BY RefineSequence DEF After, Steps
    <3>3. job' = [job EXCEPT !.phase = "encode", !.crops = Crops(job.request)]
      BY <1>1, <1>6, <3>1, <3>2 DEF Advanced
    <3>4. QED
      BY <1>5, <1>6, <2>1, <2>2, <3>3
  <2>5. QED
    BY <2>3, <2>4
<1>7. QED
  BY <1>3, <1>4, <1>6 DEF Plan, Proceeds

LEMMA EncodeStep ==
  ASSUME IInv, Encode \/ EncodeImage
  PROVE  Ended \/ Retries \/ Moves
<1>1. proc = "busy" /\ job.phase \in {"encode", "encode_image"}
  BY DEF Encode, EncodeImage, At
<1>2. UNCHANGED <<Settings, overridden>>
  BY DEF Encode, EncodeImage, Checked
<1>3. overridden' = {}
  BY <1>1, <1>2, NothingHeld
<1>4. CASE Fail("ram")
  BY <1>1, <1>2, <1>4, MemoryLow
<1>5. CASE Raise("error") \/ Raise("oom")
  BY <1>1, <1>2, <1>3, <1>5, RaiseLeaves
<1>6. CASE Proceeds /\ gpu' \in {gpu, "empty"} /\ UNCHANGED active
  <2>1. gpu' \in Models \cup {"empty"}
    BY <1>6 DEF IInv, ModelInv
  <2>2. QED
    BY <1>1, <1>2, <1>3, <1>6, <2>1, Proceeding
<1>7. QED
  BY <1>4, <1>5, <1>6 DEF Encode, EncodeImage, Checked

LEMMA CheckStep ==
  ASSUME IInv, Check
  PROVE  Ended \/ Retries \/ Moves
<1>1. proc = "busy" /\ job.phase = "check" /\ UNCHANGED <<Settings, overridden>>
  BY DEF Check, At, Checked
<1>2. CASE Fail("ram")
  BY <1>1, <1>2, MemoryLow
<1>3. CASE Proceeds /\ gpu' \in {gpu, "empty"} /\ UNCHANGED active
  <2>1. gpu' \in Models \cup {"empty"}
    BY <1>3 DEF IInv, ModelInv
  <2>2. job'.kind = job.kind /\ job'.request = job.request /\ job'.model = job.model
        /\ job'.phase = After(job.kind, job.phase)
    BY <1>1, <1>3, Advancing DEF Proceeds, Advances
  <2>3. overridden' \subseteq Held(job')
    <3>1. CASE job.kind = "edit"
      <4>1. After("edit", "check") = "sample"
        BY EditOrder, PhaseSets
      <4>2. overridden \subseteq Held(job) /\ UNCHANGED overridden
        BY <1>1 DEF IInv, ModelInv
      <4>3. Held(job') = Held(job)
        BY <1>1, <2>2, <3>1, <4>1 DEF Held
      <4>4. QED
        BY <4>2, <4>3
    <3>2. CASE job.kind # "edit"
      BY <1>1, <3>2, NothingHeld
    <3>3. QED
      BY <3>1, <3>2
  <2>4. QED
    BY <1>1, <1>3, <2>1, <2>3, Proceeding
<1>4. QED
  BY <1>2, <1>3 DEF Check, Checked

LEMMA ProjectStep ==
  ASSUME IInv, Project
  PROVE  Ended \/ Retries \/ Moves
<1>1. proc = "busy" /\ job.phase = "project" /\ UNCHANGED Settings
  BY DEF Project, At
<1>2. overridden = {}
  BY <1>1, NothingHeld
<1>3. CASE Raise("error") /\ UNCHANGED overridden
  BY <1>1, <1>2, <1>3, RaiseLeaves
<1>4. ASSUME NEW m \in {"projector", "baseline"}, job' = [Advanced(job) EXCEPT !.model = m],
             UNCHANGED <<proc, active, gpu>>, overridden' = {}
      PROVE  Moves
  <2>1. Advances
    BY <1>1, <1>4, Advancing DEF Models
  <2>2. Remembered(job', active')
    <3>1. SUFFICES ASSUME job.kind = "image2image"
                   PROVE  Remembered(job', active')
      BY <2>1 DEF Remembered, Advances
    <3>2. QED
      BY <1>1, <2>1, <3>1, Image2ImageOrder, PhaseSets DEF Remembered, Advances
  <2>3. m \in Models /\ active' \in Models \cup {None} /\ gpu' \in Models \cup {"empty"}
    BY <1>4 DEF Models, IInv, ModelInv
  <2>4. QED
    BY <1>1, <1>4, <2>1, <2>2, <2>3 DEF Moves, Advances
<1>5. CASE /\ job' = [Advanced(job) EXCEPT !.model = "projector"]
           /\ Cloned("projector", "baseline") /\ UNCHANGED <<proc, outcome, active, gpu>>
  <2>1. overridden' = {}
    BY <1>2, <1>5 DEF Cloned
  <2>2. QED
    BY <1>4, <1>5, <2>1
<1>6. CASE /\ job' = [Advanced(job) EXCEPT !.model = "baseline"]
           /\ UNCHANGED <<proc, outcome, active, gpu, overridden>>
  BY <1>2, <1>4, <1>6
<1>7. QED
  BY <1>3, <1>5, <1>6 DEF Project

LEMMA AdaptStep ==
  ASSUME IInv, Adapt
  PROVE  Ended \/ Retries \/ Moves
<1>1. proc = "busy" /\ job.phase = "adapt" /\ UNCHANGED Settings
  BY DEF Adapt, At
<1>2. overridden = {}
  BY <1>1, NothingHeld
<1>3. ASSUME NEW err \in {"error", "lora", "oom"}, Raise(err), UNCHANGED overridden
      PROVE  Ended \/ Retries
  BY <1>1, <1>2, <1>3, RaiseLeaves
<1>4. CASE Proceeds /\ UNCHANGED <<active, gpu, overridden>>
  <2>1. gpu' \in Models \cup {"empty"} /\ overridden' = {}
    BY <1>2, <1>4 DEF IInv, ModelInv
  <2>2. QED
    BY <1>1, <1>4, <2>1, Proceeding
<1>5. CASE /\ Cloned("lora", job.model) /\ job' = [Advanced(job) EXCEPT !.model = "lora"]
           /\ active' = "lora" /\ UNCHANGED <<proc, outcome, gpu>>
  <2>1. Advances
    BY <1>1, <1>5, Advancing DEF Models
  <2>2. Remembered(job', active')
    BY <1>1, <2>1, Image2ImageOrder, PhaseSets DEF Remembered, Advances
  <2>3. /\ overridden' = {} /\ active' \in Models \cup {None}
        /\ gpu' \in Models \cup {"empty"}
    BY <1>2, <1>5 DEF Cloned, Models, IInv, ModelInv
  <2>4. QED
    BY <1>1, <1>5, <2>1, <2>2, <2>3 DEF Moves, Advances
<1>6. CASE /\ Cloned("lora", job.model)
           /\ proc' = (IF job.kind \in Ending THEN "failed" ELSE "abandoned")
           /\ outcome' = ErrorCode("error", job.kind) /\ job' = Idle
           /\ active' = (IF job.kind \in Released THEN None ELSE "lora")
           /\ gpu' = (IF job.kind \in Released THEN "empty" ELSE gpu)
  <2>1. /\ overridden' = {} /\ active' \in Models \cup {None}
        /\ gpu' \in Models \cup {"empty"}
    BY <1>2, <1>6 DEF Cloned, Models, IInv, ModelInv
  <2>2. QED
    BY <1>1, <1>6, <2>1 DEF Ended, Settings, IInv, LoadInv
<1>7. QED
  BY <1>3, <1>4, <1>5, <1>6 DEF Adapt

LEMMA IdentityStep ==
  ASSUME IInv, Identity
  PROVE  Ended \/ Retries \/ Moves
<1>1. proc = "busy" /\ job.phase = "identity" /\ UNCHANGED Settings
  BY DEF Identity, At
<1>2. overridden = {}
  BY <1>1, NothingHeld
<1>3. CASE Raise("error") /\ UNCHANGED overridden
  BY <1>1, <1>2, <1>3, RaiseLeaves
<1>4. CASE /\ job' = [Advanced(job) EXCEPT !.model = "identity"] /\ active' = "identity"
           /\ Cloned("identity", job.model) /\ UNCHANGED <<proc, outcome, gpu>>
  <2>1. Advances /\ job'.model = "identity"
    BY <1>1, <1>4, Advancing DEF Models
  <2>2. Remembered(job', active')
    BY <1>1, <1>4, <2>1, Image2ImageOrder, PhaseSets DEF Remembered, Advances
  <2>3. /\ overridden' = {} /\ active' \in Models \cup {None}
        /\ gpu' \in Models \cup {"empty"}
    BY <1>2, <1>4 DEF Cloned, Models, IInv, ModelInv
  <2>4. QED
    BY <1>1, <1>4, <2>1, <2>2, <2>3 DEF Moves, Advances
<1>5. QED
  BY <1>3, <1>4 DEF Identity

LEMMA InstallStep ==
  ASSUME IInv, Install
  PROVE  Ended \/ Retries \/ Moves
<1>1. proc = "busy" /\ job.phase = "install" /\ UNCHANGED Settings
  BY DEF Install, At
<1>2. overridden = {}
  BY <1>1, NothingHeld
<1>3. Proceeds /\ UNCHANGED <<active, gpu>>
  BY <1>2 DEF Install
<1>4. Advances /\ job'.model = job.model
  BY <1>1, <1>3, Advancing DEF Proceeds
<1>5. job.kind \in {"generate", "edit"}
  BY <1>1, PhaseSets DEF IInv, JobInv, Kinds
<1>6. job'.phase = "sample" \/ (job.kind = "edit" /\ job'.phase = "check")
  BY <1>1, <1>4, <1>5, GenerateOrder, EditOrder, PhaseSets DEF Advances
<1>7. overridden' \subseteq Held(job')
  BY <1>2, <1>4, <1>6 DEF Install, Held, Advances
<1>8. gpu' \in Models \cup {"empty"}
  BY <1>3 DEF IInv, ModelInv
<1>9. QED
  BY <1>1, <1>3, <1>7, <1>8, Proceeding

LEMMA SampleStep ==
  ASSUME IInv, Sample
  PROVE  Ended \/ Retries \/ Moves
<1>1. proc = "busy" /\ job.phase = "sample" /\ UNCHANGED Settings
  BY DEF Sample, At
<1>2. Uninstalled = {}
  BY <1>1 DEF IInv, ModelInv, Held, Uninstalled
<1>3. CASE Fail("ram") /\ UNCHANGED overridden
  BY <1>1, <1>3, MemoryLow
<1>4. ASSUME NEW err \in {"error", "oom", "pressure"}, SampleFails(err), overridden' = Uninstalled
      PROVE  Ended \/ Retries
  <2>1. CASE job.kind = "refine"
    BY <1>1, <1>2, <1>4, <2>1 DEF SampleFails, Ended, Settings, IInv, LoadInv
  <2>2. CASE job.kind # "refine"
    <3>1. PICK e : Raise(e)
      BY <1>4, <2>2 DEF SampleFails
    <3>2. QED
      BY <1>1, <1>2, <1>4, <3>1, RaiseLeaves
  <2>3. QED
    BY <2>1, <2>2
<1>5. CASE Proceeds /\ gpu' = job.model /\ UNCHANGED active /\ overridden' = Uninstalled
  <2>1. gpu' \in Models \cup {"empty"} /\ overridden' = {}
    BY <1>2, <1>5 DEF IInv, JobInv, JobType
  <2>2. QED
    BY <1>1, <1>5, <2>1, Proceeding
<1>6. QED
  BY <1>3, <1>4, <1>5 DEF Sample

LEMMA HandoffStep ==
  ASSUME IInv, Handoff
  PROVE  Ended \/ Retries \/ Moves
<1>1. proc = "busy" /\ job.phase = "handoff" /\ UNCHANGED <<Settings, overridden>>
  BY DEF Handoff, At
<1>2. overridden = {}
  BY <1>1, NothingHeld
<1>3. CASE Fail("ram")
  BY <1>1, <1>3, MemoryLow
<1>4. CASE /\ Proceeds /\ gpu' = "empty"
           /\ active' = IF active = job.model THEN None ELSE active
  <2>1. Advances
    BY <1>1, <1>4, Advancing DEF Proceeds
  <2>2. job.kind = "image2image" => active' = None /\ job'.phase = "decode"
    <3>1. SUFFICES ASSUME job.kind = "image2image"
                   PROVE  active' = None /\ job'.phase = "decode"
      OBVIOUS
    <3>2. active = job.model
      BY <1>1, <3>1 DEF IInv, ModelInv, Remembered
    <3>3. After("image2image", "handoff") = "decode"
      BY DEF After, Steps, Image2ImageSteps
    <3>4. QED
      BY <1>1, <1>4, <2>1, <3>1, <3>2, <3>3 DEF Advances
  <2>3. Remembered(job', active')
    BY <2>1, <2>2 DEF Remembered, Advances
  <2>4. active' \in Models \cup {None}
    BY <1>4 DEF IInv, ModelInv
  <2>5. QED
    BY <1>1, <1>2, <1>4, <2>1, <2>3, <2>4 DEF Moves, Advances, Proceeds
<1>5. QED
  BY <1>3, <1>4 DEF Handoff

LEMMA DecodeStep ==
  ASSUME IInv, Decode
  PROVE  Ended \/ Retries \/ Moves
<1>1. proc = "busy" /\ job.phase = "decode" /\ UNCHANGED <<Settings, overridden>>
  BY DEF Decode, At
<1>2. overridden' = {}
  BY <1>1, NothingHeld
<1>3. CASE Raise("error") \/ Raise("oom")
  BY <1>1, <1>2, <1>3, RaiseLeaves
<1>. DEFINE left == {t \in job.crops : t # CHOOSE u \in job.crops : TRUE}
<1>4. CASE /\ job' = NextCrop(job) /\ UNCHANGED <<proc, outcome, active, gpu>>
  <2>1. gpu' \in Models \cup {"empty"} /\ active' \in Models \cup {None}
    BY <1>4 DEF IInv, ModelInv
  <2>2. CASE left = {}
    <3>1. Proceeds
      BY <1>4, <2>2 DEF NextCrop, Proceeds
    <3>2. QED
      BY <1>1, <1>2, <1>4, <2>1, <3>1, Proceeding
  <2>3. CASE left # {}
    <3>1. job' = [job EXCEPT !.phase = "encode", !.crops = left, !.model = "baseline"]
      BY <1>4, <2>3 DEF NextCrop
    <3>2. job \in JobType /\ left \in SUBSET AllCrops
      BY DEF IInv, JobInv, JobType
    <3>3. LET k == [job EXCEPT !.phase = "encode", !.crops = left, !.model = "baseline"]
          IN  /\ k \in JobType /\ k.kind = job.kind /\ k.request = job.request
              /\ k.attempt = job.attempt /\ k.phase = "encode"
      <4>. HIDE DEF left
      <4>1. QED
        BY <3>2, NextFace
    <3>4. /\ job' \in JobType /\ job'.kind = job.kind /\ job'.request = job.request
          /\ job'.attempt = job.attempt /\ job'.phase = "encode"
      BY <3>1, <3>3
    <3>5. "encode" \in Phases(job.kind) \ {"plan", "recover"}
      BY <1>1, PhaseSets DEF IInv, JobInv, Kinds
    <3>6. Remembered(job', active')
      BY <3>4 DEF Remembered
    <3>7. QED
      BY <1>1, <1>2, <1>4, <2>1, <3>4, <3>5, <3>6 DEF Moves
  <2>4. QED
    BY <2>2, <2>3
<1>5. QED
  BY <1>3, <1>4 DEF Decode

LEMMA UpscaleStep ==
  ASSUME IInv, Upscale
  PROVE  Ended \/ Retries \/ Moves
<1>1. proc = "busy" /\ job.phase = "upscale" /\ UNCHANGED <<Settings, overridden>>
  BY DEF Upscale, At
<1>2. overridden' = {}
  BY <1>1, NothingHeld
<1>3. CASE Raise("error") \/ Raise("oom")
  BY <1>1, <1>2, <1>3, RaiseLeaves
<1>4. CASE Proceeds /\ gpu' \in {gpu, "empty"} /\ UNCHANGED active
  <2>1. gpu' \in Models \cup {"empty"}
    BY <1>4 DEF IInv, ModelInv
  <2>2. QED
    BY <1>1, <1>2, <1>4, <2>1, Proceeding
<1>5. CASE /\ job.tile \div 2 >= 128 /\ job' = [job EXCEPT !.tile = @ \div 2]
           /\ gpu' = "empty" /\ UNCHANGED <<proc, outcome, active>>
  <2>1. job \in JobType
    BY DEF IInv, JobInv
  <2>2. job.tile \in {512, 256, 128}
    BY <2>1 DEF JobType
  <2>3. PICK half \in {512, 256, 128} : half = job.tile \div 2
    BY <1>5, <2>2
  <2>4. LET k == [job EXCEPT !.tile = half]
        IN  /\ k \in JobType /\ k.kind = job.kind /\ k.request = job.request
            /\ k.attempt = job.attempt /\ k.phase = job.phase /\ k.model = job.model
    BY <2>1 DEF JobType
  <2>5. /\ job' \in JobType /\ job'.kind = job.kind /\ job'.request = job.request
        /\ job'.attempt = job.attempt /\ job'.phase = job.phase /\ job'.model = job.model
    BY <1>5, <2>3, <2>4
  <2>6. Remembered(job', active') /\ active' \in Models \cup {None}
    BY <1>1, <1>5, <2>5 DEF IInv, ModelInv, Remembered
  <2>7. job'.phase \in Phases(job.kind) \ {"plan", "recover"}
    BY <1>1, <2>5 DEF IInv, JobInv
  <2>8. QED
    BY <1>1, <1>2, <1>5, <2>5, <2>6, <2>7 DEF Moves
<1>6. QED
  BY <1>3, <1>4, <1>5 DEF Upscale

LEMMA SaveStep ==
  ASSUME IInv, Save
  PROVE  Ended \/ Retries \/ Moves
<1>1. proc = "busy" /\ job.phase = "save" /\ UNCHANGED <<Settings, overridden>>
  BY DEF Save, At
<1>2. overridden' = {}
  BY <1>1, NothingHeld
<1>3. CASE Raise("error")
  BY <1>1, <1>2, <1>3, RaiseLeaves
<1>4. CASE Proceeds /\ UNCHANGED <<active, gpu>>
  <2>1. gpu' \in Models \cup {"empty"}
    BY <1>4 DEF IInv, ModelInv
  <2>2. QED
    BY <1>1, <1>2, <1>4, <2>1, Proceeding
<1>5. QED
  BY <1>3, <1>4 DEF Save

LEMMA DiagnoseLorasStep ==
  ASSUME IInv, DiagnoseLoras
  PROVE  Ended
<1>1. proc = "busy" /\ UNCHANGED <<Settings, overridden>>
  BY DEF DiagnoseLoras, At
<1>2. /\ UNCHANGED <<load, jobs, floors>> /\ overridden' \subseteq Models
      /\ parts' \subseteq Parts /\ vaeOnCpu' \in BOOLEAN
  BY <1>1 DEF Settings, IInv, LoadInv, ModelInv
<1>3. CASE Fail("lora") \/ Fail("oom")
  BY <1>1, <1>2, <1>3, FailEnds
<1>4. CASE /\ proc' = "exited" /\ outcome' = "ready" /\ job' = Idle /\ UNCHANGED <<active, gpu>>
  BY <1>2, <1>4 DEF Ended, IInv, ModelInv
<1>5. QED
  BY <1>3, <1>4 DEF DiagnoseLoras

LEMMA RetainStep ==
  ASSUME IInv, Retain
  PROVE  IInv'
<1>1. proc = "busy" /\ job.phase = "retain" /\ UNCHANGED <<Settings, overridden>> /\ job' = Idle
  BY DEF Retain, At
<1>2. overridden' = {}
  BY <1>1, NothingHeld
<1>3. job.kind \in Kinds /\ load \in Loads /\ load # None
  BY <1>1, NamesAssumption DEF IInv, JobInv, LoadInv
<1>4. active' = None
  <2>1. job.kind = "image2image" => active = None
    BY <1>1 DEF IInv, ModelInv, Remembered
  <2>2. job.kind # "validate"
    BY <1>1, PhaseSets DEF IInv, JobInv
  <2>3. QED
    BY <1>3, <2>1, <2>2 DEF Retain, Released, Kinds
<1>5. proc' \in {"waiting", "exited"}
  BY DEF Retain
<1>6. gpu' \in Models \cup {"empty"} /\ (proc' = "waiting" => gpu' \in {"empty", "baseline"})
  BY DEF Retain, IInv, ModelInv, Models
<1>7. JobInv'
  BY <1>1, <1>5, IdleCommand DEF IInv, JobInv, At, Settings
<1>8. LoadInv'
  BY <1>1, <1>3, <1>5 DEF IInv, LoadInv, Settings
<1>9. FloorsInv'
  BY <1>1 DEF IInv, FloorsInv, Settings
<1>10. ModelInv'
  BY <1>2, <1>4, <1>5, <1>6 DEF ModelInv, At
<1>11. QED
  BY <1>7, <1>8, <1>9, <1>10 DEF IInv

(* The retry: the floors are raised, and the VAE is on the CPU or lost.    *)
LEMMA RecoverStep ==
  ASSUME IInv, Recover
  PROVE  IInv'
<1>1. /\ proc = "busy" /\ job.phase = "recover" /\ job.kind = "generate" /\ job.attempt = 1
      /\ UNCHANGED <<load, jobs, overridden>>
  BY DEF Recover, At, IInv, JobInv
<1>2. overridden' = {} /\ job \in JobType /\ load \in Loads
  BY <1>1, NothingHeld DEF IInv, JobInv, LoadInv
<1>3. ASSUME NEW err, Fail(err), floors' \in {floors, Recovered(floors, load.total)},
             parts' \subseteq Parts, vaeOnCpu' \in BOOLEAN
      PROVE  IInv'
  <2>1. Ended
    BY <1>1, <1>2, <1>3, FailEnds
  <2>2. QED
    BY <1>1, <2>1, EndedKeeps
<1>4. CASE Fail("ram") /\ UNCHANGED <<parts, vaeOnCpu, floors>>
  BY <1>3, <1>4 DEF IInv, LoadInv
<1>5. CASE /\ floors' = Recovered(floors, load.total)
           /\ parts' = parts \ {"vae"} /\ Fail("error") /\ UNCHANGED vaeOnCpu
  BY <1>3, <1>5 DEF IInv, LoadInv
<1>6. CASE /\ floors' = Recovered(floors, load.total)
           /\ vaeOnCpu' = TRUE /\ UNCHANGED parts /\ gpu' \in {gpu, "empty"}
           /\ job' = Command(job.kind, job.request, "encode", job.attempt + 1)
           /\ UNCHANGED <<proc, outcome, active>>
  <2>1. job' = Command(job.kind, job.request, "encode", 2)
    BY <1>1, <1>6
  <2>2. job.kind \in Kinds /\ job.request \in Requests
    BY <1>1 DEF IInv, JobInv
  <2>3. job' \in JobType /\ job'.kind = "generate" /\ job'.request = job.request
        /\ job'.phase = "encode"
    BY <1>1, <2>1, <2>2, Commanded
  <2>4. JobInv'
    BY <1>1, <1>6, <2>3, PhaseSets DEF IInv, JobInv, At, Kinds
  <2>5. LoadInv'
    BY <1>1, <1>6 DEF IInv, LoadInv
  <2>6. FloorsInv'
    BY <1>1, <1>2, <1>6, FloorsOfRetry, NamesAssumption DEF IInv, FloorsInv, LoadInv
  <2>7. ModelInv'
    BY <1>1, <1>2, <1>6, <2>3 DEF IInv, ModelInv, At, Remembered
  <2>8. QED
    BY <2>4, <2>5, <2>6, <2>7 DEF IInv
<1>7. QED
  BY <1>4, <1>5, <1>6 DEF Recover, SwitchVaeToCpu

-----------------------------------------------------------------------------
(* Everything before a command, and the invariant.                         *)

LEMMA InitHolds == Init => IInv
<1>. SUFFICES ASSUME Init PROVE IInv
  OBVIOUS
<1>1. JobInv
  BY JobsAssumption, IdleCommand DEF Init, JobInv, At
<1>2. LoadInv
  BY DEF Init, LoadInv
<1>3. FloorsInv
  BY DEF Init, FloorsInv, Policies
<1>4. ModelInv
  BY DEF Init, ModelInv, At
<1>5. QED
  BY <1>1, <1>2, <1>3, <1>4 DEF IInv

LEMMA LoadModelStep ==
  ASSUME IInv, NEW l \in Loads, LoadModel(l)
  PROVE  IInv'
<1>1. /\ proc = "new" /\ proc' \in {"waiting", "failed"} /\ load' = l
      /\ UNCHANGED <<active, overridden, gpu, job, jobs>>
  BY DEF LoadModel
<1>2. JobInv'
  BY <1>1 DEF IInv, JobInv, At
<1>3. LoadInv'
  BY <1>1, NamesAssumption, LoadsAssumption DEF LoadModel, LoadInv, PartialLoads, Parts
<1>4. FloorsInv'
  BY <1>1, FloorsOfLoad DEF LoadModel, FloorsInv
<1>5. ModelInv'
  BY <1>1 DEF IInv, ModelInv, At
<1>6. QED
  BY <1>2, <1>3, <1>4, <1>5 DEF IInv

LEMMA StartStep ==
  ASSUME IInv, NEW kind \in Kinds, NEW r \in Requests, Start(kind, r)
  PROVE  IInv'
<1>1. /\ proc = "waiting" /\ proc' = "busy" /\ jobs' = jobs + 1 /\ jobs < MaxJobs
      /\ UNCHANGED <<load, parts, vaeOnCpu, floors, active, overridden, gpu, outcome>>
  BY DEF Start
<1>2. FirstStep(kind) \in {"plan", "validate"} /\ FirstStep(kind) \in Phases(kind)
  BY PhaseSets, RefineSequence
     DEF FirstStep, Steps, GenerateSteps, EditSteps, Image2ImageSteps, Kinds
<1>3. /\ job' \in JobType /\ job'.kind = kind /\ job'.request = r
      /\ job'.phase = FirstStep(kind) /\ job'.attempt = 1
  BY <1>2, Commanded DEF Start
<1>4. JobInv'
  BY <1>1, <1>2, <1>3, JobsAssumption DEF IInv, JobInv, At
<1>5. LoadInv'
  BY <1>1, <1>3 DEF IInv, LoadInv
<1>6. FloorsInv'
  BY <1>1 DEF IInv, FloorsInv
<1>7. ModelInv'
  BY <1>1, <1>2, <1>3 DEF IInv, ModelInv, At, Remembered
<1>8. QED
  BY <1>4, <1>5, <1>6, <1>7 DEF IInv

LEMMA IdleStep ==
  ASSUME IInv, Probe \/ RefuseLoad \/ Close \/ Done \/ UNCHANGED vars
  PROVE  IInv'
<1>1. CASE Probe \/ RefuseLoad \/ Close
  <2>1. /\ proc # "busy" /\ proc' # "busy" /\ proc' \in {proc, "exited", "failed"}
        /\ (proc' = "new" => proc = "new") /\ (proc' = "waiting" => proc = "waiting")
        /\ (proc' = "exited" => proc \in {"waiting", "abandoned"})
        /\ UNCHANGED <<load, parts, vaeOnCpu, floors, active, overridden, gpu, job, jobs>>
    BY <1>1 DEF Probe, RefuseLoad, Close
  <2>2. JobInv'
    BY <2>1 DEF IInv, JobInv, At
  <2>3. LoadInv' /\ FloorsInv' /\ ModelInv'
    BY <2>1 DEF IInv, LoadInv, FloorsInv, ModelInv, At
  <2>4. QED
    BY <2>2, <2>3 DEF IInv
<1>2. CASE Done \/ UNCHANGED vars
  BY <1>2 DEF Done, vars, IInv, JobInv, LoadInv, FloorsInv, ModelInv, At, Idle
<1>3. QED
  BY <1>1, <1>2

LEMMA StepKeeps == IInv /\ [Next]_vars => IInv'
<1>. SUFFICES ASSUME IInv, [Next]_vars PROVE IInv'
  OBVIOUS
<1>1. ASSUME Ended \/ Retries \/ Moves, proc = "busy" PROVE IInv'
  BY <1>1, EndedKeeps, RetriesKeeps, MovesKeeps
<1>2. CASE Plan \/ Encode \/ EncodeImage \/ Check
  BY <1>1, <1>2, PlanStep, EncodeStep, CheckStep DEF Plan, Encode, EncodeImage, Check, At
<1>3. CASE Project \/ Adapt \/ Identity \/ Install
  BY <1>1, <1>3, ProjectStep, AdaptStep, IdentityStep, InstallStep
     DEF Project, Adapt, Identity, Install, At
<1>4. CASE Sample \/ Handoff \/ Decode
  BY <1>1, <1>4, SampleStep, HandoffStep, DecodeStep DEF Sample, Handoff, Decode, At
<1>5. CASE Upscale \/ Save \/ DiagnoseLoras
  BY <1>1, <1>5, UpscaleStep, SaveStep, DiagnoseLorasStep DEF Upscale, Save, DiagnoseLoras, At
<1>6. CASE Retain \/ Recover
  BY <1>6, RetainStep, RecoverStep
<1>7. CASE \E l \in Loads : LoadModel(l)
  BY <1>7, LoadModelStep
<1>8. ASSUME NEW r \in Requests,
             \/ GenerateBaseline(r) \/ EditImage(r) \/ RefineFaces(r)
             \/ Image2Image(r) \/ ValidateLoras(r)
      PROVE  IInv'
  BY <1>8, StartStep DEF GenerateBaseline, EditImage, RefineFaces, Image2Image, ValidateLoras,
                         Kinds
<1>9. CASE Probe \/ RefuseLoad \/ Close \/ Done \/ UNCHANGED vars
  BY <1>9, IdleStep
<1>10. QED
  BY <1>2, <1>3, <1>4, <1>5, <1>6, <1>7, <1>8, <1>9 DEF Next, LoadCommand

LEMMA Invariance == Spec => []IInv
<1>1. QED
  BY InitHolds, StepKeeps, PTL DEF Spec

-----------------------------------------------------------------------------

(* Types, the bound of two attempts and the smallest tile, for every       *)
(* request and setting.                                                    *)
THEOREM TypeCorrect == Spec => []TypeOK
<1>1. IInv => TypeOK
  <2>. SUFFICES ASSUME IInv PROVE TypeOK
    OBVIOUS
  <2>1. (proc = "busy") = (job.kind # None)
    BY NamesAssumption, IdleCommand DEF IInv, JobInv
  <2>2. QED
    BY <2>1 DEF IInv, JobInv, LoadInv, FloorsInv, ModelInv, JobType, TypeOK
<1>2. QED
  BY <1>1, Invariance, PTL

(* Whatever the jobs before it were and however they ended, the next one,  *)
(* and a retry, meets a complete and clean baseline.                       *)
THEOREM JobAlwaysStartsClean == Spec => []JobStartsClean
<1>1. IInv => JobStartsClean
  <2>. SUFFICES ASSUME IInv PROVE JobStartsClean
    OBVIOUS
  <2>1. At("encode") => overridden = {}
    BY NothingHeld DEF At
  <2>2. QED
    BY <2>1 DEF IInv, LoadInv, ModelInv, JobStartsClean, At
<1>2. QED
  BY <1>1, Invariance, PTL

(* What may be edited of a request's image and what is refined of it.      *)
LEMMA MasksOfEdit ==
  ASSUME NEW r \in Requests
  PROVE  /\ EditedPixels(r) \subseteq DenoiseMask(r)
         /\ \A i \in DOMAIN r.edits : r.edits[i].enabled =>
              CompositeMask(<<r.edits[i]>>, 0, r.width, r.height) \subseteq EditedPixels(r)
<1>. DEFINE w == r.width
            h == r.height
            c == CompositeFeather(r)
            edits == r.edits
<1>1. r \in Request
  BY RequestsAssumption
<1>2. /\ w \in Nat /\ h \in Nat /\ edits \in Seq(RegionDefinition)
      /\ r.latentFeather \in Nat /\ r.compositeFeather \in Nat
  BY <1>1 DEF Request
<1>3. c \in Nat /\ c <= r.latentFeather
  BY <1>2 DEF CompositeFeather, Lesser
<1>4. /\ AlignUp(w, TokenPixels) \in Nat /\ AlignUp(w, TokenPixels) >= w
      /\ AlignUp(h, TokenPixels) \in Nat /\ AlignUp(h, TokenPixels) >= h
  <2>. HIDE DEF w, h
  <2>1. QED
    BY <1>2, ShapeAssumption, AlignedUp
<1>. HIDE DEF w, h, c, edits
<1>5. EditedPixels(r) \subseteq DenoiseMask(r)
  <2>. DEFINE w2 == AlignUp(w, TokenPixels)
              h2 == AlignUp(h, TokenPixels)
              far == r.latentFeather
  <2>1. w2 \in Nat /\ w <= w2 /\ h2 \in Nat /\ h <= h2 /\ far \in Nat /\ c <= far
    BY <1>2, <1>3, <1>4
  <2>2. /\ EditedPixels(r) = IF r.entire THEN Pixels(w, h) ELSE CompositeMask(edits, c, w, h)
        /\ DenoiseMask(r) = IF r.entire THEN Pixels(w2, h2)
                            ELSE CompositeMask(edits, far, w2, h2)
    BY DEF EditedPixels, DenoiseMask, w, h, c, edits
  <2>. HIDE DEF w2, h2, far
  <2>3. CompositeMask(edits, c, w, h) \subseteq CompositeMask(edits, far, w2, h2)
    BY <1>2, <1>3, <2>1, MaskGrows
  <2>4. Pixels(w, h) \subseteq Pixels(w2, h2)
    <3>1. 0..(w - 1) \subseteq 0..(w2 - 1) /\ 0..(h - 1) \subseteq 0..(h2 - 1)
      BY <1>2, <2>1
    <3>2. QED
      BY <3>1 DEF Pixels
  <2>5. QED
    BY <2>2, <2>3, <2>4
<1>6. ASSUME NEW i \in DOMAIN r.edits, r.edits[i].enabled
      PROVE  CompositeMask(<<r.edits[i]>>, 0, r.width, r.height) \subseteq EditedPixels(r)
  <2>. DEFINE own == <<edits[i]>>
  <2>1. edits[i] \in RegionDefinition
    <3>1. i \in 1..Len(edits)
      BY <1>2, LenProperties DEF edits
    <3>2. QED
      BY <1>2, <3>1, ElementOfSeq
  <2>2. own \in Seq(RegionDefinition) /\ DOMAIN own = {1} /\ own[1] = edits[i]
    BY <2>1
  <2>3. CompositeMask(own, 0, w, h) \subseteq CompositeMask(own, c, w, h)
    <3>. HIDE DEF own
    <3>1. QED
      BY <1>2, <1>3, <2>2, MaskGrows
  <2>4. CompositeMask(own, c, w, h) \subseteq CompositeMask(edits, c, w, h)
    <3>. HIDE DEF own
    <3>1. i \in DOMAIN edits /\ 1 \in DOMAIN own /\ \A j \in DOMAIN own : own[j] = edits[i]
      BY <2>2 DEF edits
    <3>2. QED
      BY <3>1 DEF CompositeMask
  <2>5. CompositeMask(own, 0, w, h) \subseteq Pixels(w, h)
    BY DEF CompositeMask
  <2>6. EditedPixels(r) = IF r.entire THEN Pixels(w, h) ELSE CompositeMask(edits, c, w, h)
    BY DEF EditedPixels, w, h, c, edits
  <2>7. CompositeMask(own, 0, w, h) \subseteq EditedPixels(r)
    <3>. HIDE DEF own
    <3>1. QED
      BY <2>3, <2>4, <2>5, <2>6
  <2>8. QED
    BY <2>7 DEF edits, w, h
<1>7. QED
  BY <1>5, <1>6

LEMMA RefinedOfTarget ==
  ASSUME NEW r \in Requests, NEW t \in Crops(r)
  PROVE  LET p == RefinedPixels(t.face, r.width, r.height, r.padding, r.soft)
             f == t.face
         IN  /\ p # {} /\ p \subseteq Pixels(r.width, r.height)
             /\ r.padding > 1 /\ r.padding * Greater(f.x1 - f.x0, f.y1 - f.y0)
                                   <= Lesser(r.width, r.height)
                => (f.x0..(f.x1 - 1)) \X (f.y0..(f.y1 - 1)) \subseteq
                     RefinedPixels(f, r.width, r.height, r.padding, FALSE)
<1>. DEFINE face == t.face
            w == r.width
            h == r.height
            padding == r.padding
            soft == r.soft
<1>1. r \in Request
  BY RequestsAssumption
<1>2. /\ r.faces \in SUBSET PixelBox /\ r.regions \in Seq(RegionDefinition)
      /\ r.loras \in Seq(LoraSpecification)
  BY <1>1 DEF Request
<1>3. IsFiniteSet(r.faces)
  BY RequestsAssumption
<1>4. t \in Detail(r.faces)
  <2>. DEFINE faces == r.faces
              regions == r.regions
              loras == r.loras
  <2>1. faces \in SUBSET PixelBox /\ IsFiniteSet(faces) /\ regions \in Seq(RegionDefinition)
        /\ loras \in Seq(LoraSpecification) /\ t \in FaceTargets(faces, regions, loras)
    BY <1>2, <1>3 DEF Crops
  <2>2. t \in Detail(faces)
    <3>. HIDE DEF faces, regions, loras
    <3>1. QED
      BY <2>1, FaceTargetsOf
  <2>3. QED
    BY <2>2
<1>5. face \in r.faces
  BY <1>4 DEF Detail
<1>6. face \in PixelBox /\ w \in Nat /\ h \in Nat /\ padding \in Nat \ {0} /\ soft \in BOOLEAN
  BY <1>1, <1>2, <1>5 DEF Request
<1>7. /\ Lesser(w, h) >= 4 /\ face.x0 >= 0 /\ face.y0 >= 0 /\ face.x1 <= w /\ face.y1 <= h
      /\ face.x1 - face.x0 >= 2 /\ (soft => face.x1 - face.x0 >= 4)
  BY <1>5, RequestsAssumption
<1>8. LET p == RefinedPixels(face, w, h, padding, soft)
          longest == Greater(face.x1 - face.x0, face.y1 - face.y0)
      IN  /\ p # {} /\ p \subseteq Pixels(w, h)
          /\ padding > 1 /\ padding * longest <= Lesser(w, h) =>
               (face.x0..(face.x1 - 1)) \X (face.y0..(face.y1 - 1))
                 \subseteq RefinedPixels(face, w, h, padding, FALSE)
  <2>. HIDE DEF face, w, h, padding, soft
  <2>1. QED
    BY <1>6, <1>7, RefinedCrop
<1>9. QED
  BY <1>8, Zenon DEF face, w, h, padding, soft

(* What is edited or refined stays where the sampler was free to change    *)
(* the image and around the faces of the request, for every request: a     *)
(* longer feather and a canvas padded to whole tokens only add pixels, and *)
(* the crop of a face keeps inside the image and, where it fits, holds it. *)
THEOREM EditsStayInMask == Spec => []EditStaysInMask
<1>1. IInv => EditStaysInMask
  <2>. SUFFICES ASSUME IInv, At("save")
                PROVE  /\ job.kind = "edit" =>
                            /\ EditedPixels(job.request) \subseteq DenoiseMask(job.request)
                            /\ \A i \in DOMAIN job.request.edits :
                                 job.request.edits[i].enabled =>
                                   CompositeMask(<<job.request.edits[i]>>, 0,
                                                 job.request.width, job.request.height)
                                     \subseteq EditedPixels(job.request)
                       /\ job.kind = "refine" => \A t \in Crops(job.request) :
                            LET p == RefinedPixels(t.face, job.request.width,
                                       job.request.height, job.request.padding, job.request.soft)
                                f == t.face
                            IN  /\ p # {}
                                /\ p \subseteq Pixels(job.request.width, job.request.height)
                                /\ job.request.padding > 1
                                   /\ job.request.padding * Greater(f.x1 - f.x0, f.y1 - f.y0)
                                        <= Lesser(job.request.width, job.request.height)
                                   => (f.x0..(f.x1 - 1)) \X (f.y0..(f.y1 - 1)) \subseteq
                                        RefinedPixels(f, job.request.width, job.request.height,
                                                      job.request.padding, FALSE)
    BY DEF EditStaysInMask
  <2>1. job.request \in Requests
    BY DEF IInv, JobInv, At
  <2>2. QED
    BY <2>1, MasksOfEdit, RefinedOfTarget, Zenon
<1>2. QED
  BY <1>1, Invariance, PTL

(* The floors stay in order, between the load's reserve and the GPU's      *)
(* capacity, through any number of recoveries.                             *)
THEOREM MemoryFloorsAlwaysHold == Spec => []MemoryFloorsHold
<1>1. IInv => MemoryFloorsHold
  BY DEF IInv, LoadInv, FloorsInv, FloorsOf, MemoryFloorsHold, Parts
<1>2. QED
  BY <1>1, Invariance, PTL

-----------------------------------------------------------------------------
(* The regions a job is planned with.                                      *)

LEMMA UnplannedRequest ==
  ASSUME NEW p, p.width \in Nat \ {0}, p.height \in Nat \ {0}, p.words \in Nat,
         p.loras \in Seq(LoraSpecification), p.regions = <<>>
  PROVE  Planned(p)
<1>1. DOMAIN Active(p.regions) = {}
  BY NothingActive
<1>2. <<>> \in Seq(RegionDefinition) /\ DOMAIN <<>> = {}
  OBVIOUS
<1>3. DistinctIds(p.regions)
  BY <1>2 DEF DistinctIds
<1>4. QED
  BY <1>1, <1>2, <1>3 DEF Planned

LEMMA EditIsPlanned ==
  ASSUME NEW r \in Requests, ~PlanRefused(EditRequest(r))
  PROVE  Planned(EditRequest(r)) /\ EditRequest(r).width = r.width
                                 /\ EditRequest(r).height = r.height
<1>. DEFINE p == EditRequest(r)
            references == r.regions
            edits == r.edits
            loras == r.loras
            kept == {i \in DOMAIN r.loras :
                       r.preserve \/ ~(r.loras[i].reference /\ r.loras[i].mode = "character")}
<1>1. r \in Request
  BY RequestsAssumption
<1>2. /\ references \in Seq(RegionDefinition) /\ edits \in Seq(RegionDefinition)
      /\ loras \in Seq(LoraSpecification) /\ r.preserve \in BOOLEAN /\ r.words \in Nat
      /\ r.width \in Nat \ {0} /\ r.height \in Nat \ {0}
  BY <1>1 DEF Request
<1>3. /\ DistinctIds(references) /\ DistinctIds(edits)
      /\ \A i \in DOMAIN references, j \in DOMAIN edits : references[i].id # edits[j].id
  BY RequestsAssumption DEF DistinctIds
<1>4. /\ p.width = r.width /\ p.height = r.height /\ p.words \in {r.words, 0}
      /\ p.regions = EditRegions(references, edits, r.words, r.preserve)
      /\ p.loras = Chosen(loras, kept)
  BY DEF EditRequest
<1>5. kept \in SUBSET (DOMAIN loras)
  OBVIOUS
<1>. HIDE DEF p, references, edits, loras, kept
<1>6. p.regions \in Seq(RegionDefinition) /\ DistinctIds(p.regions)
  BY <1>2, <1>3, <1>4, RegionsOfEdit
<1>7. p.loras \in Seq(LoraSpecification)
  <2>1. loras \in Seq(LoraSpecification)
    BY <1>2
  <2>2. Chosen(loras, kept) \in Seq(LoraSpecification)
    BY ONLY <2>1, <1>5, ChosenOnes
  <2>3. p.loras = Chosen(loras, kept)
    BY <1>4
  <2>4. QED
    BY ONLY <2>2, <2>3
<1>8. \A k \in DOMAIN Active(p.regions) : OnCanvas(Active(p.regions)[k].box, p.width, p.height)
  BY DEF PlanRefused, p
<1>9. Planned(p)
  BY <1>2, <1>4, <1>6, <1>7, <1>8 DEF Planned
<1>10. QED
  BY <1>4, <1>9 DEF p

LEMMA RequestIsPlanned ==
  ASSUME NEW kind \in Kinds, NEW r \in Requests, ~Refused(kind, r)
  PROVE  /\ Planned(PlanOf(kind, r))
         /\ PlanOf(kind, r).width = r.width /\ PlanOf(kind, r).height = r.height
<1>1. r \in Request
  BY RequestsAssumption
<1>2. /\ r.width \in Nat \ {0} /\ r.height \in Nat \ {0} /\ r.words \in Nat
      /\ r.regions \in Seq(RegionDefinition) /\ r.loras \in Seq(LoraSpecification)
  BY <1>1 DEF Request
<1>3. Planned(Unplanned(r)) /\ Unplanned(r).width = r.width /\ Unplanned(r).height = r.height
  <2>. DEFINE p == Unplanned(r)
  <2>1. /\ p.width = r.width /\ p.height = r.height /\ p.words = r.words
        /\ p.loras = r.loras /\ p.regions = <<>>
    BY <1>1 DEF Unplanned, Request
  <2>. HIDE DEF p
  <2>2. Planned(p)
    BY <1>2, <2>1, UnplannedRequest
  <2>3. QED
    BY <2>1, <2>2 DEF p
<1>4. CASE kind = "generate"
  <2>1. CASE ~r.regional
    BY <1>3, <1>4, <2>1 DEF PlanOf
  <2>2. CASE r.regional
    <3>1. PlanOf(kind, r) = r
      BY <1>4, <2>2 DEF PlanOf
    <3>2. CASE r.regions = <<>>
      BY <1>2, <3>1, <3>2, UnplannedRequest
    <3>3. CASE r.regions # <<>>
      <4>1. ~PlanRefused(r)
        BY <1>4, <3>1, <3>3 DEF Refused
      <4>2. \A k \in DOMAIN Active(r.regions) :
              OnCanvas(Active(r.regions)[k].box, r.width, r.height)
        BY <4>1 DEF PlanRefused
      <4>3. DistinctIds(r.regions)
        BY RequestsAssumption DEF DistinctIds
      <4>4. QED
        BY <1>2, <3>1, <4>2, <4>3 DEF Planned
    <3>4. QED
      BY <3>2, <3>3
  <2>3. QED
    BY <2>1, <2>2
<1>5. CASE kind = "edit"
  <2>. DEFINE e == EditRequest(r)
  <2>1. ~PlanRefused(PlanOf(kind, r))
    BY <1>5 DEF Refused
  <2>2. CASE e.regions # <<>>
    <3>1. PlanOf(kind, r) = e
      BY <1>5, <2>2 DEF PlanOf
    <3>2. QED
      BY <2>1, <3>1, EditIsPlanned
  <2>3. CASE e.regions = <<>>
    <3>. DEFINE p == Unplanned(e)
    <3>1. PlanOf(kind, r) = p
      BY <1>5, <2>3 DEF PlanOf
    <3>2. /\ p.width = r.width /\ p.height = r.height /\ p.words \in {r.words, 0}
          /\ p.loras = e.loras /\ p.regions = <<>>
      BY DEF Unplanned, EditRequest
    <3>3. e.loras \in Seq(LoraSpecification)
      <4>. DEFINE loras == r.loras
                  kept == {i \in DOMAIN loras :
                             r.preserve \/ ~(loras[i].reference /\ loras[i].mode = "character")}
      <4>1. e.loras = Chosen(loras, kept)
        BY DEF EditRequest
      <4>2. kept \in SUBSET (DOMAIN loras) /\ loras \in Seq(LoraSpecification)
        BY <1>2
      <4>. HIDE DEF e, loras, kept
      <4>3. Chosen(loras, kept) \in Seq(LoraSpecification)
        BY ONLY <4>2, ChosenOnes
      <4>4. QED
        BY ONLY <4>1, <4>3
    <3>. HIDE DEF p, e
    <3>4. Planned(p)
      BY <1>2, <3>2, <3>3, UnplannedRequest
    <3>5. QED
      BY <3>1, <3>2, <3>4
  <2>4. QED
    BY <2>2, <2>3
<1>6. CASE kind \notin {"generate", "edit"}
  BY <1>3, <1>6 DEF PlanOf
<1>7. QED
  BY <1>4, <1>5, <1>6

(* What the bound prompt of a job is worth: its spans, and a canvas of     *)
(* more image tokens than the encoder has layers.                          *)
LEMMA RequestIsBound ==
  ASSUME NEW kind \in Kinds, NEW r \in Requests, ~Refused(kind, r)
  PROVE  /\ Spanned(PlanOf(kind, r), CompiledOf[kind][r], BoundOf[kind][r])
         /\ Cardinality(BoundOf[kind][r].images) \in Nat
         /\ Layers < Cardinality(BoundOf[kind][r].images)
<1>. DEFINE p == PlanOf(kind, r)
            plan == CompilePlan(p)
            bound == Bind(plan)
<1>1. CompiledOf[kind][r] = plan
  BY DEF CompiledOf
<1>2. BoundOf[kind][r] = bound
  BY <1>1 DEF BoundOf
<1>3. Planned(p) /\ p.width = r.width /\ p.height = r.height
  BY RequestIsPlanned
<1>4. r.width \in Nat /\ r.height \in Nat
  BY RequestsAssumption DEF Request
<1>. HIDE DEF p
<1>5. Spanned(p, plan, bound)
  BY <1>3, SpansOfPrompt
<1>. HIDE DEF plan, bound
<1>6. bound.images = ImageTokens(Grid(r.width, r.height))
  BY <1>3, <1>5 DEF Spanned
<1>7. Layers < Cardinality(bound.images)
  BY <1>6, RequestsAssumption
<1>8. Cardinality(bound.images) \in Nat
  <2>. DEFINE g == Grid(r.width, r.height)
  <2>1. g.rows \in Nat /\ g.cols \in Nat
    <3>1. /\ AlignUp(r.width, TokenPixels) \in Nat
          /\ AlignUp(r.height, TokenPixels) \in Nat
      BY <1>4, ShapeAssumption, AlignedUp
    <3>2. ASSUME NEW x \in Nat PROVE x \div TokenPixels \in Nat
      BY ShapeAssumption
    <3>3. QED
      BY <3>1, <3>2 DEF Grid
  <2>. HIDE DEF g
  <2>2. g.rows * g.cols - 1 \in Int
    BY <2>1
  <2>3. ImageTokens(g) = 0..(g.rows * g.cols - 1)
    BY DEF ImageTokens
  <2>4. IsFiniteSet(ImageTokens(g))
    BY <2>2, <2>3, FS_Interval
  <2>5. QED
    BY <1>6, <2>4, FS_CardinalityType DEF g
<1>9. QED
  BY <1>1, <1>2, <1>5, <1>7, <1>8 DEF p

LEMMA SpansAreSpatial ==
  ASSUME NEW kind \in Kinds, NEW r \in Requests, BoundOf[kind][r].spans # <<>>
  PROVE  Spatial(kind, r) /\ kind \in {"generate", "edit"}
<1>1. BoundOf[kind][r] = Bind(CompilePlan(PlanOf(kind, r)))
  BY DEF BoundOf, CompiledOf
<1>2. PlanOf(kind, r).regions # <<>>
  BY <1>1, NothingActive
<1>3. Unplanned(r).regions = <<>>
  BY RequestsAssumption DEF Unplanned, Request
<1>4. kind \in {"generate", "edit"}
  BY <1>2, <1>3 DEF PlanOf, Kinds
<1>5. QED
  BY <1>4 DEF Spatial

-----------------------------------------------------------------------------
(* The routes and the override are in place while a job samples.           *)

\* The phases of a job whose LoRAs have been routed.
Routed(kind) ==
  CASE kind = "generate"    -> {"install", "sample"}
    [] kind = "edit"        -> {"install", "check", "sample"}
    [] kind = "refine"      -> {"sample"}
    [] kind = "image2image" -> {"encode_image", "identity", "sample"}
    [] OTHER                -> {}

\* Job j, where the models in o hold an override.
Armed(j, o) ==
  /\ j.phase # "plan" => ~Refused(j.kind, j.request)
  /\ j.phase \in Routed(j.kind) =>
       /\ ~LorasRefused(j.kind, j.request)
       /\ j.kind \in {"generate", "edit"} =>
            /\ Adapts(j.kind, j.request) => j.model = "lora"
            /\ Spatial(j.kind, j.request) /\ j.phase \in {"check", "sample"} => j.model \in o

ReadyInv == proc = "busy" => Armed(job, overridden)

LEMMA BeforeRouted ==
  ASSUME NEW k \in Kinds, NEW p \in Phases(k), p \notin {"retain", "validate"},
         After(k, p) \in Routed(k)
  PROVE  /\ p # "adapt" => p \in Routed(k)
         /\ p \in {"adapt", "install", "check", "encode_image", "identity"}
         /\ k \in {"generate", "edit"} =>
              /\ p \in {"adapt", "install", "check"}
              /\ p = "adapt" => After(k, p) \notin {"check", "sample"}
<1>1. k \in {"generate", "edit", "refine", "image2image"}
  BY DEF Kinds, Routed
<1>2. CASE k = "generate"
  BY <1>2, GenerateOrder DEF Routed
<1>3. CASE k = "edit"
  BY <1>3, EditOrder DEF Routed
<1>4. CASE k = "refine"
  BY <1>4, RefineOrder DEF Routed
<1>5. CASE k = "image2image"
  BY <1>5, Image2ImageOrder DEF Routed
<1>6. QED
  BY <1>1, <1>2, <1>3, <1>4, <1>5

(* A command that ends is no job; one that is tried again is not routed.   *)
LEMMA FailReady ==
  ASSUME NEW err, Fail(err)
  PROVE  ReadyInv'
  BY DEF Fail, ReadyInv

LEMMA RaiseReady ==
  ASSUME IInv, ReadyInv, proc = "busy", NEW err, Raise(err),
         job.phase # "plan" \/ err = "error"
  PROVE  ReadyInv'
<1>1. CASE ~Recoverable(err)
  BY <1>1, FailReady DEF Raise
<1>2. CASE Recoverable(err)
  <2>1. job.phase # "plan" /\ job' = [job EXCEPT !.phase = "recover"]
    BY <1>2 DEF Raise, Recoverable, IsOom
  <2>2. job \in JobType /\ job.kind \in Kinds
    BY DEF IInv, JobInv
  <2>3. job'.phase = "recover" /\ job'.kind = job.kind /\ job'.request = job.request
    BY <2>1, <2>2, Rephased DEF PhaseNames
  <2>4. "recover" \notin Routed(job.kind)
    BY <2>2 DEF Routed, Kinds
  <2>5. Armed(job', overridden')
    BY <2>1, <2>3, <2>4 DEF ReadyInv, Armed
  <2>6. QED
    BY <2>5 DEF ReadyInv
<1>3. QED
  BY <1>1, <1>2

(* A phase before the LoRAs are routed, or after the sampling.             *)
LEMMA UnroutedReady ==
  ASSUME ReadyInv, proc = "busy", job.phase # "plan", job'.kind = job.kind,
         job'.request = job.request, job'.phase \notin Routed(job.kind)
  PROVE  ReadyInv'
<1>1. Armed(job', overridden')
  BY DEF ReadyInv, Armed
<1>2. QED
  BY <1>1 DEF ReadyInv

LEMMA AfterUnrouted ==
  ASSUME IInv, ReadyInv, proc = "busy",
         job.phase \notin {"plan", "retain", "validate", "recover", "adapt", "install", "check",
                           "encode_image", "identity"},
         Advances
  PROVE  ReadyInv'
<1>1. job.kind \in Kinds /\ job.phase \in Phases(job.kind)
  BY DEF IInv, JobInv
<1>2. job'.phase \notin Routed(job.kind)
  BY <1>1, BeforeRouted DEF Advances
<1>3. QED
  BY <1>2, UnroutedReady DEF Advances

\* image2image samples with a model of its own and no override.
LEMMA RoutedReady ==
  ASSUME IInv, ReadyInv, proc = "busy",
         job.phase \in {"check", "encode_image", "identity"}, Advances,
         job.kind \in {"generate", "edit"} => job'.model = job.model /\ UNCHANGED overridden
  PROVE  ReadyInv'
<1>1. job.kind \in Kinds /\ job.phase \in Phases(job.kind)
  BY DEF IInv, JobInv
<1>2. CASE job'.phase \notin Routed(job.kind)
  BY <1>2, UnroutedReady DEF Advances
<1>3. CASE job'.phase \in Routed(job.kind)
  <2>1. /\ job.phase \in Routed(job.kind)
        /\ job.kind \in {"generate", "edit"} => job.phase = "check"
    BY <1>1, <1>3, BeforeRouted DEF Advances
  <2>2. Armed(job', overridden')
    BY <2>1 DEF ReadyInv, Armed, Advances
  <2>3. QED
    BY <2>2 DEF ReadyInv
<1>4. QED
  BY <1>2, <1>3

-----------------------------------------------------------------------------
(* The steps of a command keep it ready.                                   *)

LEMMA PlanReady ==
  ASSUME IInv, ReadyInv, Plan
  PROVE  ReadyInv'
<1>1. proc = "busy" /\ job.phase = "plan"
  BY DEF Plan, At
<1>2. /\ job \in JobType /\ job.kind \in Kinds /\ job.phase \in Phases(job.kind)
      /\ job.request \in Requests
  BY <1>1 DEF IInv, JobInv
<1>3. CASE Raise("error")
  BY <1>1, <1>3, RaiseReady
<1>4. ASSUME job'.kind = job.kind, job'.request = job.request, job'.phase \notin Routed(job.kind),
             ~Refused(job.kind, job.request)
      PROVE  ReadyInv'
  <2>1. Armed(job', overridden')
    BY <1>4 DEF Armed
  <2>2. QED
    BY <2>1 DEF ReadyInv
<1>5. CASE /\ ~Refused(job.kind, job.request) /\ job.kind # "refine" /\ job' = Advanced(job)
  <2>1. Advances
    BY <1>1, <1>5, Advancing
  <2>2. job'.phase \notin Routed(job.kind)
    BY <1>1, <1>2, <2>1, BeforeRouted DEF Advances
  <2>3. QED
    BY <1>4, <1>5, <2>1, <2>2 DEF Advances
<1>6. ASSUME ~Refused(job.kind, job.request), job.kind = "refine", NEW q \in {"save", "encode"},
             NEW c \in SUBSET AllCrops, job' = [job EXCEPT !.phase = q, !.crops = c]
      PROVE  ReadyInv'
  <2>1. q \in PhaseNames
    BY DEF PhaseNames
  <2>2. LET k == [job EXCEPT !.phase = q, !.crops = c]
        IN  /\ k \in JobType /\ k.kind = job.kind /\ k.request = job.request
            /\ k.attempt = job.attempt /\ k.phase = q
    BY <1>2, <2>1, Recropped
  <2>3. job'.kind = job.kind /\ job'.request = job.request /\ job'.phase = q
    BY <1>6, <2>2
  <2>4. q \notin Routed(job.kind)
    BY <1>6 DEF Routed
  <2>5. QED
    BY <1>4, <1>6, <2>3, <2>4
<1>7. CASE ~Refused(job.kind, job.request) /\ job.kind = "refine" /\ ~Raise("error")
  <2>1. CASE Crops(job.request) = {}
    <3>1. job' = [job EXCEPT !.phase = "save"]
      BY <1>7, <2>1 DEF Plan
    <3>2. job' = [job EXCEPT !.phase = "save", !.crops = job.crops]
          /\ job.crops \in SUBSET AllCrops
      BY <1>2, <3>1, CropsKept DEF PhaseNames
    <3>3. QED
      BY <1>6, <1>7, <3>2
  <2>2. CASE Crops(job.request) # {}
    <3>1. job' = [Advanced(job) EXCEPT !.crops = Crops(job.request)]
      BY <1>7, <2>2 DEF Plan
    <3>2. After("refine", "plan") = "encode"
      BY RefineSequence DEF After, Steps
    <3>3. job' = [job EXCEPT !.phase = "encode", !.crops = Crops(job.request)]
      BY <1>1, <1>7, <3>1, <3>2 DEF Advanced
    <3>4. Crops(job.request) \in SUBSET AllCrops
      BY <1>2 DEF AllCrops
    <3>5. QED
      BY <1>6, <1>7, <3>3, <3>4
  <2>3. QED
    BY <2>1, <2>2
<1>8. QED
  BY <1>3, <1>5, <1>7 DEF Plan

LEMMA EncodeReady ==
  ASSUME IInv, ReadyInv, Encode
  PROVE  ReadyInv'
<1>1. proc = "busy" /\ job.phase = "encode"
  BY DEF Encode, At
<1>2. CASE Fail("ram")
  BY <1>2, FailReady
<1>3. CASE Raise("error") \/ Raise("oom")
  BY <1>1, <1>3, RaiseReady
<1>4. CASE Proceeds
  <2>1. Advances
    BY <1>1, <1>4, Advancing DEF Proceeds
  <2>2. QED
    BY <1>1, <2>1, AfterUnrouted
<1>5. QED
  BY <1>2, <1>3, <1>4 DEF Encode, Checked

LEMMA EncodeImageReady ==
  ASSUME IInv, ReadyInv, EncodeImage
  PROVE  ReadyInv'
<1>1. proc = "busy" /\ job.phase = "encode_image"
  BY DEF EncodeImage, At
<1>2. CASE Fail("ram")
  BY <1>2, FailReady
<1>3. CASE Raise("error") \/ Raise("oom")
  BY <1>1, <1>3, RaiseReady
<1>4. CASE Proceeds /\ UNCHANGED overridden
  <2>1. Advances /\ job'.model = job.model
    BY <1>1, <1>4, Advancing DEF Proceeds
  <2>2. QED
    BY <1>1, <1>4, <2>1, RoutedReady
<1>5. QED
  BY <1>2, <1>3, <1>4 DEF EncodeImage, Checked

LEMMA CheckReady ==
  ASSUME IInv, ReadyInv, Check
  PROVE  ReadyInv'
<1>1. proc = "busy" /\ job.phase = "check"
  BY DEF Check, At
<1>2. CASE Fail("ram")
  BY <1>2, FailReady
<1>3. CASE Proceeds /\ UNCHANGED overridden
  <2>1. Advances /\ job'.model = job.model
    BY <1>1, <1>3, Advancing DEF Proceeds
  <2>2. QED
    BY <1>1, <1>3, <2>1, RoutedReady
<1>4. QED
  BY <1>2, <1>3 DEF Check, Checked

LEMMA ProjectReady ==
  ASSUME IInv, ReadyInv, Project
  PROVE  ReadyInv'
<1>1. proc = "busy" /\ job.phase = "project"
  BY DEF Project, At
<1>2. CASE Raise("error")
  BY <1>1, <1>2, RaiseReady
<1>3. ASSUME NEW m \in {"projector", "baseline"}, job' = [Advanced(job) EXCEPT !.model = m]
      PROVE  ReadyInv'
  <2>1. Advances
    BY <1>1, <1>3, Advancing DEF Models
  <2>2. QED
    BY <1>1, <2>1, AfterUnrouted
<1>4. QED
  BY <1>2, <1>3 DEF Project

(* The LoRAs are routed on a clone of their own, if there are any.         *)
LEMMA AdaptReady ==
  ASSUME IInv, ReadyInv, Adapt
  PROVE  ReadyInv'
<1>1. proc = "busy" /\ job.phase = "adapt"
  BY DEF Adapt, At
<1>2. CASE \E err \in {"lora", "oom", "error"} : Raise(err)
  BY <1>1, <1>2, RaiseReady
<1>3. CASE proc' = (IF job.kind \in Ending THEN "failed" ELSE "abandoned")
  BY <1>3 DEF ReadyInv
<1>4. ASSUME ~LorasRefused(job.kind, job.request), Advances,
             Adapts(job.kind, job.request) => job'.model = "lora"
      PROVE  ReadyInv'
  <2>1. job.kind \in Kinds /\ job.phase \in Phases(job.kind)
    BY <1>1 DEF IInv, JobInv
  <2>2. CASE job'.phase \notin Routed(job.kind)
    BY <1>1, <1>4, <2>2, UnroutedReady DEF Advances
  <2>3. CASE job'.phase \in Routed(job.kind)
    <3>1. job.kind \in {"generate", "edit"} => job'.phase \notin {"check", "sample"}
      BY <1>1, <1>4, <2>1, <2>3, BeforeRouted DEF Advances
    <3>2. Armed(job', overridden')
      BY <1>1, <1>4, <3>1 DEF ReadyInv, Armed, Advances
    <3>3. QED
      BY <3>2 DEF ReadyInv
  <2>4. QED
    BY <2>2, <2>3
<1>5. CASE /\ ~LorasRefused(job.kind, job.request) /\ Adapts(job.kind, job.request)
           /\ job' = [Advanced(job) EXCEPT !.model = "lora"]
  <2>1. Advances /\ job'.model = "lora"
    BY <1>1, <1>5, Advancing DEF Models
  <2>2. QED
    BY <1>4, <1>5, <2>1
<1>6. CASE /\ ~LorasRefused(job.kind, job.request) /\ ~Adapts(job.kind, job.request)
           /\ Proceeds
  <2>1. Advances
    BY <1>1, <1>6, Advancing DEF Proceeds
  <2>2. QED
    BY <1>4, <1>6, <2>1
<1>7. QED
  BY <1>2, <1>3, <1>5, <1>6 DEF Adapt

LEMMA IdentityReady ==
  ASSUME IInv, ReadyInv, Identity
  PROVE  ReadyInv'
<1>1. proc = "busy" /\ job.phase = "identity"
  BY DEF Identity, At
<1>2. CASE Raise("error")
  BY <1>1, <1>2, RaiseReady
<1>3. CASE job' = [Advanced(job) EXCEPT !.model = "identity"]
  <2>1. Advances
    BY <1>1, <1>3, Advancing DEF Models
  <2>2. job.kind \notin {"generate", "edit"}
    BY <1>1, PhaseSets DEF IInv, JobInv
  <2>3. QED
    BY <1>1, <2>1, <2>2, RoutedReady
<1>4. QED
  BY <1>2, <1>3 DEF Identity

(* The override goes into the model that will sample.                      *)
LEMMA InstallReady ==
  ASSUME IInv, ReadyInv, Install
  PROVE  ReadyInv'
<1>1. proc = "busy" /\ job.phase = "install"
  BY DEF Install, At
<1>2. CASE Fail("error")
  BY <1>2, FailReady
<1>3. CASE Proceeds /\ (Spatial(job.kind, job.request) => job.model \in overridden')
  <2>1. Advances /\ job'.model = job.model
    BY <1>1, <1>3, Advancing DEF Proceeds
  <2>2. job.kind \in Kinds /\ job.phase \in Phases(job.kind)
    BY <1>1 DEF IInv, JobInv
  <2>3. job.kind \in {"generate", "edit"} /\ "install" \in Routed(job.kind)
    BY <1>1, <2>2, PhaseSets DEF Kinds, Routed
  <2>4. Armed(job', overridden')
    BY <1>1, <1>3, <2>1, <2>3 DEF ReadyInv, Armed, Advances
  <2>5. QED
    BY <2>4 DEF ReadyInv
<1>4. QED
  BY <1>2, <1>3 DEF Install

LEMMA SampleReady ==
  ASSUME IInv, ReadyInv, Sample
  PROVE  ReadyInv'
<1>1. proc = "busy" /\ job.phase = "sample"
  BY DEF Sample, At
<1>2. CASE Fail("ram")
  BY <1>2, FailReady
<1>3. ASSUME NEW err \in {"error", "oom", "pressure"}, SampleFails(err)
      PROVE  ReadyInv'
  <2>1. CASE job.kind = "refine"
    BY <1>3, <2>1 DEF SampleFails, ReadyInv
  <2>2. CASE job.kind # "refine"
    <3>1. PICK e : Raise(e)
      BY <1>3, <2>2 DEF SampleFails
    <3>2. QED
      BY <1>1, <3>1, RaiseReady
  <2>3. QED
    BY <2>1, <2>2
<1>4. CASE Proceeds
  <2>1. Advances
    BY <1>1, <1>4, Advancing DEF Proceeds
  <2>2. QED
    BY <1>1, <2>1, AfterUnrouted
<1>5. QED
  BY <1>2, <1>3, <1>4 DEF Sample

LEMMA HandoffReady ==
  ASSUME IInv, ReadyInv, Handoff
  PROVE  ReadyInv'
<1>1. proc = "busy" /\ job.phase = "handoff"
  BY DEF Handoff, At
<1>2. CASE Fail("ram")
  BY <1>2, FailReady
<1>3. CASE Proceeds
  <2>1. Advances
    BY <1>1, <1>3, Advancing DEF Proceeds
  <2>2. QED
    BY <1>1, <2>1, AfterUnrouted
<1>4. QED
  BY <1>2, <1>3 DEF Handoff

LEMMA DecodeReady ==
  ASSUME IInv, ReadyInv, Decode
  PROVE  ReadyInv'
<1>1. proc = "busy" /\ job.phase = "decode"
  BY DEF Decode, At
<1>2. CASE Raise("error") \/ Raise("oom")
  BY <1>1, <1>2, RaiseReady
<1>. DEFINE left == {t \in job.crops : t # CHOOSE u \in job.crops : TRUE}
<1>3. CASE job' = NextCrop(job) /\ left = {}
  <2>1. job' = Advanced(job)
    BY <1>3 DEF NextCrop
  <2>2. Advances
    BY <1>1, <2>1, Advancing
  <2>3. QED
    BY <1>1, <2>2, AfterUnrouted
<1>4. CASE job' = NextCrop(job) /\ left # {}
  <2>1. job' = [job EXCEPT !.phase = "encode", !.crops = left, !.model = "baseline"]
    BY <1>4 DEF NextCrop
  <2>2. job \in JobType /\ job.kind \in Kinds /\ left \in SUBSET AllCrops
    BY <1>1 DEF IInv, JobInv, JobType
  <2>. HIDE DEF left
  <2>3. LET k == [job EXCEPT !.phase = "encode", !.crops = left, !.model = "baseline"]
        IN  /\ k \in JobType /\ k.kind = job.kind /\ k.request = job.request
            /\ k.attempt = job.attempt /\ k.phase = "encode"
    BY <2>2, NextFace
  <2>4. job'.kind = job.kind /\ job'.request = job.request /\ job'.phase = "encode"
    BY <2>1, <2>3
  <2>5. "encode" \notin Routed(job.kind)
    BY <2>2 DEF Routed, Kinds
  <2>6. QED
    BY <1>1, <2>4, <2>5, UnroutedReady
<1>5. QED
  BY <1>2, <1>3, <1>4 DEF Decode

LEMMA UpscaleReady ==
  ASSUME IInv, ReadyInv, Upscale
  PROVE  ReadyInv'
<1>1. proc = "busy" /\ job.phase = "upscale"
  BY DEF Upscale, At
<1>2. CASE Raise("error") \/ Raise("oom")
  BY <1>1, <1>2, RaiseReady
<1>3. CASE Proceeds
  <2>1. Advances
    BY <1>1, <1>3, Advancing DEF Proceeds
  <2>2. QED
    BY <1>1, <2>1, AfterUnrouted
<1>4. CASE job' = [job EXCEPT !.tile = @ \div 2]
  <2>1. job \in JobType /\ job.kind \in Kinds
    BY <1>1 DEF IInv, JobInv
  <2>2. job'.kind = job.kind /\ job'.request = job.request /\ job'.phase = "upscale"
    BY <1>1, <1>4, <2>1 DEF JobType
  <2>3. "upscale" \notin Routed(job.kind)
    BY <2>1 DEF Routed, Kinds
  <2>4. QED
    BY <1>1, <2>2, <2>3, UnroutedReady
<1>5. QED
  BY <1>2, <1>3, <1>4 DEF Upscale

LEMMA SaveReady ==
  ASSUME IInv, ReadyInv, Save
  PROVE  ReadyInv'
<1>1. proc = "busy" /\ job.phase = "save"
  BY DEF Save, At
<1>2. CASE Raise("error")
  BY <1>1, <1>2, RaiseReady
<1>3. CASE Proceeds
  <2>1. Advances
    BY <1>1, <1>3, Advancing DEF Proceeds
  <2>2. QED
    BY <1>1, <2>1, AfterUnrouted
<1>4. QED
  BY <1>2, <1>3 DEF Save

LEMMA RecoverReady ==
  ASSUME IInv, ReadyInv, Recover
  PROVE  ReadyInv'
<1>1. proc = "busy" /\ job.phase = "recover"
  BY DEF Recover, At
<1>2. CASE Fail("ram") \/ Fail("error")
  BY <1>2, FailReady
<1>3. CASE job' = Command(job.kind, job.request, "encode", job.attempt + 1)
  <2>1. job.kind \in Kinds
    BY <1>1 DEF IInv, JobInv
  <2>2. job'.kind = job.kind /\ job'.request = job.request /\ job'.phase = "encode"
    BY <1>3 DEF Command
  <2>3. "encode" \notin Routed(job.kind)
    BY <2>1 DEF Routed, Kinds
  <2>4. QED
    BY <1>1, <2>2, <2>3, UnroutedReady
<1>4. QED
  BY <1>2, <1>3 DEF Recover, SwitchVaeToCpu

LEMMA StartReady ==
  ASSUME NEW kind \in Kinds, NEW r \in Requests, Start(kind, r)
  PROVE  ReadyInv'
<1>1. job' = Command(kind, r, FirstStep(kind), 1)
  BY DEF Start
<1>2. job'.kind = kind /\ job'.request = r /\ job'.phase = FirstStep(kind)
  BY <1>1 DEF Command
<1>3. FirstStep(kind) \in {"plan", "validate"} /\ (FirstStep(kind) # "plan" => kind = "validate")
  BY RefineSequence DEF FirstStep, Steps, GenerateSteps, EditSteps, Image2ImageSteps, Kinds
<1>4. FirstStep(kind) \notin Routed(kind)
  BY <1>3 DEF Routed, Kinds
<1>5. kind = "validate" => ~Refused(kind, r)
  BY DEF Refused
<1>6. Armed(job', overridden')
  BY <1>2, <1>3, <1>4, <1>5 DEF Armed
<1>7. QED
  BY <1>6 DEF ReadyInv

LEMMA StepReady == IInv /\ ReadyInv /\ [Next]_vars => ReadyInv'
<1>. SUFFICES ASSUME IInv, ReadyInv, [Next]_vars PROVE ReadyInv'
  OBVIOUS
<1>1. CASE Plan \/ Encode \/ EncodeImage \/ Check \/ Project
  BY <1>1, PlanReady, EncodeReady, EncodeImageReady, CheckReady, ProjectReady
<1>2. CASE Adapt \/ Identity \/ Install \/ Sample \/ Handoff
  BY <1>2, AdaptReady, IdentityReady, InstallReady, SampleReady, HandoffReady
<1>3. CASE Decode \/ Upscale \/ Save \/ Recover
  BY <1>3, DecodeReady, UpscaleReady, SaveReady, RecoverReady
<1>4. CASE DiagnoseLoras \/ Retain \/ Close \/ RefuseLoad \/ \E l \in Loads : LoadModel(l)
  BY <1>4 DEF DiagnoseLoras, Fail, Retain, Close, RefuseLoad, LoadModel, ReadyInv
<1>5. ASSUME NEW r \in Requests,
             \/ GenerateBaseline(r) \/ EditImage(r) \/ RefineFaces(r)
             \/ Image2Image(r) \/ ValidateLoras(r)
      PROVE  ReadyInv'
  BY <1>5, StartReady DEF GenerateBaseline, EditImage, RefineFaces, Image2Image, ValidateLoras,
                          Kinds
<1>6. CASE Probe \/ Done \/ UNCHANGED vars
  BY <1>6 DEF Probe, Done, vars, ReadyInv
<1>7. QED
  BY <1>1, <1>2, <1>3, <1>4, <1>5, <1>6 DEF Next, LoadCommand

LEMMA Readiness == Spec => []ReadyInv
<1>1. Init => ReadyInv
  BY DEF Init, ReadyInv
<1>2. QED
  BY <1>1, StepReady, Invariance, PTL DEF Spec

-----------------------------------------------------------------------------
(* The routes of job j that carry the delta of a standard LoRA of subjects. *)
SubjectRoutes(j) ==
  {r \in Routes(JobLoras(j.kind, j.request), BoundOf[j.kind][j.request]) :
     /\ ~r.global /\ r.mode = "standard"
     /\ \A id \in r.lora.regions :
          SpanOf(BoundOf[j.kind][j.request], id).role = "subject"}

LEMMA RouteIsTokenLocal ==
  ASSUME IInv, ReadyInv, At("sample"), NEW r \in SubjectRoutes(job)
  PROVE  LET bound == BoundOf[job.kind][job.request]
             home == Home(r.lora, PlanOf(job.kind, job.request),
                          CompiledOf[job.kind][job.request])
         IN  /\ job.model = "lora" /\ job.model \in overridden
             /\ \A t \in r.lora.targets :
                   RouteAllows(r, t) => Gated(r, t, bound) \subseteq home
             /\ \A stream \in {"refiner", "main"} :
                  \A query \in Positions(stream, bound) \ home,
                     key \in PrivateKeys(r, home, stream, bound) :
                       Hidden(stream, bound, query, key)
<1>. DEFINE k == job.kind
            q == job.request
            loras == JobLoras(k, q)
            bound == BoundOf[k][q]
            plan == CompiledOf[k][q]
            p == PlanOf(k, q)
            home == Home(r.lora, p, plan)
<1>1. k \in Kinds /\ q \in Requests /\ proc = "busy" /\ job.phase = "sample"
  BY DEF IInv, JobInv, At
<1>2. k # "validate"
  BY <1>1, PhaseSets DEF IInv, JobInv
<1>3. /\ ~Refused(k, q) /\ ~LorasRefused(k, q)
      /\ k \in {"generate", "edit"} => /\ Adapts(k, q) => job.model = "lora"
                                       /\ Spatial(k, q) => job.model \in overridden
  <2>1. job.phase \in Routed(k)
    BY <1>1, <1>2 DEF Routed, Kinds
  <2>2. QED
    BY <1>1, <2>1 DEF ReadyInv, Armed
<1>4. PICK i \in DOMAIN loras : loras[i].strength # 0 /\ r = Route(loras[i], bound)
  BY DEF SubjectRoutes, Routes
<1>. DEFINE l == loras[i]
<1>5. r.lora = l /\ r.global = l.global /\ r.mode = IF l.global THEN "standard" ELSE l.mode
  BY <1>4 DEF Route
<1>6. /\ ~l.global /\ l.mode = "standard" /\ l.strength # 0
      /\ \A id \in l.regions : SpanOf(bound, id).role = "subject"
  BY <1>4, <1>5 DEF SubjectRoutes
<1>7. ~RouteRefused(l, bound)
  BY <1>3 DEF LorasRefused
<1>8. bound.spans # <<>>
  <2>1. PICK id \in l.regions : HasSpan(bound, id)
    BY <1>6, <1>7 DEF RouteRefused
  <2>2. Range(<<>>) = {}
    BY DEF Range
  <2>3. QED
    BY <2>1, <2>2 DEF HasSpan
<1>9. Spatial(k, q) /\ k \in {"generate", "edit"}
  BY <1>1, <1>8, SpansAreSpatial
<1>10. Adapts(k, q)
  BY <1>6 DEF Adapts
<1>11. job.model = "lora" /\ job.model \in overridden
  BY <1>3, <1>9, <1>10
<1>12. /\ Spanned(p, plan, bound) /\ Cardinality(bound.images) \in Nat
       /\ Layers < Cardinality(bound.images)
  BY <1>1, <1>3, RequestIsBound
<1>13. /\ r = Route(l, bound) /\ home = Home(l, p, plan)
  BY <1>4, <1>5
<1>. HIDE DEF l, bound, plan, p, home
<1>14. /\ \A t \in l.targets : RouteAllows(Route(l, bound), t) =>
              Gated(Route(l, bound), t, bound) \subseteq Home(l, p, plan)
       /\ \A stream \in {"refiner", "main"} :
            \A query \in Positions(stream, bound) \ Home(l, p, plan),
               key \in PrivateKeys(Route(l, bound), Home(l, p, plan), stream, bound) :
                 Hidden(stream, bound, query, key)
  BY <1>6, <1>7, <1>12, DeltaOfRoute
<1>15. /\ \A t \in r.lora.targets : RouteAllows(r, t) => Gated(r, t, bound) \subseteq home
       /\ \A stream \in {"refiner", "main"} :
            \A query \in Positions(stream, bound) \ home,
               key \in PrivateKeys(r, home, stream, bound) :
                 Hidden(stream, bound, query, key)
  <2>1. r.lora = l
    BY <1>5 DEF l
  <2>2. QED
    BY <1>13, <1>14, <2>1
<1>16. QED
  BY <1>11, <1>15, Zenon DEF bound, home, plan, p, k, q

LEMMA LayersAreSpared ==
  ASSUME IInv, ReadyInv, At("sample"), Spatial(job.kind, job.request)
  PROVE  LET bound == BoundOf[job.kind][job.request]
         IN  /\ job.model \in overridden
             /\ Recognized(Call("layerwise", bound), bound) = "original"
<1>. DEFINE k == job.kind
            q == job.request
            bound == BoundOf[k][q]
<1>1. k \in {"generate", "edit"}
  <2>1. k \in Kinds /\ q \in Requests
    BY DEF IInv, JobInv, At
  <2>2. QED
    BY <2>1 DEF Spatial
<1>2. k \in Kinds /\ q \in Requests /\ proc = "busy" /\ job.phase = "sample"
  BY DEF IInv, JobInv, At
<1>3. ~Refused(k, q) /\ job.model \in overridden
  <2>1. job.phase \in Routed(k)
    BY <1>1, <1>2 DEF Routed
  <2>2. QED
    BY <1>1, <1>2, <2>1 DEF ReadyInv, Armed
<1>. DEFINE p == PlanOf(k, q)
            plan == CompiledOf[k][q]
<1>4. /\ Spanned(p, plan, bound) /\ Cardinality(bound.images) \in Nat
      /\ Layers < Cardinality(bound.images)
  BY <1>2, <1>3, RequestIsBound
<1>. HIDE DEF p, plan, bound
<1>5. bound.texts \in Nat
  BY <1>4, ShapeAssumption DEF Spanned
<1>6. Recognized(Call("layerwise", bound), bound) = "original"
  BY <1>4, <1>5, StreamsAreRecognized
<1>7. QED
  BY <1>3, <1>6 DEF bound, k, q

(* Whatever the request, while a job samples the allowed targets of a      *)
(* standard LoRA of subject regions change tokens of their clauses and     *)
(* boxes, no other token reads the clauses' text or an image token's key   *)
(* or value that a target changes, and the layers' attention is left       *)
(* alone: each clause's span is found again in the prompt, the subjects'   *)
(* spans have owners of their own, the streams are told apart by their     *)
(* lengths, and the override is on the model that samples.                 *)
THEOREM DeltasAreTokenLocal == Spec => []DeltaIsTokenLocal
<1>1. IInv /\ ReadyInv => DeltaIsTokenLocal
  <2>. SUFFICES ASSUME IInv, ReadyInv, At("sample")
                PROVE  LET bound  == BoundOf[job.kind][job.request]
                           routes == {r \in Routes(JobLoras(job.kind, job.request), bound) :
                                        /\ ~r.global /\ r.mode = "standard"
                                        /\ \A id \in r.lora.regions :
                                             SpanOf(bound, id).role = "subject"}
                           home(r) == Home(r.lora, PlanOf(job.kind, job.request),
                                           CompiledOf[job.kind][job.request])
                       IN  /\ Spatial(job.kind, job.request) =>
                                /\ job.model \in overridden
                                /\ Recognized(Call("layerwise", bound), bound) = "original"
                           /\ \A r \in routes :
                                /\ job.model = "lora" /\ job.model \in overridden
                                /\ \A t \in r.lora.targets :
                                     RouteAllows(r, t) => Gated(r, t, bound) \subseteq home(r)
                                /\ \A stream \in {"refiner", "main"} :
                                     \A query \in Positions(stream, bound) \ home(r),
                                        key \in PrivateKeys(r, home(r), stream, bound) :
                                          Hidden(stream, bound, query, key)
    BY DEF DeltaIsTokenLocal
  <2>1. Spatial(job.kind, job.request) =>
          LET bound == BoundOf[job.kind][job.request]
          IN  /\ job.model \in overridden
              /\ Recognized(Call("layerwise", bound), bound) = "original"
    BY LayersAreSpared
  <2>2. \A r \in SubjectRoutes(job) :
          LET bound == BoundOf[job.kind][job.request]
              home == Home(r.lora, PlanOf(job.kind, job.request),
                           CompiledOf[job.kind][job.request])
          IN  /\ job.model = "lora" /\ job.model \in overridden
              /\ \A t \in r.lora.targets :
                    RouteAllows(r, t) => Gated(r, t, bound) \subseteq home
              /\ \A stream \in {"refiner", "main"} :
                   \A query \in Positions(stream, bound) \ home,
                      key \in PrivateKeys(r, home, stream, bound) :
                        Hidden(stream, bound, query, key)
    BY RouteIsTokenLocal
  <2>3. QED
    BY <2>1, <2>2, Zenon DEF SubjectRoutes
<1>2. QED
  BY <1>1, Invariance, Readiness, PTL
=============================================================================
