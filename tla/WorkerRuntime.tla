--------------------------- MODULE WorkerRuntime ---------------------------
(***************************************************************************)
(* The GPU worker's process over the commands of one agent: it loads the   *)
(* three components once, runs a job at a time through the steps of        *)
(* generate, edit_image, refine_faces and image2image, recovers once from  *)
(* a GPU out-of-memory error, and keeps the baseline for the next job when *)
(* memory allows.  The GPU, the system memory, the files and the libraries *)
(* answer as they like at each step.                                       *)
(***************************************************************************)
EXTENDS RegionalPlan

CONSTANTS
  None,
  Requests,       \* the jobs' payloads
  Loads,          \* the LOAD_MODEL payloads, with the GPU they meet
  MaxJobs         \* bound: jobs sent to one worker

ASSUME JobsAssumption == MaxJobs \in Nat

\* What a command may carry: its image, its regions and LoRAs, the settings of
\* an edit, and the faces that are found in its image.
Request ==
  [width : Nat \ {0}, height : Nat \ {0}, words : Nat, regional : BOOLEAN,
   regions : Seq(RegionDefinition), emphases : SUBSET STRING, loras : Seq(LoraSpecification),
   edits : Seq(RegionDefinition), entire : BOOLEAN, preserve : BOOLEAN,
   latentFeather : Nat, compositeFeather : Nat, projector : BOOLEAN, protection : BOOLEAN,
   faces : SUBSET PixelBox, padding : 1..4, scale : 0..4, soft : BOOLEAN, upscale : BOOLEAN]

\* A region's identifier is its own, in the project and in the edit; an image
\* has more tokens than the encoder has layers; a face is in the image and two
\* pixels wide, and its soft crop four.
ASSUME RequestsAssumption == \A r \in Requests :
  /\ r \in Request
  /\ \A i, j \in DOMAIN r.regions : r.regions[i].id = r.regions[j].id => i = j
  /\ \A i, j \in DOMAIN r.edits : r.edits[i].id = r.edits[j].id => i = j
  /\ \A i \in DOMAIN r.regions, j \in DOMAIN r.edits : r.regions[i].id # r.edits[j].id
  /\ Layers < Cardinality(ImageTokens(Grid(r.width, r.height)))
  /\ IsFiniteSet(r.faces) /\ Lesser(r.width, r.height) >= 4
  /\ \A f \in r.faces :
       /\ f.x0 >= 0 /\ f.y0 >= 0 /\ f.x1 <= r.width /\ f.y1 <= r.height
       /\ f.x1 - f.x0 >= 2 /\ f.y1 - f.y0 >= 2
       /\ r.soft => f.x1 - f.x0 >= 4 /\ f.y1 - f.y0 >= 4

\* Free memory is in hundredths of GiB.
Policies == [reserve : Nat, warning : Nat, critical : Nat]
ASSUME LoadsAssumption == \A l \in Loads :
  /\ l.reserve \in Nat /\ l.total \in Nat /\ l.policy \in Policies
  /\ l.guard \in BOOLEAN /\ l.cpuVae \in BOOLEAN

VARIABLES
  proc,           \* "new", "waiting" for a command, "busy", "abandoned" (an error
                  \* event was read, no command follows), "exited", "failed"
  load,           \* the settings of the load, or None
  parts,          \* components that are loaded
  vaeOnCpu,       \* cpu_vae
  floors,         \* reserve, warning and critical free memory, hundredths of GiB
  active,         \* _active_generation_model, or None
  overridden,     \* models whose options hold an attention override
  gpu,            \* the model whose weights are on the GPU, or "empty"
  job,            \* the command being served
  jobs,           \* commands served so far
  outcome         \* how the last command ended

vars == <<proc, load, parts, vaeOnCpu, floors, active, overridden, gpu, job, jobs, outcome>>

Parts  == {"model", "clip", "vae"}
Models == {"baseline", "projector", "lora", "identity"}
Kinds  == {"generate", "edit", "refine", "image2image", "validate"}

\* A command at the start of an attempt, with the model that will sample, the
\* faces left to refine and the upscaler's tile.
Command(kind, r, phase, attempt) ==
  [kind |-> kind, request |-> r, phase |-> phase, attempt |-> attempt,
   model |-> "baseline", crops |-> {}, tile |-> 512]
Idle == Command(None, None, "idle", 1)

ASSUME NamesAssumption ==
  None \notin Loads /\ None \notin Requests /\ None \notin Models /\ None \notin Kinds

-----------------------------------------------------------------------------
(* Memory policies, in hundredths of GiB.                                  *)

Floors(l) ==
  LET reserve == Greater(50, Greater(l.reserve, l.policy.reserve))
      warning == Greater(reserve, l.policy.warning)
  IN  [reserve |-> reserve, warning |-> warning,
       critical |-> Lesser(warning, l.policy.critical)]

\* The reserve of the retry: it grows with the GPU and stops at 40 % of it.
Capacity(total) == Greater(50, (4 * total) \div 10)
RetryReserve(current, total) ==
  current + Lesser(Greater(50, Lesser(150, total \div 16)),
                   Greater(0, Capacity(total) - current))

Recovered_Reserve(f, total) == [f EXCEPT !.reserve = RetryReserve(@, total)]    \* mutant
Recovered(f, total) ==
  LET reserve == RetryReserve(f.reserve, total)
  IN  [f EXCEPT !.reserve = reserve, !.warning = Greater(@, reserve)]

HighVram(l) == \/ l.mode = "high_vram"
               \/ l.mode = "auto" /\ l.total >= 4000

-----------------------------------------------------------------------------
(* The request as each operation plans it.                                 *)

Unplanned(r) == [r EXCEPT !.regions = <<>>, !.emphases = {}]
PlanOf(kind, r) ==
  CASE kind = "generate" -> IF r.regional THEN r ELSE Unplanned(r)
    [] kind = "edit" -> IF EditRequest(r).regions # <<>> THEN EditRequest(r)
                        ELSE Unplanned(EditRequest(r))
    [] OTHER -> Unplanned(r)
CompiledOf == [k \in Kinds |-> [r \in Requests |-> CompilePlan(PlanOf(k, r))]]
BoundOf == [k \in Kinds |-> [r \in Requests |-> Bind(CompiledOf[k][r])]]

\* Whether a job needs the attention override: spans, or phrases to reinforce.
Spatial(kind, r) ==
  \/ kind \in {"generate", "edit"} /\ BoundOf[kind][r].spans # <<>>
  \/ kind = "generate" /\ PlanOf(kind, r).emphases # {}

LorasOf(kind, r) == PlanOf(kind, r).loras
AllGlobal(loras) == \A i \in DOMAIN loras : loras[i].global /\ loras[i].regions = {}
Crops(r) == FaceTargets(r.faces, r.regions, r.loras)
AllCrops == UNION {Crops(r) : r \in Requests}

\* A face detail's LoRAs act on the whole crop, within the limits of a strength.
DetailLoras(target, scale) ==
  [i \in DOMAIN target.loras |->
     [target.loras[i] EXCEPT !.global = TRUE, !.regions = {},
        !.strength = Greater(-MaxStrength, Lesser(MaxStrength, @ * scale))]]
JobLoras(kind, r) ==
  IF kind = "refine" THEN FlattenSeq(SetToSeq({DetailLoras(t, r.scale) : t \in Crops(r)}))
  ELSE LorasOf(kind, r)

NoLocalTarget(l, bound) ==
  /\ l.strength # 0 /\ ~RouteRefused(l, bound)
  /\ \A t \in l.targets : ~RouteAllows(Route(l, bound), t)
LorasRefused(kind, r) ==
  LET loras == JobLoras(kind, r)
  IN  \/ \E i \in DOMAIN loras : RouteRefused(loras[i], BoundOf[kind][r])
      \/ \E i \in DOMAIN loras : NoLocalTarget(loras[i], BoundOf[kind][r])

\* The projector's vector is a weight patch, or an adapter beside the LoRAs'
\* when it has to spare the tokens of a face identity.
Projects(kind, r) == r.projector /\ kind # "refine"
Selective(kind, r) == Projects(kind, r) /\ r.protection /\ BoundOf[kind][r].faces # {}
Adapts(kind, r) ==
  \/ \E i \in DOMAIN JobLoras(kind, r) : JobLoras(kind, r)[i].strength # 0
  \/ Selective(kind, r)

-----------------------------------------------------------------------------
(* The order of the steps, and how a job leaves them.                      *)

GenerateSteps == <<"plan", "encode", "check", "project", "adapt", "install", "sample",
                   "handoff", "decode", "upscale", "save", "retain">>
EditSteps == <<"plan", "encode", "encode_image", "project", "adapt", "install", "check",
               "sample", "handoff", "decode", "save", "retain">>
\* A refinement goes through the steps of a crop for every face.
CropSteps == <<"encode", "encode_image", "check", "adapt", "sample", "handoff", "decode">>
RefineSteps == <<"plan">> \o CropSteps \o <<"save", "retain">>
Image2ImageSteps == <<"plan", "encode", "project", "adapt", "encode_image", "identity",
                      "sample", "handoff", "decode", "upscale", "save", "retain">>
Steps(kind) ==
  CASE kind = "generate" -> GenerateSteps
    [] kind = "edit" -> EditSteps
    [] kind = "refine" -> RefineSteps
    [] kind = "image2image" -> Image2ImageSteps
    [] kind = "validate" -> <<"validate">>
FirstStep(kind) == Steps(kind)[1]
After(kind, phase) ==
  Steps(kind)[1 + CHOOSE i \in DOMAIN Steps(kind) : Steps(kind)[i] = phase]
Advanced(j) == [j EXCEPT !.phase = After(j.kind, j.phase)]

At(phase) == proc = "busy" /\ job.phase = phase

\* The commands whose failure ends the process, and those whose clone the loop
\* releases however they end.
Ending    == {"generate", "edit", "refine"}
Released  == {"generate", "edit", "refine"}

ErrorCode(err, kind) ==
  CASE err = "oom" -> "worker_oom"
    [] err = "ram" -> "worker_ram_low"
    [] err = "lora" -> "lora_load_failed"
    [] OTHER -> CASE kind = "generate" -> "generation_failed"
                  [] kind = "edit" -> "image_edit_failed"
                  [] kind = "refine" -> "face_refinement_failed"
                  [] kind = "image2image" -> "image2image_failed"
                  [] kind = "validate" -> "lora_validation_failed"

ReleaseClone ==
  IF job.kind \in Released
  THEN active' = None /\ gpu' = (IF active = None THEN gpu ELSE "empty")
  ELSE UNCHANGED <<active, gpu>>

Fail(err) ==
  /\ proc' = (IF job.kind \in Ending THEN "failed" ELSE "abandoned")
  /\ outcome' = ErrorCode(err, job.kind)
  /\ job' = Idle
  /\ ReleaseClone

\* A stop at the critical floor says nothing of running out of memory: generate
\* retries it, the others report a failed job.
IsOom(err) == err \in {"oom", "pressure"}
Recoverable_Always(err) == job.kind = "generate" /\ load.recovery /\ IsOom(err)   \* mutant
Recoverable(err) ==
  job.kind = "generate" /\ job.attempt = 1 /\ load.recovery /\ IsOom(err)

Raise(err) ==
  IF Recoverable(err)
  THEN job' = [job EXCEPT !.phase = "recover"] /\ UNCHANGED <<proc, outcome, active, gpu>>
  ELSE Fail(err)

Settings == <<load, parts, vaeOnCpu, floors, jobs>>
Proceeds == job' = Advanced(job) /\ UNCHANGED <<proc, outcome>>

\* A step behind a memory check: low system memory raises when the guard is
\* on; low GPU memory moves weights to RAM and goes on.
Checked(step) ==
  \/ load.guard /\ Fail("ram") /\ UNCHANGED <<Settings, overridden>>
  \/ step

-----------------------------------------------------------------------------

Init ==
  /\ proc = "new" /\ load = None /\ parts = {} /\ vaeOnCpu = FALSE
  /\ floors = [reserve |-> 400, warning |-> 400, critical |-> 200]
  /\ active = None /\ overridden = {} /\ gpu = "empty"
  /\ job = Idle /\ jobs = 0 /\ outcome = None

\* The agent writes its commands at once: a failed probe is followed by the
\* load, which probes the accelerator again.
Probe ==
  /\ proc = "new" /\ outcome = None /\ outcome' \in {"probed", "worker_probe_failed"}
  /\ UNCHANGED <<proc, load, parts, vaeOnCpu, floors, active, overridden, gpu, job, jobs>>

\* The components are read in this order; the floors are set before that.
PartialLoads == {{}, {"model"}, {"model", "clip"}, Parts}

\* Without an accelerator or with an artifact missing no setting is taken.
RefuseLoad ==
  /\ proc = "new" /\ outcome # None
  /\ proc' = "failed" /\ outcome' = "model_load_failed"
  /\ UNCHANGED <<load, parts, vaeOnCpu, floors, active, overridden, gpu, job, jobs>>

\* A load that fails ends the process.
LoadModel(l) ==
  /\ proc = "new" /\ outcome # None
  /\ load' = l /\ vaeOnCpu' = l.cpuVae /\ floors' = Floors(l)
  /\ \/ /\ parts' = Parts /\ proc' = "waiting" /\ outcome' = "ready"
     \/ /\ parts' \in PartialLoads
        /\ proc' = "failed" /\ outcome' \in {"model_load_failed", "worker_oom", "worker_ram_low"}
        /\ outcome' = "worker_ram_low" => l.guard /\ parts' = {}
  /\ UNCHANGED <<active, overridden, gpu, job, jobs>>

LoadCommand == RefuseLoad \/ \E l \in Loads : LoadModel(l)

\* A job, which the agent sends to a loaded worker that has no other one.
Start(kind, r) ==
  /\ proc = "waiting" /\ jobs < MaxJobs
  /\ proc' = "busy" /\ jobs' = jobs + 1
  /\ job' = Command(kind, r, FirstStep(kind), 1)
  /\ UNCHANGED <<load, parts, vaeOnCpu, floors, active, overridden, gpu, outcome>>

GenerateBaseline(r) == Start("generate", r)
EditImage(r)        == Start("edit", r)
RefineFaces(r)      == Start("refine", r)
Image2Image(r)      == Start("image2image", r)

\* A kept worker is dropped before LoRAs are validated.
ValidateLoras(r)    == jobs = 0 /\ Start("validate", r)

\* Nothing more to do: the agent closes the input.
Close ==
  /\ proc \in {"waiting", "abandoned"} /\ proc' = "exited"
  /\ UNCHANGED <<load, parts, vaeOnCpu, floors, active, overridden, gpu, job, jobs, outcome>>

DiagnoseLoras ==
  /\ At("validate")
  /\ \/ Fail("lora") \/ Fail("oom")
     \/ /\ proc' = "exited" /\ outcome' = "ready" /\ job' = Idle
        /\ UNCHANGED <<active, gpu>>
  /\ UNCHANGED <<Settings, overridden>>

Refused(kind, r) ==
  CASE kind = "edit" -> EditRefused(r) \/ PlanRefused(PlanOf(kind, r))
    [] kind = "generate" -> (PlanOf(kind, r).regions # <<>> \/ PlanOf(kind, r).emphases # {})
                            /\ PlanRefused(PlanOf(kind, r))
    [] OTHER -> FALSE

\* The settings are validated and the prompt is compiled before anything is
\* asked of the GPU; a refinement looks for its faces.
Plan ==
  /\ At("plan")
  /\ \/ Raise("error")
     \/ /\ ~Refused(job.kind, job.request)
        /\ job' = IF job.kind # "refine" THEN Advanced(job)
                  ELSE IF Crops(job.request) = {} THEN [job EXCEPT !.phase = "save"]
                  ELSE [Advanced(job) EXCEPT !.crops = Crops(job.request)]
        /\ UNCHANGED <<proc, outcome, active, gpu>>
  /\ UNCHANGED <<Settings, overridden>>

\* The prompt's conditioning, then its spans; the text encoder may push the
\* transformer off the GPU.
Encode ==
  /\ At("encode")
  /\ Checked(/\ \/ Raise("error") \/ Raise("oom")
                \/ Proceeds /\ gpu' \in {gpu, "empty"} /\ UNCHANGED active
             /\ UNCHANGED <<Settings, overridden>>)

EncodeImage ==
  /\ At("encode_image")
  /\ Checked(/\ \/ Raise("error") \/ Raise("oom")
                \/ Proceeds /\ gpu' \in {gpu, "empty"} /\ UNCHANGED active
             /\ UNCHANGED <<Settings, overridden>>)

\* A clone starts with the options of the model it is made of.
Cloned(new, base) ==
  overridden' = (overridden \ {new}) \cup (IF base \in overridden THEN {new} ELSE {})

\* image2image looks for a LoRA with regions just before.
Project ==
  /\ At("project")
  /\ IF job.kind = "image2image" /\ ~AllGlobal(LorasOf(job.kind, job.request))
     THEN Raise("error") /\ UNCHANGED overridden
     ELSE IF Projects(job.kind, job.request)
     THEN \/ Raise("error") /\ UNCHANGED overridden
          \/ /\ job' = [Advanced(job) EXCEPT !.model = "projector"]
             /\ Cloned("projector", "baseline")
             /\ UNCHANGED <<proc, outcome, active, gpu>>
     ELSE /\ job' = [Advanced(job) EXCEPT !.model = "baseline"]
          /\ UNCHANGED <<proc, outcome, active, gpu, overridden>>
  /\ UNCHANGED Settings

\* The routed LoRAs, on a clone of their own that the runtime remembers from
\* the moment its hooks exist, before they are counted.
Adapt ==
  /\ At("adapt")
  /\ \/ (Raise("lora") \/ Raise("oom")) /\ UNCHANGED overridden
     \/ LorasRefused(job.kind, job.request) /\ Raise("error") /\ UNCHANGED overridden
     \/ /\ ~LorasRefused(job.kind, job.request)
        /\ IF Adapts(job.kind, job.request)
           THEN /\ Cloned("lora", job.model)
                /\ \/ /\ job' = [Advanced(job) EXCEPT !.model = "lora"]
                      /\ active' = "lora" /\ UNCHANGED <<proc, outcome, gpu>>
                   \/ /\ proc' = (IF job.kind \in Ending THEN "failed" ELSE "abandoned")
                      /\ outcome' = ErrorCode("error", job.kind) /\ job' = Idle
                      /\ active' = (IF job.kind \in Released THEN None ELSE "lora")
                      /\ gpu' = (IF job.kind \in Released THEN "empty" ELSE gpu)
           ELSE Proceeds /\ UNCHANGED <<active, gpu, overridden>>
  /\ UNCHANGED Settings

\* image2image's own clone, with the identity LoRA and the source's reference.
Identity ==
  /\ At("identity")
  /\ \/ Raise("error") /\ UNCHANGED overridden
     \/ /\ job' = [Advanced(job) EXCEPT !.model = "identity"] /\ active' = "identity"
        /\ Cloned("identity", job.model)
        /\ UNCHANGED <<proc, outcome, gpu>>
  /\ UNCHANGED Settings

\* The attention override goes into the options of the model that samples.
Install ==
  /\ At("install")
  /\ IF Spatial(job.kind, job.request)
     THEN /\ overridden' = overridden \cup {job.model}
          /\ IF job.model \in overridden THEN Fail("error")
             ELSE Proceeds /\ UNCHANGED <<active, gpu>>
     ELSE Proceeds /\ UNCHANGED <<active, gpu, overridden>>
  /\ UNCHANGED Settings

\* Before the model is prepared; an edit looks at the memory between the
\* override and the sampling it belongs to.
Check ==
  /\ At("check")
  /\ Checked(/\ Proceeds /\ gpu' \in {gpu, "empty"} /\ UNCHANGED active
             /\ UNCHANGED <<Settings, overridden>>)

\* However the sampling ends the override is taken out again.
Uninstalled_OnClones == overridden \ (Models \ {"baseline"})                 \* mutant
Uninstalled ==
  IF Spatial(job.kind, job.request)
  THEN overridden \ {job.model} ELSE overridden

\* A failed face detail releases its clone at once.
SampleFails(err) ==
  IF job.kind = "refine"
  THEN /\ proc' = "failed" /\ outcome' = ErrorCode(err, "refine") /\ job' = Idle
       /\ active' = None /\ gpu' = "empty"
  ELSE Raise(IF job.kind = "image2image" /\ err = "pressure" THEN "oom" ELSE err)

\* All the denoising steps, each followed by a look at the critical floor; an
\* override that no call reached is an error after the fact.  image2image
\* looks at the system memory here.
Sample ==
  /\ At("sample")
  /\ \/ load.guard /\ job.kind = "image2image" /\ Fail("ram") /\ UNCHANGED overridden
     \/ \E err \in {"error", "oom", "pressure"} :
           SampleFails(err) /\ overridden' = Uninstalled
     \/ /\ Proceeds /\ gpu' = job.model /\ UNCHANGED active
        /\ overridden' = Uninstalled
  /\ UNCHANGED Settings

\* The transformer leaves the GPU before the VAE enters inference mode.
Handoff ==
  /\ At("handoff")
  /\ \/ load.guard /\ job.kind # "image2image" /\ Fail("ram")
     \/ /\ Proceeds /\ gpu' = "empty"
        /\ active' = IF active = job.model THEN None ELSE active
  /\ UNCHANGED <<Settings, overridden>>

\* A refinement goes round for every face it found.
NextCrop(j) ==
  LET left == {t \in j.crops : t # CHOOSE u \in j.crops : TRUE}
  IN  IF left # {} THEN [j EXCEPT !.phase = "encode", !.crops = left, !.model = "baseline"]
      ELSE Advanced(j)

Decode ==
  /\ At("decode")
  /\ \/ Raise("error") \/ Raise("oom")
     \/ job' = NextCrop(job) /\ UNCHANGED <<proc, outcome, active, gpu>>
  /\ UNCHANGED <<Settings, overridden>>

\* Everything leaves the GPU; the upscaler's tile is halved on each
\* out-of-memory error until it would be under 128 pixels.
Upscale ==
  /\ At("upscale")
  /\ \/ ~job.request.upscale /\ Proceeds /\ UNCHANGED <<active, gpu>>
     \/ /\ job.request.upscale
        /\ \/ Proceeds /\ gpu' = "empty" /\ UNCHANGED active
           \/ /\ job.tile \div 2 >= 128
              /\ job' = [job EXCEPT !.tile = @ \div 2] /\ gpu' = "empty"
              /\ UNCHANGED <<proc, outcome, active>>
           \/ job.tile \div 2 < 128 /\ Raise("oom")
           \/ Raise("error")
  /\ UNCHANGED <<Settings, overridden>>

Save ==
  /\ At("save")
  /\ \/ Raise("error")
     \/ Proceeds /\ UNCHANGED <<active, gpu>>
  /\ UNCHANGED <<Settings, overridden>>

\* The last event says whether the baseline stays; only then is there another
\* command.
Resident == load.keep /\ HighVram(load)
Retain ==
  /\ At("retain")
  /\ job' = Idle /\ outcome' = "complete"
  /\ active' = IF job.kind \in Released THEN None ELSE active
  /\ \/ /\ Resident /\ proc' = "waiting"
        /\ gpu' = IF job.kind \in Released /\ active # None THEN "empty" ELSE "baseline"
     \/ proc' = "exited" /\ gpu' \in {gpu, "empty"}
  /\ UNCHANGED <<Settings, overridden>>

\* The VAE is dropped and read again for the CPU: a failure leaves none.
SwitchVaeToCpu ==
  \/ vaeOnCpu' = TRUE /\ UNCHANGED parts /\ gpu' \in {gpu, "empty"}
     /\ job' = Command(job.kind, job.request, "encode", job.attempt + 1)
     /\ UNCHANGED <<proc, outcome, active>>
  \/ ~vaeOnCpu /\ parts' = parts \ {"vae"} /\ Fail("error") /\ UNCHANGED vaeOnCpu

\* One retry: memory is freed, the reserve and the warning floor are raised.
Recover ==
  /\ At("recover")
  /\ \/ load.guard /\ Fail("ram") /\ UNCHANGED <<parts, vaeOnCpu, floors>>
     \/ floors' = Recovered(floors, load.total) /\ SwitchVaeToCpu
  /\ UNCHANGED <<load, jobs, overridden>>

Done == proc \in {"exited", "failed"} /\ UNCHANGED vars

Next ==
  \/ Probe \/ LoadCommand
  \/ \E r \in Requests : \/ GenerateBaseline(r) \/ EditImage(r) \/ RefineFaces(r)
                        \/ Image2Image(r) \/ ValidateLoras(r)
  \/ Close \/ DiagnoseLoras \/ Plan \/ Encode \/ EncodeImage \/ Project \/ Adapt \/ Identity
  \/ Install \/ Check \/ Sample \/ Handoff \/ Decode \/ Upscale \/ Save \/ Retain \/ Recover
  \/ Done

Spec == Init /\ [][Next]_vars

-----------------------------------------------------------------------------
(* Properties.                                                             *)

(* Every variable has its type; no job is attempted more than twice and no *)
(* upscaling goes below a tile of 128 pixels, whatever memory does.        *)
TypeOK ==
  /\ proc \in {"new", "waiting", "busy", "abandoned", "exited", "failed"}
  /\ load \in Loads \cup {None} /\ parts \subseteq Parts /\ vaeOnCpu \in BOOLEAN
  /\ floors \in Policies
  /\ active \in Models \cup {None} /\ overridden \subseteq Models
  /\ gpu \in Models \cup {"empty"} /\ jobs \in 0..MaxJobs
  /\ job.kind \in Kinds \cup {None} /\ job.request \in Requests \cup {None}
  /\ job.attempt \in 1..2 /\ job.model \in Models
  /\ job.tile \in {512, 256, 128} /\ job.crops \subseteq AllCrops
  /\ (proc = "busy") = (job.kind # None)

(* A worker kept for another job gives it what a fresh worker would: all   *)
(* three components, no clone of the last job remembered or on the GPU, no *)
(* attention override in the baseline's options, whatever the jobs before  *)
(* were and wherever they recovered; the same baseline meets the retry.    *)
JobStartsClean ==
  /\ proc = "waiting" \/ At("plan") =>
       /\ parts = Parts /\ active = None
       /\ gpu \in {"empty", "baseline"} /\ overridden = {}
  /\ At("encode") => parts = Parts /\ overridden = {}

(* The free memory the worker insists on stays in order and within the GPU *)
(* over any number of recoveries, and a retry runs with a VAE on the CPU   *)
(* and no less of a reserve than it was loaded with.                       *)
MemoryFloorsHold ==
  load # None =>
    /\ floors.critical <= floors.warning /\ floors.reserve <= floors.warning
    /\ floors.reserve <= Greater(Floors(load).reserve, Capacity(load.total))
    /\ floors.reserve >= Floors(load).reserve
    /\ proc = "busy" /\ job.attempt = 2 => vaeOnCpu /\ "vae" \in parts

(* An image that is edited or refined keeps the source elsewhere: a pixel  *)
(* of a local edit is taken from the sampled image only where the sampler  *)
(* was free to change it, and a refinement changes pixels of the image     *)
(* around the faces of its own targets, each wholly if its crop fits.      *)
EditStaysInMask ==
  LET r == job.request IN
  /\ At("save") /\ job.kind = "edit" =>
       /\ EditedPixels(r) \subseteq DenoiseMask(r)
       /\ \A i \in DOMAIN r.edits : r.edits[i].enabled =>
            CompositeMask(<<r.edits[i]>>, 0, r.width, r.height) \subseteq EditedPixels(r)
  /\ At("save") /\ job.kind = "refine" =>
       \A t \in Crops(r) :
         LET p == RefinedPixels(t.face, r.width, r.height, r.padding, r.soft)
             f == t.face
         IN  /\ p # {} /\ p \subseteq Pixels(r.width, r.height)
             /\ r.padding > 1 /\ r.padding * Greater(f.x1 - f.x0, f.y1 - f.y0)
                                   <= Lesser(r.width, r.height)
                => (f.x0..(f.x1 - 1)) \X (f.y0..(f.y1 - 1)) \subseteq
                     RefinedPixels(f, r.width, r.height, r.padding, FALSE)

(* "Token-local transformer paths": while a job samples, the allowed        *)
(* targets of a standard LoRA of subject regions change tokens of their    *)
(* clauses and boxes only.  No other token reads the clauses' text, with   *)
(* the deltas of the text fusion in it, in the refiner or the main stream, *)
(* or an image token's key or value that a target changes: the override    *)
(* that hides the text is on the sampling model, and the attention over    *)
(* the encoder's layers is left as it is.  What deltas of queries and      *)
(* outputs make of the box's tokens other image tokens do read, from the   *)
(* next block on.                                                          *)
DeltaIsTokenLocal ==
  At("sample") =>
    LET bound  == BoundOf[job.kind][job.request]
        routes == {r \in Routes(JobLoras(job.kind, job.request), bound) :
                     /\ ~r.global /\ r.mode = "standard"
                     /\ \A id \in r.lora.regions : SpanOf(bound, id).role = "subject"}
        home(r) == Home(r.lora, PlanOf(job.kind, job.request),
                        CompiledOf[job.kind][job.request])
    IN  /\ Spatial(job.kind, job.request) =>
             /\ job.model \in overridden
             /\ Recognized(Call("layerwise", bound), bound) = "original"
        /\ \A r \in routes :
             /\ job.model = "lora" /\ job.model \in overridden
             /\ \A t \in r.lora.targets :
                   RouteAllows(r, t) => Gated(r, t, bound) \subseteq home(r)
             /\ \A stream \in {"refiner", "main"} :
                  \A query \in Positions(stream, bound) \ home(r),
                     key \in PrivateKeys(r, home(r), stream, bound) :
                       Hidden(stream, bound, query, key)
=============================================================================
