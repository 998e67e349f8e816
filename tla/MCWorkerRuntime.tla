-------------------------- MODULE MCWorkerRuntime --------------------------
EXTENDS WorkerRuntime

Box(x0, y0, x1, y1) == [x0 |-> x0, y0 |-> y0, x1 |-> x1, y1 |-> y1]
Region(id, box, identity, priority, role) ==
  [id |-> id, box |-> box, prompt |-> TRUE, identity |-> identity, enabled |-> TRUE,
   priority |-> priority, role |-> role]
Lora(strength, regions, mode) ==
  [strength |-> strength, global |-> regions = {}, regions |-> regions, mode |-> mode,
   trigger |-> mode = "character", reference |-> mode = "character",
   targets |-> {Modulation} \cup
     [stream : {"layerwise", "refiner", "main"}, part : {"query", "key", "value", "out"}]]

\* Three columns and three rows of four-pixel tokens; "a" and "b" overlap.
Canvas == [width |-> 12, height |-> 11, words |-> 1, regional |-> TRUE, regions |-> <<>>,
           edits |-> <<>>, entire |-> FALSE, preserve |-> TRUE, emphases |-> {}, loras |-> <<>>,
           projector |-> FALSE, protection |-> TRUE, faces |-> {}, scale |-> 1, upscale |-> FALSE,
           latentFeather |-> 2, compositeFeather |-> 3, padding |-> 2, soft |-> FALSE]
A == Region("a", Box(0, 0, 6, 8), FALSE, 0, "auto")
B == Region("b", Box(3, 2, 9, 20), FALSE, 1, "auto")
Wide == Region("w", Box(0, 5, 12, 8), FALSE, 0, "auto")
Identified == Region("c", Box(8, 0, 12, 4), TRUE, 0, "subject")
EditBox == Region("e", Box(4, 0, 8, 8), FALSE, 0, "auto")

MCRequests == {
  \* as many text tokens as the text encoder has layers
  [Canvas EXCEPT !.regions = <<A, B>>,
     !.loras = <<Lora(1, {"a"}, "standard"), Lora(2, {"b"}, "standard")>>,
     !.edits = <<EditBox>>, !.faces = {Box(1, 1, 3, 3), Box(6, 4, 8, 6)}],
  [Canvas EXCEPT !.regions = <<Wide, Identified, A>>, !.projector = TRUE, !.words = 2,
     !.loras = <<Lora(4, {"c"}, "character"), Lora(-1, {"a", "c"}, "standard")>>,
     !.edits = <<EditBox>>, !.latentFeather = 4, !.padding = 1, !.soft = TRUE,
     !.preserve = FALSE, !.emphases = {GlobalScope, "a"},
     !.upscale = TRUE, !.faces = {Box(8, 0, 12, 4)}],
  \* nothing but the override: the baseline itself samples
  [Canvas EXCEPT !.regions = <<A, Wide>>, !.edits = <<EditBox>>],
  [Canvas EXCEPT !.loras = <<Lora(1, {}, "standard"), Lora(0, {"a"}, "standard")>>,
     !.projector = TRUE, !.entire = TRUE, !.upscale = TRUE],
  \* a LoRA of a region without an active prompt
  [Canvas EXCEPT !.regions = <<[A EXCEPT !.enabled = FALSE], B>>, !.entire = TRUE,
     !.loras = <<Lora(1, {"a"}, "standard")>>, !.edits = <<EditBox>>]}

Policy(reserve, warning, critical) ==
  [reserve |-> reserve, warning |-> warning, critical |-> critical]
Setting(reserve, policy, total) ==
  [reserve |-> reserve, policy |-> policy, total |-> total, mode |-> "high_vram",
   guard |-> TRUE, cpuVae |-> FALSE, keep |-> TRUE, recovery |-> TRUE]

\* safe_16gb, emergency and custom, on GPUs of 16, 8 and 12 GiB.
MCLoads == {
  Setting(400, Policy(400, 400, 200), 1600),
  [Setting(300, Policy(550, 500, 250), 1600) EXCEPT !.cpuVae = TRUE, !.recovery = FALSE],
  [Setting(50, Policy(50, 50, 25), 800) EXCEPT !.guard = FALSE],
  [Setting(500, Policy(50, 50, 25), 1200) EXCEPT !.mode = "auto"]}
=============================================================================
