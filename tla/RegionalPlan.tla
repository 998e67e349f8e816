---------------------------- MODULE RegionalPlan ----------------------------
(***************************************************************************)
(* How a request with regions becomes a prompt, token spans, LoRA routes   *)
(* and an attention partition: pure functions of the request, used by the  *)
(* worker (WorkerRuntime).  A prompt is the sequence of its tokens, each   *)
(* tagged with the part it comes from and the region it belongs to; a      *)
(* field or a mask is the set of the image tokens where it is positive; an *)
(* adapter target is the stream it acts in and the matrix it changes.      *)
(***************************************************************************)
EXTENDS Integers, Sequences, FiniteSets, SequencesExt

CONSTANTS
  Layers,         \* hidden states of the text encoder Krea mixes: 12 in the code
  TokenPixels,    \* pixels of an image token's side: vae_scale * patch_size = 16
  Suffix,         \* tokens of the conditioning after the user's prompt
  MaxStrength     \* a LoRA's strength is refused beyond it: 4 in the code

ASSUME ShapeAssumption ==
  /\ Layers \in Nat \ {0} /\ TokenPixels \in Nat \ {0}
  /\ Suffix \in Nat /\ MaxStrength \in Nat

Shared == "shared"                     \* the region of a token nobody owns
GlobalScope == "__global__"

\* A box, a region and a LoRA as the commands carry them.
PixelBox == {b \in [x0 : Int, y0 : Int, x1 : Int, y1 : Int] : b.x0 < b.x1 /\ b.y0 < b.y1}
RegionDefinition ==
  [id : STRING \ {Shared}, box : PixelBox, prompt : BOOLEAN, identity : BOOLEAN,
   enabled : BOOLEAN, priority : Int, role : {"auto", "subject", "background", "edit"}]
Streams == {"layerwise", "projector", "refiner", "main"}
Modulation == [stream |-> "main", part |-> "modulation"]
Targets == [stream : Streams, part : {"query", "key", "value", "out"}] \cup {Modulation}
LoraSpecification ==
  [strength : Int, global : BOOLEAN, regions : SUBSET STRING, mode : {"standard", "character"},
   trigger : BOOLEAN, reference : BOOLEAN, targets : SUBSET Targets]

-----------------------------------------------------------------------------
(* Geometry: half-open pixel boxes over a grid of image tokens.            *)

AlignUp(v, a) == ((v + a - 1) \div a) * a
Lesser(a, b)  == IF a < b THEN a ELSE b
Greater(a, b) == IF a < b THEN b ELSE a

Grid(w, h) == [cols |-> AlignUp(w, TokenPixels) \div TokenPixels,
               rows |-> AlignUp(h, TokenPixels) \div TokenPixels]
ImageTokens(g) == 0..(g.rows * g.cols - 1)

Clamp(v, top) == Lesser(Greater(v, 0), top)
Clip(b, w, h) == [x0 |-> Clamp(b.x0, w), y0 |-> Clamp(b.y0, h),
                  x1 |-> Clamp(b.x1, w), y1 |-> Clamp(b.y1, h)]
OnCanvas(b, w, h) == LET c == Clip(b, w, h) IN c.x0 < c.x1 /\ c.y0 < c.y1

\* The tokens a box covers a part of: weights are area fractions, here the
\* tokens where they are positive.  The box has been clipped.
Rasterized(b, g) ==
  {r * g.cols + c : r \in (b.y0 \div TokenPixels)..((b.y1 - 1) \div TokenPixels),
                    c \in (b.x0 \div TokenPixels)..((b.x1 - 1) \div TokenPixels)}

-----------------------------------------------------------------------------
(* The unified prompt and its regions.                                     *)

Described(r) == r.prompt \/ r.identity

\* A finite set in the order of a relation, and the members of a sequence at
\* some places (SelectSeq and SortSeq, as relations that can be reasoned about).
InOrder(S, before) ==
  CHOOSE f \in [1..Cardinality(S) -> S] :
    \A j, k \in DOMAIN f : j < k => <<f[j], f[k]>> \in before
Chosen(s, places) ==
  LET order == InOrder(places, {ij \in places \X places : ij[1] < ij[2]})
  IN  [k \in DOMAIN order |-> s[order[k]]]

\* Enabled regions with a description, highest priority first, else in list order.
Live(regions) == {i \in DOMAIN regions : regions[i].enabled /\ Described(regions[i])}
Precedence(regions) ==
  {ij \in Live(regions) \X Live(regions) :
     \/ regions[ij[1]].priority > regions[ij[2]].priority
     \/ regions[ij[1]].priority = regions[ij[2]].priority /\ ij[1] < ij[2]}
Active(regions) ==
  LET order == InOrder(Live(regions), Precedence(regions))
  IN  [k \in DOMAIN order |-> regions[order[k]]]

EffectiveRole(r, w, h) ==
  LET box == Clip(r.box, w, h)
  IN  CASE r.role # "auto"                     -> r.role
        [] 10 * (box.x1 - box.x0) >= 7 * w      -> "background"
        [] OTHER                                -> "subject"

Tagged(part, region) == [part |-> part, region |-> region]
Words(part, region, present) == IF present THEN <<Tagged(part, region)>> ELSE <<>>

\* The trigger phrases of the character LoRAs of a region, each once, in order.
Triggers(loras, region) ==
  Chosen(loras, {i \in DOMAIN loras :
                   loras[i].mode = "character" /\ region \in loras[i].regions})

\* The phrase that places it, the face identity, the scene, one instruction
\* for each trigger.
Clause(r, loras) ==
  <<Tagged("place", r.id)>> \o Words("identity", r.id, r.identity)
    \o Words("scene", r.id, r.prompt)
    \o [k \in DOMAIN Triggers(loras, r.id) |-> Tagged("trigger", r.id)]

\* How two or more subjects stand to each other: shared text.
Subjects(regions) == {i \in DOMAIN regions : regions[i].role = "subject"}
Relation(regions) == Words("relation", Shared, Cardinality(Subjects(regions)) >= 2)

\* What is known of a request before it reaches the GPU: the shared text, one
\* clause for each active region, then how the subjects stand to each other.
CompilePlan(p) ==
  LET active  == Active(p.regions)
      grid    == Grid(p.width, p.height)
      clauses == [k \in DOMAIN active |-> Clause(active[k], p.loras)]
      regions == [k \in DOMAIN active |->
                    [id    |-> active[k].id,
                     role  |-> EffectiveRole(active[k], p.width, p.height),
                     cover |-> Rasterized(Clip(active[k].box, p.width, p.height), grid),
                     first |-> p.words + Len(FlattenSeq(SubSeq(clauses, 1, k - 1))),
                     size  |-> Len(clauses[k])]]
  IN  [regions  |-> regions,
       grid     |-> grid,
       emphases |-> p.emphases,
       prompt   |-> [k \in 1..p.words |-> Tagged("global", Shared)] \o FlattenSeq(clauses)
                      \o Relation(regions)]

\* A box off the canvas, a phrase of a region without an active prompt, or a
\* trigger of a LoRA that has none or has no region.
PlanRefused(p) ==
  \/ \E i \in DOMAIN Active(p.regions) :
        ~OnCanvas(Active(p.regions)[i].box, p.width, p.height)
  \/ \E scope \in p.emphases \ {GlobalScope} :
        \A i \in DOMAIN Active(p.regions) : Active(p.regions)[i].id # scope
  \/ \E i \in DOMAIN p.loras :
        p.loras[i].mode = "character" /\ (~p.loras[i].trigger \/ p.loras[i].global)

\* Text tokens are 0, 1, ...: a span is found again by counting the tokens of
\* the prompt before it and up to its end.
Bind(plan) ==
  [texts |-> Len(plan.prompt) + Suffix,
   images |-> ImageTokens(plan.grid),
   spans |-> [k \in DOMAIN plan.regions |->
                [id    |-> plan.regions[k].id,
                 role  |-> plan.regions[k].role,
                 cover |-> plan.regions[k].cover,
                 text  |-> plan.regions[k].first
                             ..(plan.regions[k].first + plan.regions[k].size - 1)]],
   faces |-> {t \in 0..(Len(plan.prompt) - 1) : plan.prompt[t + 1].part = "identity"}]

-----------------------------------------------------------------------------
(* Where a LoRA's delta goes.                                              *)

SpanOf(bound, id) == CHOOSE s \in Range(bound.spans) : s.id = id
HasSpan(bound, id) == \E s \in Range(bound.spans) : s.id = id

RouteRefused(l, bound) ==
  /\ l.strength # 0
  /\ \/ l.strength > MaxStrength \/ l.strength < -MaxStrength
     \/ l.mode = "character" /\ ~l.trigger
     \/ ~l.global /\ (l.regions = {} \/ \E id \in l.regions : ~HasSpan(bound, id))

\* The tokens a route's delta is gated to: text positions, then image tokens.
Route(l, bound) ==
  [lora   |-> l,
   global |-> l.global,
   mode   |-> IF l.global THEN "standard" ELSE l.mode,
   text   |-> IF l.global THEN 0..(bound.texts - 1)
              ELSE UNION {SpanOf(bound, id).text : id \in l.regions},
   image  |-> IF l.global THEN bound.images
              ELSE UNION {SpanOf(bound, id).cover : id \in l.regions}]

Routes(loras, bound) ==
  {Route(loras[i], bound) : i \in {j \in DOMAIN loras : loras[j].strength # 0}}

\* What the guard against shared keys and values would let through if it knew
\* of the text streams only.
RouteAllows_Everywhere(route, target) == route.global \/ target # Modulation

RouteAllows(route, target) ==
  \/ route.global
  \/ /\ target # Modulation
     /\ \/ route.mode = "character"
        \/ target.stream # "main"
        \/ target.part \notin {"key", "value"}

\* The tokens whose activations a target changes: in the main stream they are
\* [text, image] and text comes first.
SequenceMask(route, bound) == route.text \cup {bound.texts + v : v \in route.image}
Gated(route, target, bound) ==
  IF target.stream = "main" THEN SequenceMask(route, bound) ELSE route.text

-----------------------------------------------------------------------------
(* Who may attend to whom.                                                 *)

\* The subjects are numbered 1, 2, ... in the order of the spans; 0 is shared.
OwnerNumber(bound, k) ==
  Cardinality({j \in 1..k : bound.spans[j].role = "subject"})
SubjectSpans(bound) == {k \in DOMAIN bound.spans : bound.spans[k].role = "subject"}

TextOwner(bound, t) ==
  LET of == {k \in SubjectSpans(bound) : t \in bound.spans[k].text}
  IN  IF of = {} THEN 0 ELSE OwnerNumber(bound, CHOOSE k \in of : TRUE)

\* The first subject, which has the highest priority, takes a contested token.
ImageOwner(bound, v) ==
  LET of == {k \in SubjectSpans(bound) : v \in bound.spans[k].cover}
  IN  IF of = {} THEN 0
      ELSE OwnerNumber(bound, CHOOSE k \in of : \A j \in of : k <= j)

\* The attention calls of one pass of the model, and what the override takes
\* them for by their lengths: the folded layerwise calls attend over Layers
\* states with the prompt's tokens as the batch.
Call(stream, bound) ==
  CASE stream = "layerwise" -> [length |-> Layers, batch |-> bound.texts]
    [] stream = "refiner"   -> [length |-> bound.texts, batch |-> 1]
    [] stream = "main"      -> [length |-> bound.texts + Cardinality(bound.images),
                                batch  |-> 1]

Recognized(call, bound) ==
  LET folded == /\ call.length = Layers /\ call.length = bound.texts
                /\ call.batch >= bound.texts /\ call.batch % bound.texts = 0
  IN  CASE call.length = bound.texts + Cardinality(bound.images) -> "main"
        [] call.length = bound.texts /\ ~folded                  -> "refiner"
        [] OTHER                                                 -> "original"

IsText(bound, k) == k < bound.texts
Owner(bound, k) ==
  IF IsText(bound, k) THEN TextOwner(bound, k) ELSE ImageOwner(bound, k - bound.texts)

\* An owned key is read by its owner's queries only, but images read images.
\* Every other bias of the override is finite and hides no key.
Blocked(bound, query, key) ==
  /\ Owner(bound, key) > 0
  /\ Owner(bound, query) # Owner(bound, key)
  /\ IsText(bound, query) \/ IsText(bound, key)

\* The tokens an attention call ranges over.
Positions(stream, bound) ==
  IF stream = "main" THEN 0..(bound.texts + Cardinality(bound.images) - 1)
  ELSE 0..(bound.texts - 1)
-----------------------------------------------------------------------------
(* Image edits and face details.                                           *)

\* The reference regions keep their text (and their identity, if asked to);
\* an edit region takes the instruction and owns nothing.
EditRegions(references, edits, instruction, preserve) ==
  LET kept   == [k \in DOMAIN references |->
                   [references[k] EXCEPT !.identity = @ /\ preserve]]
      local  == [k \in DOMAIN edits |->
                   [edits[k] EXCEPT !.prompt = @ \/ instruction > 0, !.role = "edit"]]
  IN  kept \o Chosen(local, Live(local))

\* The global text is the instruction when the whole image is edited, and
\* nothing otherwise; the emphases of the source's global text go.
EditRequest(e) ==
  [width |-> e.width, height |-> e.height,
   words |-> IF e.entire THEN e.words ELSE 0,
   regions |-> EditRegions(e.regions, e.edits, e.words, e.preserve),
   emphases |-> e.emphases \ {GlobalScope},
   loras |-> Chosen(e.loras, {i \in DOMAIN e.loras :
                e.preserve \/ ~(e.loras[i].reference /\ e.loras[i].mode = "character")})]

EditRefused(e) ==
  LET edits == EditRegions(<<>>, e.edits, e.words, e.preserve)
  IN  \/ ~e.entire /\ \A i \in DOMAIN e.edits : ~e.edits[i].enabled
      \/ e.words = 0 /\ edits = <<>>
      \/ EditRequest(e).words = 0 /\ Active(EditRequest(e).regions) = <<>>

\* A soft mask is the set of the pixels where it is positive: its ramp is zero
\* on the outermost ring, so a feather reaches one pixel less than its length
\* (or less still, where the ramp rounds to zero).
Pixels(w, h) == (0..(w - 1)) \X (0..(h - 1))
CompositeMask(regions, feather, w, h) ==
  LET reach == Greater(feather - 1, 0)
      within(p, b) == /\ p[1] >= b.x0 - reach /\ p[1] < b.x1 + reach
                      /\ p[2] >= b.y0 - reach /\ p[2] < b.y1 + reach
  IN  {p \in Pixels(w, h) : \E i \in DOMAIN regions :
          regions[i].enabled /\ within(p, regions[i].box)}

\* What the sampler may change, on the canvas padded to whole tokens, and what
\* of its image replaces the source.
DenoiseMask(e) ==
  LET w == AlignUp(e.width, TokenPixels)
      h == AlignUp(e.height, TokenPixels)
  IN  IF e.entire THEN Pixels(w, h) ELSE CompositeMask(e.edits, e.latentFeather, w, h)
CompositeFeather_Own(e) == e.compositeFeather                               \* mutant
CompositeFeather(e) == Lesser(e.compositeFeather, e.latentFeather)
EditedPixels(e) ==
  IF e.entire THEN Pixels(e.width, e.height)
  ELSE CompositeMask(e.edits, CompositeFeather(e), e.width, e.height)

\* A face belongs to a region that holds its centre, or a fifth of it, or that
\* is near.  Coordinates are doubled so that a centre is an integer.
Near(face, box) ==
  LET x  == face.x0 + face.x1
      y  == face.y0 + face.y1
      dx == Greater(Greater(2 * box.x0 - x, 0), x - 2 * box.x1)
      dy == Greater(Greater(2 * box.y0 - y, 0), y - 2 * box.y1)
      side == Greater(face.x1 - face.x0, face.y1 - face.y0)
  IN  4 * (dx * dx + dy * dy) <= 25 * side * side
Overlap(a, b) ==
  Greater(0, Lesser(a.x1, b.x1) - Greater(a.x0, b.x0))
    * Greater(0, Lesser(a.y1, b.y1) - Greater(a.y0, b.y0))
Area(b) == (b.x1 - b.x0) * (b.y1 - b.y0)
Matches(face, box) == Near(face, box) \/ 5 * Overlap(face, box) >= Area(face)
Better(f, g, box)  == Overlap(f, box) * Area(g) > Overlap(g, box) * Area(f)

\* Each region with a LoRA of its own, by priority, takes the best face left.
FaceLoras(loras, id) ==
  Chosen(loras, {i \in DOMAIN loras : /\ ~loras[i].global /\ loras[i].strength # 0
                                       /\ id \in loras[i].regions})
FaceOrder(regions, loras) ==
  Chosen(Active(regions),
         {k \in DOMAIN Active(regions) : /\ FaceLoras(loras, Active(regions)[k].id) # <<>>
                                         /\ Active(regions)[k].role # "background"})
WithFace(taken, faces, region, loras) ==
  LET left == {f \in faces \ {t.face : t \in taken} : Matches(f, region.box)}
      best(f) == \A g \in left : ~Better(g, f, region.box)
  IN  IF left = {} THEN taken
      ELSE taken \cup {[face |-> CHOOSE f \in left : best(f),
                        loras |-> FaceLoras(loras, region.id)]}
FaceTargets(faces, regions, loras) ==
  LET order == FaceOrder(regions, loras)
      taken[k \in 0..Len(order)] ==
        IF k = 0 THEN {} ELSE WithFace(taken[k - 1], faces, order[k], loras)
  IN  taken[Len(order)]

\* The square around a face, moved inside the image; its corners are halves
\* rounded to the nearest integer, ties to the even one.
Rounded(halves) == IF halves % 4 = 3 THEN (halves + 1) \div 2 ELSE halves \div 2
FaceCrop(face, w, h, padding) ==
  LET side == Lesser(Greater(face.x1 - face.x0, face.y1 - face.y0) * padding, Lesser(w, h))
      x == Lesser(Greater(face.x0 + face.x1 - side, 0), 2 * (w - side))
      y == Lesser(Greater(face.y0 + face.y1 - side, 0), 2 * (h - side))
  IN  [x0 |-> Rounded(x), y0 |-> Rounded(y),
       x1 |-> Lesser(w, Rounded(x + 2 * side)), y1 |-> Lesser(h, Rounded(y + 2 * side))]

\* The pixels a refined crop changes: a feather spares the edge of the crop.
RefinedPixels(face, w, h, padding, feather) ==
  LET c    == FaceCrop(face, w, h, padding)
      edge == IF feather THEN 1 ELSE 0
  IN  ((c.x0 + edge)..(c.x1 - 1 - edge)) \X ((c.y0 + edge)..(c.y1 - 1 - edge))

-----------------------------------------------------------------------------
(* What is checked of the plans.                                           *)

(* The tokens a LoRA is meant for, told by the prompt's words and the      *)
(* pixels of the boxes.                                                    *)
Cell(v, g) == [x0 |-> (v % g.cols) * TokenPixels, x1 |-> ((v % g.cols) + 1) * TokenPixels,
               y0 |-> (v \div g.cols) * TokenPixels, y1 |-> (v \div g.cols + 1) * TokenPixels]
Home(lora, p, plan) ==
  {t \in 0..(Len(plan.prompt) - 1) : plan.prompt[t + 1].region \in lora.regions}
    \cup {Len(plan.prompt) + Suffix + v :
            v \in {v \in ImageTokens(plan.grid) : \E i \in DOMAIN p.regions :
                      /\ p.regions[i].id \in lora.regions
                      /\ Overlap(Cell(v, plan.grid),
                                 Clip(p.regions[i].box, p.width, p.height)) > 0}}

\* The keys of a home that nobody else is to read with a delta in them: its
\* text, which text-fusion deltas have changed, and an image token's key where
\* a target changes the keys or values themselves.  It is not said of the keys
\* that image tokens have after query or output deltas of an earlier block:
\* image-to-image attention is unmodified.
PrivateKeys(route, home, stream, bound) ==
  IF stream = "refiner" THEN {k \in home : IsText(bound, k)}
  ELSE {k \in home :
          \/ IsText(bound, k)
          \/ \E t \in route.lora.targets :
                 t.stream = "main" /\ t.part \in {"key", "value"} /\ RouteAllows(route, t)}
Hidden(stream, bound, query, key) ==
  Recognized(Call(stream, bound), bound) = stream /\ Blocked(bound, query, key)
=============================================================================
