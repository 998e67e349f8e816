------------------------- MODULE DownloadQueueProofs -------------------------
(***************************************************************************)
(* Invariants of DownloadQueue, for any transfers, sources and files, any  *)
(* length of the queue and any number of restarts and failed writes.       *)
(***************************************************************************)
EXTENDS DownloadQueue, FiniteSetTheorems, SequenceTheorems, TLAPS

(* An operation runs in a phase; what is queued or runs was started.       *)
QueueInv ==
  /\ op = None <=> phase = "idle"
  /\ \A i \in DOMAIN queue : state[queue[i]] # "none"
  /\ op # None => state[op] # "none"
  /\ restarts + faults <= MaxTroubles
  /\ ActiveIsOwned
  /\ IsFiniteSet(Stranded) /\ FaultStrandsOne

(* Staged blocks are of the page's files unless each has a SHA-256, and in *)
(* the phase of the installation the selected one's, if any, was compared. *)
StagedRight(t) ==
  /\ source[t] \in Sources
  /\ file[t] # None => file[t] \in source[t].offers
  /\ part[t].len # 0 => part[t].from # {}
  /\ Broken \in part[t].from => \A f \in source[t].offers : f.hashed

FileInv ==
  /\ \A t \in Transfers : state[t] # "none" => StagedRight(t)
  /\ \A t \in Transfers : state[t] = "none" => part[t] = Empty /\ file[t] = None
  /\ phase \notin {"idle", "metadata"} => file[op] # None
  /\ phase = "stream" => part[op].len <= Size
  /\ phase = "install" /\ source[op].provider = "civitai" => Verified(op)
  /\ CompletedIsInstalled

IInv == TypeOK /\ QueueInv /\ FileInv

(* What no step does to the destinations.                                  *)
FilesKept == \A n \in Names : (dest[n] # None => dest'[n] = dest[n]) /\ BrokenFor(n)

Parts == [len : 0 .. Size + 1, from : SUBSET (Contents \cup {Broken})]
Dests == [Names -> Contents \cup {None, Broken}]
Settled == {"failed", "cancelled", "completed"}
restFrame == <<queue, closing, restarts, faults>>

USE NamesAssumption, BoundsAssumption
-----------------------------------------------------------------------------
(* What a step does to the queue.                                          *)

(* Without a failed write no transfer is stranded, with one no other than  *)
(* its own.                                                                *)
LEMMA NoneMoreStranded ==
  ASSUME TypeOK, QueueInv, faults' = faults,
         \A x \in Transfers : IsStranded(x)' => IsStranded(x),
         queue' # <<>> => drain' \/ (queue # <<>> /\ drain' = drain)
  PROVE  IsFiniteSet(Stranded)' /\ FaultStrandsOne'
<1>1. Stranded' \subseteq Stranded
  BY DEF Stranded
<1>2. /\ IsFiniteSet(Stranded') /\ Cardinality(Stranded') <= Cardinality(Stranded)
  BY <1>1, FS_Subset DEF QueueInv
<1>3. Cardinality(Stranded') \in Nat /\ Cardinality(Stranded) \in Nat /\ faults \in Nat
  BY <1>2, FS_CardinalityType DEF QueueInv, TypeOK
<1>4. Cardinality(Stranded') <= faults'
  BY <1>2, <1>3 DEF QueueInv, FaultStrandsOne
<1>. QED
  BY <1>2, <1>4 DEF QueueInv, FaultStrandsOne

LEMMA OneMoreStranded ==
  ASSUME TypeOK, QueueInv, NEW t \in Transfers, faults' = faults + 1,
         \A x \in Transfers : x # t /\ IsStranded(x)' => IsStranded(x)
  PROVE  IsFiniteSet(Stranded)' /\ FaultStrandsOne'
<1>1. Stranded' \subseteq Stranded \cup {t}
  BY DEF Stranded
<1>2. /\ IsFiniteSet(Stranded \cup {t})
      /\ Cardinality(Stranded \cup {t}) = Cardinality(Stranded)
           \/ Cardinality(Stranded \cup {t}) = Cardinality(Stranded) + 1
  BY FS_AddElement DEF QueueInv
<1>3. IsFiniteSet(Stranded') /\ Cardinality(Stranded') <= Cardinality(Stranded \cup {t})
  BY <1>1, <1>2, FS_Subset
<1>4. Cardinality(Stranded') \in Nat /\ Cardinality(Stranded) \in Nat /\ faults \in Nat
  BY <1>3, FS_CardinalityType DEF QueueInv, TypeOK
<1>5. Cardinality(Stranded') <= faults' /\ faults' # 0
  BY <1>2, <1>3, <1>4 DEF QueueInv, FaultStrandsOne
<1>. QED
  BY <1>3, <1>5 DEF FaultStrandsOne

(* A step that ends the operation settles its transfer.                    *)
LEMMA SettlesQueue ==
  ASSUME TypeOK, QueueInv, NEW t \in Transfers, op = t, NEW s \in Settled,
         SetState(t, s), OperationEnds, UNCHANGED restFrame
  PROVE  QueueInv' /\ phase' = "idle"
<1>. USE DEF TypeOK, SetState, OperationEnds, restFrame, Settled, States, Active,
             InFlight, Resumable
<1>1. \A x \in Transfers : state'[x] = IF x = t THEN s ELSE state[x]
  OBVIOUS
<1>2. ActiveIsOwned'
  BY <1>1 DEF QueueInv, ActiveIsOwned
<1>3. \A x \in Transfers : IsStranded(x)' => IsStranded(x)
  BY <1>1 DEF IsStranded
<1>4. IsFiniteSet(Stranded)' /\ FaultStrandsOne'
  BY <1>3, NoneMoreStranded
<1>. QED
  BY <1>1, <1>2, <1>4 DEF QueueInv

(* A step that leaves the operation running moves it to another phase.     *)
LEMMA AdvancesQueue ==
  ASSUME TypeOK, QueueInv, NEW t \in Transfers, op = t, NEW s \in InFlight \cup {state[t]},
         SetState(t, s), phase' \in Phases \ {"idle"}, UNCHANGED <<op, drain, restFrame>>
  PROVE  QueueInv'
<1>. USE DEF TypeOK, SetState, restFrame, States, Active, InFlight, Resumable
<1>1. \A x \in Transfers : state'[x] = IF x = t THEN s ELSE state[x]
  OBVIOUS
<1>2. ActiveIsOwned'
  BY <1>1 DEF QueueInv, ActiveIsOwned
<1>3. \A x \in Transfers : IsStranded(x)' => IsStranded(x)
  BY <1>1 DEF IsStranded
<1>4. IsFiniteSet(Stranded)' /\ FaultStrandsOne'
  BY <1>3, NoneMoreStranded
<1>. QED
  BY <1>1, <1>2, <1>4 DEF QueueInv

(* A new entry of the queue is behind the others.                          *)
LEMMA Launched ==
  ASSUME TypeOK, NEW t \in Transfers, Launch(t)
  PROVE  /\ queue' \in Seq(Transfers) /\ drain' = TRUE
         /\ \E i \in DOMAIN queue' : queue'[i] = t
         /\ \A i \in DOMAIN queue : i \in DOMAIN queue' /\ queue'[i] = queue[i]
         /\ \A i \in DOMAIN queue' : queue'[i] = t \/ (i \in DOMAIN queue /\ queue'[i] = queue[i])
<1>1. queue \in Seq(Transfers) /\ queue' = Append(queue, t)
  BY DEF TypeOK, Launch
<1>2. /\ queue' \in Seq(Transfers)
      /\ Len(queue') = Len(queue) + 1
      /\ \A i \in 1 .. Len(queue) : queue'[i] = queue[i]
      /\ queue'[Len(queue) + 1] = t
  BY <1>1, AppendProperties
<1>3. DOMAIN queue = 1 .. Len(queue) /\ DOMAIN queue' = 1 .. Len(queue') /\ Len(queue) \in Nat
  BY <1>1, <1>2, LenProperties
<1>. QED
  BY <1>2, <1>3 DEF Launch

(* What is taken off the queue was its head; the rest moves up.            *)
LEMMA Popped ==
  ASSUME TypeOK, queue # <<>>, queue' = Tail(queue)
  PROVE  /\ queue' \in Seq(Transfers)
         /\ 1 \in DOMAIN queue /\ queue[1] = Head(queue)
         /\ \A i \in DOMAIN queue' : i + 1 \in DOMAIN queue /\ queue'[i] = queue[i + 1]
         /\ \A x \in Transfers : x # Head(queue) /\ (\E i \in DOMAIN queue : queue[i] = x)
              => \E i \in DOMAIN queue' : queue'[i] = x
<1>1. queue \in Seq(Transfers)
  BY DEF TypeOK
<1>2. /\ queue' \in Seq(Transfers)
      /\ Len(queue') = Len(queue) - 1
      /\ \A i \in 1 .. Len(queue') : queue'[i] = queue[i + 1]
      /\ Head(queue) = queue[1]
  BY <1>1, HeadTailProperties
<1>3. /\ DOMAIN queue = 1 .. Len(queue) /\ DOMAIN queue' = 1 .. Len(queue')
      /\ Len(queue) \in Nat /\ Len(queue) # 0
  BY <1>1, <1>2, LenProperties, EmptySeq
<1>4. ASSUME NEW x \in Transfers, x # Head(queue), NEW i \in DOMAIN queue, queue[i] = x
      PROVE  i - 1 \in DOMAIN queue' /\ queue'[i - 1] = x
  <2>1. i \in 1 .. Len(queue) /\ i # 1
    BY <1>2, <1>3, <1>4
  <2>2. i - 1 \in 1 .. Len(queue')
    BY <2>1, <1>2, <1>3
  <2>3. queue'[i - 1] = queue[(i - 1) + 1] /\ (i - 1) + 1 = i
    BY <2>1, <2>2, <1>2, <1>3
  <2>. QED
    BY <2>2, <2>3, <1>3, <1>4
<1>5. ASSUME NEW i \in DOMAIN queue'
      PROVE  i + 1 \in DOMAIN queue /\ queue'[i] = queue[i + 1]
  BY <1>2, <1>3, <1>5
<1>6. 1 \in DOMAIN queue /\ queue[1] = Head(queue)
  BY <1>2, <1>3
<1>. QED
  BY <1>2, <1>4, <1>5, <1>6
-----------------------------------------------------------------------------
(* What a step does to the files.                                          *)

(* A step that selects nothing and at most drops what is staged.           *)
LEMMA FilesFollow ==
  ASSUME TypeOK, FileInv, UNCHANGED <<source, file>>,
         \A n \in Names : dest[n] # None => dest'[n] = dest[n],
         \A x \in Transfers : part'[x] \in {part[x], Empty},
         \A x \in Transfers : (state'[x] = "none") = (state[x] = "none"),
         \A x \in Transfers : state'[x] = "completed" => state[x] = "completed" \/ InPlace(x)',
         phase' \notin {"idle", "metadata"} => file[op'] # None,
         phase' = "stream" => op' \in Transfers /\ part[op'].len <= Size /\ UNCHANGED part,
         phase' = "install" /\ source[op'].provider = "civitai" => Verified(op') /\ UNCHANGED part
  PROVE  FileInv'
<1>. USE DEF FileInv
<1>1. CompletedIsInstalled'
  <2>1. \A x \in Transfers : InPlace(x) => InPlace(x)'
    BY DEF InPlace, NamesOf
  <2>. QED
    BY <2>1 DEF CompletedIsInstalled
<1>2. \A x \in Transfers : state'[x] # "none" => StagedRight(x)'
  BY DEF StagedRight, Empty
<1>3. phase' = "install" /\ source'[op'].provider = "civitai" => Verified(op)'
  BY DEF Verified, NamesOf
<1>4. phase' = "stream" => part'[op'].len <= Size
  OBVIOUS
<1>. QED
  BY <1>1, <1>2, <1>3, <1>4

(* A step that changes what is staged of the operation's transfer.         *)
LEMMA StagedFiles ==
  ASSUME TypeOK, FileInv, NEW t \in Transfers, op = t, state[t] # "none",
         UNCHANGED <<source, file, dest>>,
         NEW s \in States \ {"none", "completed"}, SetState(t, s) \/ UNCHANGED state,
         NEW p \in Parts, p.len # 0 => p.from # {},
         Broken \in p.from => \A f \in source[t].offers : f.hashed,
         part' = [part EXCEPT ![t] = p],
         phase' \notin {"idle", "metadata"} => op' = t /\ file[t] # None,
         phase' = "stream" => p.len <= Size,
         phase' # "install"
  PROVE  FileInv' /\ part' \in [Transfers -> Parts]
<1>. USE DEF FileInv, SetState
<1>1. part \in [Transfers -> Parts] /\ state \in [Transfers -> States]
  BY DEF TypeOK, Parts
<1>2. part' \in [Transfers -> Parts] /\ \A x \in Transfers : part'[x] = IF x = t THEN p ELSE part[x]
  BY <1>1
<1>3. \A x \in Transfers : /\ state'[x] = "completed" => state[x] = "completed"
                           /\ (state'[x] = "none") = (state[x] = "none")
  BY <1>1
<1>4. CompletedIsInstalled'
  BY <1>3 DEF CompletedIsInstalled, InPlace
<1>5. \A x \in Transfers : state'[x] # "none" => StagedRight(x)'
  BY <1>2, <1>3 DEF StagedRight
<1>6. \A x \in Transfers : state'[x] = "none" => part'[x] = Empty /\ file'[x] = None
  BY <1>2, <1>3
<1>7. phase' = "stream" => part'[op'].len <= Size
  BY <1>2
<1>. QED
  BY <1>2, <1>4, <1>5, <1>6, <1>7

(* What an operation that installs has: with a SHA-256, or of a            *)
(* repository, the file that was selected; a broken one only as            *)
(* InstalledIsWhole says.                                                  *)
LEMMA WhatIsDownloaded ==
  ASSUME TypeOK, QueueInv, FileInv, NEW t \in Transfers, op = t, phase = "install", NEW n \in Names
  PROVE  /\ Downloaded(t, n) \in Contents \cup {None, Broken}
         /\ Downloaded(t, n) # None <=> n \in NamesOf(file[t])
         /\ n \in NamesOf(file[t]) /\ (file[t].hashed \/ source[t].provider = "huggingface")
              => Downloaded(t, n) = file[t].files[n]
         /\ Downloaded(t, n) = Broken =>
              ~file[t].hashed /\ (file[t].sized => TwoFilesStaged(t))
<1>1. StagedRight(t) /\ file[t] # None /\ (source[t].provider = "civitai" => Verified(t))
  BY DEF QueueInv, FileInv
<1>2. /\ source[t].provider \in {"civitai", "huggingface"}
      /\ file[t] \in source[t].offers /\ file[t] \in Selections
  BY <1>1, SourcesAssumption DEF StagedRight, Providers
<1>3. \A m \in Names : file[t].files[m] \in Contents \cup {None}
  BY <1>2 DEF Selections
<1>4. \A m \in NamesOf(file[t]) : m \in Names /\ file[t].files[m] \in Contents
  BY <1>3 DEF NamesOf
<1>5. CASE n \notin NamesOf(file[t])
  BY <1>5 DEF Downloaded
<1>6. CASE n \in NamesOf(file[t]) /\ source[t].provider = "huggingface"
  BY <1>4, <1>6 DEF Downloaded
<1>7. CASE n \in NamesOf(file[t]) /\ source[t].provider = "civitai"
  <2>1. Verified(t) /\ NamesOf(file[t]) = {n}
    <3>1. source[t] \in Sources
      BY <1>1 DEF StagedRight
    <3>2. \E m \in Names : NamesOf(file[t]) = {m}
      BY <3>1, <1>2, <1>7, SourcesAssumption
    <3>. QED
      BY <3>2, <1>1, <1>7
  <2>2. CASE Whole(t)
    <3>1. PICK c \in Contents : part[t].from = {c}
      BY <2>2 DEF Whole
    <3>2. Downloaded(t, n) = c
      <4>1. \A d \in Contents : part[t].from = {d} => d = c
        BY <3>1
      <4>2. Downloaded(t, n) = CHOOSE d \in Contents : part[t].from = {d}
        BY <1>7, <2>2 DEF Downloaded
      <4>3. (CHOOSE d \in Contents : part[t].from = {d}) = c
        BY <3>1, <4>1
      <4>. QED
        BY <4>2, <4>3
    <3>3. file[t].hashed => file[t].files[n] = c
      <4>1. file[t].hashed => part[t].from = {file[t].files[m] : m \in NamesOf(file[t])}
        BY <2>1 DEF Verified
      <4>2. {file[t].files[m] : m \in NamesOf(file[t])} = {file[t].files[n]}
        BY <2>1
      <4>. QED
        BY <3>1, <4>1, <4>2
    <3>. QED
      BY <1>7, <3>1, <3>2, <3>3
  <2>3. CASE ~Whole(t)
    <3>1. Downloaded(t, n) = Broken
      BY <1>7, <2>3 DEF Downloaded
    <3>2. ~file[t].hashed
      <4>1. SUFFICES ASSUME file[t].hashed PROVE FALSE
        OBVIOUS
      <4>2. part[t].len = Size /\ part[t].from = {file[t].files[m] : m \in NamesOf(file[t])}
        BY <2>1, <4>1 DEF Verified
      <4>3. {file[t].files[m] : m \in NamesOf(file[t])} = {file[t].files[n]}
        BY <2>1
      <4>. QED
        BY <1>4, <1>7, <2>3, <4>2, <4>3 DEF Whole
    <3>3. file[t].sized => TwoFilesStaged(t)
      <4>1. SUFFICES ASSUME file[t].sized PROVE TwoFilesStaged(t)
        OBVIOUS
      <4>2. part[t].len = Size /\ part[t].len # 0
        BY <2>1, <4>1 DEF Verified
      <4>3. Broken \notin part[t].from /\ part[t].from # {}
        BY <1>1, <1>2, <3>2, <4>2 DEF StagedRight
      <4>4. part[t].from \subseteq Contents
        BY <4>3 DEF TypeOK
      <4>5. PICK c \in part[t].from : TRUE
        BY <4>3
      <4>6. part[t].from # {c}
        BY <2>3, <4>2, <4>4, <4>5 DEF Whole
      <4>7. PICK d \in part[t].from : d # c
        BY <4>5, <4>6
      <4>. QED
        BY <4>3, <4>5, <4>7 DEF TwoFilesStaged
    <3>. QED
      BY <1>7, <3>1, <3>2, <3>3
  <2>. QED
    BY <2>2, <2>3
<1>. QED
  BY <1>2, <1>5, <1>6, <1>7

(* Where nothing conflicts, files are added and none is replaced.          *)
LEMMA PlacedFiles ==
  ASSUME TypeOK, QueueInv, FileInv, NEW t \in Transfers, op = t, phase = "install", ~Conflict(t),
         NEW names \in SUBSET Names, dest' = Placed(t, names)
  PROVE  /\ dest' \in Dests /\ FilesKept
         /\ \A n \in names : n \in NamesOf(file[t]) =>
              /\ dest'[n] # None
              /\ file[t].hashed \/ source[t].provider = "huggingface" =>
                   dest'[n] = file[t].files[n]
<1>1. dest \in Dests
  BY DEF TypeOK, Dests
<1>2. \A n \in Names :
        /\ Downloaded(t, n) \in Contents \cup {None, Broken}
        /\ Downloaded(t, n) # None <=> n \in NamesOf(file[t])
        /\ n \in NamesOf(file[t]) /\ (file[t].hashed \/ source[t].provider = "huggingface")
             => Downloaded(t, n) = file[t].files[n]
        /\ Downloaded(t, n) = Broken => ~file[t].hashed /\ (file[t].sized => TwoFilesStaged(t))
  BY WhatIsDownloaded
<1>3. \A n \in Names : dest'[n] = IF n \in names /\ Downloaded(t, n) # None
                                   THEN Downloaded(t, n) ELSE dest[n]
  BY DEF Placed
<1>4. dest' \in Dests
  <2>1. \A n \in Names : (IF n \in names /\ Downloaded(t, n) # None
                          THEN Downloaded(t, n) ELSE dest[n]) \in Contents \cup {None, Broken}
    BY <1>1, <1>2 DEF Dests
  <2>. QED
    BY <2>1 DEF Placed, Dests
<1>5. \A n \in Names : Downloaded(t, n) # None => dest[n] \in {None, Downloaded(t, n)}
  BY DEF Conflict
<1>6. FilesKept
  <2>1. \A n \in Names : dest[n] # None => dest'[n] = dest[n]
    BY <1>3, <1>5
  <2>2. \A n \in Names : BrokenFor(n)
    <3>1. \A n \in Names : dest[n] = None /\ dest'[n] = Broken => Downloaded(t, n) = Broken
      BY <1>3
    <3>. QED
      BY <3>1, <1>2 DEF BrokenFor
  <2>. QED
    BY <2>1, <2>2 DEF FilesKept
<1>. QED
  BY <1>2, <1>3, <1>4, <1>6

(* An installation that breaks off.                                        *)
LEMMA PartlyPlaced ==
  ASSUME TypeOK, QueueInv, FileInv, NEW t \in Transfers, op = t,
         UNCHANGED <<part, dest>> \/ PartlyInstalled(t)
  PROVE  /\ dest' \in Dests /\ FilesKept
         /\ part' \in [Transfers -> Parts]
         /\ \A x \in Transfers : part'[x] \in {part[x], Empty}
<1>1. part \in [Transfers -> Parts] /\ dest \in Dests /\ Empty \in Parts
  BY DEF TypeOK, Parts, Dests, Empty
<1>2. CASE UNCHANGED <<part, dest>>
  BY <1>1, <1>2 DEF FilesKept, BrokenFor
<1>3. CASE PartlyInstalled(t)
  <2>1. PICK names \in SUBSET NamesOf(file[t]) :
          /\ dest' = Placed(t, names)
          /\ part' = IF names = {} THEN part ELSE [part EXCEPT ![t] = Empty]
    BY <1>3 DEF PartlyInstalled
  <2>2. names \in SUBSET Names
    BY DEF NamesOf
  <2>3. dest' \in Dests /\ FilesKept
    BY <1>3, <2>1, <2>2, PlacedFiles DEF PartlyInstalled
  <2>. QED
    BY <1>1, <2>1, <2>3
<1>. QED
  BY <1>2, <1>3

(* A step that touches no destination.                                     *)
LEMMA DestKept ==
  ASSUME dest' = dest
  PROVE  FilesKept
  BY DEF FilesKept, BrokenFor
-----------------------------------------------------------------------------
(* Every step keeps the types.                                             *)
LEMMA InitIInv == Init => IInv
<1>. SUFFICES ASSUME Init PROVE IInv
  OBVIOUS
<1>. USE DEF Init
<1>1. queue \in Seq(Transfers) /\ DOMAIN queue = {}
  BY EmptySeq
<1>2. TypeOK
  <2>1. state \in [Transfers -> States]
    BY DEF States
  <2>2. part \in [Transfers -> Parts]
    BY DEF Parts, Empty
  <2>3. /\ source \in [Transfers -> Sources \cup {None}]
        /\ file \in [Transfers -> Selections \cup {None}]
        /\ dest \in [Names -> Contents \cup {None, Broken}]
        /\ cancel \in [Transfers -> BOOLEAN]
    OBVIOUS
  <2>4. 0 \in 0 .. MaxTroubles /\ phase \in Phases
    BY DEF Phases
  <2>. QED
    BY <1>1, <2>1, <2>2, <2>3, <2>4 DEF TypeOK, Parts
<1>3. QueueInv
  <2>1. Stranded = {}
    BY DEF Stranded, IsStranded, InFlight
  <2>2. IsFiniteSet(Stranded) /\ FaultStrandsOne
    BY <2>1, FS_EmptySet DEF FaultStrandsOne
  <2>. QED
    BY <1>1, <2>2 DEF QueueInv, ActiveIsOwned, InFlight
<1>4. FileInv
  BY DEF FileInv, CompletedIsInstalled
<1>. QED
  BY <1>2, <1>3, <1>4 DEF IInv

(* The client's calls.                                                     *)

(* A start or resume of a transfer, queued behind the others.              *)
LEMMA PrepareKeeps ==
  ASSUME IInv, NEW t \in Transfers, Prepare(t),
         \/ (state[t] = "none" /\ \E s \in Sources : source' = [source EXCEPT ![t] = s])
         \/ (state[t] \in Resumable /\ UNCHANGED source)
  PROVE  IInv'
<1>. USE DEF IInv, TypeOK, Prepare, SetState, States, Active, InFlight, Resumable
<1>1. \A x \in Transfers : state'[x] = IF x = t THEN "pending" ELSE state[x]
  OBVIOUS
<1>2. /\ queue' \in Seq(Transfers) /\ drain' = TRUE
      /\ \E i \in DOMAIN queue' : queue'[i] = t
      /\ \A i \in DOMAIN queue : i \in DOMAIN queue' /\ queue'[i] = queue[i]
      /\ \A i \in DOMAIN queue' : queue'[i] = t \/ (i \in DOMAIN queue /\ queue'[i] = queue[i])
  BY Launched
<1>3. \A i \in DOMAIN queue : queue[i] \in Transfers
  BY ElementOfSeq, LenProperties
<1>4. TypeOK'
  <2>1. source' \in [Transfers -> Sources \cup {None}]
    OBVIOUS
  <2>2. state' \in [Transfers -> States]
    OBVIOUS
  <2>3. cancel' \in [Transfers -> BOOLEAN]
    OBVIOUS
  <2>. QED
    BY <1>2, <2>1, <2>2, <2>3
<1>5. QueueInv'
  <2>1. ActiveIsOwned'
    BY <1>1 DEF QueueInv, ActiveIsOwned
  <2>2. IsFiniteSet(Stranded)' /\ FaultStrandsOne'
    <3>1. \A x \in Transfers : IsStranded(x)' => IsStranded(x)
      BY <1>1, <1>2 DEF IsStranded
    <3>. QED
      BY <1>2, <3>1, NoneMoreStranded
  <2>3. \A i \in DOMAIN queue' : state'[queue'[i]] # "none"
    BY <1>1, <1>2, <1>3 DEF QueueInv
  <2>. QED
    BY <2>1, <2>2, <2>3, <1>1 DEF QueueInv
<1>6. \A x \in Transfers : x # t \/ state[x] # "none" => source'[x] = source[x]
  OBVIOUS
<1>7. FileInv'
  <2>1. \A x \in Transfers : state'[x] # "none" => StagedRight(x)'
    <3>1. ASSUME NEW x \in Transfers, state[x] # "none" PROVE StagedRight(x)'
      <4>1. source'[x] = source[x]
        BY <3>1, <1>6
      <4>. QED
        BY <3>1, <4>1 DEF FileInv, StagedRight
    <3>2. ASSUME NEW x \in Transfers, state[x] = "none", x = t PROVE StagedRight(x)'
      <4>1. source'[x] \in Sources /\ part[x] = Empty /\ file[x] = None
        BY <3>2 DEF FileInv
      <4>. QED
        BY <4>1 DEF StagedRight, Empty
    <3>. QED
      BY <3>1, <3>2, <1>1
  <2>2. CompletedIsInstalled'
    BY <1>1, <1>6 DEF FileInv, CompletedIsInstalled, InPlace
  <2>3. op' \in Transfers => source'[op'] = source[op]
    <3>1. op \in Transfers => state[op] # "none"
      BY DEF QueueInv
    <3>. QED
      BY <3>1, <1>6
  <2>4. phase # "idle" => op \in Transfers
    BY DEF QueueInv
  <2>5. phase' = "install" /\ source'[op'].provider = "civitai" => Verified(op)'
    BY <2>3, <2>4 DEF FileInv, Verified, NamesOf
  <2>6. \A x \in Transfers : state'[x] = "none" => part'[x] = Empty /\ file'[x] = None
    BY <1>1 DEF FileInv
  <2>. QED
    BY <2>1, <2>2, <2>4, <2>5, <2>6 DEF FileInv
<1>. QED
  BY <1>4, <1>5, <1>7

LEMMA CancelKeeps ==
  ASSUME IInv, NEW t \in Transfers, Cancel(t)
  PROVE  IInv'
<1>. USE DEF IInv, Cancel, SetState, States, Active, InFlight, Resumable, queueVars
<1>0. state' = [state EXCEPT ![t] = "cancelled"] \/ UNCHANGED state
  OBVIOUS
<1>1. \A x \in Transfers : state'[x] = state[x] \/ (state'[x] = "cancelled" /\ state[x] \notin {"none", "completed"})
  BY DEF TypeOK
<1>2. TypeOK'
  BY <1>0 DEF TypeOK
<1>3. QueueInv'
  <2>1. ActiveIsOwned'
    BY <1>1 DEF QueueInv, ActiveIsOwned
  <2>2. IsFiniteSet(Stranded)' /\ FaultStrandsOne'
    <3>1. \A x \in Transfers : IsStranded(x)' => IsStranded(x)
      BY <1>1 DEF IsStranded
    <3>. QED
      BY <3>1, NoneMoreStranded
  <2>3. \A i \in DOMAIN queue : queue[i] \in Transfers
    BY ElementOfSeq, LenProperties DEF TypeOK
  <2>. QED
    BY <2>1, <2>2, <2>3, <1>1 DEF QueueInv, TypeOK
<1>4. FileInv'
  <2>1. phase # "idle" => op \in Transfers
    BY DEF QueueInv, TypeOK
  <2>. QED
    BY <1>1, <2>1, FilesFollow DEF FileInv
<1>. QED
  BY <1>2, <1>3, <1>4

(* Steps that write no record and touch no file: close() and its return,   *)
(* a cancellation that only sets the event.                                *)
LEMMA CloseKeeps ==
  ASSUME IInv, Close \/ CloseReturns
  PROVE  IInv'
<1>. USE DEF IInv, Close, CloseReturns, diskVars, queueVars
<1>1. TypeOK'
  BY DEF TypeOK
<1>2. QueueInv'
  <2>1. \A x \in Transfers : IsStranded(x)' => IsStranded(x)
    BY DEF IsStranded
  <2>2. IsFiniteSet(Stranded)' /\ FaultStrandsOne'
    BY <2>1, NoneMoreStranded
  <2>. QED
    BY <2>2 DEF QueueInv, ActiveIsOwned
<1>3. FileInv'
  <2>1. phase # "idle" => op \in Transfers
    BY DEF QueueInv, TypeOK
  <2>. QED
    BY <2>1, FilesFollow DEF FileInv
<1>. QED
  BY <1>1, <1>2, <1>3

(* A failed write, of a cancellation or of the running operation.          *)
LEMMA TroubleTypes ==
  ASSUME TypeOK, QueueInv, Trouble, UNCHANGED restarts
  PROVE  /\ faults' = faults + 1 /\ faults' # 0
         /\ restarts' \in 0 .. MaxTroubles /\ faults' \in 0 .. MaxTroubles
         /\ restarts' + faults' <= MaxTroubles
<1>1. restarts \in Nat /\ faults \in Nat /\ restarts + faults < MaxTroubles
  BY DEF TypeOK, Trouble
<1>. QED
  BY <1>1 DEF Trouble

LEMMA CancelRaisesKeeps ==
  ASSUME IInv, NEW t \in Transfers, CancelRaises(t)
  PROVE  IInv'
<1>. USE DEF IInv, CancelRaises, diskVars, queueVars
<1>1. /\ faults' = faults + 1 /\ faults' # 0
      /\ restarts' \in 0 .. MaxTroubles /\ faults' \in 0 .. MaxTroubles
      /\ restarts' + faults' <= MaxTroubles
  BY TroubleTypes
<1>2. TypeOK'
  BY <1>1 DEF TypeOK
<1>3. QueueInv'
  <2>1. \A x \in Transfers : IsStranded(x)' => IsStranded(x)
    BY DEF IsStranded
  <2>2. IsFiniteSet(Stranded)' /\ FaultStrandsOne'
    BY <1>1, <2>1, OneMoreStranded
  <2>. QED
    BY <1>1, <2>2 DEF QueueInv, ActiveIsOwned
<1>4. FileInv'
  <2>1. phase # "idle" => op \in Transfers
    BY DEF QueueInv, TypeOK
  <2>. QED
    BY <2>1, FilesFollow DEF FileInv
<1>. QED
  BY <1>2, <1>3, <1>4

LEMMA RaisesKeeps ==
  ASSUME IInv, NEW t \in Transfers, OperationRaises(t)
  PROVE  IInv' /\ FilesKept
<1>. USE DEF IInv, OperationRaises
<1>1. /\ faults' = faults + 1 /\ faults' # 0
      /\ restarts' \in 0 .. MaxTroubles /\ faults' \in 0 .. MaxTroubles
      /\ restarts' + faults' <= MaxTroubles
  BY TroubleTypes
<1>2. /\ dest' \in Dests /\ FilesKept
      /\ part' \in [Transfers -> Parts]
      /\ \A x \in Transfers : part'[x] \in {part[x], Empty}
  BY PartlyPlaced
<1>3. TypeOK'
  <2>1. op' \in Transfers \cup {None} /\ phase' \in Phases /\ drain' \in BOOLEAN
    BY DEF Phases
  <2>. QED
    BY <1>1, <1>2, <2>1 DEF TypeOK, Parts, Dests
<1>4. QueueInv'
  <2>1. \A x \in Transfers : x # t /\ IsStranded(x)' => IsStranded(x)
    BY DEF IsStranded
  <2>2. IsFiniteSet(Stranded)' /\ FaultStrandsOne'
    BY <1>1, <2>1, OneMoreStranded
  <2>. QED
    BY <1>1, <2>2 DEF QueueInv, ActiveIsOwned
<1>5. FileInv'
  <2>1. \A n \in Names : dest[n] # None => dest'[n] = dest[n]
    BY <1>2 DEF FilesKept
  <2>. QED
    BY <1>2, <2>1, FilesFollow DEF FileInv
<1>. QED
  BY <1>2, <1>3, <1>4, <1>5
-----------------------------------------------------------------------------
(* The operation.                                                          *)

(* What a step of it does to the queue: it ends, or goes on.               *)
Ends(t) == (\E s \in {"failed", "cancelled"} : SetState(t, s)) /\ OperationEnds
GoesOn(t, phases) ==
  /\ \E s \in InFlight \cup {state[t]} : SetState(t, s)
  /\ phase' \in phases /\ UNCHANGED <<op, drain>>

LEMMA RejectedEnds ==
  ASSUME NEW t \in Transfers, Rejected(t) \/ Crashed(t)
  PROVE  Ends(t)
  BY DEF Rejected, Crashed, Ends

LEMMA SameState ==
  ASSUME TypeOK, NEW t \in Transfers, UNCHANGED state
  PROVE  \E s \in InFlight \cup {state[t]} : SetState(t, s)
  BY DEF TypeOK, SetState

(* The types and the queue after either.                                   *)
LEMMA StepKeepsQueue ==
  ASSUME IInv, NEW t \in Transfers, op = t, UNCHANGED <<source, cancel, restFrame>>,
         Ends(t) \/ GoesOn(t, Phases \ {"idle"}),
         file' \in [Transfers -> Selections \cup {None}],
         part' \in [Transfers -> Parts], dest' \in Dests
  PROVE  /\ TypeOK' /\ QueueInv' /\ state[t] # "none"
         /\ \A x \in Transfers : (state'[x] = "none") = (state[x] = "none")
         /\ \A x \in Transfers : state'[x] = "completed" => state[x] = "completed"
<1>. USE DEF IInv
<1>1. PICK s \in States : SetState(t, s) /\ s \in {"failed", "cancelled", state[t]} \cup InFlight
  BY DEF Ends, GoesOn, TypeOK, InFlight, States, Active, Resumable
<1>2. state[t] # "none"
  BY DEF QueueInv
<1>3. state' \in [Transfers -> States] /\ \A x \in Transfers : state'[x] = IF x = t THEN s ELSE state[x]
  BY <1>1 DEF SetState, TypeOK
<1>4. op' \in Transfers \cup {None} /\ phase' \in Phases /\ drain' \in BOOLEAN
  BY DEF Ends, GoesOn, OperationEnds, TypeOK, Phases
<1>5. TypeOK'
  BY <1>3, <1>4 DEF TypeOK, restFrame, Parts, Dests
<1>6. QueueInv'
  <2>1. CASE Ends(t)
    BY <2>1, SettlesQueue DEF Ends, Settled
  <2>2. CASE GoesOn(t, Phases \ {"idle"})
    BY <2>2, AdvancesQueue DEF GoesOn
  <2>. QED
    BY <2>1, <2>2
<1>7. s # "none" /\ (s = "completed" => state[t] = "completed")
  BY <1>1, <1>2 DEF InFlight
<1>. QED
  BY <1>2, <1>3, <1>5, <1>6, <1>7

(* A step that leaves what is staged alone.                                *)
LEMMA OperationKeeps ==
  ASSUME IInv, NEW t \in Transfers, op = t, UNCHANGED <<opFrame, part, dest>>,
         Ends(t) \/ GoesOn(t, {"request", "fetch", "verify", "install"}), phase # "metadata" \/ Ends(t),
         phase' = "install" /\ source[t].provider = "civitai" => Verified(t)
  PROVE  IInv'
<1>1. Ends(t) \/ GoesOn(t, Phases \ {"idle"})
  BY DEF GoesOn, Phases
<1>2. /\ part' \in [Transfers -> Parts] /\ dest' \in Dests
      /\ file' \in [Transfers -> Selections \cup {None}]
      /\ UNCHANGED <<source, cancel, restFrame>>
  BY DEF IInv, TypeOK, Parts, Dests, opFrame, restFrame
<1>3. /\ TypeOK' /\ QueueInv'
      /\ \A x \in Transfers : (state'[x] = "none") = (state[x] = "none")
      /\ \A x \in Transfers : state'[x] = "completed" => state[x] = "completed"
  BY <1>1, <1>2, StepKeepsQueue
<1>4. phase' # "stream" /\ (phase' \notin {"idle", "metadata"} => op' = t /\ file[t] # None)
  BY DEF Ends, GoesOn, OperationEnds, IInv, FileInv, QueueInv
<1>5. FileInv'
  BY <1>3, <1>4, FilesFollow DEF IInv, opFrame
<1>. QED
  BY <1>3, <1>5 DEF IInv

(* A step that changes what is staged.                                     *)
LEMMA StagingKeeps ==
  ASSUME IInv, NEW t \in Transfers, op = t, UNCHANGED <<opFrame, dest>>,
         NEW p \in Parts, p.len # 0 => p.from # {},
         Broken \in p.from => \A f \in source[t].offers : f.hashed, phase # "metadata", part' = [part EXCEPT ![t] = p],
         Ends(t) \/ GoesOn(t, {"request", "stream"}),
         phase' = "stream" => p.len <= Size
  PROVE  IInv'
<1>1. Ends(t) \/ GoesOn(t, Phases \ {"idle"})
  BY DEF GoesOn, Phases
<1>2. /\ part' \in [Transfers -> Parts] /\ dest' \in Dests
      /\ file' \in [Transfers -> Selections \cup {None}]
      /\ UNCHANGED <<source, cancel, restFrame>>
  BY DEF IInv, TypeOK, Parts, Dests, opFrame, restFrame
<1>3. /\ TypeOK' /\ QueueInv' /\ state[t] # "none"
      /\ \A x \in Transfers : (state'[x] = "none") = (state[x] = "none")
      /\ \A x \in Transfers : state'[x] = "completed" => state[x] = "completed"
  BY <1>1, <1>2, StepKeepsQueue
<1>4. phase' # "install" /\ (phase' \notin {"idle", "metadata"} => op' = t /\ file[t] # None)
  BY DEF Ends, GoesOn, OperationEnds, IInv, FileInv, QueueInv
<1>5. \/ UNCHANGED state
      \/ \E s \in States \ {"none", "completed"} : SetState(t, s)
  BY DEF Ends, GoesOn, SetState, States, Active, InFlight, Resumable, IInv, TypeOK
<1>6. FileInv'
  <2>1. "failed" \in States \ {"none", "completed"}
    BY DEF States, Resumable
  <2>2. UNCHANGED <<source, file, dest>> /\ TypeOK /\ FileInv
    BY DEF IInv, opFrame
  <2>3. CASE UNCHANGED state
    BY <1>3, <1>4, <2>1, <2>2, <2>3, StagedFiles
  <2>4. CASE \E s \in States \ {"none", "completed"} : SetState(t, s)
    BY <1>3, <1>4, <2>2, <2>4, StagedFiles
  <2>. QED
    BY <1>5, <2>3, <2>4
<1>. QED
  BY <1>3, <1>6 DEF IInv

(* The next in the queue: skipped, or resolved.                            *)
LEMMA DrainKeeps ==
  ASSUME IInv, NEW t \in Transfers, DrainNext(t)
  PROVE  IInv'
<1>. USE DEF IInv, DrainNext, SetState, States, Active, InFlight, Resumable
<1>1. /\ queue' \in Seq(Transfers)
      /\ 1 \in DOMAIN queue /\ queue[1] = t
      /\ \A i \in DOMAIN queue' : i + 1 \in DOMAIN queue /\ queue'[i] = queue[i + 1]
      /\ \A x \in Transfers : x # t /\ (\E i \in DOMAIN queue : queue[i] = x)
           => \E i \in DOMAIN queue' : queue'[i] = x
  BY Popped
<1>2. state[t] # "none"
  BY <1>1 DEF QueueInv
<1>3. PICK s \in {"cancelled", "resolving"} :
        state' = [state EXCEPT ![t] = s] /\ (op' = t \/ s = "cancelled") /\ faults' = faults
  OBVIOUS
<1>4. state' \in [Transfers -> States] /\ \A x \in Transfers : state'[x] = IF x = t THEN s ELSE state[x]
  BY <1>3 DEF TypeOK
<1>5. op' \in Transfers \cup {None} /\ phase' \in Phases /\ drain' \in BOOLEAN
  BY DEF TypeOK, Phases
<1>6. TypeOK'
  BY <1>1, <1>4, <1>5 DEF TypeOK
<1>7. QueueInv'
  <2>1. ActiveIsOwned'
    <3>1. faults = 0 => \A x \in Transfers : state[x] \notin InFlight
      BY DEF QueueInv, ActiveIsOwned, TypeOK
    <3>2. faults' = faults /\ (op' = t \/ s = "cancelled")
      BY <1>3
    <3>. QED
      BY <1>4, <3>1, <3>2 DEF ActiveIsOwned
  <2>2. IsFiniteSet(Stranded)' /\ FaultStrandsOne'
    <3>1. op = None /\ (op' = t \/ s = "cancelled")
      BY <1>3
    <3>2. \A x \in Transfers : IsStranded(x)' => IsStranded(x)
      BY <1>1, <1>4, <3>1 DEF IsStranded
    <3>3. queue' # <<>> => drain'
      OBVIOUS
    <3>. QED
      BY <1>3, <3>2, <3>3, NoneMoreStranded
  <2>3. \A i \in DOMAIN queue' : queue'[i] \in Transfers /\ state'[queue'[i]] # "none"
    <3>1. \A i \in DOMAIN queue : queue[i] \in Transfers
      BY ElementOfSeq, LenProperties DEF TypeOK
    <3>. QED
      BY <3>1, <1>1, <1>3, <1>4 DEF QueueInv
  <2>4. op' = None <=> phase' = "idle"
    BY DEF QueueInv
  <2>5. op' # None => state'[op'] # "none"
    BY <1>3, <1>4 DEF QueueInv
  <2>6. restarts' + faults' <= MaxTroubles
    BY DEF QueueInv
  <2>. QED
    BY <2>1, <2>2, <2>3, <2>4, <2>5, <2>6 DEF QueueInv
<1>8. FileInv'
  <2>1. phase' \in {"idle", "metadata"}
    BY DEF QueueInv
  <2>. QED
    BY <2>1, <1>2, <1>3, <1>4, FilesFollow
<1>. QED
  BY <1>6, <1>7, <1>8

(* The first state write of the next one fails.                            *)
LEMMA DrainFailsKeeps ==
  ASSUME IInv, NEW t \in Transfers, DrainFails(t)
  PROVE  IInv'
<1>. USE DEF IInv, DrainFails, SetState, States, Active, InFlight, Resumable
<1>1. /\ queue' \in Seq(Transfers)
      /\ 1 \in DOMAIN queue /\ queue[1] = t
      /\ \A i \in DOMAIN queue' : i + 1 \in DOMAIN queue /\ queue'[i] = queue[i + 1]
      /\ \A x \in Transfers : x # t /\ (\E i \in DOMAIN queue : queue[i] = x)
           => \E i \in DOMAIN queue' : queue'[i] = x
  BY Popped
<1>2. state[t] # "none"
  BY <1>1 DEF QueueInv
<1>3. /\ state' \in [Transfers -> States]
      /\ \A x \in Transfers : state'[x] = state[x] \/ (x = t /\ state'[x] = "failed")
  BY DEF TypeOK
<1>4. /\ faults' = faults + 1 /\ faults' # 0
      /\ restarts' \in 0 .. MaxTroubles /\ faults' \in 0 .. MaxTroubles
      /\ restarts' + faults' <= MaxTroubles
  BY TroubleTypes
<1>5. drain' \in BOOLEAN
  OBVIOUS
<1>6. TypeOK'
  BY <1>1, <1>3, <1>4, <1>5 DEF TypeOK
<1>7. QueueInv'
  <2>1. \A x \in Transfers : x # t /\ IsStranded(x)' => IsStranded(x)
    BY <1>1, <1>3 DEF IsStranded
  <2>2. IsFiniteSet(Stranded)' /\ FaultStrandsOne'
    BY <1>4, <2>1, OneMoreStranded
  <2>3. \A i \in DOMAIN queue' : queue'[i] \in Transfers /\ state'[queue'[i]] # "none"
    <3>1. \A i \in DOMAIN queue : queue[i] \in Transfers
      BY ElementOfSeq, LenProperties DEF TypeOK
    <3>. QED
      BY <3>1, <1>1, <1>3 DEF QueueInv
  <2>. QED
    BY <1>4, <2>2, <2>3 DEF QueueInv, ActiveIsOwned
<1>8. FileInv'
  <2>1. phase' = "idle"
    BY DEF QueueInv
  <2>. QED
    BY <2>1, <1>2, <1>3, FilesFollow
<1>. QED
  BY <1>6, <1>7, <1>8

(* The operation ends with what it staged, or with some of it installed.   *)
LEMMA FailsKeeps ==
  ASSUME IInv, NEW t \in Transfers, Fails(t)
  PROVE  IInv' /\ FilesKept
<1>. USE DEF IInv
<1>1. Ends(t) /\ phase' = "idle"
  BY RejectedEnds DEF Fails, Ends, OperationEnds
<1>2. /\ dest' \in Dests /\ FilesKept
      /\ part' \in [Transfers -> Parts]
      /\ \A x \in Transfers : part'[x] \in {part[x], Empty}
  BY PartlyPlaced DEF Fails
<1>3. /\ UNCHANGED <<source, file, cancel, restFrame>>
      /\ file' \in [Transfers -> Selections \cup {None}]
  BY DEF Fails, opFrame, restFrame, TypeOK
<1>4. /\ TypeOK' /\ QueueInv'
      /\ \A x \in Transfers : (state'[x] = "none") = (state[x] = "none")
      /\ \A x \in Transfers : state'[x] = "completed" => state[x] = "completed"
  BY <1>1, <1>2, <1>3, StepKeepsQueue DEF Fails
<1>5. \A n \in Names : dest[n] # None => dest'[n] = dest[n]
  BY <1>2 DEF FilesKept
<1>6. FileInv'
  BY <1>1, <1>2, <1>3, <1>4, <1>5, FilesFollow
<1>. QED
  BY <1>2, <1>4, <1>6

(* The name is refused, or a file is selected.                             *)
LEMMA MetadataKeeps ==
  ASSUME IInv, NEW t \in Transfers, MetadataAnswers(t)
  PROVE  IInv'
<1>. USE DEF IInv
<1>0. op = t /\ phase = "metadata" /\ UNCHANGED <<source, cancel, restFrame, part, dest>>
  BY DEF MetadataAnswers, restFrame
<1>1. CASE Rejected(t) /\ UNCHANGED file
  <2>1. Ends(t) /\ phase' # "install"
    BY <1>1, RejectedEnds DEF Ends, OperationEnds
  <2>. QED
    BY <1>0, <1>1, <2>1, OperationKeeps DEF opFrame, restFrame
<1>2. CASE ~(Rejected(t) /\ UNCHANGED file)
  <2>1. PICK f \in source[t].offers :
          /\ SetState(t, "downloading") /\ file' = [file EXCEPT ![t] = f]
          /\ phase' \in {"request", "fetch"} /\ UNCHANGED <<op, drain>>
    BY <1>2 DEF MetadataAnswers, Goto
  <2>2. GoesOn(t, Phases \ {"idle"})
    <3>1. "downloading" \in InFlight \cup {state[t]}
      BY DEF InFlight
    <3>2. phase' \in Phases \ {"idle"} /\ UNCHANGED <<op, drain>>
      BY <2>1 DEF Phases
    <3>. QED
      BY <2>1, <3>1, <3>2 DEF GoesOn
  <2>3. state[t] # "none" /\ StagedRight(t)
    BY <1>0 DEF QueueInv, FileInv
  <2>4. f \in Selections
    BY <2>1, <2>3, SourcesAssumption DEF StagedRight
  <2>5. /\ file' \in [Transfers -> Selections \cup {None}]
        /\ \A x \in Transfers : file'[x] = IF x = t THEN f ELSE file[x]
    BY <2>1, <2>4 DEF TypeOK
  <2>6. /\ part' \in [Transfers -> Parts] /\ dest' \in Dests
        /\ UNCHANGED <<source, cancel, restFrame, part, dest>>
    BY <1>0 DEF TypeOK, Parts, Dests
  <2>7. TypeOK' /\ QueueInv'
    BY <1>0, <2>2, <2>5, <2>6, StepKeepsQueue
  <2>8. state' \in [Transfers -> States]
        /\ \A x \in Transfers : state'[x] = IF x = t THEN "downloading" ELSE state[x]
    BY <2>1, <2>7 DEF SetState, TypeOK
  <2>9. FileInv'
    <3>1. CompletedIsInstalled'
      <4>1. SUFFICES ASSUME NEW x \in Transfers, state'[x] = "completed" PROVE InPlace(x)'
        BY DEF CompletedIsInstalled
      <4>2. x # t /\ file'[x] = file[x] /\ InPlace(x)
        BY <4>1, <2>5, <2>8 DEF FileInv, CompletedIsInstalled
      <4>. QED
        BY <4>2, <2>6 DEF InPlace, NamesOf
    <3>2. \A x \in Transfers : state'[x] # "none" => StagedRight(x)'
      <4>1. SUFFICES ASSUME NEW x \in Transfers, state'[x] # "none" PROVE StagedRight(x)'
        OBVIOUS
      <4>2. StagedRight(x)
        BY <4>1, <2>3, <2>8 DEF FileInv
      <4>3. file'[x] = file[x] \/ (x = t /\ file'[x] \in source[x].offers)
        BY <2>1, <2>5
      <4>. QED
        BY <4>2, <4>3, <2>6 DEF StagedRight
    <3>3. \A x \in Transfers : state'[x] = "none" => part'[x] = Empty /\ file'[x] = None
      BY <2>3, <2>5, <2>6, <2>8 DEF FileInv
    <3>4. file'[op'] # None /\ phase' \notin {"stream", "install"}
      <4>1. op' = t /\ phase' \in {"request", "fetch"}
        BY <1>0, <2>1
      <4>2. f # None
        BY <2>4
      <4>. QED
        BY <4>1, <4>2, <2>5
    <3>. QED
      BY <3>1, <3>2, <3>3, <3>4 DEF FileInv
  <2>. QED
    BY <2>7, <2>9
<1>. QED
  BY <1>1, <1>2

LEMMA StreamOpensKeeps ==
  ASSUME IInv, NEW t \in Transfers, StreamOpens(t)
  PROVE  IInv'
<1>. USE DEF IInv, StreamOpens
<1>1. GoesOn(t, {"request", "stream"})
  BY SameState DEF GoesOn, Goto
<1>2. part \in [Transfers -> Parts] /\ part[t] \in Parts /\ StagedRight(t)
  BY DEF TypeOK, Parts, QueueInv, FileInv
<1>. HIDE DEF IInv
<1>3. CASE part' = [part EXCEPT ![t] = Truncate(@)]
  <2>1. part' = [part EXCEPT ![t] = Empty]
    BY <1>3 DEF Truncate
  <2>2. Empty \in Parts /\ Empty.len = 0 /\ Empty.from = {} /\ Empty.len <= Size
    BY DEF Empty, Parts
  <2>. QED
    BY <1>1, <2>1, <2>2, StagingKeeps
<1>4. CASE part[t].len \in 1 .. Size - 1 /\ UNCHANGED part
  <2>1. part' = [part EXCEPT ![t] = part[t]]
    BY <1>2, <1>4
  <2>2. part[t].len <= Size
    BY <1>4
  <2>. QED
    BY <1>1, <1>2, <2>1, <2>2, StagingKeeps DEF StagedRight
<1>. QED
  BY <1>3, <1>4

LEMMA RangeRefusedKeeps ==
  ASSUME IInv, NEW t \in Transfers, RangeRefused(t)
  PROVE  IInv'
<1>. USE DEF IInv, RangeRefused
<1>1. CASE file[t].sized /\ part[t].len = Size
  <2>1. GoesOn(t, {"request", "fetch", "verify", "install"}) /\ phase' # "install"
    BY <1>1 DEF GoesOn, Goto, InFlight
  <2>. QED
    BY <1>1, <2>1, OperationKeeps
<1>2. CASE ~(file[t].sized /\ part[t].len = Size)
  <2>1. GoesOn(t, {"request", "stream"}) /\ phase' # "stream"
    BY <1>2, SameState DEF GoesOn
  <2>2. Empty \in Parts /\ Empty.len = 0 /\ Empty.from = {}
    BY DEF Empty, Parts
  <2>. QED
    BY <1>2, <2>1, <2>2, StagingKeeps
<1>. QED
  BY <1>1, <1>2

LEMMA BlockKeeps ==
  ASSUME IInv, NEW t \in Transfers, BlockArrives(t)
  PROVE  IInv'
<1>. USE DEF IInv, BlockArrives
<1>1. part \in [Transfers -> Parts] /\ part[t] \in Parts /\ StagedRight(t) /\ part[t].len <= Size
  BY DEF TypeOK, Parts, QueueInv, FileInv
<1>2. CASE cancel[t]
  <2>1. Ends(t)
    BY <1>2, RejectedEnds
  <2>2. phase' # "install"
    BY <2>1 DEF Ends, OperationEnds
  <2>. QED
    BY <1>2, <2>1, <2>2, OperationKeeps
<1>3. CASE ~cancel[t]
  <2>1. PICK b \in Blocks(t) :
          part' = [part EXCEPT ![t] = [len |-> @.len + 1, from |-> @.from \cup b]]
    BY <1>3
  <2>. DEFINE p == [len |-> part[t].len + 1, from |-> part[t].from \cup b]
  <2>2. part' = [part EXCEPT ![t] = p] /\ part'[t] = p
    BY <2>1, <1>1
  <2>3. /\ source[t] \in Sources /\ file[t] \in source[t].offers /\ file[t] \in Selections
        /\ source[t].provider \in Providers
        /\ file[t].hashed \in BOOLEAN /\ file[t].sized \in BOOLEAN
    <3>1. file[t] # None
      BY DEF FileInv
    <3>2. source[t] \in Sources /\ file[t] \in source[t].offers
      BY <1>1, <3>1 DEF StagedRight
    <3>. QED
      BY <3>2, SourcesAssumption DEF Selections
  <2>4. /\ b \subseteq Contents \cup {Broken}
        /\ Broken \in b => \A f \in source[t].offers : f.hashed
    <3>1. \A n \in NamesOf(file[t]) : file[t].files[n] \in Contents
      BY <2>3 DEF NamesOf, Selections
    <3>. QED
      BY <3>1, <2>1 DEF Blocks
  <2>5. /\ p \in Parts /\ p.from # {}
        /\ Broken \in p.from => \A f \in source[t].offers : f.hashed
    <3>1. part[t].len \in 0 .. Size + 1 /\ part[t].len + 1 \in 0 .. Size + 1
      BY <1>1 DEF Parts
    <3>2. part[t].from \cup b \in SUBSET (Contents \cup {Broken})
      BY <1>1, <2>4 DEF Parts
    <3>3. p \in Parts
      BY <3>1, <3>2 DEF Parts
    <3>4. b # {}
      <4>1. NamesOf(file[t]) # {}
        BY <2>3, SourcesAssumption
      <4>. QED
        BY <4>1, <2>1 DEF Blocks
    <3>. QED
      BY <3>3, <3>4, <1>1, <2>4 DEF StagedRight
  <2>6. p.len = part[t].len + 1 /\ part[t].len \in Nat
    BY <1>1 DEF Parts
  <2>7. \/ Ends(t) /\ phase' # "stream"
        \/ GoesOn(t, {"request", "stream"}) /\ p.len <= Size
    <3>1. CASE Oversized(t)
      <4>1. Ends(t)
        BY <1>3, <3>1, RejectedEnds
      <4>. QED
        BY <4>1 DEF Ends, OperationEnds
    <3>2. CASE ~Oversized(t)
      <4>1. p.len <= Size
        BY <1>3, <2>2, <2>3, <2>6, <3>2 DEF Oversized
      <4>2. GoesOn(t, {"request", "stream"})
        BY <1>3, <3>2 DEF GoesOn, Goto, InFlight
      <4>. QED
        BY <4>1, <4>2
    <3>. QED
      BY <3>1, <3>2
  <2>. HIDE DEF p
  <2>. QED
    BY <2>2, <2>5, <2>7, StagingKeeps
<1>. QED
  BY <1>2, <1>3

LEMMA StreamEndsKeeps ==
  ASSUME IInv, NEW t \in Transfers, StreamEnds(t) \/ FetchProgress(t) \/ FetchEnds(t)
  PROVE  IInv'
<1>. USE DEF StreamEnds, FetchProgress, FetchEnds
<1>1. Ends(t) \/ GoesOn(t, {"request", "fetch", "verify", "install"})
  BY RejectedEnds DEF GoesOn, Goto, InFlight
<1>2. phase' # "install"
  BY RejectedEnds DEF Ends, OperationEnds, Goto
<1>. QED
  BY <1>1, <1>2, OperationKeeps

LEMMA VerifyKeeps ==
  ASSUME IInv, NEW t \in Transfers, VerifyEnds(t)
  PROVE  IInv'
<1>. USE DEF VerifyEnds
<1>1. CASE Rejected(t)
  <2>1. Ends(t) /\ phase' # "install"
    BY <1>1, RejectedEnds DEF Ends, OperationEnds
  <2>. QED
    BY <2>1, OperationKeeps
<1>2. CASE Goto("install") /\ UNCHANGED state /\ ~Rejected(t)
  <2>1. GoesOn(t, {"request", "fetch", "verify", "install"})
    BY <1>2, SameState DEF GoesOn, Goto, IInv
  <2>2. source[t].provider = "civitai" => Verified(t)
    BY <1>2
  <2>. QED
    BY <2>1, <2>2, OperationKeeps
<1>. QED
  BY <1>1, <1>2

(* The installation: in conflict it is rejected and touches no file.       *)
LEMMA InstallKeeps ==
  ASSUME IInv, NEW t \in Transfers, Install(t)
  PROVE  IInv' /\ FilesKept
<1>. USE DEF IInv, Install
<1>1. CASE Rejected(t) /\ UNCHANGED <<part, dest>>
  <2>1. Ends(t) /\ phase' # "install"
    BY <1>1, RejectedEnds DEF Ends, OperationEnds
  <2>. QED
    BY <1>1, <2>1, OperationKeeps, DestKept
<1>2. CASE ~Conflict(t) /\ ~(Rejected(t) /\ UNCHANGED <<part, dest>>)
  <2>1. /\ dest' \in Dests /\ FilesKept
        /\ \A n \in Names : n \in NamesOf(file[t]) =>
             /\ dest'[n] # None
             /\ file[t].hashed \/ source[t].provider = "huggingface" => dest'[n] = file[t].files[n]
    BY <1>2, PlacedFiles
  <2>2. /\ SetState(t, "completed") /\ OperationEnds /\ part' = [part EXCEPT ![t] = Empty]
        /\ UNCHANGED opFrame /\ UNCHANGED <<source, file>>
    BY <1>2 DEF opFrame
  <2>3. \A x \in Transfers : /\ state'[x] = IF x = t THEN "completed" ELSE state[x]
                             /\ part'[x] = IF x = t THEN Empty ELSE part[x]
    BY <2>2 DEF SetState, TypeOK
  <2>4. TypeOK'
    <3>1. state' \in [Transfers -> States]
      BY <2>2 DEF SetState, TypeOK, States
    <3>2. part' \in [Transfers -> Parts]
      BY <2>2 DEF TypeOK, Parts, Empty
    <3>3. op' \in Transfers \cup {None} /\ phase' \in Phases /\ drain' \in BOOLEAN
      BY <2>2 DEF OperationEnds, Phases
    <3>. QED
      BY <2>1, <2>2, <3>1, <3>2, <3>3 DEF TypeOK, opFrame, Parts, Dests
  <2>5. QueueInv'
    BY <2>2, SettlesQueue DEF opFrame, restFrame, Settled
  <2>6. phase' = "idle" /\ state[t] # "none"
    BY <2>2 DEF OperationEnds, QueueInv
  <2>7. InPlace(t)'
    BY <2>1, <2>2 DEF InPlace, NamesOf
  <2>8. \A n \in Names : dest[n] # None => dest'[n] = dest[n]
    BY <2>1 DEF FilesKept
  <2>9. FileInv'
    BY <2>1, <2>2, <2>3, <2>6, <2>7, <2>8, FilesFollow
  <2>. QED
    BY <2>1, <2>4, <2>5, <2>9
<1>. QED
  BY <1>1, <1>2

(* The restart, also between two files of an installation.                 *)
LEMMA RestartKeeps ==
  ASSUME IInv, AgentRestart
  PROVE  IInv' /\ FilesKept
<1>. USE DEF IInv, AgentRestart
<1>1. \A x \in Transfers : /\ state'[x] = Recovered(state[x]) /\ state'[x] \in States
                           /\ state'[x] \notin Active
                           /\ (state'[x] = "none") = (state[x] = "none")
                           /\ state'[x] = "completed" => state[x] = "completed"
  BY DEF TypeOK, Recovered, States, Active, InFlight, Resumable
<1>2. /\ restarts \in Nat /\ faults \in Nat /\ restarts + faults < MaxTroubles
      /\ restarts' = restarts + 1 /\ faults' = faults
  BY DEF TypeOK
<1>3. queue' = <<>> /\ queue' \in Seq(Transfers) /\ DOMAIN queue' = {}
  BY EmptySeq
<1>4. /\ dest' \in Dests /\ FilesKept
      /\ part' \in [Transfers -> Parts]
      /\ \A x \in Transfers : part'[x] \in {part[x], Empty}
  <2>1. CASE UNCHANGED <<part, dest>>
    BY <2>1, DestKept DEF TypeOK, Parts, Dests
  <2>2. CASE PartlyInstalled(op)
    <3>1. op \in Transfers
      BY <2>2 DEF TypeOK, QueueInv, PartlyInstalled
    <3>. QED
      BY <2>2, <3>1, PartlyPlaced
  <2>. QED
    BY <2>1, <2>2
<1>5. TypeOK'
  <2>1. restarts' \in 0 .. MaxTroubles /\ faults' \in 0 .. MaxTroubles
    BY <1>2
  <2>2. state' \in [Transfers -> States]
    BY <1>1
  <2>3. op' \in Transfers \cup {None} /\ phase' \in Phases /\ drain' \in BOOLEAN
    BY DEF Phases
  <2>4. cancel' \in [Transfers -> BOOLEAN] /\ closing' \in BOOLEAN
    OBVIOUS
  <2>. QED
    BY <1>3, <1>4, <2>1, <2>2, <2>3, <2>4 DEF TypeOK, Parts, Dests
<1>6. QueueInv'
  <2>1. ActiveIsOwned'
    BY <1>1 DEF ActiveIsOwned, Active
  <2>2. IsFiniteSet(Stranded)' /\ FaultStrandsOne'
    <3>1. \A x \in Transfers : IsStranded(x)' => IsStranded(x)
      BY <1>1 DEF IsStranded, Active
    <3>. QED
      BY <1>2, <1>3, <3>1, NoneMoreStranded
  <2>. QED
    BY <1>2, <1>3, <2>1, <2>2 DEF QueueInv
<1>7. FileInv'
  <2>1. \A n \in Names : dest[n] # None => dest'[n] = dest[n]
    BY <1>4 DEF FilesKept
  <2>. QED
    BY <1>1, <1>4, <2>1, FilesFollow
<1>. QED
  BY <1>4, <1>5, <1>6, <1>7
-----------------------------------------------------------------------------
(* The steps together.                                                     *)
LEMMA NextKeeps ==
  ASSUME IInv, [Next]_vars
  PROVE  IInv' /\ FilesKept
<1>1. CASE UNCHANGED vars
  <2>1. UNCHANGED <<state, source, file, part, dest, cancel, queue, drain, op, phase, closing,
                    restarts, faults>>
    BY <1>1 DEF vars, diskVars, queueVars
  <2>2. TypeOK' /\ QueueInv'
    BY <2>1 DEF IInv, TypeOK, QueueInv, ActiveIsOwned, FaultStrandsOne, Stranded, IsStranded
  <2>3. FileInv'
    BY <2>1 DEF IInv, FileInv, StagedRight, Verified, NamesOf, CompletedIsInstalled, InPlace
  <2>. QED
    BY <2>1, <2>2, <2>3, DestKept DEF IInv
<1>2. ASSUME NEW t \in Transfers, (\E s \in Sources : Start(t, s)) \/ Resume(t)
      PROVE  IInv' /\ FilesKept
  BY <1>2, PrepareKeeps, DestKept DEF Start, Resume, Prepare
<1>3. ASSUME NEW t \in Transfers, Cancel(t) \/ CancelRaises(t)
      PROVE  IInv' /\ FilesKept
  BY <1>3, CancelKeeps, CancelRaisesKeeps, DestKept DEF Cancel, CancelRaises, diskVars
<1>4. ASSUME NEW t \in Transfers,
             \/ DrainNext(t) \/ MetadataAnswers(t) \/ StreamOpens(t) \/ RangeRefused(t)
             \/ StreamEnds(t) \/ FetchEnds(t) \/ VerifyEnds(t)
      PROVE  IInv' /\ FilesKept
  <2>1. IInv'
    BY <1>4, DrainKeeps, MetadataKeeps, StreamOpensKeeps, RangeRefusedKeeps, StreamEndsKeeps,
       VerifyKeeps
  <2>. QED
    BY <1>4, <2>1, DestKept
       DEF DrainNext, MetadataAnswers, StreamOpens, RangeRefused, StreamEnds, FetchEnds, VerifyEnds
<1>5. ASSUME NEW t \in Transfers, BlockArrives(t) \/ FetchProgress(t) \/ DrainFails(t)
      PROVE  IInv' /\ FilesKept
  <2>1. IInv'
    BY <1>5, BlockKeeps, StreamEndsKeeps, DrainFailsKeeps
  <2>. QED
    BY <1>5, <2>1, DestKept DEF BlockArrives, FetchProgress, DrainFails
<1>6. CASE Close \/ CloseReturns
  BY <1>6, CloseKeeps, DestKept DEF Close, CloseReturns, diskVars
<1>. QED
  BY <1>1, <1>2, <1>3, <1>4, <1>5, <1>6, InstallKeeps, RestartKeeps, FailsKeeps, RaisesKeeps
     DEF Next, OperationStep

(* The invariant holds in every state of a behaviour, with failed writes   *)
(* at every state write and a newly selected file at every resumption.     *)
THEOREM DownloadsInvariant == Spec => []IInv
<1>1. IInv /\ [Next]_vars => IInv'
  BY NextKeeps
<1>. QED
  BY InitIInv, <1>1, PTL DEF Spec

(* Whatever is called, answered or broken off in whatever order, every     *)
(* transfer record, staged file and queue keeps its type, and no block     *)
(* past the declared size stays staged.                                    *)
THEOREM TypesHold == Spec => []TypeOK
<1>1. IInv => TypeOK
  BY DEF IInv
<1>. QED
  BY <1>1, DownloadsInvariant, PTL

(* While no state write has failed, a transfer in flight has the running   *)
(* operation, also after any restart.                                      *)
THEOREM NoneStrandedInFlight == Spec => []ActiveIsOwned
<1>1. IInv => ActiveIsOwned
  BY DEF IInv, QueueInv
<1>. QED
  BY <1>1, DownloadsInvariant, PTL

(* Failed state writes, the first one of an operation included, never      *)
(* strand more transfers than there were of them, and without one the      *)
(* queue has its worker.                                                   *)
THEOREM NoneForgotten == Spec => []FaultStrandsOne
<1>1. IInv => FaultStrandsOne
  BY DEF IInv, QueueInv
<1>. QED
  BY <1>1, DownloadsInvariant, PTL

(* Whatever file of its page a resumption selects, a broken one is only    *)
(* installed without a SHA-256, and with a declared size only of blocks of *)
(* two files.                                                              *)
THEOREM SplicedOnlyUnhashed == Spec => InstalledIsWhole
<1>1. IInv /\ [Next]_vars => [\A n \in Names : BrokenFor(n)]_vars
  BY NextKeeps DEF FilesKept
<1>. QED
  BY <1>1, DownloadsInvariant, PTL DEF Spec, InstalledIsWhole

(* A transfer shown as completed has its files in place, for good.         *)
THEOREM CompletedForGood == Spec => []CompletedIsInstalled
<1>1. IInv => CompletedIsInstalled
  BY DEF IInv, FileInv
<1>. QED
  BY <1>1, DownloadsInvariant, PTL

(* No step, a restart within an installation included, replaces a file.    *)
THEOREM NoFileReplaced == Spec => NoOverwrite
<1>1. IInv /\ [Next]_vars => [\A n \in Names : dest[n] # None => dest'[n] = dest[n]]_vars
  BY NextKeeps DEF FilesKept
<1>. QED
  BY <1>1, DownloadsInvariant, PTL DEF Spec, NoOverwrite
=============================================================================
