---------------------------- MODULE DownloadQueue ----------------------------
(***************************************************************************)
(* The provider downloads of the workspace agent: RemoteDownloadManager    *)
(* (agent/downloads.py) and the installation of what it downloaded,        *)
(* TransferManager.install_download_batch (agent/transfers.py).            *)
(*                                                                         *)
(* One task, _drain_queue, runs the queued operations one after the other. *)
(* RemoteDownloadManager._lock is never held across an await that really   *)
(* suspends, so a step is the code between two network answers, two thread *)
(* results, or two acquisitions of the lock of TransferManager.            *)
(***************************************************************************)
EXTENDS Integers, Sequences, FiniteSets

CONSTANTS
  Transfers,      \* transfer identifiers
  Names,          \* destination paths
  Contents,       \* what a file may hold
  Sources,        \* what transfers are started for: see SourcesAssumption
  Wanted,         \* bound: transfer -> the sources it may be started for
  Size,           \* blocks in a Civitai file, of any version
  MaxQueue,       \* bound: queue entries explored
  MaxTroubles,    \* bound: agent restarts and failed writes of a transfer's own state
  Broken,         \* the content of a file with wrong, missing or misplaced blocks
  None

Providers == {"civitai", "huggingface"}

(* What an operation downloads.  files: destination path -> content, None  *)
(* for no file; sized, hashed: the provider declares the size, the SHA-256.*)
Selections == [files : [Names -> Contents \cup {None}], sized : BOOLEAN, hashed : BOOLEAN]
NamesOf(f) == {n \in Names : f.files[n] # None}

(* A transfer is for a page and not for a file: which of its offers an     *)
(* operation selects depends on the file_id of the call that queued it     *)
(* and, for a URL without a version, on the page's newest version, or for  *)
(* a repository on its revision.  A Civitai offer is one file.             *)
ASSUME SourcesAssumption ==
  /\ Sources \subseteq [provider : Providers, offers : SUBSET Selections]
  /\ \A s \in Sources :
       /\ s.offers # {}
       /\ \A f \in s.offers :
            /\ NamesOf(f) # {}
            /\ s.provider = "civitai" => \E n \in Names : NamesOf(f) = {n}
ASSUME WantedAssumption == Wanted \in [Transfers -> SUBSET Sources]
ASSUME NamesAssumption == None \notin Transfers \cup Contents \cup Sources \cup {Broken}
                          /\ None \notin Selections /\ Broken \notin Contents
ASSUME BoundsAssumption == Size \in Nat \ {0} /\ MaxQueue \in Nat
                           /\ MaxTroubles \in Nat

VARIABLES
  \* state/transfers/*.json, downloads/incomplete/*.part and the destinations
  state,      \* transfer -> "none" or the TransferState in its file
  source,     \* transfer -> the page it was started for
  file,       \* transfer -> the offer last selected for it, or None
  part,       \* transfer -> [len, from]: blocks staged, the files they are of,
              \* Broken for a block that is wrong or in the wrong place
  dest,       \* destination path -> None, what the file holds, or Broken
  \* memory of the agent
  cancel,     \* _cancel: transfer -> its event is set
  queue,      \* _queue: transfers in the order of their operations
  drain,      \* _queue_worker is there and not done
  op,         \* the transfer whose operation runs, or None
  phase,      \* where that operation is suspended
  closing,    \* close() awaits the queue worker
  restarts, faults

diskVars == <<state, source, file, part, dest>>
queueVars == <<queue, drain, op, phase>>
vars == <<diskVars, cancel, queueVars, closing, restarts, faults>>

InFlight == {"resolving", "downloading", "verifying"}
Active == {"pending"} \cup InFlight
Resumable == {"paused", "cancelled", "failed"}
States == {"none", "completed"} \cup Active \cup Resumable
Phases == {"idle", "metadata", "request", "stream", "fetch", "verify", "install"}
Empty == [len |-> 0, from |-> {}]

TypeOK ==
  /\ state \in [Transfers -> States]
  /\ source \in [Transfers -> Sources \cup {None}]
  /\ file \in [Transfers -> Selections \cup {None}]
  /\ part \in [Transfers -> [len : 0 .. Size + 1, from : SUBSET (Contents \cup {Broken})]]
  /\ dest \in [Names -> Contents \cup {None, Broken}]
  /\ cancel \in [Transfers -> BOOLEAN]
  /\ queue \in Seq(Transfers)
  /\ drain \in BOOLEAN /\ closing \in BOOLEAN
  /\ op \in Transfers \cup {None} /\ phase \in Phases
  /\ restarts \in 0 .. MaxTroubles /\ faults \in 0 .. MaxTroubles

Init ==
  /\ state = [t \in Transfers |-> "none"]
  /\ source = [t \in Transfers |-> None]
  /\ file = [t \in Transfers |-> None]
  /\ part = [t \in Transfers |-> Empty]
  /\ dest = [n \in Names |-> None]
  /\ cancel = [t \in Transfers |-> FALSE]
  /\ queue = <<>> /\ drain = FALSE
  /\ op = None /\ phase = "idle"
  /\ closing = FALSE
  /\ restarts = 0 /\ faults = 0

SetState(t, s) == state' = [state EXCEPT ![t] = s]

(* A write of a transfer's record fails: the volume is full or gone.       *)
Trouble == restarts + faults < MaxTroubles /\ faults' = faults + 1

-----------------------------------------------------------------------------
(* The client's calls.                                                     *)

(* _launch: the operation is queued; a worker that is done is replaced.    *)
Launch(t) == queue' = Append(queue, t) /\ drain' = TRUE

(* _prepare_transfer gives the transfer a new, clear event, which the      *)
(* operation of an earlier start of the same transfer will look at too.    *)
(* close() is called behind the seal or a stopped server: nothing starts.  *)
Prepare(t) ==
  /\ ~closing
  /\ Len(queue) < MaxQueue
  /\ SetState(t, "pending")
  /\ cancel' = [cancel EXCEPT ![t] = FALSE]
  /\ Launch(t)
  /\ UNCHANGED <<file, part, dest, op, phase, closing, restarts, faults>>

Start(t, s) ==
  /\ state[t] = "none" /\ s \in Wanted[t]
  /\ source' = [source EXCEPT ![t] = s]
  /\ Prepare(t)

(* The call names the same page, not the same file.                        *)
Resume(t) ==
  /\ state[t] \in Resumable
  /\ Prepare(t)
  /\ UNCHANGED source

Cancel(t) ==
  /\ state[t] # "none"
  /\ cancel' = [cancel EXCEPT ![t] = TRUE]
  /\ IF state[t] \in {"completed", "failed"} THEN UNCHANGED state ELSE SetState(t, "cancelled")
  /\ UNCHANGED <<source, file, part, dest, queueVars, closing, restarts, faults>>

(* The event is set before the write of CANCELLED, which may raise.        *)
CancelRaises(t) ==
  /\ state[t] \notin {"none", "completed", "failed"}
  /\ Trouble
  /\ cancel' = [cancel EXCEPT ![t] = TRUE]
  /\ UNCHANGED <<diskVars, queueVars, closing, restarts>>

(* close(), at shutdown and when the workspace is sealed for a migration.  *)
Close ==
  /\ ~closing
  /\ closing' = drain
  /\ cancel' = [t \in Transfers |-> cancel[t] \/ state[t] # "none"]
  /\ UNCHANGED <<diskVars, queueVars, restarts, faults>>

CloseReturns ==
  /\ closing /\ ~drain
  /\ closing' = FALSE
  /\ UNCHANGED <<diskVars, cancel, queueVars, restarts, faults>>

-----------------------------------------------------------------------------
(* _drain_queue.                                                           *)

opFrame == <<source, file, cancel, queue, closing, restarts, faults>>

(* The operation returns; the worker is done when nothing is queued.       *)
OperationEnds_One == op' = None /\ phase' = "idle" /\ drain' = FALSE     \* mutant: no loop
OperationEnds_On == op' = None /\ phase' = "idle" /\ UNCHANGED drain     \* mutant: no end
OperationEnds == op' = None /\ phase' = "idle" /\ drain' = (queue # <<>>)

Goto(p) == phase' = p /\ UNCHANGED <<op, drain>>

(* `if self._cancelled(transfer_id)`: skipped, else the operation is run   *)
(* up to its first request.  A popped transfer may be in any state.        *)
DrainNext(t) ==
  /\ drain /\ op = None
  /\ queue # <<>> /\ Head(queue) = t
  /\ queue' = Tail(queue)
  /\ IF cancel[t]
       THEN /\ SetState(t, "cancelled")
            /\ drain' = (queue' # <<>>) /\ UNCHANGED <<op, phase>>
       ELSE /\ SetState(t, "resolving")
            /\ op' = t /\ phase' = "metadata" /\ UNCHANGED drain
  /\ UNCHANGED <<source, file, part, dest, cancel, closing, restarts, faults>>

(* The head is off the queue when its first state write fails.  An         *)
(* operation has a handler, which writes FAILED; when that fails too, or   *)
(* when the write was the worker's own CANCELLED, the worker dies and the  *)
(* transfer keeps its state with no entry of its own left.                 *)
DrainFails(t) ==
  /\ drain /\ op = None
  /\ queue # <<>> /\ Head(queue) = t
  /\ queue' = Tail(queue)
  /\ Trouble
  /\ \/ ~cancel[t] /\ SetState(t, "failed") /\ drain' = (queue' # <<>>)
     \/ UNCHANGED state /\ drain' = FALSE
  /\ UNCHANGED <<source, file, part, dest, cancel, op, phase, closing, restarts>>

(* `except TransferError`.                                                 *)
Rejected(t) ==
  /\ SetState(t, IF cancel[t] THEN "cancelled" ELSE "failed")
  /\ OperationEnds

(* `except Exception`: a broken connection, a library error, an OSError.   *)
Crashed(t) == SetState(t, "failed") /\ OperationEnds

(* Scan results, format and free space of the selected file are in order.  *)
(* A Civitai file with another name than the one the record has is         *)
(* refused; nothing else of it is compared with the one staged before.     *)
MetadataAnswers(t) ==
  /\ op = t /\ phase = "metadata"
  /\ \E f \in source[t].offers :
       IF source[t].provider = "civitai" /\ file[t] # None /\ NamesOf(f) # NamesOf(file[t])
         THEN Rejected(t) /\ UNCHANGED file
         ELSE /\ SetState(t, "downloading")
              /\ file' = [file EXCEPT ![t] = f]
              /\ IF source[t].provider = "civitai"
                   THEN Goto("request")
                   ELSE ~cancel[t] /\ Goto("fetch")
  /\ UNCHANGED <<source, cancel, queue, closing, restarts, faults, part, dest>>

-----------------------------------------------------------------------------
(* _download_civitai_file and _verify_download.                            *)

(* 206 continues at the end of the staged file, whatever that is a part    *)
(* of.  200, an answer without the range, sends the file from its start.   *)
Truncate_Append(p) ==                    \* mutant: always "ab"
  [p EXCEPT !.from = IF p.len = 0 THEN @ ELSE @ \cup {Broken}]
Truncate(p) == Empty

StreamOpens(t) ==
  /\ op = t /\ phase = "request"
  /\ \/ part[t].len \in 1 .. Size - 1 /\ UNCHANGED part
     \/ part' = [part EXCEPT ![t] = Truncate(@)]
  /\ Goto("stream")
  /\ UNCHANGED <<opFrame, state, dest>>

(* 416: a staged file of the declared size is taken for complete; any      *)
(* other is dropped and the request is made again from the start.          *)
RangeRefused(t) ==
  /\ op = t /\ phase = "request" /\ part[t].len >= Size
  /\ IF file[t].sized /\ part[t].len = Size
       THEN SetState(t, "verifying") /\ Goto("verify") /\ UNCHANGED part
       ELSE part' = [part EXCEPT ![t] = Empty] /\ UNCHANGED <<state, op, phase, drain>>
  /\ UNCHANGED <<opFrame, dest>>

Oversized_Never(t) == FALSE              \* mutant: left to the final check
Oversized(t) == file[t].sized /\ part'[t].len > Size

(* A block arrives; bound: a block too many only where a declared size can *)
(* tell, a wrong one only where each offer of the page has its SHA-256.    *)
Blocks(t) ==
  {{file[t].files[n] : n \in NamesOf(file[t])}}
    \cup (IF \A f \in source[t].offers : f.hashed THEN {{Broken}} ELSE {})

BlockArrives(t) ==
  /\ op = t /\ phase = "stream"
  /\ IF cancel[t]
       THEN Rejected(t) /\ UNCHANGED part
       ELSE /\ file[t].sized \/ part[t].len < Size
            /\ \E b \in Blocks(t) :
                 part' = [part EXCEPT ![t] = [len |-> @.len + 1, from |-> @.from \cup b]]
            /\ IF Oversized(t)
                 THEN Rejected(t)
                 ELSE SetState(t, "downloading") /\ Goto("stream")
  /\ UNCHANGED <<opFrame, dest>>

(* The provider may close the stream before the declared size.             *)
StreamEnds(t) ==
  /\ op = t /\ phase = "stream"
  /\ SetState(t, "verifying")
  /\ Goto("verify")
  /\ UNCHANGED <<opFrame, part, dest>>

Verified_Size(t) == part[t].len = Size   \* mutant: no SHA-256
Verified(t) ==
  /\ file[t].sized => part[t].len = Size
  /\ file[t].hashed => /\ part[t].len = Size
                       /\ part[t].from = {file[t].files[n] : n \in NamesOf(file[t])}

-----------------------------------------------------------------------------
(* The loop of _run_huggingface beside hf_hub_download in its thread: a    *)
(* state write every half second, cancelled or not.                        *)
FetchProgress(t) ==
  /\ op = t /\ phase = "fetch"
  /\ SetState(t, "downloading")
  /\ UNCHANGED <<opFrame, part, dest, op, phase, drain>>

FetchEnds(t) ==
  /\ op = t /\ phase = "fetch"
  /\ IF cancel[t]
       THEN Rejected(t)
       ELSE SetState(t, "verifying") /\ Goto("verify")
  /\ UNCHANGED <<opFrame, part, dest>>

(* Hashing in a thread is over; Hugging Face files are copied and hashed   *)
(* one by one, with a look at the event before each.                       *)
VerifyEnds(t) ==
  /\ op = t /\ phase = "verify"
  /\ \/ /\ source[t].provider = "civitai"
        /\ IF Verified(t) THEN Goto("install") /\ UNCHANGED state ELSE Rejected(t)
     \/ /\ source[t].provider = "huggingface"
        /\ \/ cancel[t] /\ Rejected(t)
           \/ Goto("install") /\ UNCHANGED state
  /\ UNCHANGED <<opFrame, part, dest>>

-----------------------------------------------------------------------------
(* install_download_batch, under the lock of TransferManager.              *)

(* What the operation puts at a destination path, None for nothing: the    *)
(* staged blocks are whole when they are all the blocks of one file, be it *)
(* the selected one or an older one of the same name.                      *)
Whole(t) == part[t].len = Size /\ \E c \in Contents : part[t].from = {c}
Downloaded(t, n) ==
  IF n \notin NamesOf(file[t]) THEN None
  ELSE IF source[t].provider = "huggingface" THEN file[t].files[n]
  ELSE IF Whole(t) THEN CHOOSE c \in Contents : part[t].from = {c}
  ELSE Broken

(* `existing is None and destination.exists()`: another file is there.     *)
(* Of two broken files the bytes may be the same or not.                   *)
Conflict_Never(t) == FALSE               \* mutant: replace() unconditionally
Conflict(t) ==
  \E n \in Names : Downloaded(t, n) # None /\ dest[n] \notin {None, Downloaded(t, n)}
MayConflict(t) ==
  Conflict(t) \/ \E n \in Names : Downloaded(t, n) = Broken /\ dest[n] = Broken

Placed_First(t, names) ==                \* mutant: leaves the loop after a file
  LET first == CHOOSE n \in names : Downloaded(t, n) # None \/ names = {n} IN
  [n \in Names |-> IF n = first THEN Downloaded(t, n) ELSE dest[n]]
Placed(t, names) ==
  [n \in Names |-> IF n \in names /\ Downloaded(t, n) # None THEN Downloaded(t, n) ELSE dest[n]]

Install(t) ==
  /\ op = t /\ phase = "install"
  /\ \/ /\ MayConflict(t)
        /\ Rejected(t) /\ UNCHANGED <<part, dest>>
     \/ /\ ~Conflict(t)
        /\ dest' = Placed(t, Names)
        /\ part' = [part EXCEPT ![t] = Empty]
        /\ SetState(t, "completed") /\ OperationEnds
  /\ UNCHANGED opFrame

(* The installation breaks off between two files, or behind the last one   *)
(* when the write of COMPLETED fails.                                      *)
PartlyInstalled(t) ==
  /\ phase = "install" /\ ~Conflict(t)
  /\ \E names \in SUBSET NamesOf(file[t]) :
       /\ dest' = Placed(t, names)
       /\ part' = IF names = {} THEN part ELSE [part EXCEPT ![t] = Empty]

-----------------------------------------------------------------------------
(* At any await of the operation, and when one of its state writes fails   *)
(* and the handler's does not.                                             *)
Fails(t) ==
  /\ op = t
  /\ \/ (Rejected(t) \/ Crashed(t)) /\ UNCHANGED <<part, dest>>
     \/ Crashed(t) /\ PartlyInstalled(t)
  /\ UNCHANGED opFrame

(* The handler's own state write raises: the queue worker dies with the    *)
(* rest of the queue.                                                      *)
OperationRaises(t) ==
  /\ op = t /\ Trouble
  /\ op' = None /\ phase' = "idle" /\ drain' = FALSE
  /\ UNCHANGED <<part, dest>> \/ PartlyInstalled(t)
  /\ UNCHANGED <<state, source, file, cancel, queue, closing, restarts>>

-----------------------------------------------------------------------------
(* The container stops, perhaps between two files of an installation, and  *)
(* starts again; _recover_interrupted pauses the transfers in flight.      *)
Recovered_Running(s) == IF s \in InFlight THEN "paused" ELSE s     \* mutant: not the queued
Recovered_Verifying(s) ==                \* mutant: not the one being verified
  IF s \in {"pending", "resolving", "downloading"} THEN "paused" ELSE s
Recovered(s) == IF s \in Active THEN "paused" ELSE s

AgentRestart ==
  /\ restarts + faults < MaxTroubles
  /\ restarts' = restarts + 1
  /\ state' = [t \in Transfers |-> Recovered(state[t])]
  /\ UNCHANGED <<part, dest>> \/ PartlyInstalled(op)
  /\ cancel' = [t \in Transfers |-> FALSE]
  /\ queue' = <<>> /\ drain' = FALSE
  /\ op' = None /\ phase' = "idle"
  /\ closing' = FALSE
  /\ UNCHANGED <<source, file, faults>>

-----------------------------------------------------------------------------
OperationStep(t) ==
  \/ DrainNext(t) \/ MetadataAnswers(t) \/ StreamOpens(t) \/ RangeRefused(t)
  \/ StreamEnds(t) \/ FetchEnds(t) \/ VerifyEnds(t) \/ Install(t)

Next ==
  \/ \E t \in Transfers :
       \/ \E s \in Sources : Start(t, s)
       \/ Resume(t) \/ Cancel(t) \/ CancelRaises(t)
       \/ OperationStep(t) \/ BlockArrives(t) \/ FetchProgress(t)
       \/ DrainFails(t) \/ Fails(t) \/ OperationRaises(t)
  \/ Close \/ CloseReturns
  \/ AgentRestart

(* Requests are answered and threads end.  No timeout of the code bounds a *)
(* stream (timeout=None) or a library download: that these end is assumed. *)
Fairness ==
  /\ WF_vars(\E t \in Transfers : OperationStep(t) \/ (cancel[t] /\ Fails(t)))
  /\ WF_vars(CloseReturns)

Spec == Init /\ [][Next]_vars
FairSpec == Spec /\ Fairness
-----------------------------------------------------------------------------
(* Properties.                                                             *)

(* A transfer shown as in flight has the running operation: unless a state *)
(* write failed, none is stuck there, where it can be neither resumed nor  *)
(* finished.                                                               *)
ActiveIsOwned ==
  faults = 0 => \A t \in Transfers : state[t] \in InFlight => op = t

(* A transfer that waits is in the queue, also when it was cancelled and   *)
(* resumed while an earlier operation of its own ran, and one in flight    *)
(* has the operation.  A failed state write strands one transfer at most,  *)
(* the one it is of, however much was queued behind it when the worker     *)
(* died: a cancellation or a restart of the agent frees it.                *)
IsStranded(t) ==
  \/ state[t] = "pending" /\ \A i \in DOMAIN queue : queue[i] # t
  \/ state[t] \in InFlight /\ op # t
Stranded == {t \in Transfers : IsStranded(t)}

FaultStrandsOne ==
  /\ Cardinality(Stranded) <= faults
  /\ faults = 0 /\ queue # <<>> => drain

(* Blocks of two files of one name are told apart by a SHA-256 only.  That *)
(* apart, no resumption, restart or answer with or without the range       *)
(* splices a file: a step that installs a broken one has no SHA-256 to     *)
(* compare, and a declared size only when the staged blocks are of two     *)
(* files.                                                                  *)
TwoFilesStaged(t) == \E c, d \in part[t].from \ {Broken} : c # d
BrokenFor(n) ==
  dest[n] = None /\ dest'[n] = Broken =>
    /\ op # None /\ ~file[op].hashed
    /\ file[op].sized => TwoFilesStaged(op)
InstalledIsWhole == [][\A n \in Names : BrokenFor(n)]_vars

(* A completed transfer has all its files in place, the selected ones      *)
(* where a SHA-256 is declared or a repository was copied.                 *)
InPlace(t) ==
  \A n \in NamesOf(file[t]) :
    /\ dest[n] # None
    /\ file[t].hashed \/ source[t].provider = "huggingface" => dest[n] = file[t].files[n]
CompletedIsInstalled == \A t \in Transfers : state[t] = "completed" => InPlace(t)

(* An installation never replaces a file by another one.                   *)
NoOverwrite == [][\A n \in Names : dest[n] # None => dest'[n] = dest[n]]_vars

(* A queued transfer is settled, however its turn is disturbed, unless a   *)
(* failed state write kills the queue worker.                              *)
PendingSettles ==
  \A t \in Transfers :
    state[t] = "pending" ~> state[t] \in Resumable \cup {"completed"} \/ faults > 0

(* close() returns.                                                        *)
CloseEnds == closing ~> ~closing
=============================================================================
