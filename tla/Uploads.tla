------------------------------ MODULE Uploads ------------------------------
(***************************************************************************)
(* agent/transfers.py: uploads in chunks, the inventory of the workspace's *)
(* files, and the calls that delete, move and save files.                  *)
(*                                                                         *)
(* Everything that lasts is on the volume: the files, the index of their   *)
(* records (inventory/files.json), the sessions, and the chunks of each.   *)
(* A call works on the volume under TransferManager._lock, and calls come  *)
(* one after the other -- save two, that use what they read before they    *)
(* waited for the lock: create_upload looks at the destination outside it, *)
(* and move_file takes it twice. Calls wait when inventory() holds the     *)
(* lock while a thread scans, and any that waited may come in between.     *)
(*                                                                         *)
(* The work of a call is a sequence of volumes, one after each file it     *)
(* writes: the call leaves the last one, a crash any of them.              *)
(***************************************************************************)
EXTENDS Naturals, Sequences, SequencesExt, FiniteSets

CONSTANTS
  Calls,      \* requests that wait at a time
  Uploads,    \* upload sessions
  Names,      \* file names
  ModelKinds, \* kinds of files that may be moved
  Data,       \* contents of files, each with its SHA-256
  Chunks,     \* number of chunks of an upload
  Stamps,     \* values of mtime_ns
  None, Broken,
  MaxWrites,  \* bound on the files written from uploads and by saves
  MaxCrashes  \* bound on the restarts of the agent

ASSUME DistinctAssumption ==
  /\ None \notin Data \cup Stamps /\ Broken \notin Data
  /\ "projects" \notin ModelKinds
ASSUME BoundsAssumption ==
  Chunks \in Nat \ {0} /\ MaxWrites \in Nat /\ MaxCrashes \in Nat

VARIABLES
  volume,   \* what is on disk
  call,     \* the requests that wait with what they have read
  crossed,  \* a move took another file than the one it had looked up
  writes, crashes

vars == <<volume, call, crossed, writes, crashes>>

Kinds == ModelKinds \cup {"projects"}
Paths == Kinds \X Names
Kind(p) == p[1]

(* A file has contents and a stamp, the mtime_ns that also identifies its  *)
(* size; a rename keeps it. A record keeps the stamp of the file it        *)
(* describes, the checksum, and an id, which is as unique as the path and  *)
(* the stamp it was made for.                                              *)
File == [data : Data, stamp : Stamps]
Id == Paths \X Stamps
Record == [stamp : Stamps, sha : Data, id : Id]
Session == [state : {"uploading", "completed", "cancelled"}, path : Paths,
            sha : Data, done : SUBSET (1..Chunks)]

(* The chunks of a session that are there. *)
Pieces == UNION {[S -> Data] : S \in SUBSET (1..Chunks)}

Volume == [files : [Paths -> File \cup {None}],
           index : [Paths -> Record \cup {None}],
           session : [Uploads -> Session \cup {None}],
           parts : [Uploads -> Pieces \cup {None}]]

ASSUME AbsentAssumption == None \notin File \cup Record \cup Session

Idle == [op |-> "none"]

(* What waits: create_upload with its look at the destination, move_file   *)
(* with the file it has found.                                             *)
ModelPaths == ModelKinds \X Names
Waiting == [op : {"create"}, upload : Uploads, path : ModelPaths, sha : Data]
           \cup [op : {"moved"}, id : Id, kind : ModelKinds, source : ModelPaths,
                 sha : Data, stamp : Stamps]

Init ==
  /\ volume = [files |-> [p \in Paths |-> None],
               index |-> [p \in Paths |-> None],
               session |-> [u \in Uploads |-> None],
               parts |-> [u \in Uploads |-> None]]
  /\ call = [c \in Calls |-> Idle]
  /\ crossed = FALSE
  /\ writes = 0
  /\ crashes = 0

----------------------------------------------------------------------------
(* The index.                                                              *)

(* A stamp no file, record or request has: time goes on. *)
Unused(v) ==
  {s \in Stamps :
     /\ \A p \in Paths : v.files[p] # None => v.files[p].stamp # s
     /\ \A p \in Paths : v.index[p] # None =>
          v.index[p].stamp # s /\ v.index[p].id[2] # s
     /\ \A c \in Calls : "id" \in DOMAIN call[c] => call[c].id[2] # s}
Now(v) == CHOOSE s \in Unused(v) : TRUE

Fresh(v, p) == /\ v.index[p] # None
               /\ v.index[p].stamp = v.files[p].stamp

RecordFile(v, p, sha) ==
  [stamp |-> v.files[p].stamp, sha |-> sha, id |-> <<p, v.files[p].stamp>>]

(* mutant: a record that is there gets the new stamp and keeps its checksum *)
Scanned_Restamp(v, kinds) ==
  [v EXCEPT !.index = [p \in Paths |->
     IF Kind(p) \notin kinds \/ v.files[p] = None THEN v.index[p]
     ELSE IF v.index[p] = None THEN RecordFile(v, p, v.files[p].data)
     ELSE [v.index[p] EXCEPT !.stamp = v.files[p].stamp]]]

(* _scan_kind: a file without a fresh record is hashed and gets a new one. *)
Scanned(v, kinds) ==
  [v EXCEPT !.index = [p \in Paths |->
     IF Kind(p) \in kinds /\ v.files[p] # None /\ ~Fresh(v, p)
     THEN RecordFile(v, p, v.files[p].data) ELSE v.index[p]]]

(* mutant: a record counts although its file is gone *)
Copies_Recorded(v, sha) == {p \in Paths : v.index[p] # None /\ v.index[p].sha = sha}

(* _find_by_sha256, after its scan. *)
Copies(v, sha) ==
  {p \in Paths : v.index[p] # None /\ v.index[p].sha = sha /\ v.files[p] # None}

----------------------------------------------------------------------------
(* The work of each call, as the volumes it leaves one after the other.    *)

(* create_upload looks at the destination before it waits for the lock. *)
Create(v, a) ==
  <<[v EXCEPT !.parts[a.upload] = <<>>],
    [v EXCEPT !.parts[a.upload] = <<>>,
              !.session[a.upload] = [state |-> "uploading", path |-> a.path,
                                     sha |-> a.sha, done |-> {}]]>>

(* write_chunk: the chunk has its own checksum right, whatever file it is of. *)
WriteChunk(v, a) ==
  IF \/ v.session[a.upload].state # "uploading"
     \/ v.parts[a.upload] = None
  THEN <<v>>
  ELSE LET part == [v EXCEPT !.parts[a.upload] =
                      [i \in DOMAIN @ \cup {a.chunk} |->
                         IF i = a.chunk THEN a.data ELSE @[i]]]
       IN <<part, [part EXCEPT !.session[a.upload].done = @ \cup {a.chunk}]>>

(* _finish_upload: the chunks go first, then the session is written. *)
Finish(v, u, state) ==
  LET removed == [v EXCEPT !.parts[u] = None]
  IN <<removed, [removed EXCEPT !.session[u].state = state]>>

Assembled(v, u) ==
  IF \A i \in 1..Chunks : v.parts[u][i] = v.session[u].sha
  THEN v.session[u].sha ELSE Broken

HasParts(v, u) == v.parts[u] # None /\ 1..Chunks \subseteq DOMAIN v.parts[u]

(* mutant: the file's checksum is not compared *)
Verified_Never(data, sha) == TRUE

(* The size and checksum of the assembled file. *)
Verified(data, sha) == data = sha

(* mutant: only create_upload's look before the lock counts *)
Occupied_Before(v, p) == FALSE

Occupied(v, p) == v.files[p] # None

Complete(v, a) ==
  LET u == a.upload
      s == v.session[u]
      w == Scanned(v, Kinds)
      placed == [w EXCEPT !.files[s.path] =
                   [data |-> Assembled(w, u), stamp |-> Now(w)]]
      recorded == [placed EXCEPT !.index[s.path] = RecordFile(placed, s.path, s.sha)]
  IN IF s.done # 1..Chunks THEN <<v>>
     ELSE IF Copies(w, s.sha) # {} THEN <<w>> \o Finish(w, u, "completed")
     ELSE IF Occupied(w, s.path) \/ ~HasParts(w, u) THEN <<w>>
     ELSE IF ~Verified(Assembled(w, u), s.sha) THEN <<w>>
     ELSE <<w, placed, recorded>> \o Finish(recorded, u, "completed")

Cancel(v, a) == Finish(v, a.upload, "cancelled")

Holding(v, id) == {p \in Paths : v.index[p] # None /\ v.index[p].id = id}

(* delete_file takes the first record with the id, fresh or not. *)
Delete(v, a) ==
  LET found == {p \in Holding(v, a.id) : v.files[p] # None}
  IN IF found = {} THEN <<v>>
     ELSE LET p == CHOOSE p \in found : TRUE
              unlinked == [v EXCEPT !.files[p] = None]
          IN <<unlinked, [unlinked EXCEPT !.index[p] = None]>>

(* resolve_file, and what index_existing_file does for one kind: a scan.   *)
Resolve(v, a) == <<Scanned(v, Kinds)>>

Found(v, id) == {p \in Holding(Scanned(v, Kinds), id) : v.files[p] # None}

(* move_file once it has the lock again: what it found is in the request. *)
Moved(v, a) ==
  LET target == <<a.kind, a.source[2]>>
      file == v.files[a.source]
      renamed == [v EXCEPT !.files[target] = file, !.files[a.source] = None]
  IN IF Occupied(v, target) \/ file = None THEN <<v>>
     ELSE <<renamed,
            [renamed EXCEPT !.index = [p \in Paths |->
               IF p = a.source THEN None
               ELSE IF p = target
                    THEN [stamp |-> file.stamp, sha |-> a.sha, id |-> a.id]
                    ELSE @[p]]]>>

(* save_project replaces what has the name. *)
Save(v, a) ==
  LET written == [v EXCEPT !.files[a.path] = [data |-> a.sha, stamp |-> Now(v)]]
  IN <<written, Scanned(written, {"projects"})>>

Work(v, a) ==
  CASE a.op = "create"   -> Create(v, a)
    [] a.op = "chunk"    -> WriteChunk(v, a)
    [] a.op = "complete" -> Complete(v, a)
    [] a.op = "cancel"   -> Cancel(v, a)
    [] a.op = "delete"   -> Delete(v, a)
    [] a.op = "resolve"  -> Resolve(v, a)
    [] a.op = "moved"    -> Moved(v, a)
    [] a.op = "save"     -> Save(v, a)

(* move_file between its two stays under the lock. *)
Resolved(v, a) ==
  LET p == CHOOSE p \in Found(v, a.id) : TRUE
  IN [op |-> "moved", id |-> a.id, kind |-> a.kind, source |-> p,
      sha |-> Scanned(v, Kinds).index[p].sha, stamp |-> v.files[p].stamp]

CanMove(v, a) ==
  /\ Found(v, a.id) # {}
  /\ \A p \in Found(v, a.id) : Kind(p) \in ModelKinds \ {a.kind}

----------------------------------------------------------------------------
(* Requests.                                                               *)

Exists(u) == volume.session[u] # None
Ids == {volume.index[p].id : p \in {q \in Paths : volume.index[q] # None}}

Arguments ==
  [op : {"create"}, upload : {u \in Uploads : ~Exists(u)},
   path : {p \in Paths : Kind(p) \in ModelKinds /\ volume.files[p] = None}, sha : Data]
  \cup [op : {"chunk"}, upload : {u \in Uploads : Exists(u)}, chunk : 1..Chunks,
        data : Data]
  \cup [op : {"complete", "cancel"}, upload : {u \in Uploads : Exists(u)}]
  \cup [op : {"delete", "resolve"}, id : Ids]
  \cup [op : {"move"}, id : Ids, kind : ModelKinds]
  \cup [op : {"save"}, path : {"projects"} \X Names, sha : Data]

Writes(v, w) ==
  \E p \in Paths : w.files[p] # None /\ w.files[p] # v.files[p]
                   /\ \A q \in Paths : v.files[q] # w.files[p]

Crosses(v, a) == a.op = "moved" /\ v.files[a.source] # None
                 /\ v.files[a.source].stamp # a.stamp

(* Leaves the volume as far as the call of a got; bound: a stamp is left. *)
Effect(a, w) ==
  /\ Unused(volume) # {}
  /\ Writes(volume, w) => writes < MaxWrites
  /\ writes' = IF Writes(volume, w) THEN writes + 1 ELSE writes
  /\ crossed' = (crossed \/ (Crosses(volume, a) /\ w # volume))
  /\ volume' = w

(* A request gets the lock and nobody comes between. *)
Serve ==
  /\ \E a \in Arguments :
       LET w == Scanned(volume, Kinds)
       IN Effect(a, IF a.op # "move" THEN Last(Work(volume, a))
                    ELSE IF CanMove(volume, a) THEN Last(Moved(w, Resolved(volume, a)))
                    ELSE w)
  /\ UNCHANGED <<call, crashes>>

(* create_upload has looked at the destination and waits for the lock. *)
CreateWaits(c) ==
  /\ call[c] = Idle
  /\ \E a \in Arguments :
       /\ a.op = "create"
       /\ \A d \in Calls : call[d].op = "create" => call[d].upload # a.upload
       /\ call' = [call EXCEPT ![c] = a]
  /\ UNCHANGED <<volume, crossed, writes, crashes>>

(* move_file has resolved its file and waits for the lock again. *)
MoveWaits(c) ==
  /\ call[c] = Idle
  /\ \E a \in Arguments :
       /\ a.op = "move" /\ CanMove(volume, a)
       /\ call' = [call EXCEPT ![c] = Resolved(volume, a)]
  /\ volume' = Scanned(volume, Kinds)
  /\ UNCHANGED <<crossed, writes, crashes>>

(* A request that waited gets the lock. *)
Enter(c) ==
  /\ call[c] # Idle
  /\ Effect(call[c], Last(Work(volume, call[c])))
  /\ call' = [call EXCEPT ![c] = Idle]
  /\ UNCHANGED crashes

(* inventory() of one kind. *)
Inventory ==
  /\ \E k \in Kinds : volume' = Scanned(volume, {k})
  /\ UNCHANGED <<call, crossed, writes, crashes>>

(* The agent stops, in the middle of a call or not, and starts again. *)
Crash ==
  /\ crashes < MaxCrashes
  /\ crashes' = crashes + 1
  /\ \/ UNCHANGED <<volume, crossed, writes>>
     \/ \E a \in {b \in Arguments : b.op # "move"} \cup {call[c] : c \in Calls} :
          /\ a # Idle
          /\ \E i \in 1..(Len(Work(volume, a)) - 1) : Effect(a, Work(volume, a)[i])
  /\ call' = [c \in Calls |-> Idle]

Next ==
  \/ Inventory
  \/ Serve
  \/ \E c \in Calls : CreateWaits(c) \/ MoveWaits(c) \/ Enter(c)
  \/ Crash

Spec == Init /\ [][Next]_vars

----------------------------------------------------------------------------
(* Types; no contents but those somebody asked for are installed: a file   *)
(* whose assembled checksum is not its session's stays in the staging.     *)
TypeOK ==
  /\ volume \in Volume
  /\ call \in [Calls -> Waiting \cup {Idle}]
  /\ crossed \in BOOLEAN
  /\ writes \in 0..MaxWrites
  /\ crashes \in 0..MaxCrashes

(* A record under which a file is not hashed again tells its checksum, so  *)
(* that an inventory, the choice of a model and the detection of           *)
(* duplicates are right -- except after a move that took another file than *)
(* the one it had looked up, because calls that waited for the lock came   *)
(* in between (move_file).                                                 *)
FreshEntryIsTrue ==
  ~crossed => \A p \in Paths :
    volume.files[p] # None /\ Fresh(volume, p) =>
      volume.index[p].sha = volume.files[p].data

(* complete_upload reports success only when a file with the contents is   *)
(* in the workspace, its own or a duplicate, also after restarts.          *)
CompletedIsStored ==
  [][\A u \in Uploads :
       /\ ~crossed'
       /\ volume'.session[u] # None /\ volume'.session[u].state = "completed"
       /\ volume.session[u].state # "completed"
       => \E p \in Paths : /\ volume'.files[p] # None
                           /\ volume'.files[p].data = volume'.session[u].sha]_vars

(* No upload and no move replaces a model file: it is deleted first.       *)
NoOverwrite ==
  [][\A p \in Paths :
       Kind(p) \in ModelKinds /\ volume.files[p] # None /\ volume'.files[p] # None
         => volume'.files[p] = volume.files[p]]_vars
=============================================================================
