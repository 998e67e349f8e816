---------------------------- MODULE UploadsProofs ----------------------------
(***************************************************************************)
(* Theorems about Uploads, for any sets of calls, sessions, names, kinds,  *)
(* contents and stamps, and any number of chunks, writes and restarts.     *)
(***************************************************************************)
EXTENDS Uploads, TLAPS

(* What a stamp says in volume v: two files that have the same one have    *)
(* the same contents, a record with a file's stamp, of whatever path, has  *)
(* its checksum, and the id of a record was made with its stamp.           *)
FilesAgree(v) ==
  \A p, q \in Paths :
    v.files[p] # None /\ v.files[q] # None /\ v.files[p].stamp = v.files[q].stamp
      => v.files[p].data = v.files[q].data
RecordsAgree(v) ==
  \A p, q \in Paths :
    v.index[p] # None /\ v.files[q] # None /\ v.index[p].stamp = v.files[q].stamp
      => v.index[p].sha = v.files[q].data
IdsAgree(v) ==
  \A p \in Paths : v.index[p] # None => v.index[p].id[2] = v.index[p].stamp

(* So does a move that waits, about the file it has found.                 *)
MoveAgrees(v, a) ==
  /\ a.id[2] = a.stamp
  /\ \A q \in Paths : v.files[q] # None /\ v.files[q].stamp = a.stamp
                        => v.files[q].data = a.sha

Agree(v) ==
  /\ FilesAgree(v) /\ RecordsAgree(v) /\ IdsAgree(v)
  /\ \A c \in Calls : call[c].op = "moved" => MoveAgrees(v, call[c])

(* A model file is not replaced between volumes v and w.                   *)
Spared(v, w) ==
  \A p \in Paths :
    Kind(p) \in ModelKinds /\ v.files[p] # None /\ w.files[p] # None
      => w.files[p] = v.files[p]

(* A session that is completed in w and was not in v has its file.         *)
Stored(v, w) ==
  \A u \in Uploads :
    /\ w.session[u] # None /\ w.session[u].state = "completed"
    /\ v.session[u].state # "completed"
    => \E p \in Paths : w.files[p] # None /\ w.files[p].data = w.session[u].sha

(* What every volume is that a call may leave, at its end or by a crash.   *)
Left(v, a) ==
  {w \in Volume :
     /\ Spared(v, w)
     /\ Agree(v) /\ ~(Crosses(v, a) /\ w # v) => Agree(w) /\ Stored(v, w)}

(* The requests that get the lock, as they stand in volume v.              *)
Served ==
  [op : {"create"}, upload : Uploads, path : ModelPaths, sha : Data]
  \cup [op : {"chunk"}, upload : Uploads, chunk : 1..Chunks, data : Data]
  \cup [op : {"complete", "cancel"}, upload : Uploads]
  \cup [op : {"delete", "resolve"}, id : Id]
  \cup [op : {"moved"}, id : Id, kind : ModelKinds, source : ModelPaths,
        sha : Data, stamp : Stamps]
  \cup [op : {"save"}, path : {"projects"} \X Names, sha : Data]

(* A session that the call needs is there, and a move is right.            *)
Ready(v, a) ==
  /\ a.op \in {"chunk", "complete", "cancel"} => v.session[a.upload] # None
  /\ a.op = "moved" /\ Agree(v) => MoveAgrees(v, a)

-----------------------------------------------------------------------------
(* Sequences of volumes.                                                   *)

LEMMA LastIn ==
  ASSUME NEW S, NEW s \in Seq(S), s # <<>>
  PROVE  Last(s) \in S /\ \A i \in 1..Len(s) : s[i] \in S
  BY DEF Last

LEMMA Joined ==
  ASSUME NEW S, NEW s \in Seq(S), NEW t \in Seq(S), s # <<>>
  PROVE  s \o t \in Seq(S) /\ s \o t # <<>>
<1>1. s \o t \in Seq(S) /\ Len(s \o t) = Len(s) + Len(t)
  OBVIOUS
<1>2. Len(s) # 0
  OBVIOUS
<1>3. Len(s \o t) # 0
  BY <1>1, <1>2
<1>. QED
  BY <1>1, <1>3

LEMMA ShortSeqs ==
  ASSUME NEW S
  PROVE  /\ \A x \in S : <<x>> \in Seq(S) /\ <<x>> # <<>>
         /\ \A x, y \in S : <<x, y>> \in Seq(S) /\ <<x, y>> # <<>>
         /\ \A x, y, z \in S : <<x, y, z>> \in Seq(S) /\ <<x, y, z>> # <<>>
  OBVIOUS

-----------------------------------------------------------------------------
(* The changes that calls make to a volume, one file at a time.            *)

(* The parts of a volume.                                                  *)
LEMMA VolumeParts ==
  ASSUME NEW v \in Volume
  PROVE  /\ v.files \in [Paths -> File \cup {None}]
         /\ v.index \in [Paths -> Record \cup {None}]
         /\ v.session \in [Uploads -> Session \cup {None}]
         /\ v.parts \in [Uploads -> Pieces \cup {None}]
  BY DEF Volume

(* A change that leaves files and index as they are.                       *)
LEMMA SameFiles ==
  ASSUME NEW v, NEW w, w.files = v.files, w.index = v.index
  PROVE  Spared(v, w) /\ (Agree(v) => Agree(w))
  BY DEF Spared, Agree, FilesAgree, RecordsAgree, IdsAgree, MoveAgrees

LEMMA ScanKeeps ==
  ASSUME NEW v \in Volume, NEW kinds
  PROVE  /\ Scanned(v, kinds) \in Volume
         /\ Scanned(v, kinds).files = v.files /\ Scanned(v, kinds).session = v.session
         /\ Scanned(v, kinds).parts = v.parts
         /\ Agree(v) => Agree(Scanned(v, kinds))
         /\ Unused(v) \subseteq Unused(Scanned(v, kinds))
<1> DEFINE w == Scanned(v, kinds)
<1>1. /\ w.files = v.files /\ w.session = v.session /\ w.parts = v.parts
      /\ w.index = [p \in Paths |->
            IF Kind(p) \in kinds /\ v.files[p] # None /\ ~Fresh(v, p)
            THEN RecordFile(v, p, v.files[p].data) ELSE v.index[p]]
  BY DEF Scanned, Volume
<1>2. \A p \in Paths : \/ w.index[p] = v.index[p]
                       \/ v.files[p] # None /\ w.index[p] = RecordFile(v, p, v.files[p].data)
  BY <1>1
<1>3. \A p \in Paths : v.files[p] # None =>
        LET r == RecordFile(v, p, v.files[p].data)
        IN  /\ r \in Record /\ r.stamp = v.files[p].stamp /\ r.sha = v.files[p].data
            /\ r.id[2] = v.files[p].stamp
  BY VolumeParts DEF RecordFile, Record, Id, File
<1>4. w \in Volume
  <2>1. w.index \in [Paths -> Record \cup {None}]
    BY <1>1, <1>2, <1>3, VolumeParts
  <2>2. w = [v EXCEPT !.index = w.index]
    BY <1>1 DEF Scanned, Volume
  <2>. QED
    BY <2>1, <2>2 DEF Volume
<1>5. Agree(v) => Agree(w)
  BY <1>1, <1>2, <1>3 DEF Agree, FilesAgree, RecordsAgree, IdsAgree, MoveAgrees
<1>6. Unused(v) \subseteq Unused(w)
  BY <1>1, <1>2, <1>3 DEF Unused
<1>. QED
  BY <1>1, <1>4, <1>5, <1>6

(* A file is written with a stamp of its own.                              *)
LEMMA WriteKeeps ==
  ASSUME call \in [Calls -> Waiting \cup {Idle}],
         NEW v \in Volume, NEW p \in Paths, NEW d \in Data, NEW s \in Unused(v)
  PROVE  LET w == [v EXCEPT !.files[p] = [data |-> d, stamp |-> s]]
         IN  /\ w \in Volume /\ w.files[p] = [data |-> d, stamp |-> s]
             /\ \A q \in Paths \ {p} : w.files[q] = v.files[q]
             /\ w.index = v.index /\ w.session = v.session /\ w.parts = v.parts
             /\ Agree(v) => Agree(w)
<1> DEFINE f == [data |-> d, stamp |-> s]
           w == [v EXCEPT !.files[p] = f]
<1>1. /\ w.files = [v.files EXCEPT ![p] = f]
      /\ w.index = v.index /\ w.session = v.session /\ w.parts = v.parts
  BY DEF Volume
<1>2. f \in File
  BY DEF File, Unused
<1>3. w.files[p] = f /\ \A q \in Paths \ {p} : w.files[q] = v.files[q]
  BY <1>1, VolumeParts
<1>4. w \in Volume
  BY <1>1, <1>2, VolumeParts DEF Volume
<1>5. \A q \in Paths : v.files[q] # None => v.files[q].stamp # s
  BY DEF Unused
<1>6. \A q \in Paths : v.index[q] # None => v.index[q].stamp # s
  BY DEF Unused
<1>7. \A c \in Calls : "id" \in DOMAIN call[c] => call[c].id[2] # s
  BY DEF Unused
<1>8. ASSUME Agree(v)
      PROVE  Agree(w)
  <2>1. FilesAgree(w)
    BY <1>3, <1>5, <1>8 DEF Agree, FilesAgree
  <2>2. RecordsAgree(w) /\ IdsAgree(w)
    BY <1>1, <1>3, <1>6, <1>8 DEF Agree, RecordsAgree, IdsAgree
  <2>3. ASSUME NEW c \in Calls, call[c].op = "moved"
        PROVE  MoveAgrees(w, call[c])
    <3>1. "id" \in DOMAIN call[c]
      BY <2>3 DEF Waiting, Idle
    <3>2. call[c].stamp # s
      BY <1>7, <1>8, <2>3, <3>1 DEF Agree, MoveAgrees
    <3>. QED
      BY <1>3, <1>8, <2>3, <3>2 DEF Agree, MoveAgrees
  <2>. QED
    BY <2>1, <2>2, <2>3 DEF Agree
<1>. QED
  BY <1>1, <1>3, <1>4, <1>8

(* A file is removed.                                                      *)
LEMMA RemoveKeeps ==
  ASSUME NEW v \in Volume, NEW p \in Paths
  PROVE  LET w == [v EXCEPT !.files[p] = None]
         IN  /\ w \in Volume /\ w.index = v.index /\ w.session = v.session
             /\ Spared(v, w) /\ (Agree(v) => Agree(w))
<1> DEFINE w == [v EXCEPT !.files[p] = None]
<1>1. /\ w.files = [v.files EXCEPT ![p] = None]
      /\ w.index = v.index /\ w.session = v.session
  BY DEF Volume
<1>2. w \in Volume
  BY <1>1, VolumeParts DEF Volume
<1>3. \A q \in Paths : w.files[q] # None => w.files[q] = v.files[q]
  BY <1>1, VolumeParts
<1>. QED
  BY <1>1, <1>2, <1>3 DEF Spared, Agree, FilesAgree, RecordsAgree, IdsAgree, MoveAgrees

(* A file is renamed to a path where there is none.                        *)
LEMMA RenameKeeps ==
  ASSUME NEW v \in Volume, NEW p \in Paths, NEW t \in Paths,
         v.files[p] # None, v.files[t] = None
  PROVE  LET w == [v EXCEPT !.files[t] = v.files[p], !.files[p] = None]
         IN  /\ w \in Volume /\ w.index = v.index /\ w.session = v.session
             /\ w.files[t] = v.files[p] /\ w.files[p] = None
             /\ Spared(v, w) /\ (Agree(v) => Agree(w))
<1> DEFINE w == [v EXCEPT !.files[t] = v.files[p], !.files[p] = None]
<1>1. /\ w.files = [[v.files EXCEPT ![t] = v.files[p]] EXCEPT ![p] = None]
      /\ w.index = v.index /\ w.session = v.session
  BY DEF Volume
<1>2. w \in Volume
  BY <1>1, VolumeParts DEF Volume
<1>3. /\ w.files[t] = v.files[p] /\ w.files[p] = None
      /\ \A q \in Paths \ {p, t} : w.files[q] = v.files[q]
  BY <1>1, VolumeParts
<1>. QED
  BY <1>1, <1>2, <1>3 DEF Spared, Agree, FilesAgree, RecordsAgree, IdsAgree, MoveAgrees

(* A record is removed, or becomes that of the file at its path.           *)
LEMMA UnrecordKeeps ==
  ASSUME NEW v \in Volume, NEW p \in Paths
  PROVE  LET w == [v EXCEPT !.index[p] = None]
         IN  /\ w \in Volume /\ w.files = v.files /\ w.session = v.session
             /\ Spared(v, w) /\ (Agree(v) => Agree(w))
<1> DEFINE w == [v EXCEPT !.index[p] = None]
<1>1. /\ w.index = [v.index EXCEPT ![p] = None]
      /\ w.files = v.files /\ w.session = v.session
  BY DEF Volume
<1>2. w \in Volume
  BY <1>1, VolumeParts DEF Volume
<1>3. \A q \in Paths : w.index[q] # None => w.index[q] = v.index[q]
  BY <1>1, VolumeParts
<1>. QED
  BY <1>1, <1>2, <1>3 DEF Spared, Agree, FilesAgree, RecordsAgree, IdsAgree, MoveAgrees

LEMMA RecordKeeps ==
  ASSUME NEW v \in Volume, NEW p \in Paths, v.files[p] \in File
  PROVE  LET w == [v EXCEPT !.index[p] = RecordFile(v, p, v.files[p].data)]
         IN  /\ w \in Volume /\ w.files = v.files /\ w.session = v.session /\ w.parts = v.parts
             /\ Spared(v, w) /\ (Agree(v) => Agree(w))
<1> DEFINE r == RecordFile(v, p, v.files[p].data)
           w == [v EXCEPT !.index[p] = r]
<1>1. /\ w.index = [v.index EXCEPT ![p] = r]
      /\ w.files = v.files /\ w.session = v.session /\ w.parts = v.parts
  BY DEF Volume
<1>2. /\ r \in Record /\ r.stamp = v.files[p].stamp /\ r.sha = v.files[p].data
      /\ r.id[2] = v.files[p].stamp
  BY DEF RecordFile, Record, Id, File
<1>3. w \in Volume
  BY <1>1, <1>2, VolumeParts DEF Volume
<1>4. w.index[p] = r /\ \A q \in Paths \ {p} : w.index[q] = v.index[q]
  BY <1>1, VolumeParts
<1>5. v.files[p] # None
  BY AbsentAssumption
<1>. HIDE DEF r, w
<1>6. Spared(v, w)
  BY <1>1 DEF Spared
<1>7. ASSUME Agree(v) PROVE Agree(w)
  <2>1. FilesAgree(w) /\ \A c \in Calls : call[c].op = "moved" => MoveAgrees(w, call[c])
    BY <1>1, <1>7 DEF Agree, FilesAgree, MoveAgrees
  <2>2. \A q \in Paths : v.files[q] # None /\ v.files[p].stamp = v.files[q].stamp
                          => v.files[p].data = v.files[q].data
    BY <1>5, <1>7 DEF Agree, FilesAgree
  <2>3. RecordsAgree(w)
    BY <1>1, <1>2, <1>4, <1>7, <2>2 DEF Agree, RecordsAgree
  <2>4. IdsAgree(w)
    BY <1>2, <1>4, <1>7 DEF Agree, IdsAgree
  <2>. QED
    BY <2>1, <2>3, <2>4 DEF Agree
<1>. QED
  BY <1>1, <1>3, <1>6, <1>7 DEF r, w

-----------------------------------------------------------------------------
(* What each call leaves.                                                  *)

(* Without a move, and without a session that gets completed.              *)
LEMMA LeftPlain ==
  ASSUME NEW v, NEW w \in Volume, NEW a, a.op # "moved", Spared(v, w),
         Agree(v) => Agree(w),
         \A u \in Uploads : w.session[u] = v.session[u] \/ w.session[u].state # "completed"
  PROVE  w \in Left(v, a)
  BY DEF Left, Stored

LEMMA CreateLeft ==
  ASSUME NEW v \in Volume, NEW a \in Served, a.op = "create"
  PROVE  Create(v, a) \in Seq(Left(v, a)) /\ Create(v, a) # <<>>
<1> DEFINE s == [state |-> "uploading", path |-> a.path, sha |-> a.sha, done |-> {}]
           w1 == [v EXCEPT !.parts[a.upload] = <<>>]
           w2 == [v EXCEPT !.parts[a.upload] = <<>>, !.session[a.upload] = s]
<1>1. a.upload \in Uploads /\ a.path \in Paths /\ a.sha \in Data
  BY DEF Served, ModelPaths, Paths, Kinds
<1>2. s \in Session /\ s.state # "completed"
  BY <1>1 DEF Session
<1>3. <<>> \in Pieces
  <2>1. <<>> \in [{} -> Data]
    OBVIOUS
  <2>. QED
    BY <2>1 DEF Pieces
<1>4. /\ w1.files = v.files /\ w1.index = v.index /\ w1.session = v.session
      /\ w1.parts = [v.parts EXCEPT ![a.upload] = <<>>]
      /\ w2.files = v.files /\ w2.index = v.index
      /\ w2.session = [v.session EXCEPT ![a.upload] = s] /\ w2.parts = w1.parts
  BY DEF Volume
<1>5. w1 \in Volume /\ w2 \in Volume
  BY <1>1, <1>2, <1>3, <1>4, VolumeParts DEF Volume
<1>6. w1 \in Left(v, a) /\ w2 \in Left(v, a)
  <2>1. \A u \in Uploads : w2.session[u] = v.session[u] \/ w2.session[u].state # "completed"
    BY <1>1, <1>2, <1>4, VolumeParts
  <2>. QED
    <3>. HIDE DEF w1, w2, s
    <3>1. Spared(v, w1) /\ (Agree(v) => Agree(w1)) /\ Spared(v, w2) /\ (Agree(v) => Agree(w2))
      BY <1>4, SameFiles
    <3>. QED
      BY <1>4, <1>5, <2>1, <3>1, LeftPlain
<1>. QED
  <2>1. Create(v, a) = <<w1, w2>>
    BY DEF Create
  <2>. HIDE DEF w1, w2
  <2>. QED
    BY <1>6, <2>1, ShortSeqs

LEMMA ChunkLeft ==
  ASSUME NEW v \in Volume, NEW a \in Served, a.op = "chunk", v.session[a.upload] # None
  PROVE  WriteChunk(v, a) \in Seq(Left(v, a)) /\ WriteChunk(v, a) # <<>>
<1> DEFINE u == a.upload
           old == v.parts[u]
           new == [i \in DOMAIN old \cup {a.chunk} |-> IF i = a.chunk THEN a.data ELSE old[i]]
           part == [v EXCEPT !.parts[u] = new]
           noted == [part EXCEPT !.session[u].done = @ \cup {a.chunk}]
<1>1. u \in Uploads /\ a.chunk \in 1..Chunks /\ a.data \in Data
  BY DEF Served
<1>2. v \in Left(v, a)
  BY SameFiles, LeftPlain
<1>3. CASE v.session[u].state # "uploading" \/ v.parts[u] = None
  BY <1>2, <1>3, ShortSeqs DEF WriteChunk
<1>4. CASE v.session[u].state = "uploading" /\ v.parts[u] # None
  <2>1. PICK S \in SUBSET (1..Chunks) : old \in [S -> Data]
    <3>1. old \in Pieces
      BY <1>1, <1>4, VolumeParts
    <3>. QED
      BY <3>1 DEF Pieces
  <2>2. new \in [S \cup {a.chunk} -> Data] /\ S \cup {a.chunk} \in SUBSET (1..Chunks)
    BY <1>1, <2>1
  <2>3. new \in Pieces
    BY <2>2 DEF Pieces
  <2>4. /\ part.files = v.files /\ part.index = v.index /\ part.session = v.session
        /\ part.parts = [v.parts EXCEPT ![u] = new]
    BY DEF Volume
  <2>5. part \in Volume
    BY <1>1, <2>3, <2>4, VolumeParts DEF Volume
  <2>6. /\ noted.files = v.files /\ noted.index = v.index /\ noted.parts = part.parts
        /\ noted.session = [v.session EXCEPT ![u].done = @ \cup {a.chunk}]
    BY <2>4, <2>5 DEF Volume
  <2>7. v.session[u] \in Session
    BY <1>1, VolumeParts
  <2>8. noted \in Volume
    <3>1. [v.session[u] EXCEPT !.done = @ \cup {a.chunk}] \in Session
      BY <1>1, <2>7 DEF Session
    <3>2. noted.session \in [Uploads -> Session \cup {None}]
      BY <1>1, <2>6, <3>1, VolumeParts
    <3>. QED
      BY <2>4, <2>5, <2>6, <3>2, VolumeParts DEF Volume
  <2>9. \A x \in Uploads : noted.session[x] = v.session[x] \/ noted.session[x].state # "completed"
    BY <1>1, <1>4, <2>6, <2>7, VolumeParts DEF Session
  <2>10. part \in Left(v, a) /\ noted \in Left(v, a)
    <3>. HIDE DEF part, noted
    <3>1. /\ Spared(v, part) /\ (Agree(v) => Agree(part))
          /\ Spared(v, noted) /\ (Agree(v) => Agree(noted))
      BY <2>4, <2>6, SameFiles
    <3>. QED
      BY <2>4, <2>5, <2>6, <2>8, <2>9, <3>1, LeftPlain
  <2>11. WriteChunk(v, a) = <<part, noted>>
    BY <1>4 DEF WriteChunk
  <2>. QED
    BY <2>10, <2>11, ShortSeqs
<1>. QED
  BY <1>3, <1>4

(* The chunks and then the session, of a volume v that the call has made.  *)
LEMMA FinishKeeps ==
  ASSUME NEW v \in Volume, NEW u \in Uploads, v.session[u] # None,
         NEW state \in {"completed", "cancelled"}
  PROVE  \E w1, w2 \in Volume :
           /\ Finish(v, u, state) = <<w1, w2>>
           /\ w1.files = v.files /\ w1.index = v.index /\ w1.session = v.session
           /\ w2.files = v.files /\ w2.index = v.index
           /\ w2.session[u].state = state /\ w2.session[u].sha = v.session[u].sha
           /\ \A x \in Uploads \ {u} : w2.session[x] = v.session[x]
<1> DEFINE d1 == [v EXCEPT !.parts[u] = None]
           d2 == [d1 EXCEPT !.session[u].state = state]
<1>1. /\ d1.files = v.files /\ d1.index = v.index /\ d1.session = v.session
      /\ d1.parts = [v.parts EXCEPT ![u] = None]
  BY DEF Volume
<1>2. d1 \in Volume
  BY <1>1, VolumeParts DEF Volume
<1>3. /\ d2.files = v.files /\ d2.index = v.index /\ d2.parts = d1.parts
      /\ d2.session = [v.session EXCEPT ![u].state = state]
  BY <1>1, <1>2 DEF Volume
<1>4. v.session[u] \in Session
  BY VolumeParts
<1>5. d2 \in Volume
  <2>1. [v.session[u] EXCEPT !.state = state] \in Session
    BY <1>4 DEF Session
  <2>. QED
    BY <1>2, <1>3, <2>1, VolumeParts DEF Volume
<1>6. /\ d2.session[u].state = state /\ d2.session[u].sha = v.session[u].sha
      /\ \A x \in Uploads \ {u} : d2.session[x] = v.session[x]
  BY <1>3, <1>4, VolumeParts DEF Session
<1>7. Finish(v, u, state) = <<d1, d2>>
  BY DEF Finish
<1> HIDE DEF d1, d2
<1> USE <1>2, <1>5
<1> WITNESS d1 \in Volume, d2 \in Volume
<1>. QED
  BY <1>1, <1>2, <1>3, <1>5, <1>6, <1>7

LEMMA CancelLeft ==
  ASSUME NEW v \in Volume, NEW a \in Served, a.op = "cancel", v.session[a.upload] # None
  PROVE  Cancel(v, a) \in Seq(Left(v, a)) /\ Cancel(v, a) # <<>>
<1>1. a.upload \in Uploads
  BY DEF Served
<1>2. PICK w1 \in Volume, w2 \in Volume :
        /\ Finish(v, a.upload, "cancelled") = <<w1, w2>>
        /\ w1.files = v.files /\ w1.index = v.index /\ w1.session = v.session
        /\ w2.files = v.files /\ w2.index = v.index
        /\ w2.session[a.upload].state = "cancelled"
        /\ \A x \in Uploads \ {a.upload} : w2.session[x] = v.session[x]
  BY <1>1, FinishKeeps
<1>3. w1 \in Left(v, a) /\ w2 \in Left(v, a)
  <2>1. \A u \in Uploads : w2.session[u] = v.session[u] \/ w2.session[u].state # "completed"
    BY <1>2
  <2>. QED
    BY <1>2, <2>1, SameFiles, LeftPlain
<1>. QED
  <2>1. Cancel(v, a) = <<w1, w2>>
    BY <1>2 DEF Cancel
  <2>. QED
    BY <1>3, <2>1, ShortSeqs

(* A scan of everything leaves fresh records, which tell the contents.     *)
LEMMA ScannedIsFresh ==
  ASSUME NEW v \in Volume, NEW p \in Paths, v.files[p] # None
  PROVE  Scanned(v, Kinds).index[p] # None => Scanned(v, Kinds).index[p].stamp = v.files[p].stamp
<1>1. Scanned(v, Kinds).index[p] =
        IF ~Fresh(v, p) THEN RecordFile(v, p, v.files[p].data) ELSE v.index[p]
  BY DEF Scanned, Volume, Paths, Kind
<1>. QED
  BY <1>1 DEF Fresh, RecordFile

LEMMA CopiesAreThere ==
  ASSUME NEW v \in Volume, Agree(Scanned(v, Kinds)), NEW sha,
         NEW p \in Copies(Scanned(v, Kinds), sha)
  PROVE  p \in Paths /\ v.files[p] # None /\ v.files[p].data = sha
<1> DEFINE w == Scanned(v, Kinds)
<1>1. /\ p \in Paths /\ w.index[p] # None /\ w.index[p].sha = sha
      /\ w.files[p] # None /\ w.files = v.files
  BY ScanKeeps DEF Copies
<1>2. w.index[p].stamp = v.files[p].stamp
  BY <1>1, ScannedIsFresh
<1>. QED
  BY <1>1, <1>2 DEF Agree, RecordsAgree

(* A session is completed in a volume x that has its file.                 *)
LEMMA CompletedLeft ==
  ASSUME NEW v \in Volume, NEW a, a.op # "moved", NEW x \in Volume, NEW u \in Uploads,
         v.session[u] # None, x.session = v.session,
         Spared(v, x), Agree(v) => Agree(x),
         Agree(v) => \E p \in Paths : x.files[p] # None /\ x.files[p].data = v.session[u].sha
  PROVE  Finish(x, u, "completed") \in Seq(Left(v, a)) /\ Finish(x, u, "completed") # <<>>
<1>1. PICK w1 \in Volume, w2 \in Volume :
        /\ Finish(x, u, "completed") = <<w1, w2>>
        /\ w1.files = x.files /\ w1.index = x.index /\ w1.session = x.session
        /\ w2.files = x.files /\ w2.index = x.index
        /\ w2.session[u].state = "completed" /\ w2.session[u].sha = x.session[u].sha
        /\ \A y \in Uploads \ {u} : w2.session[y] = x.session[y]
  BY FinishKeeps
<1>2. Spared(v, w1) /\ Spared(v, w2) /\ (Agree(v) => Agree(w1) /\ Agree(w2))
  BY <1>1, SameFiles DEF Spared
<1>3. w1 \in Left(v, a)
  BY <1>1, <1>2, LeftPlain
<1>4. Agree(v) => Stored(v, w2)
  <2>1. \A y \in Uploads \ {u} : w2.session[y] = v.session[y]
    BY <1>1
  <2>. QED
    BY <1>1, <2>1 DEF Stored
<1>5. w2 \in Left(v, a)
  BY <1>2, <1>4 DEF Left
<1>. QED
  BY <1>1, <1>3, <1>5, ShortSeqs

LEMMA CompleteLeft ==
  ASSUME call \in [Calls -> Waiting \cup {Idle}], NEW v \in Volume, Unused(v) # {},
         NEW a \in Served, a.op = "complete", v.session[a.upload] # None
  PROVE  Complete(v, a) \in Seq(Left(v, a)) /\ Complete(v, a) # <<>>
<1> DEFINE u == a.upload
           s == v.session[u]
           w == Scanned(v, Kinds)
           placed == [w EXCEPT !.files[s.path] = [data |-> Assembled(w, u), stamp |-> Now(w)]]
           recorded == [placed EXCEPT !.index[s.path] = RecordFile(placed, s.path, s.sha)]
<1>1. u \in Uploads
  BY DEF Served
<1>2. s.path \in Paths /\ s.sha \in Data
  BY <1>1, VolumeParts DEF Session
<1>3. w \in Volume /\ w.files = v.files /\ w.session = v.session /\ (Agree(v) => Agree(w))
  BY ScanKeeps
<1>4. Now(w) \in Unused(w)
  BY ScanKeeps DEF Now
<1>5. v \in Left(v, a) /\ w \in Left(v, a) /\ Spared(v, w)
  BY <1>3, SameFiles, LeftPlain DEF Spared
<1>6. CASE s.done # 1..Chunks
  BY <1>5, <1>6, ShortSeqs DEF Complete
<1>7. CASE s.done = 1..Chunks /\ Copies(w, s.sha) # {}
  <2>1. Agree(v) => \E p \in Paths : w.files[p] # None /\ w.files[p].data = s.sha
    BY <1>3, <1>7, CopiesAreThere DEF Copies
  <2>2. /\ Finish(w, u, "completed") \in Seq(Left(v, a))
        /\ <<w>> \in Seq(Left(v, a)) /\ <<w>> # <<>>
    BY <1>1, <1>3, <1>5, <2>1, CompletedLeft, ShortSeqs
  <2>3. Complete(v, a) = <<w>> \o Finish(w, u, "completed")
    BY <1>7 DEF Complete
  <2>. QED
    BY <2>2, <2>3, Joined
<1>8. CASE /\ s.done = 1..Chunks /\ Copies(w, s.sha) = {}
           /\ Occupied(w, s.path) \/ ~HasParts(w, u) \/ ~Verified(Assembled(w, u), s.sha)
  <2>1. Complete(v, a) = <<w>>
    BY <1>8 DEF Complete
  <2>. QED
    BY <1>5, <2>1, ShortSeqs
<1>9. CASE /\ s.done = 1..Chunks /\ Copies(w, s.sha) = {}
           /\ ~(Occupied(w, s.path) \/ ~HasParts(w, u)) /\ Verified(Assembled(w, u), s.sha)
  <2>1. Assembled(w, u) = s.sha /\ w.files[s.path] = None
    BY <1>9 DEF Verified, Occupied
  <2>2. /\ placed \in Volume /\ placed.files[s.path] = [data |-> s.sha, stamp |-> Now(w)]
        /\ \A q \in Paths \ {s.path} : placed.files[q] = w.files[q]
        /\ placed.session = w.session /\ (Agree(w) => Agree(placed))
    BY <1>2, <1>3, <1>4, <2>1, WriteKeeps
  <2>3. placed.files[s.path] \in File /\ placed.files[s.path].data = s.sha
    BY <1>2, <1>4, <2>2 DEF Unused, File
  <2>4. /\ recorded \in Volume /\ recorded.files = placed.files
        /\ recorded.session = placed.session /\ (Agree(placed) => Agree(recorded))
    <3> HIDE DEF placed
    <3>1. recorded = [placed EXCEPT !.index[s.path] =
                        RecordFile(placed, s.path, placed.files[s.path].data)]
      BY <2>3
    <3> HIDE DEF recorded
    <3>. QED
      BY <1>2, <2>2, <2>3, <3>1, RecordKeeps
  <2>5. Spared(v, placed) /\ Spared(v, recorded)
    BY <1>3, <2>1, <2>2, <2>4 DEF Spared
  <2>6. placed \in Left(v, a) /\ recorded \in Left(v, a)
    BY <1>3, <2>2, <2>4, <2>5, LeftPlain
  <2>7. recorded.files[s.path] # None /\ recorded.files[s.path].data = s.sha
    BY <2>3, <2>4, AbsentAssumption
  <2>8. Finish(recorded, u, "completed") \in Seq(Left(v, a))
    BY <1>1, <1>2, <1>3, <2>2, <2>4, <2>5, <2>7, CompletedLeft
  <2>9. Complete(v, a) = <<w, placed, recorded>> \o Finish(recorded, u, "completed")
    BY <1>9 DEF Complete
  <2>10. <<w, placed, recorded>> \in Seq(Left(v, a)) /\ <<w, placed, recorded>> # <<>>
    <3> HIDE DEF w, placed, recorded
    <3>. QED
      BY <1>5, <2>6, ShortSeqs
  <2> HIDE DEF w, placed, recorded
  <2>. QED
    BY <2>8, <2>9, <2>10, Joined
<1>. QED
  BY <1>6, <1>7, <1>8, <1>9

LEMMA DeleteLeft ==
  ASSUME NEW v \in Volume, NEW a \in Served, a.op = "delete"
  PROVE  Delete(v, a) \in Seq(Left(v, a)) /\ Delete(v, a) # <<>>
<1> DEFINE found == {p \in Holding(v, a.id) : v.files[p] # None}
           p == CHOOSE p \in found : TRUE
           unlinked == [v EXCEPT !.files[p] = None]
           gone == [unlinked EXCEPT !.index[p] = None]
<1>1. v \in Left(v, a)
  BY SameFiles, LeftPlain
<1>2. CASE found = {}
  BY <1>1, <1>2, ShortSeqs DEF Delete
<1>3. CASE found # {}
  <2>1. p \in Paths
    BY <1>3 DEF Holding
  <2>2. /\ unlinked \in Volume /\ unlinked.files = [v.files EXCEPT ![p] = None]
        /\ unlinked.session = v.session /\ Spared(v, unlinked)
        /\ Agree(v) => Agree(unlinked)
    BY <2>1, RemoveKeeps DEF Volume
  <2>3. /\ gone \in Volume /\ gone.files = unlinked.files /\ gone.session = v.session
        /\ Agree(v) => Agree(gone)
    BY <2>1, <2>2, UnrecordKeeps
  <2>4. Spared(v, gone)
    BY <2>2, <2>3 DEF Spared
  <2>5. unlinked \in Left(v, a) /\ gone \in Left(v, a)
    BY <2>2, <2>3, <2>4, LeftPlain
  <2>6. Delete(v, a) = <<unlinked, gone>>
    BY <1>3 DEF Delete
  <2>. QED
    BY <2>5, <2>6, ShortSeqs
<1>. QED
  BY <1>2, <1>3

LEMMA ResolveLeft ==
  ASSUME NEW v \in Volume, NEW a \in Served, a.op = "resolve"
  PROVE  Resolve(v, a) \in Seq(Left(v, a)) /\ Resolve(v, a) # <<>>
<1>1. Scanned(v, Kinds) \in Left(v, a)
  BY ScanKeeps, LeftPlain DEF Spared
<1>. QED
  BY <1>1, ShortSeqs DEF Resolve

LEMMA SaveLeft ==
  ASSUME call \in [Calls -> Waiting \cup {Idle}], NEW v \in Volume, Unused(v) # {},
         NEW a \in Served, a.op = "save"
  PROVE  Save(v, a) \in Seq(Left(v, a)) /\ Save(v, a) # <<>>
<1> DEFINE written == [v EXCEPT !.files[a.path] = [data |-> a.sha, stamp |-> Now(v)]]
           w == Scanned(written, {"projects"})
<1>1. a.path \in Paths /\ Kind(a.path) \notin ModelKinds /\ a.sha \in Data
  BY DistinctAssumption DEF Served, Paths, Kinds, Kind
<1>2. /\ written \in Volume /\ written.session = v.session
      /\ \A q \in Paths \ {a.path} : written.files[q] = v.files[q]
      /\ Agree(v) => Agree(written)
  BY <1>1, WriteKeeps DEF Now
<1>3. /\ w \in Volume /\ w.session = v.session /\ w.files = written.files
      /\ Agree(v) => Agree(w)
  BY <1>2, ScanKeeps
<1>4. Spared(v, written) /\ Spared(v, w)
  BY <1>1, <1>2, <1>3 DEF Spared
<1>5. written \in Left(v, a) /\ w \in Left(v, a)
  BY <1>2, <1>3, <1>4, LeftPlain
<1>. QED
  BY <1>5, ShortSeqs DEF Save


(* A file that is moved keeps its stamp, and its new record has the        *)
(* checksum that was looked up: that of the file, unless another file has  *)
(* come to its path in the meantime.                                       *)
LEMMA MovedLeft ==
  ASSUME NEW v \in Volume, NEW a, a.op = "moved", a.id \in Id, a.kind \in ModelKinds,
         a.source \in ModelPaths, a.sha \in Data, Agree(v) => MoveAgrees(v, a)
  PROVE  Moved(v, a) \in Seq(Left(v, a)) /\ Moved(v, a) # <<>>
<1> DEFINE target == <<a.kind, a.source[2]>>
           file == v.files[a.source]
           renamed == [v EXCEPT !.files[target] = file, !.files[a.source] = None]
           record == [stamp |-> file.stamp, sha |-> a.sha, id |-> a.id]
           index == [p \in Paths |-> IF p = a.source THEN None
                                     ELSE IF p = target THEN record
                                     ELSE renamed.index[p]]
           last == [renamed EXCEPT !.index = index]
<1>1. a.source \in Paths /\ target \in Paths
  BY DEF ModelPaths, Paths, Kinds
<1>2. v \in Left(v, a)
  BY SameFiles DEF Left, Stored
<1>3. CASE Occupied(v, target) \/ file = None
  <2>1. Moved(v, a) = <<v>>
    BY <1>3 DEF Moved
  <2>. QED
    BY <1>2, <2>1, ShortSeqs
<1>4. CASE v.files[target] = None /\ file # None
  <2>1. /\ renamed \in Volume /\ renamed.index = v.index /\ renamed.session = v.session
        /\ renamed.files[target] = file /\ renamed.files[a.source] = None
        /\ Spared(v, renamed) /\ (Agree(v) => Agree(renamed))
    BY <1>1, <1>4, RenameKeeps
  <2>2. \A p \in Paths : renamed.files[p] # None =>
          \E q \in Paths : v.files[q] = renamed.files[p]
    <3>1. renamed.files = [[v.files EXCEPT ![target] = file] EXCEPT ![a.source] = None]
      BY DEF Volume
    <3>. QED
      BY <1>1, <3>1, VolumeParts
  <2> HIDE DEF renamed
  <2>3. /\ last.files = renamed.files /\ last.session = v.session
        /\ last.parts = renamed.parts /\ last.index = index
    BY <2>1 DEF Volume
  <2>4. file \in File /\ record \in Record
    BY <1>1, <1>4, VolumeParts DEF File, Record
  <2>5. last \in Volume
    <3>1. index \in [Paths -> Record \cup {None}]
      BY <2>1, <2>4, VolumeParts
    <3>. QED
      BY <2>1, <2>3, <3>1, VolumeParts DEF Volume
  <2>6. Spared(v, last)
    BY <2>1, <2>3 DEF Spared
  <2>7. Stored(v, renamed) /\ Stored(v, last)
    BY <2>1, <2>3 DEF Stored
  <2>8. ASSUME Agree(v), file.stamp = a.stamp
        PROVE  Agree(last)
    <3>1. MoveAgrees(v, a) /\ Agree(renamed)
      BY <2>1, <2>8
    <3>2. \A p \in Paths : \/ last.index[p] = None \/ last.index[p] = v.index[p]
                           \/ last.index[p] = record
      BY <2>1, <2>3
    <3>3. \A q \in Paths : last.files[q] # None /\ last.files[q].stamp = record.stamp
                             => last.files[q].data = record.sha
      BY <2>2, <2>3, <2>8, <3>1 DEF MoveAgrees
    <3>4. record.id[2] = record.stamp
      BY <2>8, <3>1 DEF MoveAgrees
    <3> HIDE DEF record, last
    <3>5. RecordsAgree(last) /\ IdsAgree(last)
      BY <2>1, <2>3, <3>1, <3>2, <3>3, <3>4 DEF Agree, RecordsAgree, IdsAgree
    <3>6. FilesAgree(last)
      BY <2>3, <3>1 DEF Agree, FilesAgree
    <3>7. ASSUME NEW c \in Calls, call[c].op = "moved"
          PROVE  MoveAgrees(last, call[c])
      BY <2>3, <3>1, <3>7 DEF Agree, MoveAgrees
    <3>. QED
      BY <3>5, <3>6, <3>7 DEF Agree
  <2>9. last # v
    <3>1. v.files[a.source] # last.files[a.source]
      BY <1>4, <2>1, <2>3
    <3>. QED
      BY <3>1
  <2>10. renamed \in Left(v, a) /\ last \in Left(v, a)
    BY <1>4, <2>1, <2>5, <2>6, <2>7, <2>8, <2>9 DEF Left, Crosses
  <2>11. Moved(v, a) = <<renamed, last>>
    BY <1>4 DEF Moved, Occupied, renamed
  <2> HIDE DEF last
  <2>. QED
    BY <2>10, <2>11, ShortSeqs
<1>. QED
  BY <1>3, <1>4 DEF Occupied

(* What any call leaves, on its way and at its end.                        *)
LEMMA WorkLeft ==
  ASSUME call \in [Calls -> Waiting \cup {Idle}], NEW v \in Volume, Unused(v) # {},
         NEW a \in Served, Ready(v, a)
  PROVE  Work(v, a) \in Seq(Left(v, a)) /\ Work(v, a) # <<>>
<1>1. CASE a.op = "create"
  BY <1>1, CreateLeft DEF Work
<1>2. CASE a.op = "chunk"
  BY <1>2, ChunkLeft DEF Work, Ready
<1>3. CASE a.op = "complete"
  BY <1>3, CompleteLeft DEF Work, Ready
<1>4. CASE a.op = "cancel"
  BY <1>4, CancelLeft DEF Work, Ready
<1>5. CASE a.op = "delete"
  BY <1>5, DeleteLeft DEF Work
<1>6. CASE a.op = "resolve"
  BY <1>6, ResolveLeft DEF Work
<1>7. CASE a.op = "moved"
  <2>1. a.id \in Id /\ a.kind \in ModelKinds /\ a.source \in ModelPaths /\ a.sha \in Data
    BY <1>7 DEF Served
  <2>2. Work(v, a) = Moved(v, a)
    BY <1>7 DEF Work
  <2>. QED
    BY <1>7, <2>1, <2>2, MovedLeft DEF Ready
<1>8. CASE a.op = "save"
  BY <1>8, SaveLeft DEF Work
<1>. QED
  BY <1>1, <1>2, <1>3, <1>4, <1>5, <1>6, <1>7, <1>8 DEF Served

-----------------------------------------------------------------------------
(* Requests.                                                               *)

LEMMA RequestsServed ==
  ASSUME volume \in Volume, NEW a \in Arguments
  PROVE  /\ a.op # "move" => a \in Served /\ Ready(volume, a)
         /\ a.op = "create" => a \in Waiting
         /\ a.op = "move" => a.id \in Id /\ a.kind \in ModelKinds
<1>1. Ids \subseteq Id
  BY VolumeParts DEF Ids, Record
<1>2. {p \in Paths : Kind(p) \in ModelKinds /\ volume.files[p] = None} \subseteq ModelPaths
  BY DEF Paths, Kinds, ModelPaths, Kind
<1>. QED
  BY <1>1, <1>2 DEF Arguments, Served, Waiting, Ready, Exists

(* What move_file finds is there, and its record tells what it is.         *)
LEMMA ResolvedAgrees ==
  ASSUME NEW v \in Volume, NEW a, a.id \in Id, a.kind \in ModelKinds, CanMove(v, a)
  PROVE  LET r == Resolved(v, a)
         IN  /\ r \in Waiting /\ r.op = "moved" /\ r.source \in ModelPaths
             /\ r.id \in Id /\ r.kind \in ModelKinds /\ r.sha \in Data
             /\ v.files[r.source] # None /\ r.stamp = v.files[r.source].stamp
             /\ Agree(Scanned(v, Kinds)) => MoveAgrees(Scanned(v, Kinds), r)
<1> DEFINE w == Scanned(v, Kinds)
           p == CHOOSE p \in Found(v, a.id) : TRUE
           r == Resolved(v, a)
<1>1. p \in Found(v, a.id) /\ Kind(p) \in ModelKinds
  BY DEF CanMove
<1>2. r = [op |-> "moved", id |-> a.id, kind |-> a.kind, source |-> p,
           sha |-> w.index[p].sha, stamp |-> v.files[p].stamp]
  BY DEF Resolved
<1> HIDE DEF r, p
<1>3. /\ p \in ModelPaths /\ p \in Paths /\ v.files[p] # None
      /\ w.index[p] # None /\ w.index[p].id = a.id
  BY <1>1 DEF Found, Holding, Paths, ModelPaths, Kinds, Kind
<1>4. w \in Volume /\ w.files = v.files
  BY ScanKeeps
<1>5. w.index[p].stamp = v.files[p].stamp
  BY <1>3, ScannedIsFresh
<1>6. v.files[p].stamp \in Stamps /\ w.index[p].sha \in Data
  <2>1. v.files[p] \in File
    BY <1>3, VolumeParts
  <2>2. w.index[p] \in Record
    BY <1>3, <1>4, VolumeParts
  <2>3. \A f \in File : f.stamp \in Stamps
    BY DEF File
  <2>4. \A x \in Record : x.sha \in Data
    BY DEF Record
  <2>. QED
    BY <2>1, <2>2, <2>3, <2>4
<1>7. /\ r.op = "moved" /\ r.id = a.id /\ r.kind = a.kind /\ r.source = p
      /\ r.sha = w.index[p].sha /\ r.stamp = v.files[p].stamp
  BY <1>2
<1>8. r \in Waiting
  BY <1>2, <1>3, <1>6 DEF Waiting
<1>9. Agree(w) => MoveAgrees(w, r)
  BY <1>3, <1>4, <1>5, <1>7 DEF Agree, IdsAgree, RecordsAgree, MoveAgrees
<1>. QED
  BY <1>3, <1>6, <1>7, <1>8, <1>9 DEF r

(* A move that nobody comes between.                                       *)
LEMMA MovedAtOnce ==
  ASSUME NEW v \in Volume, NEW a, a.id \in Id, a.kind \in ModelKinds, CanMove(v, a),
         a.op = "move"
  PROVE  Last(Moved(Scanned(v, Kinds), Resolved(v, a))) \in Left(v, a)
<1> DEFINE w == Scanned(v, Kinds)
           r == Resolved(v, a)
           x == Last(Moved(w, r))
<1>1. /\ r.op = "moved" /\ r.source \in ModelPaths
      /\ r.id \in Id /\ r.kind \in ModelKinds /\ r.sha \in Data
      /\ v.files[r.source] # None /\ r.stamp = v.files[r.source].stamp
      /\ Agree(w) => MoveAgrees(w, r)
  BY ResolvedAgrees
<1>2. /\ w \in Volume /\ w.files = v.files /\ w.session = v.session
      /\ Agree(v) => Agree(w)
  BY ScanKeeps
<1> HIDE DEF w, r
<1>3. ~Crosses(w, r)
  BY <1>1, <1>2 DEF Crosses
<1>4. x \in Left(w, r)
  BY <1>1, <1>2, MovedLeft, LastIn
<1>5. Spared(v, x) /\ (Agree(v) => Agree(x) /\ Stored(v, x))
  BY <1>2, <1>3, <1>4 DEF Left, Spared, Stored
<1>. QED
  BY <1>4, <1>5 DEF Left, w, r
-----------------------------------------------------------------------------
(* The steps.                                                              *)

(* The inductive invariant: stamps, records and ids agree until a move     *)
(* takes another file than the one it had looked up.                       *)
StampInv == TypeOK /\ (~crossed => Agree(volume))

(* What a step does: the invariant, and what it may do to the files.       *)
Kept == /\ volume' \in Volume /\ crossed' \in BOOLEAN /\ writes' \in 0..MaxWrites
        /\ Spared(volume, volume')
        /\ ~crossed' => ~crossed /\ Agree(volume') /\ Stored(volume, volume')

LEMMA EffectKeeps ==
  ASSUME StampInv, NEW a, NEW w \in Left(volume, a), Effect(a, w)
  PROVE  Kept
<1>1. w \in Volume /\ Spared(volume, w) /\ volume' = w
  BY DEF Left, Effect
<1>2. writes' \in 0..MaxWrites
  BY BoundsAssumption DEF StampInv, TypeOK, Effect
<1>3. crossed' = (crossed \/ (Crosses(volume, a) /\ w # volume))
  BY DEF Effect
<1>4. ASSUME ~crossed'
      PROVE  ~crossed /\ Agree(w) /\ Stored(volume, w)
  BY <1>3, <1>4 DEF StampInv, Left
<1>5. crossed' \in BOOLEAN
  BY <1>3
<1>. QED
  BY <1>1, <1>2, <1>4, <1>5 DEF Kept

(* A scan alone.                                                           *)
LEMMA ScanStepKeeps ==
  ASSUME StampInv, NEW kinds, volume' = Scanned(volume, kinds),
         UNCHANGED <<crossed, writes>>
  PROVE  Kept
  BY ScanKeeps DEF Kept, StampInv, TypeOK, Spared, Stored

LEMMA ServeKeeps ==
  ASSUME StampInv, Serve
  PROVE  Kept
<1> DEFINE w == Scanned(volume, Kinds)
           Result(a) == IF a.op # "move" THEN Last(Work(volume, a))
                        ELSE IF CanMove(volume, a)
                             THEN Last(Moved(w, Resolved(volume, a)))
                        ELSE w
<1>1. PICK a \in Arguments : Effect(a, Result(a))
  BY DEF Serve
<1>2. volume \in Volume /\ call \in [Calls -> Waiting \cup {Idle}]
  BY DEF StampInv, TypeOK
<1>3. Unused(volume) # {}
  BY <1>1 DEF Effect
<1>4. Result(a) \in Left(volume, a)
  <2>1. CASE a.op # "move"
    <3>1. Work(volume, a) \in Seq(Left(volume, a)) /\ Work(volume, a) # <<>>
      BY <1>2, <1>3, <2>1, RequestsServed, WorkLeft
    <3>. QED
      BY <2>1, <3>1, LastIn
  <2>2. CASE a.op = "move" /\ CanMove(volume, a)
    BY <1>2, <2>2, RequestsServed, MovedAtOnce
  <2>3. CASE a.op = "move" /\ ~CanMove(volume, a)
    <3>1. w \in Left(volume, a)
      BY <1>2, <2>3, ScanKeeps, LeftPlain DEF Spared
    <3>. QED
      BY <2>3, <3>1
  <2>. QED
    BY <2>1, <2>2, <2>3
<1> HIDE DEF Result
<1>. QED
  BY <1>1, <1>4, EffectKeeps

(* What waits is right for the volume, and so is what it leaves.           *)
LEMMA WaitingLeft ==
  ASSUME StampInv, Unused(volume) # {}, NEW c \in Calls, call[c] # Idle
  PROVE  /\ Work(volume, call[c]) \in Seq(Left(volume, call[c]))
         /\ Work(volume, call[c]) # <<>>
<1>1. volume \in Volume /\ call \in [Calls -> Waiting \cup {Idle}]
  BY DEF StampInv, TypeOK
<1>2. call[c] \in Waiting
  BY <1>1
<1>3. call[c] \in Served /\ Ready(volume, call[c])
  BY <1>2 DEF Waiting, Served, Ready, Agree
<1>. QED
  BY <1>1, <1>2, <1>3, WorkLeft

LEMMA EnterKeeps ==
  ASSUME StampInv, NEW c \in Calls, Enter(c)
  PROVE  Kept
<1>1. call[c] # Idle /\ Effect(call[c], Last(Work(volume, call[c])))
  BY DEF Enter
<1>2. Last(Work(volume, call[c])) \in Left(volume, call[c])
  BY <1>1, WaitingLeft, LastIn DEF Effect
<1>. QED
  BY <1>1, <1>2, EffectKeeps

LEMMA CrashKeeps ==
  ASSUME StampInv, Crash
  PROVE  Kept
<1>1. volume \in Volume /\ call \in [Calls -> Waiting \cup {Idle}]
  BY DEF StampInv, TypeOK
<1>2. CASE UNCHANGED <<volume, crossed, writes>>
  BY <1>2 DEF Kept, StampInv, TypeOK, Spared, Stored
<1>3. ASSUME NEW a \in {b \in Arguments : b.op # "move"} \cup {call[c] : c \in Calls},
             a # Idle,
             NEW i \in 1..(Len(Work(volume, a)) - 1), Effect(a, Work(volume, a)[i])
      PROVE  Kept
  <2>1. Unused(volume) # {}
    BY <1>3 DEF Effect
  <2>2. Work(volume, a) \in Seq(Left(volume, a)) /\ Work(volume, a) # <<>>
    <3>1. CASE a \in {b \in Arguments : b.op # "move"}
      BY <1>1, <2>1, <3>1, RequestsServed, WorkLeft
    <3>2. CASE a \in {call[c] : c \in Calls}
      BY <1>3, <2>1, <3>2, WaitingLeft
    <3>. QED
      BY <3>1, <3>2
  <2>3. i \in 1..Len(Work(volume, a))
    BY <1>3, <2>2
  <2>4. Work(volume, a)[i] \in Left(volume, a)
    BY <2>2, <2>3, LastIn
  <2>. QED
    BY <1>3, <2>4, EffectKeeps
<1>. QED
  BY <1>2, <1>3 DEF Crash

LEMMA StepKeeps ==
  ASSUME StampInv, [Next]_vars
  PROVE  Kept
<1>1. CASE Inventory
  BY <1>1, ScanStepKeeps DEF Inventory
<1>2. CASE Serve
  BY <1>2, ServeKeeps
<1>3. ASSUME NEW c \in Calls, CreateWaits(c)
      PROVE  Kept
  BY <1>3 DEF CreateWaits, Kept, StampInv, TypeOK, Spared, Stored
<1>4. ASSUME NEW c \in Calls, MoveWaits(c)
      PROVE  Kept
  BY <1>4, ScanStepKeeps DEF MoveWaits
<1>5. ASSUME NEW c \in Calls, Enter(c)
      PROVE  Kept
  BY <1>5, EnterKeeps
<1>6. CASE Crash
  BY <1>6, CrashKeeps
<1>7. CASE UNCHANGED vars
  BY <1>7 DEF vars, Kept, StampInv, TypeOK, Spared, Stored
<1>. QED
  BY <1>1, <1>2, <1>3, <1>4, <1>5, <1>6, <1>7 DEF Next

(* The requests that wait after a step, those of a move right.             *)
LEMMA CallsKept ==
  ASSUME StampInv, [Next]_vars
  PROVE  /\ call' \in [Calls -> Waiting \cup {Idle}] /\ crashes' \in 0..MaxCrashes
         /\ \A c \in Calls : call'[c].op = "moved" =>
              \/ call'[c] = call[c]
              \/ Agree(volume') => MoveAgrees(volume', call'[c])
<1>1. volume \in Volume /\ call \in [Calls -> Waiting \cup {Idle}]
  BY DEF StampInv, TypeOK
<1>2. Idle.op # "moved"
  BY DEF Idle
<1>3. CASE Inventory \/ Serve \/ UNCHANGED vars
  BY <1>1, <1>3 DEF Inventory, Serve, vars, StampInv, TypeOK
<1>4. ASSUME NEW c \in Calls, CreateWaits(c)
      PROVE  /\ call' \in [Calls -> Waiting \cup {Idle}] /\ crashes' \in 0..MaxCrashes
             /\ \A d \in Calls : call'[d].op = "moved" => call'[d] = call[d]
  <2>1. PICK a \in Arguments : a.op = "create" /\ call' = [call EXCEPT ![c] = a]
    BY <1>4 DEF CreateWaits
  <2>2. a \in Waiting
    BY <1>1, <2>1, RequestsServed
  <2>. QED
    BY <1>1, <1>4, <2>1, <2>2 DEF CreateWaits, StampInv, TypeOK
<1>5. ASSUME NEW c \in Calls, MoveWaits(c)
      PROVE  /\ call' \in [Calls -> Waiting \cup {Idle}] /\ crashes' \in 0..MaxCrashes
             /\ \A d \in Calls : call'[d].op = "moved" =>
                  \/ call'[d] = call[d]
                  \/ Agree(volume') => MoveAgrees(volume', call'[d])
  <2>1. PICK a \in Arguments :
          /\ a.op = "move" /\ CanMove(volume, a)
          /\ call' = [call EXCEPT ![c] = Resolved(volume, a)]
    BY <1>5 DEF MoveWaits
  <2>2. a.id \in Id /\ a.kind \in ModelKinds
    BY <1>1, <2>1, RequestsServed
  <2>3. /\ Resolved(volume, a) \in Waiting
        /\ Agree(Scanned(volume, Kinds)) =>
             MoveAgrees(Scanned(volume, Kinds), Resolved(volume, a))
    BY <1>1, <2>1, <2>2, ResolvedAgrees
  <2>4. volume' = Scanned(volume, Kinds) /\ crashes' = crashes
    BY <1>5 DEF MoveWaits
  <2>. QED
    BY <1>1, <2>1, <2>3, <2>4 DEF StampInv, TypeOK
<1>6. ASSUME NEW c \in Calls, Enter(c)
      PROVE  /\ call' \in [Calls -> Waiting \cup {Idle}] /\ crashes' \in 0..MaxCrashes
             /\ \A d \in Calls : call'[d].op = "moved" => call'[d] = call[d]
  BY <1>1, <1>2, <1>6 DEF Enter, StampInv, TypeOK
<1>7. CASE Crash
  BY <1>2, <1>7, BoundsAssumption DEF Crash, StampInv, TypeOK
<1>. QED
  BY <1>3, <1>4, <1>5, <1>6, <1>7 DEF Next

LEMMA StampInvStep == StampInv /\ [Next]_vars => StampInv'
<1> SUFFICES ASSUME StampInv, [Next]_vars
             PROVE  StampInv'
  OBVIOUS
<1>1. Kept
  BY StepKeeps
<1>2. TypeOK'
  BY <1>1, CallsKept DEF Kept, TypeOK
<1>3. ASSUME ~crossed'
      PROVE  Agree(volume)'
  <2>1. Agree(volume')
    BY <1>1, <1>3 DEF Kept
  <2>2. ASSUME NEW c \in Calls, call'[c].op = "moved"
        PROVE  MoveAgrees(volume', call'[c])
    BY <2>1, <2>2, CallsKept DEF Agree
  <2>. QED
    BY <2>1, <2>2 DEF Agree, FilesAgree, RecordsAgree, IdsAgree, MoveAgrees
<1>. QED
  BY <1>2, <1>3 DEF StampInv

LEMMA StampInvInit == Init => StampInv
<1> SUFFICES ASSUME Init
             PROVE  StampInv
  OBVIOUS
<1>1. volume \in Volume
  BY DEF Init, Volume
<1>2. TypeOK
  <2>1. call \in [Calls -> Waiting \cup {Idle}]
    BY DEF Init
  <2>2. writes \in 0..MaxWrites /\ crashes \in 0..MaxCrashes
    BY BoundsAssumption DEF Init
  <2>3. crossed \in BOOLEAN
    BY DEF Init
  <2>. QED
    BY <1>1, <2>1, <2>2, <2>3 DEF TypeOK
<1>3. Agree(volume)
  <2>1. \A p \in Paths : volume.files[p] = None /\ volume.index[p] = None
    BY DEF Init
  <2>2. \A c \in Calls : call[c].op # "moved"
    BY DEF Init, Idle
  <2>. QED
    BY <2>1, <2>2 DEF Agree, FilesAgree, RecordsAgree, IdsAgree
<1>. QED
  BY <1>2, <1>3 DEF StampInv

-----------------------------------------------------------------------------
(* The theorems.                                                           *)

(* Stamps, records, ids and the requests that wait agree, whatever calls   *)
(* come between and wherever the agent stops, until a move takes another   *)
(* file than the one it had looked up.                                     *)
THEOREM StampsAgree == Spec => []StampInv
  BY StampInvInit, StampInvStep, PTL DEF Spec

(* Types; no contents but those somebody asked for are installed.          *)
THEOREM TypeCorrect == Spec => []TypeOK
<1>1. StampInv => TypeOK
  BY DEF StampInv
<1>. QED
  BY <1>1, StampsAgree, PTL

(* A record under which a file is not hashed again tells its checksum.     *)
THEOREM FreshEntriesAreTrue == Spec => []FreshEntryIsTrue
<1>1. StampInv => FreshEntryIsTrue
  BY DEF StampInv, FreshEntryIsTrue, Fresh, Agree, RecordsAgree
<1>. QED
  BY <1>1, StampsAgree, PTL

(* An upload completes only when a file with its contents is there.        *)
THEOREM CompletedUploadsAreStored == Spec => CompletedIsStored
<1>1. StampInv /\ [Next]_vars
        => [\A u \in Uploads :
              /\ ~crossed'
              /\ volume'.session[u] # None /\ volume'.session[u].state = "completed"
              /\ volume.session[u].state # "completed"
              => \E p \in Paths : /\ volume'.files[p] # None
                                  /\ volume'.files[p].data = volume'.session[u].sha]_vars
  BY StepKeeps DEF Kept, Stored
<1>. QED
  BY <1>1, StampsAgree, PTL DEF Spec, CompletedIsStored

(* No upload and no move replaces a model file.                            *)
THEOREM ModelFilesAreNotReplaced == Spec => NoOverwrite
<1>1. StampInv /\ [Next]_vars
        => [\A p \in Paths :
              Kind(p) \in ModelKinds /\ volume.files[p] # None /\ volume'.files[p] # None
                => volume'.files[p] = volume.files[p]]_vars
  BY StepKeeps DEF Kept, Spared
<1>. QED
  BY <1>1, StampsAgree, PTL DEF Spec, NoOverwrite
===============================================================================
