------------------------- MODULE CapturePersistence -------------------------
(***************************************************************************)
(* What a capture stream tells the rest of the system is kept in memory    *)
(* and written behind it (backend/capture_persistence.py and LatestWriter  *)
(* of backend/background.py): of every camera only the newest frame is     *)
(* waiting for the snapshot writer, and only its newest status for the     *)
(* status writer.  Both writers hand their work to the pool of threads, so *)
(* that frames and statuses keep arriving while they are written.          *)
(*                                                                         *)
(* Version numbers are not kept: what is compared is whether the version   *)
(* that is being written is still the newest one ("fresh").                *)
(***************************************************************************)
EXTENDS Integers, Sequences, SequencesExt, FiniteSets

CONSTANTS
  Camera,       \* camera ids
  Nobody,       \* not a camera: nothing is being written
  StatusBatch   \* statuses per transaction (batch_size, 100)

ASSUME PersistenceAssumption ==
  Nobody \notin Camera /\ StatusBatch \in Nat \ {0}

VARIABLES
  allowed,      \* the registered cameras
  snapshots,    \* the cameras whose newest frame waits, in OrderedDict order
  writing,      \* the frame in the pool: its camera, and whether it is fresh
  file,         \* the snapshot file of each camera
  latest,       \* the status last reported for each camera
  pending,      \* the cameras whose status waits, in OrderedDict order
  batch,        \* the statuses in the pool, in order
  online,       \* the column of the camera's row, as last written
  owed          \* history: what was accepted and is not written yet

snapshotVars == <<snapshots, writing, file>>
statusVars   == <<latest, pending, batch, online>>
persistVars  == <<allowed, snapshotVars, statusVars, owed>>

State  == {"unknown", "online", "offline"}
Report == [camera : Camera, state : State, fresh : BOOLEAN]
Owed   == {"frame", "status"} \X Camera

PersistenceTypeOK ==
  /\ allowed \subseteq Camera
  /\ snapshots \in Seq(Camera) /\ IsInjective(snapshots)
  /\ writing \in [camera : Camera \union {Nobody}, fresh : BOOLEAN]
  /\ file \in [Camera -> {"none", "older", "newest"}]
  /\ latest \in [Camera -> State]
  /\ pending \in Seq(Camera) /\ IsInjective(pending)
  /\ batch \in Seq(Report)
  /\ online \in [Camera -> State]
  /\ owed \subseteq Owed

PersistenceInit(registered) ==
  /\ allowed = registered
  /\ snapshots = <<>>
  /\ writing = [camera |-> Nobody, fresh |-> FALSE]
  /\ file = [c \in Camera |-> "none"]
  /\ latest = [c \in Camera |-> "unknown"]
  /\ pending = <<>>
  /\ batch = <<>>
  /\ online = [c \in Camera |-> "unknown"]
  /\ owed = {}

-----------------------------------------------------------------------------

\* d[k] = v in an OrderedDict: a key that is there keeps its place.
Put(order, c) == IF Contains(order, c) THEN order ELSE Append(order, c)

\* A comprehension over a dict or list s: its elements at the places I, in order.
Picked(s, I) ==
  LET place(n) == CHOOSE i \in I : Cardinality({j \in I : j <= i}) = n
  IN  [n \in 1..Cardinality(I) |-> s[place(n)]]
Kept(order, S) == Picked(order, {i \in DOMAIN order : order[i] \in S})

\* d.pop(k, None) and d.move_to_end(k)
Without(order, c) == Kept(order, Camera \ {c})
MoveToEnd(order, c) == IF Contains(order, c) THEN Append(Without(order, c), c) ELSE order

\* register: what waits of cameras that are not wanted any more is dropped.
Register(wanted) ==
  /\ allowed' = wanted
  /\ snapshots' = Kept(snapshots, wanted)
  /\ latest' = [c \in Camera |-> IF c \in wanted THEN latest[c] ELSE "unknown"]
  /\ pending' = Kept(pending, wanted)
  /\ owed' = {o \in owed : o[2] \in wanted}
  /\ UNCHANGED <<writing, file, batch, online>>

\* LatestWriter.submit of what is now known of the camera
Submit(c, state) ==
  /\ latest' = [latest EXCEPT ![c] = state]
  /\ pending' = Put(pending, c)
  /\ batch' = [i \in DOMAIN batch |-> [batch[i] EXCEPT !.fresh = @ /\ batch[i].camera # c]]
  /\ UNCHANGED online

\* status_update(c, False): the reader of the camera failed.
ReportOffline(c) ==
  /\ IF c \in allowed
     THEN /\ Submit(c, "offline")
          /\ owed' = owed \union {<<"status", c>>}
     ELSE UNCHANGED <<statusVars, owed>>
  /\ UNCHANGED <<allowed, snapshotVars>>

\* publish: a frame of the camera arrived, and so the camera is online.
Publish(c) ==
  /\ IF c \in allowed
     THEN /\ snapshots' = Put(snapshots, c)
          /\ writing' = [writing EXCEPT !.fresh = @ /\ writing.camera # c]
          /\ file' = [file EXCEPT ![c] = IF @ = "newest" THEN "older" ELSE @]
          /\ Submit(c, "online")
          /\ owed' = owed \union {<<"frame", c>>, <<"status", c>>}
     ELSE UNCHANGED <<snapshotVars, statusVars, owed>>
  /\ UNCHANGED allowed

\* analysis_update: the time of the last analysis is reported with the status.
Analysed(c) ==
  /\ c \in allowed
  /\ Submit(c, latest[c])
  /\ owed' = owed \union {<<"status", c>>}
  /\ UNCHANGED <<allowed, snapshotVars>>

\* flush_snapshot takes the frame that waits longest to the pool.
SnapshotBegins ==
  /\ writing.camera = Nobody /\ snapshots # <<>>
  /\ writing' = [camera |-> Head(snapshots), fresh |-> TRUE]
  /\ UNCHANGED <<allowed, snapshots, file, statusVars, owed>>

\* Mutant: the camera is taken off the queue whatever arrived meanwhile.
SnapshotWrittenPopped ==
  LET c == writing.camera IN
    /\ c # Nobody
    /\ writing' = [camera |-> Nobody, fresh |-> FALSE]
    /\ file' = [file EXCEPT ![c] = IF writing.fresh THEN "newest" ELSE "older"]
    /\ snapshots' = Without(snapshots, c)
    /\ owed' = IF writing.fresh THEN owed \ {<<"frame", c>>} ELSE owed
    /\ UNCHANGED <<allowed, statusVars>>

\* The file is replaced; a frame that is newer than it goes to the end.
SnapshotWritten ==
  LET c == writing.camera IN
    /\ c # Nobody
    /\ writing' = [camera |-> Nobody, fresh |-> FALSE]
    /\ file' = [file EXCEPT ![c] = IF writing.fresh THEN "newest" ELSE "older"]
    /\ snapshots' = IF writing.fresh THEN Without(snapshots, c)
                    ELSE MoveToEnd(snapshots, c)
    /\ owed' = IF writing.fresh THEN owed \ {<<"frame", c>>} ELSE owed
    /\ UNCHANGED <<allowed, statusVars>>

\* The file could not be written: the camera goes to the end and is tried again.
SnapshotFails ==
  /\ writing.camera # Nobody
  /\ writing' = [camera |-> Nobody, fresh |-> FALSE]
  /\ snapshots' = MoveToEnd(snapshots, writing.camera)
  /\ UNCHANGED <<allowed, file, statusVars, owed>>

\* LatestWriter.flush takes the first statuses to the pool.
FlushBegins ==
  /\ batch = <<>> /\ pending # <<>>
  /\ batch' = [i \in 1..(IF Len(pending) < StatusBatch THEN Len(pending) ELSE StatusBatch) |->
                 [camera |-> pending[i], state |-> latest[pending[i]], fresh |-> TRUE]]
  /\ UNCHANGED <<allowed, snapshotVars, latest, pending, online, owed>>

InBatch == {r.camera : r \in Range(batch)}
Fresh   == {r.camera : r \in {q \in Range(batch) : q.fresh}}

\* Mutant: a camera with a newer report keeps its place.
RequeuedInPlace == Kept(pending, Camera \ Fresh)

\* Once the batch is written, its fresh statuses leave, and those with a newer
\* report go to the end, in the order of the batch.
Requeued ==
  Kept(pending, Camera \ InBatch)
    \o Picked([i \in DOMAIN batch |-> batch[i].camera],
              {i \in DOMAIN batch : ~batch[i].fresh /\ Contains(pending, batch[i].camera)})

\* set_camera_runtime_batch committed.
FlushDone ==
  /\ batch # <<>>
  /\ online' = [c \in Camera |->
       IF c \in InBatch THEN (CHOOSE r \in Range(batch) : r.camera = c).state ELSE online[c]]
  /\ pending' = Requeued
  /\ batch' = <<>>
  /\ owed' = owed \ {<<"status", c>> : c \in Fresh}
  /\ UNCHANGED <<allowed, snapshotVars, latest>>

\* The transaction failed: everything waits where it was.
FlushFails ==
  /\ batch # <<>>
  /\ batch' = <<>>
  /\ UNCHANGED <<allowed, snapshotVars, latest, pending, online, owed>>

\* The loops of the two writers, and the results of the pool
SnapshotWriter == SnapshotBegins \/ SnapshotWritten \/ SnapshotFails
StatusWriter   == FlushBegins \/ FlushDone \/ FlushFails

-----------------------------------------------------------------------------
(* Properties *)

\* A frame or status that is accepted while an older one of the same camera is
\* being written is not taken for written with it: as long as the newest one is
\* not saved its camera waits for its writer, and a status nobody waits for is
\* what the row says.
NothingForgotten ==
  /\ \A c \in Camera : <<"frame", c>> \in owed => Contains(snapshots, c)
  /\ \A c \in Camera : <<"status", c>> \in owed => Contains(pending, c)
  /\ \A c \in allowed : latest[c] \in {"unknown", online[c]} \/ Contains(pending, c)

\* "A continuously updated camera cannot starve others": whatever keeps waiting
\* for a writer is taken, a frame even if other files can never be written, a
\* status once transactions stop failing.
EveryCameraGetsItsTurn ==
  /\ \A c \in Camera :
       Contains(snapshots, c) ~> (writing.camera = c \/ ~Contains(snapshots, c))
  /\ <>[][~FlushFails]_persistVars => \A c \in Camera :
       Contains(pending, c) ~> (c \in InBatch \/ ~Contains(pending, c))
=============================================================================
