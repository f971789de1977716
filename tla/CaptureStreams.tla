---------------------------- MODULE CaptureStreams ----------------------------
(***************************************************************************)
(* The long-lived FFmpeg readers of the cameras and the administrators who *)
(* change the cameras (MediaGateway.sync, remove and close and             *)
(* PersistentCaptureStream of backend/media_capture.py,                    *)
(* AsyncPipeline.refresh, MonitoringRuntime.sync_cameras and the camera    *)
(* routes).  Frames and failures of the readers go to CapturePersistence.  *)
(*                                                                         *)
(* An editor is one request: it commits its change of the camera rows and  *)
(* then synchronises the readers with the rows.  A request runs until it   *)
(* awaits: the pool that reads the rows, the end of a reader, the removal  *)
(* of a file.  At each of these others run, other requests among them.     *)
(*                                                                         *)
(* Cameras are numbers so that "sorted" has a meaning.  A camera's readers *)
(* are told apart by a slot; a slot is used again when its reader has      *)
(* ended and nobody holds a reference to it.                               *)
(***************************************************************************)
EXTENDS CapturePersistence

CONSTANTS
  Source,       \* addresses of capture streams
  Rtsp,         \* those of them that are rtsp:// or rtsps://
  CpuCamera,    \* cameras that never decode on a GPU (capture_cpu_camera_ids)
  Devices,      \* number of GPU devices
  PerDevice,    \* readers per device (capture_gpu_streams_per_device)
  Slot,         \* 1..n, readers of one camera that may exist at a time
  Editor,       \* concurrent requests
  Settings      \* the instances that are checked together: records with the
                \* rows at the start, the cameras that requests are about,
                \* the number of requests, whether readers report, and how many
                \* processes outlive the wait for their end (a bound)

Row == {"absent", "off"} \union Source

\* Two slots: a reader that has been stopped and its successor
ASSUME StreamsAssumption ==
  /\ Camera \subseteq Nat /\ IsFiniteSet(Camera)
  /\ Rtsp \subseteq Source /\ CpuCamera \subseteq Camera
  /\ Devices \in Nat /\ PerDevice \in Nat
  /\ Slot \subseteq Nat \ {0} /\ {1, 2} \subseteq Slot
  /\ Settings \subseteq [rows : [Camera -> Row], scope : SUBSET Camera,
                         edits : Nat, reports : BOOLEAN, stubborn : Nat]

VARIABLES
  rows,         \* the cameras table: "absent", "off" (not enabled) or a source
  cameras,      \* AsyncPipeline.cameras, the copy the runtime works with
  sources,      \* MediaGateway.sources
  capture,      \* MediaGateway.capture_streams: a slot, or 0
  stream,       \* the readers: [phase, source, device]
  left,         \* the processes of each camera that were killed and given up
                \* and are still there
  stubborn,     \* how many more processes may be given up
  ed,           \* the requests
  scope,        \* the cameras that requests are about (chosen at the start)
  edits,        \* how many more requests there may be
  reports,      \* whether readers report (chosen at the start)
  closed        \* the runtime has been closed

requestVars == <<rows, cameras, sources, capture, ed, scope, edits, reports, closed>>
survivors == <<left, stubborn>>
streamVars == <<requestVars, stream, survivors>>
vars == <<persistVars, streamVars>>

Phase == {"starting",   \* waits before its first process
          "reading",    \* has a process
          "failed",     \* waits to try again
          "ending",     \* was told to stop and waits for its process
          "ended"}      \* nobody waits for its process any more
Reader == [phase : Phase, source : Source \union {"none"}, device : 0..Devices]
NoReader == [phase |-> "ended", source |-> "none", device |-> 0]

PC == {"idle", "remove", "unlink", "rename", "sync", "refresh", "stop"}

Request ==
  [pc : PC,
   doomed : SUBSET Camera,                  \* deleted cameras still to be removed
   rename : {<<>>} \union (Camera \X Camera),
   loaded : [Camera -> Row],                \* the rows as read
   todo : SUBSET (Camera \X Slot),          \* readers to stop
   at : {<<>>} \union (Camera \X ({0} \union Slot))]   \* the reader that is awaited

TypeOK ==
  /\ PersistenceTypeOK
  /\ rows \in [Camera -> Row] /\ cameras \in [Camera -> Row]
  /\ sources \in [Camera -> Source \union {"none"}]
  /\ capture \in [Camera -> {0} \union Slot]
  /\ stream \in [Camera -> [Slot -> Reader]]
  /\ left \in [Camera -> Nat] /\ stubborn \in Nat
  /\ ed \in [Editor -> Request]
  /\ scope \subseteq Camera /\ edits \in Nat /\ reports \in BOOLEAN /\ closed \in BOOLEAN

-----------------------------------------------------------------------------

NoRows == [c \in Camera |-> "absent"]
Idle == [pc |-> "idle", doomed |-> {}, rename |-> <<>>, loaded |-> NoRows,
         todo |-> {}, at |-> <<>>]

Wanted(table) == {c \in Camera : table[c] \in Source}

Before(S, c) == Cardinality({d \in S : d < c})

\* decode_assignments: the first candidates in the order of their ids go to
\* the devices in turn, the others to the CPU (0).
Assignment(table, c) ==
  LET candidates == {d \in Wanted(table) \ CpuCamera : table[d] \in Rtsp}
  IN  IF c \in candidates /\ Before(candidates, c) < Devices * PerDevice
      THEN 1 + (Before(candidates, c) % Devices) ELSE 0

\* A reader whose camera, source or device changed has to be stopped.
Mismatched(table, c) ==
  \/ c \notin Wanted(table)
  \/ stream[c][capture[c]].source # table[c]
  \/ stream[c][capture[c]].device # Assignment(table, c)

InUse(c, i) ==
  \/ stream[c][i].phase # "ended"
  \/ capture[c] = i
  \/ \E e \in Editor : <<c, i>> \in ed[e].todo \union {ed[e].at}

FreeSlot(c) == CHOOSE i \in Slot : ~InUse(c, i)

Halted(reader) ==
  [reader EXCEPT !.phase = IF @ = "reading" THEN "ending" ELSE IF @ = "ending" THEN @ ELSE "ended"]

-----------------------------------------------------------------------------

\* The state after the start of the runtime: one sync ran alone.
Init ==
  \E s \in Settings :
    /\ rows = s.rows /\ cameras = s.rows /\ scope = s.scope /\ edits = s.edits /\ reports = s.reports
    /\ left = [c \in Camera |-> 0] /\ stubborn = s.stubborn
    /\ sources = [c \in Camera |-> IF c \in Wanted(s.rows) THEN s.rows[c] ELSE "none"]
    /\ capture = [c \in Camera |-> IF c \in Wanted(s.rows) THEN 1 ELSE 0]
    /\ stream = [c \in Camera |-> [i \in Slot |->
         IF i = 1 /\ c \in Wanted(s.rows)
         THEN [phase |-> "starting", source |-> s.rows[c], device |-> Assignment(s.rows, c)]
         ELSE NoReader]]
    /\ ed = [e \in Editor |-> Idle]
    /\ closed = FALSE
    /\ PersistenceInit(Wanted(s.rows))

\* _run: the delay is over and FFmpeg is started.
Starts(c, i) ==
  /\ stream[c][i].phase \in {"starting", "failed"}
  /\ stream' = [stream EXCEPT ![c][i].phase = "reading"]
  /\ UNCHANGED <<requestVars, survivors, persistVars>>

\* A frame is complete; it is published before the next one is read.  What came
\* with the last read is published although the reader was told to stop.
Reads(c, i) ==
  /\ stream[c][i].phase \in {"reading", "ending"} /\ reports
  /\ Publish(c)
  /\ UNCHANGED streamVars

\* _terminate_process: a killed process is waited for during 3 seconds, and one
\* that is still there then is given up with a warning.
Reaped(c) ==
  \/ UNCHANGED survivors
  \/ /\ stubborn > 0 /\ stubborn' = stubborn - 1
     /\ left' = [left EXCEPT ![c] = @ + 1]

\* FFmpeg ended or was silent for 15 seconds: the process is reaped, the camera
\* reported offline, and the reader waits before it tries again.
Fails(c, i) ==
  /\ stream[c][i].phase = "reading"
  /\ stream' = [stream EXCEPT ![c][i].phase = "failed"]
  /\ Reaped(c)
  /\ IF reports THEN ReportOffline(c) ELSE UNCHANGED persistVars
  /\ UNCHANGED requestVars

\* A reader that was told to stop has ended.  It may have taken the end or the
\* silence of the killed process for a failure before it was cancelled.
Ends(c, i) ==
  /\ stream[c][i].phase = "ending"
  /\ stream' = [stream EXCEPT ![c][i].phase = "ended"]
  /\ Reaped(c)
  /\ \/ UNCHANGED persistVars
     \/ reports /\ ReportOffline(c)
  /\ UNCHANGED requestVars

\* A process that was given up is gone at last.
Dies(c) ==
  /\ left[c] > 0
  /\ left' = [left EXCEPT ![c] = @ - 1]
  /\ UNCHANGED <<requestVars, stream, stubborn, persistVars>>

-----------------------------------------------------------------------------
(* Requests *)

May(e, S) == ed[e].pc = "idle" /\ S \subseteq scope /\ edits > 0 /\ ~closed

Exists(c) == rows[c] # "absent"

\* create_cameras, update_camera and update_camera_substreams: the rows of S get
\* a value in one transaction.
Write(S, value) == rows' = [c \in Camera |-> IF c \in S THEN value ELSE rows[c]]

\* delete_cameras
DeleteRows(S) == Write(S, "absent")

\* The request e has changed the rows and goes on with pc.
Changed(e, pc, doomed) ==
  /\ edits' = edits - 1
  /\ ed' = [ed EXCEPT ![e].pc = pc, ![e].doomed = doomed]
  /\ UNCHANGED <<persistVars, cameras, sources, capture, stream, survivors,
                 scope, reports, closed>>

\* One camera or a batch of them is created; one id that exists refuses all.
CreateCameras(e, S, value) ==
  /\ May(e, S) /\ S # {} /\ \A c \in S : ~Exists(c)
  /\ Write(S, value)
  /\ Changed(e, "sync", {})

\* A camera gets another source, or is enabled or disabled.
PatchCamera(e, c, value) ==
  /\ May(e, {c}) /\ Exists(c)
  /\ Write({c}, value)
  /\ Changed(e, "sync", {})

\* The capture streams of several enabled cameras are replaced; one id that is
\* missing refuses all.
ChangeSubstreams(e, S, value) ==
  /\ May(e, S) /\ S # {} /\ S \subseteq Wanted(rows)
  /\ Write(S, value)
  /\ Changed(e, "sync", {})

\* A mode, the geometry, a schedule or the directory of a camera changes: the
\* readers are synchronised although nothing changes for them.
Reconfigure(e) ==
  /\ May(e, {}) /\ \E c \in scope : Exists(c)
  /\ UNCHANGED rows
  /\ Changed(e, "sync", {})

\* Cameras are deleted: their rows first, then what the runtime keeps of them.
DeleteCameras(e, S) ==
  /\ May(e, S) /\ S # {} /\ \A c \in S : Exists(c)
  /\ DeleteRows(S)
  /\ Changed(e, "remove", S)

\* A camera gets another id: it is removed first and its row is renamed then.
Rename(e, old, new) ==
  /\ May(e, {old, new}) /\ Exists(old) /\ ~Exists(new)
  /\ edits' = edits - 1
  /\ ed' = [ed EXCEPT ![e].pc = "remove", ![e].doomed = {old}, ![e].rename = <<old, new>>]
  /\ UNCHANGED <<persistVars, rows, cameras, sources, capture, stream, survivors,
                 scope, reports, closed>>

\* Mutant: the reader of a removed camera is only taken off the list.
RemoveRunning(e) ==
  /\ ed[e].pc = "remove"
  /\ \E c \in ed[e].doomed :
       /\ sources' = [sources EXCEPT ![c] = "none"]
       /\ capture' = [capture EXCEPT ![c] = 0]
       /\ ed' = [ed EXCEPT ![e].pc = "unlink", ![e].doomed = @ \ {c}, ![e].at = <<c, 0>>]
  /\ UNCHANGED <<persistVars, rows, cameras, stream, survivors, scope, edits, reports, closed>>

\* remove: the reader is taken off the list and told to stop.
RemoveReader(e) ==
  /\ ed[e].pc = "remove"
  /\ \E c \in ed[e].doomed :
       /\ sources' = [sources EXCEPT ![c] = "none"]
       /\ capture' = [capture EXCEPT ![c] = 0]
       /\ stream' = IF capture[c] = 0 THEN stream
                    ELSE [stream EXCEPT ![c][capture[c]] = Halted(@)]
       /\ ed' = [ed EXCEPT ![e].pc = "unlink", ![e].doomed = @ \ {c},
                           ![e].at = <<c, capture[c]>>]
  /\ UNCHANGED <<persistVars, rows, cameras, survivors, scope, edits, reports, closed>>

\* Mutant: stop() waits until the process is really gone.
HasEndedForGood(r) ==
  r[2] # 0 => stream[r[1]][r[2]].phase = "ended" /\ left[r[1]] = 0

\* stop() of the reader has returned.
HasEnded(r) == r[2] # 0 => stream[r[1]][r[2]].phase = "ended"

\* ... and when it is gone the camera's frames are dropped and its snapshot file
\* is removed.
Unlink(e) ==
  /\ ed[e].pc = "unlink" /\ HasEnded(ed[e].at)
  /\ file' = [file EXCEPT ![ed[e].at[1]] = "none"]
  /\ ed' = [ed EXCEPT ![e].pc = IF ed[e].rename = <<>> THEN "sync" ELSE "rename",
                      ![e].at = <<>>]
  /\ UNCHANGED <<allowed, snapshots, writing, statusVars, owed>>
  /\ UNCHANGED <<rows, cameras, sources, capture, stream, survivors,
                 scope, edits, reports, closed>>

\* rename_and_update_camera, unless the row has been deleted meanwhile.
RenameRow(e) ==
  LET old == ed[e].rename[1]
      new == ed[e].rename[2]
  IN  /\ ed[e].pc = "rename"
      /\ rows' = IF Exists(old) THEN [rows EXCEPT ![new] = rows[old], ![old] = "absent"]
                 ELSE rows
      /\ ed' = [ed EXCEPT ![e].pc = "sync", ![e].rename = <<>>]
      /\ UNCHANGED <<persistVars, cameras, sources, capture, stream, survivors,
                 scope, edits, reports, closed>>

\* AsyncPipeline.refresh reads the rows in a thread of the pool ...
Load(e) ==
  /\ ed[e].pc = "sync"
  /\ ed' = [ed EXCEPT ![e].pc = "refresh", ![e].loaded = rows]
  /\ UNCHANGED <<persistVars, rows, cameras, sources, capture, stream, survivors,
                 scope, edits, reports, closed>>

\* The end of sync: the sources are noted, and the missing readers are created
\* and started.  A batch deletion goes on with its next camera.
Create(e, table, own) ==
  LET missing == {c \in Wanted(table) : own[c] = 0} IN
    /\ sources' = [c \in Camera |-> IF c \in Wanted(table) THEN table[c] ELSE "none"]
    /\ capture' = [c \in Camera |-> IF c \in missing THEN FreeSlot(c) ELSE own[c]]
    /\ stream' = [c \in Camera |->
         IF c \notin missing THEN stream[c]
         ELSE [stream[c] EXCEPT ![FreeSlot(c)] =
                 [phase |-> "starting", source |-> table[c], device |-> Assignment(table, c)]]]
    /\ ed' = [ed EXCEPT ![e] =
         [Idle EXCEPT !.pc = IF ed[e].doomed = {} THEN "idle" ELSE "remove",
                      !.doomed = ed[e].doomed]]

\* The loop of sync: the next mismatched reader is told to stop and awaited.
StopNext(e, table, own, todo) ==
  \E r \in todo :
    /\ capture' = own
    /\ stream' = [stream EXCEPT ![r[1]][r[2]] = Halted(@)]
    /\ ed' = [ed EXCEPT ![e].pc = "stop", ![e].loaded = table,
                        ![e].todo = todo \ {r}, ![e].at = r]
    /\ UNCHANGED sources

Continue(e, table, own, todo) ==
  IF todo = {} THEN Create(e, table, own) ELSE StopNext(e, table, own, todo)

\* ... and what it read becomes the runtime's copy, from which sync_cameras
\* registers the enabled cameras and finds the readers to stop.
Refreshed(e) ==
  LET table == ed[e].loaded IN
    /\ ed[e].pc = "refresh"
    /\ cameras' = table
    /\ Register(Wanted(table))
    /\ Continue(e, table, capture,
                {<<c, capture[c]>> : c \in {d \in Camera : capture[d] # 0 /\ Mismatched(table, d)}})
    /\ UNCHANGED <<rows, survivors, scope, edits, reports, closed>>

\* Mutant: the stopped reader stays on the list.
StoppedListed(e) ==
  /\ ed[e].pc = "stop" /\ HasEnded(ed[e].at)
  /\ Continue(e, ed[e].loaded, capture, ed[e].todo)
  /\ UNCHANGED <<persistVars, rows, cameras, survivors, scope, edits, reports, closed>>

\* The awaited reader has ended: whatever reader its camera has by now is taken
\* off the list.
Stopped(e) ==
  /\ ed[e].pc = "stop" /\ HasEnded(ed[e].at)
  /\ Continue(e, ed[e].loaded, [capture EXCEPT ![ed[e].at[1]] = 0], ed[e].todo)
  /\ UNCHANGED <<persistVars, rows, cameras, survivors, scope, edits, reports, closed>>

\* The runtime is closed once the server has finished its requests: every
\* listed reader is told to stop.
Close ==
  /\ ~closed /\ \A e \in Editor : ed[e].pc = "idle"
  /\ closed' = TRUE
  /\ stream' = [c \in Camera |-> [i \in Slot |->
       IF capture[c] = i THEN Halted(stream[c][i]) ELSE stream[c][i]]]
  /\ capture' = [c \in Camera |-> 0]
  /\ UNCHANGED <<persistVars, rows, cameras, sources, ed, survivors, scope, edits, reports>>

ReaderStep(c, i) == Starts(c, i) \/ Reads(c, i) \/ Fails(c, i) \/ Ends(c, i)

RequestStep(e) ==
  \/ RemoveReader(e) \/ Unlink(e) \/ RenameRow(e)
  \/ Load(e) \/ Refreshed(e) \/ Stopped(e)

Next ==
  \/ \E c \in Camera, i \in Slot : ReaderStep(c, i)
  \/ \E c \in Camera : Dies(c)
  \/ \E e \in Editor, S \in SUBSET Camera, v \in Row \ {"absent"} : CreateCameras(e, S, v)
  \/ \E e \in Editor, c \in Camera, v \in Row \ {"absent"} : PatchCamera(e, c, v)
  \/ \E e \in Editor, S \in SUBSET Camera, v \in Source : ChangeSubstreams(e, S, v)
  \/ \E e \in Editor : Reconfigure(e)
  \/ \E e \in Editor, S \in SUBSET Camera : DeleteCameras(e, S)
  \/ \E e \in Editor, c, d \in Camera : Rename(e, c, d)
  \/ \E e \in Editor : RequestStep(e)
  \/ Close
  \/ (SnapshotWriter \/ StatusWriter) /\ UNCHANGED streamVars
  \/ reports /\ (\E c \in Camera : Analysed(c)) /\ UNCHANGED streamVars

Spec == Init /\ [][Next]_vars

\* The writers are loops of the event loop, whose pool answers every call.
WritersGoOn ==
  /\ WF_vars(SnapshotBegins /\ UNCHANGED streamVars)
  /\ WF_vars((SnapshotWritten \/ SnapshotFails) /\ UNCHANGED streamVars)
  /\ WF_vars(FlushBegins /\ UNCHANGED streamVars)
  /\ WF_vars((FlushDone \/ FlushFails) /\ UNCHANGED streamVars)

\* The pool answers the requests too, and whoever waits for the end of a process
\* does so for seconds: as long as there are such waits one of them ends.
RequestsGoOn ==
  /\ \A e \in Editor : WF_vars(RequestStep(e))
  /\ WF_vars(\E c \in Camera, i \in Slot : Ends(c, i))

\* Nothing obliges a reader to read, a process to end, or anybody to change a camera.
FairSpec == Spec /\ WritersGoOn /\ RequestsGoOn

-----------------------------------------------------------------------------
(* Properties *)

HasProcess(c, i) == stream[c][i].phase \in {"reading", "ending"}
Runs(c, i) == stream[c][i].phase \in {"starting", "reading", "failed"}

\* "One long-lived FFmpeg reader" of a camera, and "bounded" placement: even
\* while readers are replaced no camera is read twice, and no GPU decodes more
\* streams than it may, the processes apart that survive their kill: nobody
\* counts or waits for these.
ReadersBounded ==
  /\ \A c \in Camera : Cardinality({i \in Slot : HasProcess(c, i)}) <= 1
  /\ \A d \in 1..Devices :
       Cardinality({r \in Camera \X Slot :
         HasProcess(r[1], r[2]) /\ stream[r[1]][r[2]].device = d}) <= PerDevice

\* A camera never has two FFmpeg processes, the ones that were given up included.
OneProcess ==
  \A c \in Camera : Cardinality({i \in Slot : HasProcess(c, i)}) + left[c] <= 1

Quiet == \A e \in Editor : ed[e].pc = "idle"

\* docs/ASYNC_PIPELINE_IMPLEMENTATION.md: the copy of the cameras the runtime
\* works with is refreshed when a change has been saved.
ConfigFresh == Quiet => cameras = rows

\* No reader runs that is not on the list: nobody would ever stop it.
ReadersListed ==
  Quiet => \A c \in Camera, i \in Slot : Runs(c, i) => capture[c] = i

\* A reader on the list runs, or was told to stop by a request that waits for it
\* and will take it off: however requests overlap, no camera is left with a
\* reader that does nothing and that no sync would replace.
ListedRun ==
  \A c \in Camera : capture[c] # 0 =>
    \/ Runs(c, capture[c])
    \/ \E e \in Editor : ed[e].pc = "stop" /\ ed[e].at = <<c, capture[c]>>

\* Every request about the cameras is answered, although it waits for the ends of
\* readers that others stop too, and for processes that no kill ends.
RequestsEnd == \A e \in Editor : ed[e].pc # "idle" ~> ed[e].pc = "idle"

\* There is a name for one more reader of each camera.
SlotsLeft == \A c \in Camera : \E i \in Slot : ~InUse(c, i)

\* When no request is at work the runtime knows the cameras as the table has
\* them, exactly the enabled ones are read, from their source and on the device
\* they are assigned to, no reader is left that nobody knows of, and a reader
\* that failed last is not shown as online.
Settled ==
  /\ ConfigFresh /\ ReadersListed
  /\ Quiet =>
       /\ allowed = Wanted(rows)
       /\ \A c \in Camera : capture[c] # 0 <=> ~closed /\ c \in Wanted(rows)
       /\ \A c \in Camera : capture[c] # 0 =>
            LET reader == stream[c][capture[c]] IN
              /\ Runs(c, capture[c])
              /\ reader.source = rows[c] /\ sources[c] = rows[c]
              /\ reader.device = Assignment(rows, c)
              /\ reader.phase = "failed" /\ reports => latest[c] = "offline"
=============================================================================
