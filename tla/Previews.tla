------------------------------- MODULE Previews -------------------------------
(***************************************************************************)
(* Live previews: a viewer leases a session on the preview of a camera,    *)
(* keeps it alive with heartbeats or by reading the MJPEG stream, and the  *)
(* preview has an FFmpeg process as long as it has sessions                *)
(* (LivePreviewStream and the preview half of MediaGateway in              *)
(* backend/media_capture.py, and the preview routes of api/cameras.py).    *)
(*                                                                         *)
(* Nothing is awaited while preview_lock is held, so it is never held when *)
(* a coroutine asks for it and each locked section is one step.  What is   *)
(* awaited outside it is the end of a preview's process: by then the       *)
(* preview is off the list and others go on.                               *)
(***************************************************************************)
EXTENDS Integers, FiniteSets

CONSTANTS
  Camera,
  Viewer,       \* browsers; a viewer has at most one session at a time, which
                \* goes by its name
  Source,       \* addresses of main streams
  Off,          \* the source of a camera that is disabled or deleted
  Preview,      \* 1..n: bound on the preview objects, the ending ones included
  MaxLive,      \* bound on the setting max_live_previews (4)
  Timeout,      \* preview_timeout_seconds (60), in ticks
  MaxEdits      \* bound on the changes of the cameras

ASSUME PreviewsAssumption ==
  /\ Off \notin Source \union Camera /\ 0 \notin Preview
  /\ MaxLive \in Nat \ {0} /\ Timeout \in Nat \ {0} /\ MaxEdits \in Nat

VARIABLES
  limit,        \* MediaGateway.max_live_previews
  rows,         \* the source of each camera in the table
  playable,     \* MediaGateway.preview_sources
  listed,       \* MediaGateway.previews: a preview, or 0
  session,      \* session_camera: the camera of each live session, or Off
  preview,      \* the objects: [camera, source, sessions, phase]
  age,          \* ticks since a session was touched, up to Timeout + 1
  viewer,       \* what each browser does, and the camera it does it with
  mjpeg,        \* the sessions whose MJPEG generator runs
  sweep,        \* the sessions the sweeper will end when "at" has ended
  editor,       \* the request that changes a camera
  edits         \* changes made, or left out of the instance

vars == <<limit, rows, playable, listed, session, preview, age, viewer, mjpeg, sweep, editor, edits>>

\* A preview "runs" while _run starts a process again whenever it is lost,
\* it is "ending" while stop() awaits the end of the process and of _run.
NoObject == [camera |-> Off, source |-> Off, sessions |-> {}, phase |-> "ended"]
Object == [camera : Camera, source : Source, sessions : SUBSET Viewer,
           phase : {"runs", "ending"}] \union {NoObject}

Browser == [does : {"nothing", "watches", "vanished", "cut"}, camera : Camera \union {Off}]

TypeOK ==
  /\ limit \in 1..MaxLive
  /\ rows \in [Camera -> Source \union {Off}]
  /\ playable \in [Camera -> Source \union {Off}]
  /\ listed \in [Camera -> {0} \union Preview]
  /\ session \in [Viewer -> Camera \union {Off}]
  /\ preview \in [Preview -> Object]
  /\ age \in [Viewer -> 0..(Timeout + 1)]
  /\ viewer \in [Viewer -> Browser]
  /\ mjpeg \subseteq Viewer
  /\ sweep \in [expired : SUBSET Viewer, at : {0} \union Preview]
  /\ editor \in [pc : {"idle", "remove", "sync", "previews", "captures"},
                 todo : SUBSET Camera, at : {0} \union Preview, wanted : [Camera -> Source \union {Off}]]
  /\ edits \in 0..MaxEdits

-----------------------------------------------------------------------------

NoWanted == [c \in Camera |-> Off]
Resting == [pc |-> "idle", todo |-> {}, at |-> 0, wanted |-> NoWanted]

Init ==
  /\ limit \in 1..MaxLive
  /\ rows \in [Camera -> Source \union {Off}] /\ playable = rows
  /\ listed = [c \in Camera |-> 0]
  /\ session = [v \in Viewer |-> Off]
  /\ preview = [p \in Preview |-> NoObject]
  /\ age = [v \in Viewer |-> 0]
  /\ viewer = [v \in Viewer |-> [does |-> "nothing", camera |-> Off]]
  /\ mjpeg = {}
  /\ sweep = [expired |-> {}, at |-> 0]
  /\ editor = Resting
  /\ edits \in 0..MaxEdits

Live == {c \in Camera : listed[c] # 0}
Ended(p) == p # 0 => preview[p].phase = "ended"
Free(p) ==
  /\ preview[p].phase = "ended" /\ preview[p].sessions = {}
  /\ p \notin {listed[c] : c \in Camera} \union {sweep.at, editor.at}
FreePreview == CHOOSE p \in Preview : Free(p)

\* LivePreviewStream.stop: the sessions are cleared, the process is killed.
Halted(object) == [object EXCEPT !.sessions = {}, !.phase = "ending"]

\* The sessions of a preview are now V.
With(object, V) == [object EXCEPT !.sessions = V]

\* A session exists for the gateway, its stream or its sweeper.
Referred(v) ==
  session[v] # Off \/ v \in mjpeg \union sweep.expired
    \/ \E p \in Preview : v \in preview[p].sessions

\* The sessions of V are not known any more.
Forget(V) ==
  /\ session' = [v \in Viewer |-> IF v \in V THEN Off ELSE session[v]]
  /\ age' = [v \in Viewer |-> IF v \in V THEN 0 ELSE age[v]]

\* stop_preview(v): the session ends; a preview without sessions is taken off
\* the list and stopped.
IsLast(v) ==
  session[v] # Off /\ listed[session[v]] # 0 /\ preview[listed[session[v]]].sessions \subseteq {v}

StopPreview(v) ==
  LET c == session[v] IN
    /\ Forget({v})
    /\ IF c # Off /\ listed[c] # 0
       THEN /\ listed' = [listed EXCEPT ![c] = IF IsLast(v) THEN 0 ELSE @]
            /\ preview' = [preview EXCEPT ![listed[c]] =
                 IF IsLast(v) THEN Halted(@) ELSE With(@, @.sessions \ {v})]
       ELSE UNCHANGED <<listed, preview>>

\* stop_camera_preview(c): the preview and all its sessions end.
StopCameraPreview(c) ==
  /\ listed' = [listed EXCEPT ![c] = 0]
  /\ Forget(IF listed[c] = 0 THEN {} ELSE preview[listed[c]].sessions)
  /\ preview' = IF listed[c] = 0 THEN preview
                ELSE [preview EXCEPT ![listed[c]] = Halted(@)]

-----------------------------------------------------------------------------
(* Viewers *)

Gateway == <<limit, rows, playable, editor, edits, sweep>>

\* Mutant: the limit is not looked at.
MayPlayAnyway(c) == playable[c] # Off

\* A camera that has a preview, or room for one more
MayPlay(c) == playable[c] # Off /\ (listed[c] # 0 \/ Cardinality(Live) < limit)

\* start_preview
StartPreview(v, c) ==
  LET p == IF listed[c] # 0 THEN listed[c] ELSE FreePreview IN
    /\ viewer[v].does = "nothing" /\ ~Referred(v)
    /\ MayPlay(c) /\ \E q \in Preview : Free(q)
    /\ listed' = [listed EXCEPT ![c] = p]
    /\ preview' = [preview EXCEPT ![p] =
         IF listed[c] # 0 THEN With(@, @.sessions \union {v})
         ELSE [camera |-> c, source |-> playable[c], sessions |-> {v}, phase |-> "runs"]]
    /\ session' = [session EXCEPT ![v] = c]
    /\ age' = [age EXCEPT ![v] = 0]
    /\ viewer' = [viewer EXCEPT ![v] = [does |-> "watches", camera |-> c]]
    /\ UNCHANGED <<Gateway, mjpeg>>

\* The session is the viewer's and its preview knows it: touch() renews it.
Valid(v) ==
  LET c == viewer[v].camera IN
    c # Off /\ session[v] = c /\ listed[c] # 0 /\ v \in preview[listed[c]].sessions

\* A heartbeat, which tells the viewer whether its session is still alive
Heartbeat(v) ==
  /\ viewer[v].does = "watches"
  /\ IF Valid(v)
     THEN age' = [age EXCEPT ![v] = 0] /\ UNCHANGED viewer
     ELSE viewer' = [viewer EXCEPT ![v] = [does |-> "nothing", camera |-> Off]] /\ UNCHANGED age
  /\ UNCHANGED <<Gateway, listed, session, preview, mjpeg>>

\* The viewer opens its MJPEG stream.
OpenMjpeg(v) ==
  /\ viewer[v].does = "watches" /\ v \notin mjpeg /\ Valid(v)
  /\ age' = [age EXCEPT ![v] = 0]
  /\ mjpeg' = mjpeg \union {v}
  /\ UNCHANGED <<Gateway, listed, session, preview, viewer>>

\* Every 0.2 seconds the generator touches the session, whoever still reads and
\* whether or not there is a frame to send, ...
MjpegTouches(v) ==
  /\ v \in mjpeg /\ Valid(v)
  /\ age' = [age EXCEPT ![v] = 0]
  /\ UNCHANGED <<Gateway, listed, session, preview, viewer, mjpeg>>

\* ... and ends, with the session, when this is not alive any more or the server
\* has noticed that the connection is gone.
MjpegEnds(v) ==
  /\ v \in mjpeg
  /\ mjpeg' = mjpeg \ {v}
  /\ StopPreview(v)
  /\ UNCHANGED <<Gateway, viewer>>

\* The viewer closes the preview.
StopByViewer(v) ==
  /\ viewer[v].does = "watches"
  /\ viewer' = [viewer EXCEPT ![v] = [does |-> "nothing", camera |-> Off]]
  /\ IF session[v] = viewer[v].camera THEN StopPreview(v)
     ELSE UNCHANGED <<listed, session, preview, age>>
  /\ UNCHANGED <<Gateway, mjpeg>>

\* The browser is killed, or cut off while frames are sent to it: it sends nothing
\* any more, and the server finds its connections closed or broken.
Vanish(v) ==
  /\ viewer[v].does = "watches"
  /\ viewer' = [viewer EXCEPT ![v].does = "vanished"]
  /\ UNCHANGED <<Gateway, listed, session, preview, age, mjpeg>>

\* It is cut off from a preview that delivers nothing: the connection stays half
\* open, and as nothing is sent the server need not notice.
CutOff(v) ==
  /\ viewer[v].does = "watches"
  /\ viewer' = [viewer EXCEPT ![v].does = "cut"]
  /\ UNCHANGED <<Gateway, listed, session, preview, age, mjpeg>>

\* ... and comes back as a new viewer when nothing of it is left.
ComeBack(v) ==
  /\ viewer[v].does \in {"vanished", "cut"} /\ ~Referred(v)
  /\ viewer' = [viewer EXCEPT ![v] = [does |-> "nothing", camera |-> Off]]
  /\ UNCHANGED <<Gateway, listed, session, preview, age, mjpeg>>

-----------------------------------------------------------------------------
(* Processes, the sweeper and the clock *)

\* stop() has seen the end of _run and of the process, or has given the killed
\* process up after 3 seconds.
ProcessEnds(p) ==
  /\ preview[p].phase = "ending"
  /\ preview' = [preview EXCEPT ![p] = NoObject]
  /\ UNCHANGED <<limit, rows, playable, listed, session, age, viewer, mjpeg, sweep, editor, edits>>

\* The expired sessions of the previews of K end, and so do these previews when
\* nothing is left of them.
Release(E, K) ==
  LET left(c) == preview[listed[c]].sessions \ E
      over == {c \in K : left(c) = {}}
  IN  /\ Forget({v \in E : session[v] \in K})
      /\ listed' = [c \in Camera |-> IF c \in over THEN 0 ELSE listed[c]]
      /\ preview' = [p \in Preview |->
           IF \E c \in over : listed[c] = p THEN Halted(preview[p])
           ELSE IF \E c \in K : listed[c] = p THEN With(preview[p], preview[p].sessions \ E)
           ELSE preview[p]]

\* The sweeper ends the sessions of E one after the other (stop_preview).  It is
\* held up where a preview ends with its last session: the others wait until
\* then and are not looked at again.
EndSessions(E) ==
  LET concerned == {c \in Live : preview[listed[c]].sessions \intersect E # {}}
      emptied == {c \in concerned : preview[listed[c]].sessions \subseteq E}
  IN  IF emptied = {}
      THEN Release(E, concerned) /\ sweep' = [expired |-> {}, at |-> 0]
      ELSE \E c \in emptied, K \in SUBSET (concerned \ emptied) :
             /\ Release(E, K \union {c})
             /\ sweep' = [expired |-> E \ {v \in Viewer : session[v] \in K \union {c}},
                          at |-> listed[c]]

\* Mutant: a preview whose sessions are over is left to its viewers.
SweepNothing == FALSE /\ UNCHANGED vars

\* Every 5 seconds the sweeper notes the sessions that are over and ends them.
Sweep ==
  LET over == {v \in Viewer : /\ age[v] > Timeout
                             /\ \E c \in Live : v \in preview[listed[c]].sessions} IN
    /\ sweep.at = 0 /\ over # {}
    /\ EndSessions(over)
    /\ UNCHANGED <<limit, rows, playable, viewer, mjpeg, editor, edits>>

\* The preview it waited for is gone, and the sweeper goes on.
SweepResumes ==
  /\ sweep.at # 0 /\ Ended(sweep.at)
  /\ EndSessions(sweep.expired)
  /\ UNCHANGED <<limit, rows, playable, viewer, mjpeg, editor, edits>>

Tick ==
  /\ age' = [v \in Viewer |-> IF session[v] # Off /\ age[v] <= Timeout THEN age[v] + 1 ELSE age[v]]
  /\ age' # age
  /\ UNCHANGED <<limit, rows, playable, listed, session, preview, viewer, mjpeg, sweep, editor, edits>>

-----------------------------------------------------------------------------
(* The request that changes a camera *)

Viewers == <<limit, viewer, mjpeg, sweep>>

\* A camera gets another source, is enabled or disabled; its readers are
\* synchronised next.
Edit(c, source) ==
  /\ editor.pc = "idle" /\ edits < MaxEdits /\ rows[c] # source
  /\ rows' = [rows EXCEPT ![c] = source]
  /\ edits' = edits + 1
  /\ editor' = [editor EXCEPT !.pc = "sync"]
  /\ UNCHANGED <<playable, listed, session, preview, age, Viewers>>

\* A camera is deleted: it cannot be played any more while its capture stream
\* is stopped, and then its preview is.
Delete(c) ==
  /\ editor.pc = "idle" /\ edits < MaxEdits /\ rows[c] # Off
  /\ rows' = [rows EXCEPT ![c] = Off]
  /\ playable' = [playable EXCEPT ![c] = Off]
  /\ edits' = edits + 1
  /\ editor' = [editor EXCEPT !.pc = "remove", !.todo = {c}]
  /\ UNCHANGED <<listed, session, preview, age, Viewers>>

RemovePreview ==
  /\ editor.pc = "remove"
  /\ \E c \in editor.todo :
       /\ StopCameraPreview(c)
       /\ editor' = [Resting EXCEPT !.pc = "sync", !.at = listed[c]]
  /\ UNCHANGED <<limit, rows, playable, edits, Viewers>>

\* sync: the previews of todo, whose source has changed, are stopped and awaited
\* one by one, then the capture streams are (CaptureStreams), ...
SyncGoesOn(todo, wanted) ==
  IF todo = {}
  THEN /\ editor' = [Resting EXCEPT !.pc = "captures", !.wanted = wanted]
       /\ UNCHANGED <<listed, session, preview, age>>
  ELSE \E c \in todo :
         /\ StopCameraPreview(c)
         /\ editor' = [pc |-> "previews", todo |-> todo \ {c}, at |-> listed[c], wanted |-> wanted]

Sync ==
  /\ editor.pc = "sync" /\ Ended(editor.at)
  /\ SyncGoesOn({c \in Live : preview[listed[c]].source # rows[c]}, rows)
  /\ UNCHANGED <<limit, rows, playable, edits, Viewers>>

SyncResumes ==
  /\ editor.pc = "previews" /\ Ended(editor.at)
  /\ SyncGoesOn(editor.todo, editor.wanted)
  /\ UNCHANGED <<limit, rows, playable, edits, Viewers>>

\* ... and only then the new sources are what viewers play.
SyncSources ==
  /\ editor.pc = "captures"
  /\ playable' = editor.wanted
  /\ editor' = Resting
  /\ UNCHANGED <<limit, rows, listed, session, preview, age, edits, Viewers>>

EditorStep ==
  RemovePreview \/ Sync \/ SyncResumes \/ SyncSources

-----------------------------------------------------------------------------

ViewerStep(v) ==
  \/ Heartbeat(v) \/ OpenMjpeg(v) \/ MjpegTouches(v) \/ MjpegEnds(v)
  \/ StopByViewer(v) \/ Vanish(v) \/ CutOff(v) \/ ComeBack(v)
  \/ \E c \in Camera : StartPreview(v, c)

Sweeper == Sweep \/ SweepResumes

Next ==
  \/ \E v \in Viewer : ViewerStep(v)
  \/ \E p \in Preview : ProcessEnds(p)
  \/ Sweeper
  \/ Tick
  \/ \E c \in Camera, s \in Source \union {Off} : Edit(c, s)
  \/ \E c \in Camera : Delete(c)
  \/ EditorStep

Spec == Init /\ [][Next]_vars

\* Time passes, the sweeper is a loop, a killed process ends or is given up,
\* requests that are not waiting are resumed, and the server notices the end of a
\* connection that it finds closed or broken.  No viewer is obliged to do anything.
Fairness ==
  /\ [][Next]_vars
  /\ \A v \in Viewer : WF_vars(viewer[v].does = "vanished" /\ MjpegEnds(v))
  /\ WF_vars(Tick) /\ WF_vars(Sweeper) /\ WF_vars(EditorStep)
  /\ \A p \in Preview : WF_vars(ProcessEnds(p))

FairSpec == Init /\ Fairness

-----------------------------------------------------------------------------
(* Properties *)

\* The list of previews, the sessions of each and the map of all sessions say
\* the same: a live session is one of the listed preview of its camera, a
\* listed preview has a viewer or another session, there are no more of them
\* than allowed, and no process runs for a preview that is not listed.
SessionsConsistent ==
  /\ \A v \in Viewer, c \in Camera :
       session[v] = c <=> listed[c] # 0 /\ v \in preview[listed[c]].sessions
  /\ \A c \in Live : preview[listed[c]].camera = c /\ preview[listed[c]].sessions # {}
  /\ Cardinality(Live) <= limit
  /\ \A p \in Preview : preview[p].phase = "runs" =>
       \E c \in Live : listed[c] = p

\* The types, and what the maps of the gateway say of each other.
Consistent == TypeOK /\ SessionsConsistent

\* Whom nobody reads for any more does not keep its place: the session of a viewer
\* that vanished ends, although the stream it had opened goes on to renew it for a
\* while and the sweeper is held up by the ends of other previews, and so does the
\* session of one that was cut off without such a stream.
AbandonedReleased ==
  \A v \in Viewer :
    \/ viewer[v].does = "vanished"
    \/ viewer[v].does = "cut" /\ v \notin mjpeg
    ~> session[v] = Off

\* docs/SNAPSHOT_PREVIEW_OPS.md: a session without heartbeats for the timeout is
\* cleaned up.  The stream of a viewer that was cut off renews it for ever.
CutOffReleased == \A v \in Viewer : viewer[v].does = "cut" ~> session[v] = Off

\* docs/SNAPSHOT_PREVIEW_OPS.md: a session is cleaned up when it had no
\* heartbeat for the timeout.
OnlyExpiredSwept ==
  [][Sweeper => \A v \in Viewer : session'[v] # session[v] => age[v] > Timeout]_vars

\* When no request changes a camera, every preview shows what its camera is.
PreviewsCurrent ==
  editor.pc = "idle" => \A c \in Live : preview[listed[c]].source = rows[c]
=============================================================================
