---------------------------- MODULE CameraTasks -----------------------------
(***************************************************************************)
(* From the newest frame of a camera to its analysis: the scheduler of     *)
(* MonitoringRuntime (pipeline.py) puts a task into an AnalysisQueue       *)
(* (queueing.py), a worker takes it, locks the camera in Redis and in the  *)
(* process, and analyses the newest frame.  There are two such lines, one  *)
(* for general detection and one for fire and smoke, which share the locks *)
(* of the cameras.                                                         *)
(*                                                                         *)
(* A step is what a coroutine does between two suspensions, or what Redis  *)
(* does for it.  Time is not counted: a period may end, a Redis lock may   *)
(* expire, and an abandoned entry may become reclaimable at any moment.    *)
(***************************************************************************)
EXTENDS Integers, FiniteSets, Sequences, SequencesExt

CONSTANTS
  Camera,
  GeneralWorker, FireWorker,
  UsesRedis,    \* redis_available after start()
  QueueMax,     \* analysis_queue_maxsize
  TaskId,       \* enough names for the tasks that exist at one time
  Blocking,     \* the answers of AsyncPipeline.blocked that are considered
  SlowCalls,    \* TRUE: an analysis may outlast the reclaim time of 600 s
  ManualCamera, \* cameras that a user also analyses by hand
  MaxFrame,     \* bound: frames of one stream
  MaxFault,     \* bound: restarts, outages and failed analyses
  Faults,       \* subset of {"raise", "restart", "outage"}
  MaxRemoval    \* bound: cameras deleted

ASSUME CameraTasksAssumption ==
  /\ GeneralWorker \cap FireWorker = {} /\ IsFiniteSet(GeneralWorker \cup FireWorker)
  /\ {"free", "manual"} \cap (GeneralWorker \cup FireWorker) = {}
  /\ UsesRedis \in BOOLEAN /\ SlowCalls \in BOOLEAN
  /\ QueueMax \in Nat \ {0}
  /\ IsFiniteSet(TaskId) =>
       Cardinality(TaskId) >= 2 * QueueMax + Cardinality(GeneralWorker \cup FireWorker)
  /\ Blocking \subseteq BOOLEAN /\ ManualCamera \subseteq Camera
  /\ MaxFrame \in Nat

VARIABLES
  listed,     \* the enabled cameras that list_cameras and get_camera return
  streaming,  \* the cameras with a capture stream
  frame,      \* media.snapshots: sequence of the newest frame, 0 for none
  due,        \* now >= next_run (general) or next_fire_run (fire)
  last,       \* last_analyzed_sequence, last_fire_sequence
  queued,     \* queued, fire_queued
  backlog,    \* entries of the stream (or of fallback) that nobody has read
  pending,    \* Redis: entries that were read and not acknowledged
  recovered,  \* AnalysisQueue.recovered
  sched,      \* where the scheduler is
  work,       \* where each worker is
  lock,       \* camera_locks
  redisLock,  \* monitor:camera-lock:<camera>
  outage,     \* Redis does not answer
  faults, removals,  \* bounds
  seen        \* history: newest frame of the stream that was analysed

cameraVars == <<listed, streaming, frame, due, last, seen>>
queueVars == <<queued, backlog, pending, recovered>>
lockVars == <<lock, redisLock>>
bounds == <<outage, faults, removals>>
vars == <<cameraVars, queueVars, sched, work, lockVars, bounds>>

-----------------------------------------------------------------------------
Worker == GeneralWorker \cup FireWorker
KindOf(w) == IF w \in FireWorker THEN "fire" ELSE "general"
Kind == {KindOf(w) : w \in Worker}

Free == "free"          \* nobody holds the lock
Manual == "manual"      \* analyze_now holds it
Dead == "dead process"  \* the consumer of a process that was killed
Idle == [pc |-> "idle"]
Looking == [at |-> "looking"]

Entry == [cam : Camera, id : TaskId]
Asking(k, c) == [at |-> "asking", kind |-> k, cam |-> c]
Adding(k, c) == [at |-> "adding", kind |-> k, cam |-> c]
Noting(k, c) == [at |-> "noting", kind |-> k, cam |-> c]

Holds(w) == work[w].pc \notin {"idle", "dead"}
InHands(k) == {work[w].task : w \in {v \in Worker : Holds(v) /\ KindOf(v) = k}}
Existing(k) ==
  ToSet(backlog[k]) \cup pending[k] \cup ToSet(recovered[k]) \cup InHands(k)
Depth(k) == Len(backlog[k]) + Cardinality(pending[k])
\* Mutant: the entries that were read but not acknowledged are not counted.
HasRoomUnread(k) == Len(backlog[k]) < QueueMax
HasRoom(k) == Depth(k) < QueueMax
FreshTask(k, c) ==
  [cam |-> c, id |-> CHOOSE i \in TaskId : \A e \in Existing(k) : e.id # i]

HasNewFrame(k, c) == frame[c] > last[k][c]
Set1(f, k, c, v) == [f EXCEPT ![k][c] = v]

Init ==
  /\ listed = Camera /\ streaming = Camera
  /\ frame = [c \in Camera |-> 0]
  /\ due = [k \in Kind |-> [c \in Camera |-> TRUE]]
  /\ last = [k \in Kind |-> [c \in Camera |-> 0]]
  /\ queued = [k \in Kind |-> {}]
  /\ backlog = [k \in Kind |-> <<>>]
  /\ pending = [k \in Kind |-> {}]
  /\ recovered = [k \in Kind |-> <<>>]
  /\ sched = Looking
  /\ work = [w \in Worker |-> Idle]
  /\ lock = [c \in Camera |-> Free]
  /\ redisLock = [c \in Camera |-> Free]
  /\ outage = FALSE /\ faults = 0 /\ removals = 0
  /\ seen = [k \in Kind |-> [c \in Camera |-> 0]]

-----------------------------------------------------------------------------
(***************************************************************************)
(* The camera's stream and the clock.                                      *)
(***************************************************************************)
Frame(c) ==  \* _publish_frame
  /\ c \in streaming /\ frame[c] < MaxFrame
  /\ frame' = [frame EXCEPT ![c] = @ + 1]
  /\ UNCHANGED <<queueVars, lockVars, bounds, listed, streaming, due, last,
                 sched, work, seen>>

Elapse(k, c) ==  \* the period of the camera is over
  /\ ~due[k][c]
  /\ due' = Set1(due, k, c, TRUE)
  /\ UNCHANGED <<queueVars, lockVars, bounds, listed, streaming, frame, last,
                 sched, work, seen>>

(***************************************************************************)
(* _scheduler, one camera and one line at a time.  Only general detection  *)
(* starts its period here; fire detection does when a worker begins.       *)
(***************************************************************************)
Wanted(k, c) == c \in listed /\ HasNewFrame(k, c) /\ due[k][c]

StartPeriod(k, c) ==
  due' = IF k = "general" THEN Set1(due, k, c, FALSE) ELSE due

Append1(k, c) == backlog' = [backlog EXCEPT ![k] = Append(@, FreshTask(k, c))]

\* Without Redis enqueue does not suspend: the task is put and noted at once.
LookMemory(k, c) ==
  /\ ~UsesRedis /\ sched = Looking /\ Wanted(k, c)
  /\ StartPeriod(k, c)
  /\ IF c \notin queued[k] /\ Len(backlog[k]) < QueueMax
     THEN Append1(k, c) /\ queued' = [queued EXCEPT ![k] = @ \cup {c}]
     ELSE UNCHANGED <<backlog, queued>>
  /\ UNCHANGED <<lockVars, bounds, listed, streaming, frame, last, pending,
                 recovered, sched, work, seen>>

LookRedis(k, c) ==
  /\ UsesRedis /\ sched = Looking /\ Wanted(k, c)
  /\ StartPeriod(k, c)
  /\ sched' = IF c \notin queued[k] THEN Asking(k, c) ELSE sched
  /\ UNCHANGED <<queueVars, lockVars, bounds, listed, streaming, frame, last,
                 work, seen>>

\* Redis answers depths(): the line has one stream, so the other three calls
\* add nothing.  The answer may be old when the entry is appended.
Ask ==
  /\ sched.at = "asking" /\ ~outage
  /\ sched' = IF HasRoom(sched.kind) THEN Adding(sched.kind, sched.cam)
              ELSE Looking
  /\ UNCHANGED <<cameraVars, queueVars, lockVars, bounds, work>>

\* Redis appends the entry; the scheduler does not know yet.
Add ==
  /\ sched.at = "adding" /\ ~outage
  /\ Append1(sched.kind, sched.cam)
  /\ sched' = Noting(sched.kind, sched.cam)
  /\ UNCHANGED <<cameraVars, lockVars, bounds, queued, pending, recovered,
                 work>>

\* The scheduler resumes with the entry's id.
Note ==
  /\ sched.at = "noting"
  /\ queued' = [queued EXCEPT ![sched.kind] = @ \cup {sched.cam}]
  /\ sched' = Looking
  /\ UNCHANGED <<cameraVars, lockVars, bounds, backlog, pending, recovered,
                 work>>

-----------------------------------------------------------------------------
(***************************************************************************)
(* _worker.                                                                *)
(***************************************************************************)
At(w, pc) == work[w].pc = pc
Go(w, pc) == work' = [work EXCEPT ![w].pc = pc]
\* Mutant: the camera is never taken out of queued.
ForgottenNever(k, c) == queued' = queued
Forgotten(k, c) == queued' = [queued EXCEPT ![k] = @ \ {c}]
Lent(e) == [pc |-> "got", task |-> e, seq |-> 0]

\* get(): entries recovered from a dead consumer come first.
Take(w) ==
  LET k == KindOf(w) IN
  /\ At(w, "idle")
  /\ UNCHANGED <<cameraVars, lockVars, bounds, queued, sched>>
  /\ \/ /\ recovered[k] # <<>>
        /\ work' = [work EXCEPT ![w] = Lent(Head(recovered[k]))]
        /\ recovered' = [recovered EXCEPT ![k] = Tail(@)]
        /\ UNCHANGED <<backlog, pending>>
     \/ /\ recovered[k] = <<>> /\ backlog[k] # <<>> /\ ~outage
        /\ work' = [work EXCEPT ![w] = Lent(Head(backlog[k]))]
        /\ backlog' = [backlog EXCEPT ![k] = Tail(@)]
        /\ pending' = IF UsesRedis
             THEN [pending EXCEPT ![k] = @ \cup {Head(backlog[k])}] ELSE pending
        /\ UNCHANGED recovered

\* _reclaim_stale, called by get(): an entry that has been idle for 600 s.
Abandoned(k, e) ==
  /\ e \in pending[k] /\ e \notin ToSet(recovered[k])
  /\ e \notin InHands(k) \/ SlowCalls

Reclaim(w) ==
  LET k == KindOf(w) IN
  /\ At(w, "idle") /\ UsesRedis /\ ~outage /\ Len(recovered[k]) < QueueMax
  /\ \E e \in pending[k] :
       /\ Abandoned(k, e)
       /\ recovered' = [recovered EXCEPT ![k] = Append(@, e)]
  /\ UNCHANGED <<cameraVars, lockVars, bounds, queued, backlog, pending,
                 sched, work>>

\* The worker resumes with its task: if the background is overloaded it goes
\* straight to the end of the finally block, which forgets the camera.
Begin(w) ==
  LET k == KindOf(w)  c == work[w].task.cam IN
  /\ At(w, "got")
  /\ \E blocked \in Blocking :
       IF blocked THEN Go(w, "ack") /\ Forgotten(k, c)
                  ELSE Go(w, "acquire") /\ UNCHANGED queued
  /\ UNCHANGED <<cameraVars, lockVars, bounds, backlog, pending, recovered,
                 sched>>

\* acquire_camera: SET NX EX 120 with the consumer of the line.
Acquire(w) ==
  LET k == KindOf(w)  c == work[w].task.cam IN
  /\ At(w, "acquire") /\ ~outage
  /\ IF ~UsesRedis
     THEN Go(w, "wait") /\ UNCHANGED <<redisLock, queued>>
     ELSE IF redisLock[c] = Free
     THEN Go(w, "wait") /\ redisLock' = [redisLock EXCEPT ![c] = k]
          /\ UNCHANGED queued
     ELSE Go(w, "ack") /\ Forgotten(k, c) /\ UNCHANGED redisLock
  /\ UNCHANGED <<cameraVars, bounds, backlog, pending, recovered, sched, lock>>

\* Mutant: the frame is not compared with the last analysed one.
AnalysableStale(k, c) == c \in listed /\ frame[c] > 0

\* Inside camera_locks: the camera and its newest frame are read again.
Analysable(k, c) == c \in listed /\ HasNewFrame(k, c)

\* Mutant: the process's own lock is not waited for.
EnterUnlocked(w) ==
  LET k == KindOf(w)  c == work[w].task.cam IN
  /\ At(w, "wait")
  /\ IF Analysable(k, c)
     THEN /\ work' = [work EXCEPT ![w].pc = "analyse", ![w].seq = frame[c]]
          /\ lock' = [lock EXCEPT ![c] = w]
          /\ due' = IF k = "fire" THEN Set1(due, k, c, FALSE) ELSE due
     ELSE Go(w, "release") /\ UNCHANGED <<lock, due>>
  /\ UNCHANGED <<queueVars, bounds, listed, streaming, frame, last, sched,
                 redisLock, seen>>

Enter(w) ==
  LET k == KindOf(w)  c == work[w].task.cam IN
  /\ At(w, "wait") /\ lock[c] = Free
  /\ IF Analysable(k, c)
     THEN /\ work' = [work EXCEPT ![w].pc = "analyse", ![w].seq = frame[c]]
          /\ lock' = [lock EXCEPT ![c] = w]
          /\ due' = IF k = "fire" THEN Set1(due, k, c, FALSE) ELSE due
     ELSE Go(w, "release") /\ UNCHANGED <<lock, due>>
  /\ UNCHANGED <<queueVars, bounds, listed, streaming, frame, last, sched,
                 redisLock, seen>>

\* detect_latest reads the newest frame once more when the batch starts.
Infer(w) ==
  LET c == work[w].task.cam IN
  /\ At(w, "analyse") /\ KindOf(w) = "general"
  /\ frame[c] \notin {0, work[w].seq}
  /\ work' = [work EXCEPT ![w].seq = frame[c]]
  /\ UNCHANGED <<cameraVars, queueVars, lockVars, bounds, sched>>

Finish(w) ==
  LET k == KindOf(w)  c == work[w].task.cam IN
  /\ At(w, "analyse")
  /\ last' = Set1(last, k, c, work[w].seq)
  /\ seen' = Set1(seen, k, c, work[w].seq)
  /\ lock' = [lock EXCEPT ![c] = Free]
  /\ Go(w, "release")
  /\ UNCHANGED <<queueVars, bounds, listed, streaming, frame, due, sched,
                 redisLock>>

RaiseIn(w) ==
  /\ At(w, "analyse") /\ "raise" \in Faults /\ faults < MaxFault
  /\ faults' = faults + 1
  /\ lock' = [lock EXCEPT ![work[w].task.cam] = Free]
  /\ Go(w, "release")
  /\ UNCHANGED <<cameraVars, queueVars, sched, redisLock, outage, removals>>

\* The first half of release_camera reads the lock, the second deletes it.
Release(w) ==
  LET c == work[w].task.cam  mine == redisLock[c] = KindOf(w) IN
  /\ At(w, "release") /\ ~outage
  /\ IF UsesRedis /\ mine
     THEN Go(w, "delete") /\ UNCHANGED queued
     ELSE Go(w, "ack") /\ Forgotten(KindOf(w), c)
  /\ UNCHANGED <<cameraVars, lockVars, bounds, backlog, pending, recovered,
                 sched>>

Delete(w) ==
  LET c == work[w].task.cam IN
  /\ At(w, "delete") /\ ~outage
  /\ redisLock' = [redisLock EXCEPT ![c] = Free]
  /\ Go(w, "ack") /\ Forgotten(KindOf(w), c)
  /\ UNCHANGED <<cameraVars, bounds, backlog, pending, recovered, sched, lock>>

Ack(w) ==
  LET k == KindOf(w) IN
  /\ At(w, "ack") /\ ~outage
  /\ pending' = [pending EXCEPT ![k] = @ \ {work[w].task}]
  /\ work' = [work EXCEPT ![w] = Idle]
  /\ UNCHANGED <<cameraVars, lockVars, bounds, queued, backlog, recovered,
                 sched>>

-----------------------------------------------------------------------------
(***************************************************************************)
(* Redis: the time to live of a lock, and an outage.  Whoever calls Redis  *)
(* during the outage gets an exception.  Only acquire_camera is called     *)
(* inside the worker's try; the other calls end the coroutine, and nothing *)
(* starts it again.                                                        *)
(***************************************************************************)
Expire(c) ==
  /\ redisLock[c] # Free
  /\ redisLock' = [redisLock EXCEPT ![c] = Free]
  /\ UNCHANGED <<cameraVars, queueVars, bounds, sched, work, lock>>

Outage ==
  /\ UsesRedis /\ "outage" \in Faults /\ faults < MaxFault /\ ~outage
  /\ faults' = faults + 1 /\ outage' = TRUE
  /\ UNCHANGED <<cameraVars, queueVars, lockVars, sched, work, removals>>

OutageEnds ==
  /\ outage /\ outage' = FALSE
  /\ UNCHANGED <<cameraVars, queueVars, lockVars, sched, work, faults,
                 removals>>

SchedulerFails ==
  /\ outage /\ sched.at \in {"looking", "asking", "adding"}  \* depths(), enqueue()
  /\ sched' = [at |-> "dead"]
  /\ UNCHANGED <<cameraVars, queueVars, lockVars, bounds, work>>

WorkerFails(w) ==
  LET k == KindOf(w) IN
  /\ outage
  /\ \/ At(w, "idle") /\ recovered[k] = <<>> /\ UNCHANGED queued
        /\ work' = [work EXCEPT ![w] = [pc |-> "dead"]]
     \/ (At(w, "release") \/ At(w, "delete") \/ At(w, "ack")) /\ UNCHANGED queued
        /\ work' = [work EXCEPT ![w] = [pc |-> "dead"]]
     \/ At(w, "acquire") /\ Go(w, "ack") /\ Forgotten(k, work[w].task.cam)
  /\ UNCHANGED <<cameraVars, lockVars, bounds, backlog, pending, recovered,
                 sched>>

(***************************************************************************)
(* The process is killed and started again: Redis keeps the entries and    *)
(* the locks, the rest is new.                                             *)
(***************************************************************************)
Restart ==
  /\ "restart" \in Faults /\ faults < MaxFault /\ ~outage
  /\ faults' = faults + 1
  /\ listed' = streaming
  /\ frame' = [c \in Camera |-> 0]
  /\ due' = [k \in Kind |-> [c \in Camera |-> TRUE]]
  /\ last' = [k \in Kind |-> [c \in Camera |-> 0]]
  /\ seen' = [k \in Kind |-> [c \in Camera |-> 0]]
  /\ queued' = [k \in Kind |-> {}]
  /\ backlog' = IF UsesRedis THEN backlog ELSE [k \in Kind |-> <<>>]
  /\ recovered' = [k \in Kind |-> <<>>]
  /\ sched' = Looking
  /\ work' = [w \in Worker |-> Idle]
  /\ lock' = [c \in Camera |-> Free]
  /\ redisLock' = [c \in Camera |->
                     IF redisLock[c] = Free THEN Free ELSE Dead]
  /\ UNCHANGED <<streaming, pending, outage, removals>>

(***************************************************************************)
(* The API: a camera is deleted (or loses its id) in two steps, because    *)
(* media.remove waits for the stream to stop; later a camera with the same *)
(* id may be created.  analyze_now takes the camera's lock for itself.     *)
(***************************************************************************)
RemoveMedia(c) ==
  /\ c \in streaming /\ removals < MaxRemoval
  /\ removals' = removals + 1
  /\ streaming' = streaming \ {c}
  /\ frame' = [frame EXCEPT ![c] = 0]
  /\ seen' = [k \in Kind |-> [seen[k] EXCEPT ![c] = 0]]
  /\ UNCHANGED <<queueVars, lockVars, listed, due, last, sched, work, outage,
                 faults>>

RemoveRuntime(c) ==
  /\ c \in listed \ streaming
  /\ listed' = listed \ {c}
  /\ due' = [k \in Kind |-> [due[k] EXCEPT ![c] = TRUE]]
  /\ queued' = [k \in Kind |-> queued[k] \ {c}]
  /\ UNCHANGED <<streaming, lockVars, bounds, frame, last, backlog, pending,
                 recovered, sched, work, seen>>

Create(c) ==
  /\ c \notin listed
  /\ listed' = listed \cup {c} /\ streaming' = streaming \cup {c}
  /\ UNCHANGED <<queueVars, lockVars, bounds, frame, due, last, sched, work,
                 seen>>

ManualBegins(c) ==
  /\ c \in listed \cap ManualCamera /\ lock[c] = Free
  /\ lock' = [lock EXCEPT ![c] = Manual]
  /\ UNCHANGED <<cameraVars, queueVars, bounds, sched, work, redisLock>>

ManualEnds(c) ==
  /\ lock[c] = Manual
  /\ lock' = [lock EXCEPT ![c] = Free]
  /\ UNCHANGED <<cameraVars, queueVars, bounds, sched, work, redisLock>>

-----------------------------------------------------------------------------
WorkerStep(w) ==
  \/ Take(w) \/ Begin(w) \/ Acquire(w) \/ Enter(w) \/ Finish(w)
  \/ Release(w) \/ Delete(w) \/ Ack(w)

Scheduling == \/ Ask \/ Add \/ Note
              \/ \E k \in Kind, c \in Camera : LookMemory(k, c) \/ LookRedis(k, c)

Next ==
  \/ Scheduling
  \/ \E w \in Worker :
       WorkerStep(w) \/ Reclaim(w) \/ Infer(w) \/ RaiseIn(w) \/ WorkerFails(w)
  \/ \E k \in Kind, c \in Camera : Elapse(k, c)
  \/ \E c \in Camera :
       \/ Frame(c) \/ Expire(c)
       \/ RemoveMedia(c) \/ RemoveRuntime(c) \/ Create(c)
       \/ ManualBegins(c) \/ ManualEnds(c)
  \/ Outage \/ OutageEnds \/ SchedulerFails \/ Restart

Spec == Init /\ [][Next]_vars

\* The scheduler's pass reaches every camera; periods end; a coroutine whose
\* answer has arrived runs; asyncio.Lock serves its waiters in order; keys
\* expire; get() reclaims every 30 s, before it reads; an outage ends.
Fairness ==
  /\ WF_vars(Ask) /\ WF_vars(Add) /\ WF_vars(Note) /\ WF_vars(OutageEnds)
  /\ \A k \in Kind, c \in Camera :
       /\ SF_vars(LookMemory(k, c)) /\ SF_vars(LookRedis(k, c))
       /\ WF_vars(Elapse(k, c))
  /\ \A w \in Worker :
       /\ WF_vars(WorkerStep(w)) /\ SF_vars(Enter(w)) /\ SF_vars(Reclaim(w))
  /\ \A c \in Camera : WF_vars(Expire(c)) /\ WF_vars(ManualEnds(c))

FairSpec == Spec /\ Fairness

-----------------------------------------------------------------------------
(***************************************************************************)
(* Properties.                                                             *)
(***************************************************************************)
TypeOK ==
  /\ streaming \subseteq listed /\ listed \subseteq Camera
  /\ frame \in [Camera -> 0 .. MaxFrame]
  /\ due \in [Kind -> [Camera -> BOOLEAN]]
  /\ last \in [Kind -> [Camera -> 0 .. MaxFrame]]
  /\ seen \in [Kind -> [Camera -> 0 .. MaxFrame]]
  /\ queued \in [Kind -> SUBSET Camera]
  /\ \A k \in Kind :
       /\ backlog[k] \in Seq(Entry) /\ pending[k] \subseteq Entry
       /\ recovered[k] \in Seq(Entry)
       /\ Cardinality({e.id : e \in Existing(k)}) = Cardinality(Existing(k))
  /\ \A w \in Worker : Holds(w) =>
       work[w].task \in Entry /\ work[w].seq \in 0 .. MaxFrame
  /\ lock \in [Camera -> Worker \cup {Free, Manual}]
  /\ redisLock \in [Camera -> Kind \cup {Free, Dead}]

\* At most one worker analyses a camera, and none while a user's analysis
\* runs, although the lock in Redis may expire under its holder and several
\* tasks of one camera may exist (docs/SCENE_SAFETY_EXTENSION.md:20).
OneInFlight ==
  \A w \in Worker : At(w, "analyse") =>
    /\ \A v \in Worker \ {w} :
         ~(At(v, "analyse") /\ work[v].task.cam = work[w].task.cam)
    /\ lock[work[w].task.cam] = w

\* A worker never analyses a frame that was already analysed, not even when
\* tasks are duplicated by reclaiming or by a camera that came back.
InFlightIsNew ==
  \A w \in Worker : At(w, "analyse") =>
    work[w].seq > seen[KindOf(w)][work[w].task.cam]

\* However tasks are duplicated and locks expire, one worker analyses a camera,
\* and only what is new.
AnalysesSound == OneInFlight /\ InFlightIsNew

HasTask(k, c) ==
  \/ \E e \in ToSet(backlog[k]) \cup ToSet(recovered[k]) : e.cam = c
  \/ \E w \in Worker : Holds(w) /\ KindOf(w) = k /\ work[w].task.cam = c

\* A camera is in queued only while a task of it exists: the mark keeps the
\* scheduler from ever putting another one, so a mark without a task would
\* silence the camera.
QueuedHasTask == \A k \in Kind : \A c \in queued[k] : HasTask(k, c)

\* The types, the marks, and the lock that workers and users share.
TasksSound == TypeOK /\ QueuedHasTask /\ OneInFlight

\* The queue never holds more than QueueMax, what was read and not acknowledged
\* included, although enqueue appends on an answer that may be old: what workers,
\* reclaims and restarts do between depths() and XADD never takes the room that
\* was seen.  The scheduler of the one process is alone in putting tasks.
DepthBounded == \A k \in Kind : Depth(k) <= QueueMax

\* A frame that the scheduler takes for new is analysed in the end, or a newer
\* one is: a full queue, tasks of deleted cameras and failed analyses delay a
\* camera and never silence it (README.md:156).
Analysed ==
  \A k \in Kind, c \in Camera :
    []<>(c \notin listed \/ ~HasNewFrame(k, c))

\* A camera with a frame that nobody has analysed eventually has a task
\* (README.md:156).
Triggered ==
  \A k \in Kind, c \in Camera :
    []<>(c \notin listed \/ seen[k][c] = frame[c] \/ HasTask(k, c))

\* The scheduler takes a frame that nobody has analysed for a new one.
UnseenIsNew ==
  \A k \in Kind : \A c \in streaming :
    frame[c] > seen[k][c] => HasNewFrame(k, c)
=============================================================================
