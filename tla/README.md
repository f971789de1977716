# Formal model of AIVideo2.0's monitoring backend

AIVideo watches cameras with local detectors and a vision model and raises
alerts. The code that decides whether an alert is raised once, late, twice or
never is asynchronous: an event loop with a scheduler, worker tasks and a
review queue, a pool of I/O threads, an optional Redis, and a transactional
outbox in the database, shared by processes that may be killed at any moment.
This directory holds TLA+ specifications of that code, TLC configurations that
check them on small instances, and machine-checked proofs about all twelve
modules of the code, for instances of every size.

Paths below are relative to `src/`; `async_pipeline.py` and the like are in
`src/backend/`.

## 1. Inventory

| Part | State | Operations | Hard behaviour | What makes it correct |
|---|---|---|---|---|
| **Outbox** `task_store.py`, `models.BackgroundTask`, `scripts/recover-background-tasks.py` | one row per idempotency key: status, attempts, lease token, `lease_until`, `retry_at`, result | `persist(_many)`, `claim(_many)`, `renew`, `complete(_many)`, `fail`, `retry`, mark stale | several claimants, leases that lapse under row locks, workers that die, replays | effects committed exactly once, by one owner; completion is final; every job settles |
| **Critical ingress** `background.py`, `AsyncPipeline.retained/start/close` | bounded queue, overflow, reserved keys, writer, maintenance and shutdown tasks | `submit`, `flush_one`, `_flush_individually`, `_admit_retained`, `close` | batches in doubt, poison jobs, cancelled threads, kill, full queues | nothing accepted is lost, keys stay unique, the shutdown ends and reports what is left |
| **People flow** `DeferredRepository.upsert_traffic`, `_flush_flow`, `_write_transaction` | counts per camera and minute, flush jobs, `traffic_aggregates` | collect, flush, apply, delete a camera | delayed and overtaking jobs, kill | each visitor counted once; counts not put back |
| **Analysis tasks** `pipeline.py` (scheduler, workers), `queueing.py` | newest frames, last analysed numbers, `queued` marks, stream and fallback queues, locks | schedule, enqueue, get, reclaim, lock, analyse, acknowledge | Redis calls between a test and its use, reclaiming, expiry of locks, removal and creation of cameras | one analysis per camera at a time, of new frames only, again and again |
| **Off-duty alerts** `rules.py`, `pipeline.py`, `async_pipeline.py`, `ReviewQueue` | absence per camera, reviews, alert rows and reservations, cooldowns, configuration version | sample, review, answer, enqueue, validate, commit, edit, restart | answers of an earlier absence, changes between check and commit, groups of cameras | confirmations belong to the present absence; an absence is alerted, once |
| **Phone use** `pipeline.py`, `rules.py`, `async_pipeline.py` | event and cooldown per camera, one alert per directory | sample, answer, enqueue, commit, edit, restart | answers that outlive their event, cooldowns in memory and in the table | no use counts across a denial or a cooldown; alerts keep coming |
| **Windows of the other modes** `rules.py`, `_process`, `_process_fire`, `analyze_now` | counters, last hits, tracks and zones of one camera | a pass with its suspensions, edit of the modes, midnight | frames looked at twice, failed and skipped passes, recoveries | what is confirmed follows from the frames looked at; every visit counts once |
| **Notifications** `async_pipeline.py`, `alerts.py`, `cleanup.py` | delivery rows, their tasks, alert status | `_notifications`, `_deliver`, manual send, refresh of the status, deletion | lost leases, late writes, kills | delivered means sent; every delivery ends |
| **Capture streams** `media_capture.py`, camera routes | readers, sources, GPU placement, the runtime's copy of the cameras | `sync`, `remove`, `refresh`, `close` | suspensions in `sync`, overlapping requests, processes that outlive a kill | exactly the enabled cameras are read, on the right device; requests end |
| **Latest-only persistence** `LatestWriter`, `capture_persistence.py` | newest frame and status per camera | `submit`, `flush`, `flush_snapshot`, `register` | a value that is replaced while it is written | the newest is written; nobody starves |
| **Previews** `media_capture.py` | previews, sessions, heartbeats | `start_preview`, `stop_preview`, sweep, `sync` | removal against a start, limit, viewers that vanish or are cut off | a process has a session; what is abandoned is released |
| **Detector** `detectors/yolo.py` | batch queues, pool threads, trackers | `detect`, `_batch_loop`, `close`, reload | time-outs, failed batches, requests during close, cancelled futures | an answer belongs to its request; trackers go forward; calls end; a trouble costs the frame it met |
| Off-duty alerts without background processing `alerts.py` | rows, evidence files, delivery tasks | `create`, `create_group`, `_deliver` | a kill before a delivery ends | the deliveries are a setting of Notifications |
| Retention `cleanup.py` | rows and evidence files | `run` | files removed before rows | deletion of an alert is part of Notifications |
| Event bus `eventbus.py` | subscriber queues | `publish` | full queues | small; no suspension inside |
| Accounts `api/auth.py`, `auth.py`, `security.py` | users, sessions | login, disable, delete | a session of a user that changes | not modelled |
| API, repository, schema, settings, front end, deployment | rows | requests | none of their own | effects on the runtime are actions of the modules above |

The parts meet in four places. A *task* goes from the scheduler through the
queue to a worker, whose samples drive the *rule state*. A *review request* goes
to the model and its answer comes back into the same rule state. An *alert* (and
every analysis row, model log and traffic flush) is a *job*: memory, then a row
of the outbox, then a transaction that also applies its effects. The
*configuration* is written by the API and copied into the process afterwards, and
its changes stop and start readers and previews.
The hazards of this traffic are listed, each at its line, in `PROJECT.json`.

## 2. Modules

| Module | Models | Proved in |
|---|---|---|
| `Outbox` | what the outbox promises: accepted, applied once, given up, reopened | |
| `TaskStore` | the table with its claims, leases, transactions and workers | `TaskStoreProofs` |
| `CriticalIngress` | the way of a job into the table, shutdown and restart | `CriticalIngressProofs` |
| `TrafficWrites` | people flow over the abstract `Outbox` | `TrafficWritesProofs` |
| `CameraTasks` | from a frame to its analysis | `CameraTasksProofs` |
| `OffDuty` | from an absence to a committed alert | `OffDutyProofs` |
| `PhoneAlerts` | from the use of a phone to a committed alert | `NotificationsProofs` (`Phone`) |
| `SceneRules` | the windows of black screen, fire and smoke, intrusion and people flow | `PreviewsProofs` (`Scene`) |
| `Notifications` | what becomes of the deliveries of an alert | `NotificationsProofs` |
| `CapturePersistence` | the newest frame and status of each camera on their way to disk and table | `CaptureStreamsProofs` |
| `CaptureStreams` | the readers of the cameras and the requests that change cameras; extends `CapturePersistence` | `CaptureStreamsProofs` |
| `Previews` | viewers, preview sessions and their processes | `PreviewsProofs` |
| `YoloBatch` | calls of the general detector, batches, trackers, reload and close | `CaptureStreamsProofs` (`Yolo`) |

The proofs about `PhoneAlerts`, `SceneRules` and `YoloBatch` are the last part of a module about
something else, through an `INSTANCE` with constants and variables of its own.
`MC*.tla` give constants and symmetry, `MC*.cfg` the instances.

### TaskStore

One row per key; `lease` and `delay` are the time left until `lease_until` and
`retry_at`, so the clock needs no bound. Each method of the store is one
transaction and one step, except a completion: `AskMany` reads the clock
(`complete_many` does so before it waits for the rows), `OpenMany`/`OpenOne`
lock rows and run the handler, `Commit` or `Rollback` end it, and time, other
workers and lapses of the lease come in between. Claims skip locked rows. A
worker may be `Abandon`ed anywhere. Kinds taken by `claim_many` (`Batched`)
are told from those claimed one at a time, and the recovery script touches
`Alerts` only. `Outbox` is implemented under the mapping absent, open, dead and
done; the number of committed effects is its `applied`.

### CriticalIngress

One step is what the event loop runs between two awaits. A database call runs
in a thread of `IOPool`: `Thread` is its transaction (which may commit and still
report an error), `ResumeMany` and `ResumeEach` are what the task does when it
learns of it. `wpc` is the writer (idle, writing a batch, writing one by one,
stopped), `mpc` the maintenance task, `cpc` the shutdown: flush and cancel,
`gather`, `drain`, closing the ingress, down. `reserved` are keys that will not
be submitted again: alert keys until they settle, and used uuids. `Restart` is a
kill at any moment, or a start after a shutdown; only the table survives.

### TrafficWrites

`flow` is `flow_pending`, `memory` the jobs before they are durable. Between
there and the aggregate the module uses `Outbox` and adds the order in which
the ingress and the single writer handle jobs: oldest first, except those that
failed (`Postpone`, `Fail`, `Return`, `Reopen`). A detection's current count is
represented by its number, which makes "older" visible.

### CameraTasks

Two lines of work, general and fire, with a scheduler, queues, workers, and the
locks they share. Both queues are here: `asyncio.PriorityQueue` (`UsesRedis =
FALSE`) and Redis streams with their pending entries. Calls to Redis suspend: the
`Ask` is the four lengths and pending counts that `depths` awaits, `Add` the `xadd`
after it, `Note` the mark after `enqueue`. Whatever the workers do comes in between, but no second
`xadd`: one process has one scheduler, which looks at one camera after the other and is the only
one that calls `enqueue`. A worker that a detector reload ends is in `YoloBatch`. Time is not counted: a
period may end, a lock may expire and an abandoned entry may be reclaimed
whenever the code leaves it open. A task's id is one that is nowhere in use
(`FreshTask`), and the assumption that a finite set of them is large enough for
queues and workers only keeps an instance from running out of them. Trimming (MAXLEN) is left out, since `enqueue`
refuses before the stream is long enough.

### OffDuty

`state` is the `CameraRuleState` of each camera, an event is an absence and its
frame is named after the threshold it crosses. `setting` is chosen in `Init` and
never changes: the cameras of the directory, those whose behaviour requests own
the off-duty classification, the answers the model may give, and what may disturb them. Samples, the saving of the audit
image, the review queue, the model's answer, `enqueue_alert`, the writer's two
validity checks around its evidence, the transaction, and the work after it are
separate steps. The configuration changes in two steps: the API
writes the row, the process loads it (`Edit`, `Refresh`). Of the ingress only the
insertion is kept: a key whose row has other contents is a conflict. A commit
whose answer is lost leaves its marks in the table but not in memory (`lost`): the
writer neither flags the absences nor starts the cooldown, and an edit of the
directory may then give the same absence a second alert. `AlertedOnce` therefore
speaks of the alerts whose commit was answered.

### PhoneAlerts

All cameras belong to one directory. Every timestamp of the code is its age in
ticks, and a tick is one behaviour interval: `since` is `phone_since`, the three
cooldowns are those in `cooldowns`, in `alert_cooldowns` and in the table. `Pass` is
the part of `_process` that samples and asks for a review, `Answer` what
`_behaviors` makes of the model's answer (`phone_event_update` included), `Commit`
the transaction of the writer and `AfterCommit` what it does in memory. `troubles` is
chosen at the start: late answers, lost streams, restarts, renamed cameras.
`steady` is history: the cameras in front of which a phone is used for ever.

### SceneRules

The windows of one camera (`rules`) and one pass over a frame. A pass suspends
for the detector, and an edit may replace the rule state under it: `Detected`
then goes on with the state it holds. `Work` is a worker, `WorkFire` the fire
worker, `Manual` the analysis a user asks for. `seen` is history: what the passes
of this state looked at, and the properties compare `verdict` with it.

### Notifications

One alert with a delivery row and, with background processing, a task per
target. `direct` (chosen at the start) is the code without background
processing, whose deliveries are coroutines. A worker's transactions run in
threads, so `LoadDelivery`, `SendEnds`, `Complete`, `FailTask` and `MarkFailed` are
steps of their own; `FailTask` is refused when the lease is lost and `MarkFailed`
runs all the same, as in `_notifications`. A manual request resets rows and sends
for itself; `RefreshReads` and `RefreshWrites` are the two halves of
`_refresh_alert_status`. `Holds` is the token of the lease.

### CapturePersistence and CaptureStreams

`snapshots` and `pending` are ordered dictionaries of the cameras whose newest
frame or status waits; `fresh` says whether the version being written is still the
newest. `CaptureStreams` adds the readers (`stream`, `capture` says which is on
the list), the rows, the runtime's copy `cameras` and the requests `ed`, each a
program counter over the suspensions of the camera routes, `sync` and `refresh`.
Removal of a camera is `RemoveReader`, `Unlink` and `RenameRow` around it.
`stop()` and the task it waits for end with `_terminate_process`, which gives a killed process up
after three seconds: `Ends` is the process that exits or is given up, and in the second case it is
in `left`, without a reader, until the system ends it (`Dies`). `stubborn` bounds how many do that.

### Previews

Nothing suspends under `preview_lock`, so each locked section is a step.
`StopPreview` takes the preview off the list and leaves its process `ending`;
`ProcessEnds` ends it. The sweeper collects expired sessions under the lock
(`Sweep`) and stops them one by one after it (`SweepResumes`). `Sync` is the
preview part of `MediaGateway.sync` with its suspensions. Age is counted in ticks. A viewer may
vanish so that the server sees its connection closed, or be `cut` off, of which the server learns
nothing: `MjpegTouches` renews the session of any stream that is open, whoever reads it and whether
or not there is a frame to send. `ProcessEnds` is a process that exits or is given up after three seconds.

### YoloBatch

`thread` are the threads of the event loop's pool that run `detect`, `queue` and
`batcher` those of `_batch_loop`, one per device and detector; a reload makes a new
detector, and the old one's threads go on. Frames are numbered, and a tracker
holds the number it saw last. `late` are the keys of calls that were given up.
`Start` is a worker that takes a camera (`workers` of them are left) or the preview loop that comes to a preview
(`previewing`), `Receive` and `TimeOut` the end of the pass. A pass that fails or is given up consumes the frame
it began with (`Consume`): `_process` catches the exception and the worker stores the number. A call that
`close` cancels ends the loop that awaits it (`LoopEnds`), since a cancellation is not an `Exception`.
With `fixed` the picture is that of the start (no `async_pipeline`); otherwise the thread takes the newest
when it gets to it. The keys of previews are names of their own, apart from those of cameras.

## 3. What is checked

| Run | Shows | States |
|---|---|---|
| `store` | exactly-once effects, one owner, rows kept by open completions, completed is final, `Outbox` implemented, every job is completed or given up | 123 k |
| `ingress` | nothing accepted lost and all of it reported at a shutdown, the writer's batch stays queued, unique keys, healthy jobs get past poisoned ones | 1.4 M |
| `traffic` | every visitor once, no slot twice in a job, counts in order as long as nothing fails | 235 k |
| `tasks_memory` | one analysis at a time, marks have tasks, new frames are analysed (memory queue) | 146 k |
| `tasks_redis` | one analysis at a time, of new frames only, bounded depth (Redis, restarts, outages, failures) | 7.8 M |
| `offduty` | confirmations belong to their event, one alert per absence while the directory changes, only of absences that reached their threshold | 2.4 M |
| `phone_alerts` | no alert on a use that was denied in between or began in a cooldown; alerts keep coming | 1.7 M |
| `scene_rules` | what is confirmed or counted is what the frames show; the workers never take a frame twice | 3.0 M |
| `notifications` | delivered means sent, the status sums up its rows, every delivery ends | 542 k |
| `captures` | readers match the rows and devices when requests come one by one; nothing newest is forgotten, no camera starves; overlapping requests are answered and leave no dead reader on the list | CAP |
| `previews` | previews, sessions and processes agree within the limit; what is abandoned is released | 523 k |
| `yolo` | answers belong to their requests, calls end, a trouble costs one frame | YOLO |

**Bounds.** Each run has the smallest instance in which its hazards meet.
- *Outbox:* two workers on one job, and once there is a second job one of them alone on
  both: rows are taken over during an open completion, and batches are partly lost. Four tokens are
  more than rows and hands hold at a time; a lease of 2 tells a live
  one from one about to lapse. The safety properties are proved for all constants anyway.
- *Ingress:* capacity 3, an overflow of 1 and batches of 2, so that a batch is
  smaller than the queue and both can be full; five jobs on four keys, one of them an alert
  rebuilt with other contents. *Traffic:* three cameras, one more than fits into a job.
- *Tasks:* three frames, two general workers and one for fire share a lock; a
  queue of 1 or 2 refuses.
- *Off-duty:* four settings. Two cameras of a directory have three absences between them, or
  two and an error of the database, in any interleaving (`Two`). In `Group` the members of the
  directory change, and three absences and an edit reach every step, so that two alerts are answered,
  one of the group of two and one of the group that the edit has changed; to fit, there is one analysis worker
  and one review worker for both (the code has more), two rows at most, and nobody who was away comes back but
  during a cooldown. One camera has every disturbance, one fault and one edit (`One`), and one has
  behaviour requests that may confirm early (`Behaving`); but in `Group`, of a camera's two
  absences the second stays below its threshold.
- *Phone use:* two cameras, a threshold of 2 and a cooldown of 3 ticks, longer than
  an answer may be old plus one; one trouble at most. Nothing in the settings demands it
  (`alert_cooldown_seconds` may be 0, `schemas.py:42`; the defaults of 300 s, 180 s and 120 s just meet it), and
  TLC finds `EventsAreWhole` violated, with no trouble at all, for cooldowns of 1, 2 and 3 ticks and
  reviews that may be 0, 1 and 2 ticks old.
- *Windows:* each mode alone with one person and one edit from fire to black
  screen; six passes fill a window of five and push one out.
- *Notifications:* two targets with coroutines only; two workers with a lost
  lease; or one worker with a restart and a manual send. Two attempts stand for five.
- *Captures:* three cameras on two devices for one reader each, changed by
  three requests one after the other; and one or two cameras while readers report. A process or none survives its
  kill. Two requests overlap about one camera and about two, with a process that may never die.
- *Previews:* two cameras, two viewers, three preview objects, a limit of 1 or
  2, one change. *Detector:* a camera and its preview on one device, with and
  without batches, two workers, two pool threads; a second frame and one trouble, or two troubles.

Counters that the code never resets are bounded in the guards (`MaxFault`,
`MaxEvent`, `MaxEdit`, `MaxEdits`, `MaxFrame`, `MaxRemoval`, `MaxSeen`, `MaxUpset`,
`MaxPass`, `MaxTracking`, `MaxLosses`, `MaxRestarts`, `MaxSends`, `AttemptCap`).
`CHECK_DEADLOCK FALSE` is set where the program stops when the world does: no more
frames, keys, visitors or requests. In `phone_alerts` time never stops.

**Fairness.** Each condition has a counterpart in the code.
- `TaskStore`: time passes; a worker's loop never ends by itself. Dying,
  renewing, submitting and retrying are not fair. `JobsSettle` assumes `Calm`
  from some point on: no deaths, no lapses under a worker, no manual retries.
- `CriticalIngress`: threads return, ready tasks run, the drain ends after its
  ten seconds. `HealthyPersist` assumes that from some point on only poisoned
  jobs fail.
- `CameraTasks`: the scheduler's rotating pass reaches every camera (strong
  fairness of `Look*`), `asyncio.Lock` serves its waiters in order (strong fairness of
  `Enter`), `get` reclaims before it reads (strong fairness of `Reclaim`);
  periods, lock keys and outages end, answers that have arrived are handled.
- `OffDuty`: workers, review workers and the writer go on, cooldowns end, a
  written configuration is loaded. Absences and the model's answers are free.
- `PhoneAlerts`: passes, reviews, the writer and the refresh are loops; time passes.
- `Notifications`: workers go on, a send has a time-out, leases that nobody renews
  end. A task that is due is claimed in the end (strong fairness of `Claim`: the
  oldest due task is claimed first, it fails at most five times, and four workers ask all the time).
- `CaptureStreams`: both writers are loops whose calls return (`WritersGoOn`); the
  database answers the requests, and who waits for a killed process does so for three seconds at most
  (`RequestsGoOn`). Processes need not die, readers need not read, and nobody need change a camera.
- `Previews`: time, the sweeper, killed processes and requests go on, and so does the end of a stream whose connection
  was seen to be closed; viewers need do nothing, and a cut connection need not be noticed.
- `YoloBatch`: pool and batch threads run, the inference process answers, and the
  loop gives up a call at least when it could never end; a worker that is free takes a camera with a new frame. Reloads are not fair.

## 4. Disagreements between the code and its documents

The following statements are defined in the modules, promised by a document, a
comment or a name, and violated by the code. Each has a configuration in which TLC
prints the behaviour; they are kept apart from the regular runs. A `Promises`
configuration holds several, one of them uncommented.

| Statement | Configuration | Promise | Code |
|---|---|---|---|
| `ShutdownEnds` | `MCCriticalIngressShutdown` | `close()` returns | a call that fails while its task is being cancelled replaces the `CancelledError`, the loop goes on, and `close` waits for it (`background.py:80`) |
| `Triggered` | `MCCameraTasksSilent` | `README.md:156`: every camera is triggered | the mark in `queued` is set after `enqueue` was awaited; a worker may have dropped it before, and the camera is never scheduled again (`pipeline.py:507`). In memory nothing suspends there (`tasks_memory`) |
| `Triggered` with an outage | `MCCameraTasksOutage` | `README.md:157`: falls back to memory | an error of Redis ends the scheduler's task |
| `UnseenIsNew` | `MCCameraTasksRecreated` | `README.md:156` | a camera created again under its id starts at frame 1, below the old number (`pipeline.py:499`) |
| `ReadyIsAlerted` | `MCOffDutyPromises` | `README.md:89` | an alert tried before its threshold completes as stale and burns the key (`pipeline.py:835`) |
| `ConfirmedByTheModel` | `MCOffDutyPromises` | `README.md:89`: failed calls block the group | a failed behaviour call confirms (`pipeline.py:1468`) |
| `EveryConfirmedByItsEvent` | `MCOffDutyPromises` | `README.md:85` | the same call is not checked for staleness |
| `FixedFrame` | `MCOffDutyPromises` | `README.md:87`: the frame of the threshold | a confirming answer stores its own picture (`rules.py:247`), also while the pass that crossed the threshold saves its image, before it is latched |
| `AttemptsBounded` | `MCTaskStoreAttempts` | `README.md:119`: at most 5 attempts | a lease that runs out is claimed again without looking at `attempts` |
| `FIFO` | `MCCriticalIngressFIFO` | `background.py:89` "Bounded FIFO; head is retained" | a failed job is moved behind later ones (`background.py:172`) |
| `CurrentInOrder` | `MCTrafficWritesOrder` | `async_pipeline.py:501` "preserves traffic bucket/current ordering" | a retried flush commits after a younger one (597) |
| `NeverAcrossCooldown` | `MCPhoneAlertsPromises` | `rules.py:299`: timing "must not carry across a cooldown" | it does with late answers, and after lost streams and restarts |
| `AlwaysKeepsAlerting` | `MCPhoneAlertsPromises` | `README.md:91` | after a restart, a lost stream or a rename an event may be flagged as alerted although its alert was refused; while the use goes on no other follows |
| `FramesBurnOnce` | `MCSceneRulesPromises` | `README.md:82`: two frames in a row | a requested analysis looks at the frame the worker took (`pipeline.py:599`) |
| `OncePerTrack` | `MCSceneRulesPromises` | `README.md:107`: a track counts once in its life | a recovery forgets the tracks, and one that stays is counted again (`rules.py:374`) |
| `CompletedStays` | `MCNotificationsPromises` | a failed task marks its delivery | a worker that lost its lease marks the delivery another has completed (`async_pipeline.py:684`) |
| `PendingIsTrue` | `MCNotificationsPromises` | the status of an alert | it stays pending with nothing left to send |
| `OnlyExpiredSwept` | `MCPreviewsPromises` | `docs/SNAPSHOT_PREVIEW_OPS.md`: ended without a heartbeat | a session renewed after the sweeper listed it is ended too (`media_capture.py:681`) |
| `PreviewsCurrent` | `MCPreviewsPromises` | a preview shows its camera | one started while `sync` stops others gets the old source (`media_capture.py:391`) |
| `CutOffReleased` | `MCPreviewsPromises` | `docs/SNAPSHOT_PREVIEW_OPS.md:9`: ended after 60 s without a heartbeat | the stream renews its session by itself, and of a broken connection that is never noticed for ever (`media_capture.py:626`) |
| `ConfigFresh` | `MCCaptureStreamsPromises` | `docs/ASYNC_PIPELINE_IMPLEMENTATION.md` | of two overlapping refreshes the older rows may be stored last (`async_pipeline.py:167`) |
| `ReadersListed` | `MCCaptureStreamsPromises` | `sync` and `close` end all readers | of two overlapping syncs one drops the other's reader from the list (`media_capture.py:394`) |
| `OneProcess` | `MCCaptureStreamsPromises` | one long-lived FFmpeg reader of a camera | a killed process that does not exit within three seconds is given up, and its successor starts beside it (`media_capture.py:204`) |
| `NoneStranded` | `MCYoloBatchPromises` | `close` releases its callers | a request put after the sentinel waits for ever (`yolo.py:239`) |
| `AlwaysTrackedInOrder` | `MCYoloBatchPromises` | a tracker follows time | a call that was given up updates it late (`yolo.py:257`) |
| `AlwaysDetecting` | `MCYoloBatchPromises` | analysis survives a reload | futures that `close` cancels (`yolo.py:361`) end the workers that await them (`pipeline.py:623`), and stranded calls use up the pool |

Met while reading, without a statement: `docs/CONFIG_LOADING_AND_STORAGE.md:144`
merges the off-duty review into the behaviour request only if its interval is
shorter than the threshold, and `reuse_behavior_for_off_duty` (`pipeline.py:108`)
ignores both; the day of the people flow (`rules.py:364`) is that of UTC, while
`README.md:113` sums up the days of `Asia/Shanghai`.

## 5. What is proved

Each theorem holds for all constants that satisfy the assumption of its module
(`ConstantsAssumption`, `IngressAssumption`, ...: kinds are subsets of the contents,
markers like `NoWork` are outside, limits are positive, the sets of jobs in
`TrafficWrites`, of workers in `CameraTasks` and of cameras in `CaptureStreams` are finite). TLC evaluates the
assumptions in every run. Every proof has the same shape: an inductive invariant,
one step per action, and the property as a consequence.

| Module | Theorems | Inductive invariant |
|---|---|---|
| `TaskStoreProofs` | `TypeCorrectness`, `EffectsExactlyOnce`, `OneOwnerOnly`, `CompletionKeepsRows`, `CompletedJobsAreFinal`, `LiveLeasesAreKept`, `Refinement` | `IInv` |
| `CriticalIngressProofs` | `ConsistentAlways`, `KeysOnceAlways`, `AccountedAlways` | `IInv` |
| `TrafficWritesProofs` | `ConsistentAlways`, `EveryVisitorOnceAlways`, `CurrentInOrderAlways` | `TInv` |
| `CameraTasksProofs` | `TypeCorrect`, `DepthBoundedAlways`, `AnalysesSoundAlways`, `TasksSoundInMemory` | `IInv` |
| `OffDutyProofs` | `TypeCorrect`, `ConfirmedByItsEventAlways`, `AlertsSoundAlways` | `OInv` |
| `NotificationsProofs` | `ConsistentAlways`, `DeliveredIsTrueAlways`; of `PhoneAlerts`: `PhoneTypes`, `NeverDenied` | `NInv`; `PhoneInv` |
| `PreviewsProofs` | `ConsistentAlways`; of `SceneRules`: `FireInTwoFrames`, `AlertsAreConfirmed`, `TrafficIsVisits` | `PInv`; `SceneInv` |
| `CaptureStreamsProofs` | `AcceptedIsWritten`, `ListedReadersRun`, `DeviceCapacity`; of `YoloBatch`: `DetectorKeepsCalls`, `TrackersGoForward` | `PersistenceInv`, `StreamsInv`; `YoloInv` |

**Outbox.** None of the four invariants is inductive alone. That effects are
committed once needs to know that a completion about to commit still owns its
rows; that it does needs the row lock to keep other writers away, and the tokens
to be unique among rows and workers' hands (a stale claim must not become valid
again):

    IInv == TypeInv /\ TokensUnique /\ OnlyRunningLeased /\ CurrentHeld
            /\ OpenCompletionOwnsRows /\ OnlyCompletedHaveResult /\ ExactlyOnce

The lemmas treat the steps in groups that change the same things, and `Inductive`
puts them together. `Refinement` is `Spec => Abstract!Spec`: the rows implement `Outbox`, with `Persist`
mapped to `Accept`, `Commit` to `Apply`, `Fail` at the limit to `GiveUp`, `Retry` to
`Reopen`, `MarkStale` to `WriteOff`, and all else to stuttering. `LiveLeasesAreKept`
(no claim takes a row whose lease is alive) is not part of the run.

**Critical ingress.** That nothing accepted is lost, and that what a shutdown
reports covers all that is not durable, rests on two facts about the writer's
thread. The jobs of a call are still pending when it comes back, a batch at the head
of the queue (`CallsArePending`), and its outcome is true of them (`Calls`): only then
may `flush_one` pop without looking. Keys stay unique because of `Reservations`: a key
in memory is reserved, and what is retained is not in the table, so its key cannot
settle and be submitted again. The report compares a cardinality with two
lengths, which is a counting lemma about queues without repetition.

**People flow.** `EveryVisitorOnce` adds up over the jobs of a set. What is in memory
has to be apart from what is in the table (`Held`: a job in memory is absent from it, is there
once and is not empty), or a visitor would be added twice when the job becomes
durable or the process is killed. `SumFunctionOnSet` of the community modules is
defined by recursion over subsets, and the library's induction theorems cannot be
instantiated here; the lemmas about it (its value is unique, exists, does not depend on the
order, and splits over disjoint sets) go by a smallest counterexample, for which
`NatLessThanWellFounded` and `WFMin` suffice. `CurrentInOrderUntroubled`, an action
property, needs `InOrder`: along the queue, memory and `flow_pending` the counts of a
slot get newer, from what the table holds to what was detected, and the job applied next is before all that are not done.

**Analysis tasks.** `IInv == Types /\ Queues /\ Room /\ InFlight /\ Compared /\ (~UsesRedis
=> InMemory)`. Who analyses holds the process lock of the camera and looks at a
frame that is new to it (`InFlight`), also when the lock in Redis expired, the task was
delivered twice or the camera was deleted under it. The bound of the queues counts ids, which
name one task each wherever it is (`Queues`). What `depths` answered may be out of date when `xadd` follows, but only
one way: until the scheduler appends, nothing else makes a line longer (`Room`: while the scheduler is at
`adding` its line is shorter than the limit), since taking moves a task, reclaiming renames its holder and acknowledging removes it. `TasksSoundInMemory` proves `TasksSound`
under the hypothesis `~UsesRedis`, as `TasksSound` is claimed by `tasks_memory` only: with Redis
it is false, which is the disagreement `Triggered` of section 4.

**Off duty.** That no absence is in two alerts is a matter of its number: once an
alert with it is committed and answered, the absence is `Over`, or will be with the
writer's next step (`Closing`), and no absence is timed under that number again. The
key of an alert must then name absences its members have had (`Keyed`), a rule state must be
`Good` (it times the newest absence, alerts past the threshold only, and is
confirmed by an answer about it), and a row about to be alerted (`Committing`) shares no absence with
an answered alert. The proof showed that the property does not hold for commits whose answer
is lost: see `lost` in section 2.

**Notifications.** A delivery is marked after the send, by another transaction, maybe after the alert was
deleted or the lease lost. `DeliveredIsTrue` needs to know that a worker about
to complete has sent everything (`Employed`), that no row comes back after a deletion (`Gone`), and
that the status a coroutine summed up is still true when it writes it
(`Summed`).

**Phone use.** `PhoneInv == PhoneTyped /\ DenialInv`. That no alert is about a use that was
denied (`NeverDenied`, whatever goes wrong) holds because the reviews of a camera are answered in the
order of their samples, so that nothing waiting, active or pending is younger than the last denial's
end. The other half of `EventsAreWhole`, that none is about a use from within the last cooldown, depends on the
settings (section 3, bounds) and is only model-checked.

**Previews.** `Consistent` is inductive with `Running`: a listed preview runs, and one that
ended has no sessions, so that stopping it twice ends nobody's session.

**Windows of the other modes.** The rules keep counters and sets, the properties speak of the whole
history, which has no bound, so `SceneInv` says of each counter what it counts: a number below its
cap is the length of the last row of hits (`Streak`), and the window of smoke is the end of the
history (`LastOfAppend`: a window of a window). Zone and hall have one definition, `InsideAt`: who was within in
some pass after which no pass ended the visit, and `OneMorePass` says how it and `FirstAt`, whose visit begins, grow by a pass. What
differs is how a visit ends. In the zone (`ZoneGood`) the age of whoever is inside is the time since the
pass that saw them last, so that `intrusion_update` forgets exactly those whose visit ends. In the hall
(`FlowGood`) a track that misses n passes was last present n passes ago, with no new day or
recovery since, and it is `counted` if and only if its visit goes on: a track present outside the line
keeps the visit without beginning one. `AlertsAreConfirmed` and `TrafficIsVisits` follow. `FireInTwoFrames` needs `Looks`:
after a look of the worker the frame is new to it again only if another has come. That holds
through failures and edits, whose passes go on without the state of the camera (`orphan`), and it is what the
analysis that a user asks for does not have (`FramesBurnOnce`, section 4).

**Capture streams.** A write in the pool saves what was current when it began.
`AcceptedIsWritten` therefore needs `BatchCurrent`: an entry of the batch is still what the
process knows of its camera, or the camera waits again. `PersistenceInv` adds types and the
absence of repetitions in both queues, and holds for any number of overlapping requests; so does
`ListedReadersRun`. A reader on the list is either running or about to be taken off by a request that waits for
exactly it: a request that stops a reader remembers which one until it has taken it off, and
`remove` takes it off before it stops it. `StreamsInv` adds the types to `ListedRun`, and that a request about to rename knows
what. `SlotsLeft` is a hypothesis because slots are names of the model for readers, of which
the code has no limit; TLC runs with enough of them. `DeviceCapacity` is a counting lemma: `Assignment` divides the rank of a camera among
the enabled ones, so no device gets more than it may from one assignment. That all readers at a time come from one
assignment, and that they match the table (`ReadersFitInTurn`), is only model-checked, for requests one after the other; with
overlapping requests it is false (section 4). `Ranks`, `PickedIs` and `KeptIs` say what the filters of the queues return.

**Detector.** `YoloInv` has, beside the types, one part for each of the three parties of a call. A
batch thread has in its queue or batch exactly the requests that wait for it, once each, and
after a close one sentinel, which it has not passed (`PlacesInv`; `Collect` puts the sentinel back
behind whatever came after it). The answer of a call is about its key and its
picture (`CallsInv`). The loop of a key waits for one call, which is in a thread or in the
pool's line (`HeardInv`): a time-out makes the call unheard and the loop idle in one step. They give
`DetectorKeepsCalls`. For `TrackersGoForward`, an action property, `OrderInv` says that a key of
which no call was given up has one call at a time, and that no tracker, of the old or the new
detector, is ahead of the picture that call was given. It speaks of calls that have their picture: one
in a batch takes it late, in `Dispatch`, which is what makes the order hold.

**Only model-checked.** The liveness properties (`JobsSettle`, `HealthyPersist`,
`Analysed`, `KeepsAlerting`, `NotificationsEnd`, `EveryCameraGetsItsTurn`, `RequestsEnd`,
`AbandonedReleased`, `CallsEnd`, `KeepsDetecting`) need fairness, which is out of the provers'
reach; the disagreements of section 4 are counterexamples. Of the safety properties, `ReadersFitInTurn`
and the half of `EventsAreWhole` about cooldowns hold in their runs under
conditions the code does not guarantee, and are not proved. The others are, and so are the action properties
`CompletedIsFinal`, `CurrentInOrderUntroubled` and `TrackedInOrder`. `TasksSound` is proved for the process without Redis, for which it is claimed.

## 6. Plan

What is left of the system: `TrafficWrites` composed with the shutdown of
`CriticalIngress`; two transactions that insert one key; sessions against
changes of their user.

## 7. Not modelled

Detectors, geometry, matching in trackers, drawing and image statistics are numeric; a detector
whose library is missing raises at every call, and a batch queue of 4096 is never full. HTTP, RTSP and
FFmpeg are the environment: their outcomes are choices of the models. A process that was given up
only counts in `OneProcess`: what it still uses of a device, nothing in the code knows. Redis and
the database are modelled by the commands and transactions the code uses:
single commands are atomic, and a transaction's commit may succeed while the client
sees an error. Clocks are monotonic. Smoking confirms at its first positive answer and
keeps no event. Files of removed cameras that a late snapshot creates again are not
tracked, nor are the analysis rows of reviews. Accounts, the event bus, the front end, migrations,
deployment and load scripts: see their notes in `PROJECT.json`.
