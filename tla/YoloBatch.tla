------------------------------ MODULE YoloBatch ------------------------------
(***************************************************************************)
(* The general detector of the backend: backend/detectors/yolo.py and the  *)
(* calls of backend/pipeline.py.                                           *)
(*                                                                         *)
(* The workers and the preview loop run YoloDetector.detect in a thread of *)
(* the event loop's pool and give up when a time-out passes; the thread    *)
(* goes on.  detect() puts a request into the queue of the camera's device *)
(* and waits for it without a time-out; one thread for each device         *)
(* collects batches and answers them.  With a batch size of 1 the pool's   *)
(* thread calls the inference process itself.  The answer goes into the    *)
(* tracker of the key.  A pass that fails or times out is over: its frame  *)
(* counts as analysed.  An administrator's change of the detector settings *)
(* closes the detector and makes another; a close puts a sentinel into     *)
(* each queue and blocks the event loop while it waits for the batch       *)
(* threads, at most 5 seconds for each.  It cancels inferences that no     *)
(* process has begun, and such a cancellation ends the worker or the       *)
(* preview loop that waits for the answer.                                 *)
(*                                                                         *)
(* Left out: what is detected, the metrics, the capacity of a queue (4096, *)
(* never met by a pool of some tens of threads), a detector whose library  *)
(* cannot be loaded (available stays FALSE, every call raises), and the    *)
(* detections an administrator asks for by hand.                           *)
(***************************************************************************)
EXTENDS Integers, Sequences, FiniteSets, SequencesExt

CONSTANTS
  Camera,     \* cameras analysed by the workers
  Preview,    \* the "preview:..." keys of the preview loop
  Device,     \* YOLO_DEVICE split at its commas
  Workers,    \* analysis_workers
  Threads,    \* size of the event loop's thread pool
  Sizes,      \* the values of YOLO_BATCH_SIZE
  MaxFrame,   \* bounds the frames of a camera
  MaxUpset    \* bounds reloads, time-outs, missing frames and failures together

ASSUME YoloAssumption ==
  /\ Camera \cap Preview = {}
  /\ {Threads, Workers} \subseteq Nat \ {0}
  /\ Sizes \subseteq Nat \ {0}
  /\ {MaxFrame, MaxUpset} \subseteq Nat

Key == Camera \cup Preview
Thread == 1 .. Threads
Detector == 1 .. MaxUpset + 1
Sentinel == 0

VARIABLES
  batchSize, \* batch_size
  deviceOf,  \* _device_index: crc32 of the key, any function
  fixed,     \* no async_pipeline: a camera's picture is the frame of the pass
  yolo,      \* MonitoringRuntime.yolo, the newest Detector
  open,      \* the detectors that have executors
  closing,   \* the event loop is inside close() of the detector
  running,   \* MonitoringRuntime.running
  workers,   \* the general workers that have not ended
  previewing, \* the preview loop has not ended
  queue,     \* batch_queues of each detector: threads that wait, Sentinel
  batcher,   \* _batch_loop of each detector and device
  thread,    \* what each thread of the pool does
  work,      \* calls that wait for a thread of the pool
  loop,      \* the pass of each key: the frame it began with, the one it saw
  frame,     \* sequence of the latest frame of each key
  analyzed,  \* last_analyzed_sequence, and last_sequence of the preview loop
  tracker,   \* trackers of each detector: the last frame seen, 0 for no tracker
  late,      \* history: the keys of which a call was given up
  upsets

settings == <<batchSize, deviceOf, fixed>>
ends == <<workers, previewing>>
service == <<yolo, open, closing, running, ends>>
batching == <<queue, batcher>>
loops == <<work, loop, analyzed, late>>
vars == <<settings, service, batching, thread, loops, frame, tracker, upsets>>

(* A call: after the check of detect() it is "entered", then "queued" while a
   request, "asking" with an inference of its own, at last "ok", "failed" or
   "cancelled".  picture is the frame its source gave, result the one it is
   answered for.                                                             *)
Call(k) == [stage |-> "entered", key |-> k, yolo |-> yolo, awaited |-> TRUE,
            picture |-> IF k \in Preview \/ fixed THEN frame[k] ELSE 0,
            result |-> 0, answers |-> k]
Free == [stage |-> "free"]
Idle == [state |-> "idle", start |-> 0, seen |-> 0]
Resting == [phase |-> "getting", batch |-> <<>>]

Busy == {t \in Thread : thread[t] # Free}
DeviceFor(t) == deviceOf[thread[t].key]

Init ==
  /\ batchSize \in Sizes
  /\ deviceOf \in [Key -> Device] /\ fixed \in BOOLEAN
  /\ yolo = 1 /\ open = {1} /\ closing = FALSE /\ running = TRUE
  /\ workers = Workers /\ previewing = TRUE
  /\ queue = [g \in Detector |-> [d \in Device |-> <<>>]]
  /\ batcher = [g \in Detector |-> [d \in Device |-> Resting]]
  /\ thread = [t \in Thread |-> Free]
  /\ work = <<>>
  /\ loop = [k \in Key |-> Idle]
  /\ frame \in [Key -> 0 .. MaxFrame]
  /\ analyzed = [k \in Key |-> 0]
  /\ tracker = [g \in Detector |-> [k \in Key |-> 0]]
  /\ late = {}
  /\ upsets \in 0 .. MaxUpset

Upset == upsets < MaxUpset /\ upsets' = upsets + 1
-----------------------------------------------------------------------------
(* The event loop, which stands still inside close().                       *)

NewFrame(k) ==
  /\ frame[k] < MaxFrame
  /\ frame' = [frame EXCEPT ![k] = @ + 1]
  /\ UNCHANGED <<settings, service, batching, thread, loops, tracker, upsets>>

(* A worker takes the camera, or the preview loop comes to the preview.      *)
Start(k) ==
  /\ running /\ ~closing
  /\ loop[k] = Idle
  /\ IF k \in Preview THEN previewing /\ \A p \in Preview : loop[p] = Idle
                       ELSE Cardinality({c \in Camera : loop[c] # Idle}) < workers
  /\ frame[k] > analyzed[k]
  /\ loop' = [loop EXCEPT ![k] = [state |-> "waiting", start |-> frame[k], seen |-> 0]]
  /\ work' = Append(work, Call(k))
  /\ analyzed' = IF k \in Preview THEN [analyzed EXCEPT ![k] = frame[k]]
                                  ELSE analyzed
  /\ UNCHANGED <<settings, service, batching, thread, frame, tracker, late, upsets>>

\* The elements of s at the places I, in order.
Picked(s, I) ==
  LET place(n) == CHOOSE i \in I : Cardinality({j \in I : j <= i}) = n
  IN  [n \in 1 .. Cardinality(I) |-> s[place(n)]]

(* The calls of keys K are given up: one that waits for a thread is cancelled,
   one that runs goes on unheard.                                            *)
Abandon(K) ==
  /\ work' = Picked(work, {i \in DOMAIN work : work[i].key \notin K})
  /\ thread' = [t \in Thread |->
                 IF t \in Busy /\ thread[t].key \in K
                 THEN [thread[t] EXCEPT !.awaited = FALSE] ELSE thread[t]]

(* Only a time-out ends the wait for a request that nobody will take, or for
   a thread of a pool in which all threads wait that way.                    *)
Stranded(t) ==
  /\ t \in Busy /\ thread[t].stage = "queued"
  /\ batcher[thread[t].yolo][DeviceFor(t)].phase = "ended"
Hopeless(k) ==
  \/ \A t \in Thread : Stranded(t)
  \/ \E t \in Thread : Stranded(t) /\ thread[t].key = k /\ thread[t].awaited

(* The pass is over, and its frame is consumed.                              *)
TimeOut(k) ==
  /\ ~closing
  /\ IF Hopeless(k) THEN UNCHANGED upsets ELSE Upset
  /\ loop[k].state = "waiting"
  /\ Abandon({k})
  /\ loop' = [loop EXCEPT ![k] = Idle]
  /\ late' = late \cup {k}
  /\ analyzed' = [analyzed EXCEPT ![k] = loop[k].start]
  /\ UNCHANGED <<settings, service, batching, frame, tracker>>

(* A pass that fails consumes the frame it began with, as does one whose
   camera was edited meanwhile; others consume the frame they saw.           *)
Consume(k) ==
  /\ analyzed' \in {[analyzed EXCEPT ![k] = n] :
                     n \in {loop[k].start} \cup
                           (IF loop[k].state = "ok" THEN {loop[k].seen} ELSE {})}
  /\ UNCHANGED ends

(* A cancellation is not an Exception: the loop that awaits the call ends.   *)
LoopEnds(k) ==
  /\ IF k \in Preview THEN previewing' = FALSE /\ UNCHANGED workers
                       ELSE workers' = workers - 1 /\ UNCHANGED previewing
  /\ UNCHANGED analyzed

(* As Receive, were the camera only released after an analysis.              *)
ReceiveAnswers(k) ==
  /\ ~closing
  /\ \/ loop[k].state = "ok" /\ Consume(k)
     \/ loop[k].state = "cancelled" /\ LoopEnds(k)
  /\ loop' = [loop EXCEPT ![k] = Idle]
  /\ UNCHANGED <<settings, yolo, open, closing, running, batching, thread, work,
                 frame, tracker, late, upsets>>

Receive(k) ==
  /\ ~closing
  /\ \/ loop[k].state \in {"ok", "failed"} /\ Consume(k)
     \/ loop[k].state = "cancelled" /\ LoopEnds(k)
  /\ loop' = [loop EXCEPT ![k] = Idle]
  /\ UNCHANGED <<settings, yolo, open, closing, running, batching, thread, work,
                 frame, tracker, late, upsets>>

(* An edit of the camera.                                                    *)
ResetTracker(k) ==
  /\ k \in Camera /\ running /\ ~closing
  /\ tracker[yolo][k] # 0
  /\ tracker' = [tracker EXCEPT ![yolo][k] = 0]
  /\ UNCHANGED <<settings, service, batching, thread, loops, frame, upsets>>

(* reload_detectors, or the end of the runtime's close().                    *)
CloseDetector ==
  /\ ~closing /\ yolo \in open
  /\ IF running THEN Upset ELSE UNCHANGED upsets
  /\ closing' = TRUE
  /\ queue' = [queue EXCEPT ![yolo] = [d \in Device |-> Append(@[d], Sentinel)]]
  /\ UNCHANGED <<settings, yolo, open, running, ends, batcher, thread, loops, frame,
                 tracker>>

(* The batch threads have ended, or 5 seconds have passed for each.          *)
Closed ==
  /\ closing
  /\ closing' = FALSE
  /\ yolo' = IF running THEN yolo + 1 ELSE yolo
  /\ open' = IF running THEN {yolo + 1} ELSE {}
  /\ UNCHANGED <<settings, running, ends, batching, thread, loops, frame, tracker,
                 upsets>>

(* close() of the runtime cancels the workers and the preview loop first.    *)
Stop ==
  /\ running /\ ~closing
  /\ running' = FALSE
  /\ Abandon(Key)
  /\ loop' = [k \in Key |-> Idle]
  /\ UNCHANGED <<settings, yolo, open, closing, ends, batching, frame, analyzed,
                 tracker, late, upsets>>
-----------------------------------------------------------------------------
(* The threads of the pool.                                                 *)

Ends(c, state) ==
  loop' = IF c.awaited
          THEN [loop EXCEPT ![c.key] = [@ EXCEPT !.state = state, !.seen = c.picture]]
          ELSE loop

(* detect() begins: it raises when the detector is closed.                   *)
Enter(t) ==
  /\ t \notin Busy /\ \A u \in Thread \ Busy : t <= u
  /\ work # <<>>
  /\ work' = Tail(work)
  /\ \/ /\ Head(work).yolo \in open
        /\ thread' = [thread EXCEPT ![t] = Head(work)]
        /\ UNCHANGED loop
     \/ /\ Head(work).yolo \notin open
        /\ Ends(Head(work), "failed")
        /\ UNCHANGED thread
  /\ UNCHANGED <<settings, service, batching, frame, analyzed, tracker, late, upsets>>

Put(t) ==
  /\ batchSize > 1
  /\ thread[t].stage = "entered"
  /\ thread' = [thread EXCEPT ![t].stage = "queued"]
  /\ queue' = [queue EXCEPT ![thread[t].yolo][DeviceFor(t)] = Append(@, t)]
  /\ UNCHANGED <<settings, service, batcher, loops, frame, tracker, upsets>>

(* The picture of thread t: a source may have none at that moment.           *)
HasSource(t) == thread[t].key \in Camera /\ ~fixed
Picture(t) == IF HasSource(t) THEN frame[thread[t].key] ELSE thread[t].picture

(* Without batches the thread asks the inference process itself.             *)
Ask(t) ==
  /\ batchSize = 1
  /\ thread[t].stage = "entered"
  /\ \/ /\ thread[t].yolo \in open
        /\ thread' = [thread EXCEPT ![t].stage = "asking", ![t].picture = Picture(t)]
        /\ UNCHANGED upsets
     \/ /\ \/ thread[t].yolo \notin open /\ UNCHANGED upsets
           \/ HasSource(t) /\ Upset
        /\ thread' = [thread EXCEPT ![t].stage = "failed"]
  /\ UNCHANGED <<settings, service, batching, loops, frame, tracker>>

(* An inference can fail; a shutdown of the executor cancels what waits for
   a process.                                                                *)
Works(g) == UNCHANGED upsets
Breaks(g, stage) == \/ stage = "failed" /\ Upset
                    \/ stage = "cancelled" /\ g \notin open /\ UNCHANGED upsets

Reply(t) ==
  /\ thread[t].stage = "asking"
  /\ \/ /\ Works(thread[t].yolo)
        /\ thread' = [thread EXCEPT ![t].stage = "ok", ![t].result = thread[t].picture]
     \/ \E stage \in {"failed", "cancelled"} :
          /\ Breaks(thread[t].yolo, stage)
          /\ thread' = [thread EXCEPT ![t].stage = stage]
  /\ UNCHANGED <<settings, service, batching, loops, frame, tracker>>

(* The rest of detect(): an empty picture only updates a tracker that is
   there, persons make one.                                                  *)
Track(t) ==
  /\ thread[t].stage = "ok"
  /\ LET c == thread[t]
     IN /\ \E persons \in BOOLEAN :
             tracker' = IF persons \/ tracker[c.yolo][c.key] # 0
                        THEN [tracker EXCEPT ![c.yolo][c.key] = c.result]
                        ELSE tracker
        /\ Ends(c, "ok")
  /\ thread' = [thread EXCEPT ![t] = Free]
  /\ UNCHANGED <<settings, service, batching, work, frame, analyzed, late, upsets>>

Raise(t) ==
  /\ thread[t].stage \in {"failed", "cancelled"}
  /\ Ends(thread[t], thread[t].stage)
  /\ thread' = [thread EXCEPT ![t] = Free]
  /\ UNCHANGED <<settings, service, batching, work, frame, analyzed, tracker, late, upsets>>
-----------------------------------------------------------------------------
(* _batch_loop of detector g and device d.                                  *)

GetFirst(g, d) ==
  LET q == queue[g][d] IN
  /\ batchSize > 1
  /\ batcher[g][d].phase = "getting" /\ q # <<>>
  /\ queue' = [queue EXCEPT ![g][d] = Tail(q)]
  /\ batcher' = [batcher EXCEPT ![g][d] =
       IF Head(q) = Sentinel THEN [phase |-> "ended", batch |-> <<>>]
       ELSE [phase |-> "collecting", batch |-> <<Head(q)>>]]
  /\ UNCHANGED <<settings, service, thread, loops, frame, tracker, upsets>>

(* As Collect, were the sentinel not put back.                               *)
CollectSentinel(g, d) ==
  LET q == queue[g][d] IN
  /\ batcher[g][d].phase = "collecting" /\ q # <<>>
  /\ Len(batcher[g][d].batch) < batchSize
  /\ queue' = [queue EXCEPT ![g][d] = Tail(q)]
  /\ batcher' = [batcher EXCEPT ![g][d] =
       IF Head(q) = Sentinel THEN [@ EXCEPT !.phase = "collected"]
                             ELSE [@ EXCEPT !.batch = Append(@, Head(q))]]
  /\ UNCHANGED <<settings, service, thread, loops, frame, tracker, upsets>>

(* A sentinel met while a batch is collected goes back to the queue's end.   *)
Collect(g, d) ==
  LET q == queue[g][d] IN
  /\ batcher[g][d].phase = "collecting" /\ q # <<>>
  /\ Len(batcher[g][d].batch) < batchSize
  /\ \/ /\ Head(q) = Sentinel
        /\ queue' = [queue EXCEPT ![g][d] = Append(Tail(q), Sentinel)]
        /\ batcher' = [batcher EXCEPT ![g][d].phase = "collected"]
     \/ /\ Head(q) # Sentinel
        /\ queue' = [queue EXCEPT ![g][d] = Tail(q)]
        /\ batcher' = [batcher EXCEPT ![g][d].batch = Append(@, Head(q))]
  /\ UNCHANGED <<settings, service, thread, loops, frame, tracker, upsets>>

(* The threads of batch b get the calls of their places.                     *)
Answered(b, calls) ==
  [t \in Thread |-> IF Contains(b, t) THEN calls[CHOOSE i \in DOMAIN b : b[i] = t]
                                      ELSE thread[t]]

Fail(g, d, stage) ==
  LET b == batcher[g][d].batch
      failed == [i \in DOMAIN b |-> [thread[b[i]] EXCEPT !.stage = stage]]
  IN /\ batcher' = [batcher EXCEPT ![g][d] = Resting]
     /\ thread' = Answered(b, failed)

(* The batch is full or its time is over.  The sources are asked in turn: one
   that has no frame fails the whole batch, as does a closed executor.       *)
Dispatch(g, d) ==
  /\ batcher[g][d].phase \in {"collecting", "collected"}
  /\ LET b == batcher[g][d].batch
         asked == [i \in DOMAIN b |-> [thread[b[i]] EXCEPT !.picture = Picture(b[i])]]
     IN \/ /\ g \in open
           /\ thread' = Answered(b, asked)
           /\ batcher' = [batcher EXCEPT ![g][d].phase = "asking"]
           /\ UNCHANGED upsets
        \/ /\ g \notin open
           /\ Fail(g, d, "failed")
           /\ UNCHANGED upsets
        \/ /\ \E i \in DOMAIN b : HasSource(b[i])
           /\ Fail(g, d, "failed")
           /\ Upset
  /\ UNCHANGED <<settings, service, queue, loops, frame, tracker>>

(* As Results, were the newest picture answered first.                       *)
ResultsReversed(g, d) == [i \in DOMAIN batcher[g][d].batch |->
  thread[batcher[g][d].batch[Len(batcher[g][d].batch) + 1 - i]]]

(* The answers come in the order of the pictures.                            *)
Results(g, d) == [i \in DOMAIN batcher[g][d].batch |->
                   thread[batcher[g][d].batch[i]]]

Succeed(g, d) ==
  LET b == batcher[g][d].batch
      zipped == [i \in DOMAIN b |->
                   [thread[b[i]] EXCEPT !.stage = "ok", !.answers = Results(g, d)[i].key,
                                        !.result = Results(g, d)[i].picture]]
  IN /\ batcher' = [batcher EXCEPT ![g][d] = Resting]
     /\ thread' = Answered(b, zipped)

Answer(g, d) ==
  /\ batcher[g][d].phase = "asking"
  /\ \/ Works(g) /\ Succeed(g, d)
     \/ \E stage \in {"failed", "cancelled"} : Breaks(g, stage) /\ Fail(g, d, stage)
  /\ UNCHANGED <<settings, service, queue, loops, frame, tracker>>
-----------------------------------------------------------------------------
Batching == \E g \in Detector, d \in Device :
              GetFirst(g, d) \/ Collect(g, d) \/ Dispatch(g, d) \/ Answer(g, d)
Pool == \E t \in Thread :
          Enter(t) \/ Put(t) \/ Ask(t) \/ Reply(t) \/ Track(t) \/ Raise(t)
Looping == \E k \in Key : Start(k) \/ TimeOut(k) \/ Receive(k) \/ ResetTracker(k)

Next ==
  \/ \E k \in Key : NewFrame(k)
  \/ Looping
  \/ CloseDetector \/ Closed \/ Stop
  \/ Pool
  \/ Batching

Spec == Init /\ [][Next]_vars

(* Threads run, the processes answer, the event loop goes on and gives up what
   never ends.  No one is made to edit, to reload or to stop.                *)
Fairness ==
  /\ \A k \in Key : WF_vars(Start(k)) /\ WF_vars(Receive(k))
  /\ \A k \in Key : WF_vars(Hopeless(k) /\ TimeOut(k))
  /\ WF_vars(Closed)
  /\ WF_vars(\E t \in Thread : Enter(t))
  /\ \A t \in Thread : WF_vars(Put(t) \/ Ask(t) \/ Reply(t) \/ Track(t) \/ Raise(t))
  /\ \A g \in Detector, d \in Device :
       WF_vars(GetFirst(g, d) \/ Dispatch(g, d) \/ Answer(g, d))

FairSpec == Spec /\ Fairness
-----------------------------------------------------------------------------
Calls == [stage : {"entered", "queued", "asking", "ok", "failed", "cancelled"},
          key : Key, yolo : Detector, awaited : BOOLEAN, picture : 0 .. MaxFrame,
          result : 0 .. MaxFrame, answers : Key]
Queued(g, d) == {t \in Thread : Contains(queue[g][d], t)}
Batched(g, d) == {t \in Thread : Contains(batcher[g][d].batch, t)}

(* Type correctness.  A thread that waits for a batch is in exactly one place
   of the right queue or batch, a loop that waits has one call that is heard,
   and the queue of a closing detector has one sentinel until its thread ends:
   detect, _batch_loop and close keep each other's promises.                 *)
TypeOK ==
  /\ \A t \in Busy : thread[t] \in Calls
  /\ \A i \in DOMAIN work : work[i] \in Calls
  /\ workers \in 0 .. Workers
  /\ \A g \in Detector, d \in Device :
       /\ Queued(g, d) \cup Batched(g, d) =
            {t \in Busy : thread[t].stage = "queued" /\ thread[t].yolo = g /\ DeviceFor(t) = d}
       /\ IsInjective(batcher[g][d].batch \o queue[g][d])
       /\ Len(batcher[g][d].batch) <= batchSize
       /\ Contains(queue[g][d], Sentinel) =>
            batcher[g][d].phase # "ended" /\ (g \notin open \/ closing)
  /\ \A k \in Key : loop[k].state = "waiting" <=>
       Cardinality({t \in Busy : thread[t].key = k /\ thread[t].awaited})
         + Cardinality({i \in DOMAIN work : work[i].key = k}) = 1

(* Whatever was batched together, an answer is about the picture that the
   call's own source gave (zip of requests and results in _batch_loop).      *)
AnswersMatch ==
  \A t \in Busy : thread[t].stage = "ok" =>
    thread[t].answers = thread[t].key /\ thread[t].result = thread[t].picture

\* The types, and whom an answer belongs to.
Consistent == TypeOK /\ AnswersMatch

(* A tracker follows its key forward in time, through batches, failures and
   reloads, as long as no call of the key was given up: the answers of passes
   one after the other reach _track in their order.                          *)
TrackedInOrder ==
  [][\A g \in Detector, k \in Key \ late :
       tracker'[g][k] # 0 => tracker'[g][k] >= tracker[g][k]]_vars

(* The same without the exception.                                           *)
AlwaysTrackedInOrder ==
  [][\A g \in Detector, k \in Key :
       tracker'[g][k] # 0 => tracker'[g][k] >= tracker[g][k]]_vars

(* A request that is not behind the sentinel is answered, and the batch
   threads of a closed detector end: close() strands nothing that was queued
   before it, although it only waits 5 seconds.                              *)
Ahead(t) ==
  /\ t \in Busy /\ thread[t].stage = "queued" /\ ~Stranded(t)
  /\ LET q == queue[thread[t].yolo][DeviceFor(t)]
     IN Contains(q, t) => \A i, j \in DOMAIN q : q[i] = Sentinel /\ q[j] = t => j < i

CallsEnd ==
  /\ \A t \in Thread : Ahead(t) ~> (t \notin Busy)
  /\ \A g \in Detector, d \in Device :
       (g < yolo /\ batchSize > 1) ~> (batcher[g][d].phase = "ended")

(* A request that gets into the queue after the batch thread met the sentinel
   waits for ever: detect() checks first and puts later.                     *)
NoneStranded == \A t \in Thread : ~Stranded(t)

(* As long as a worker lives and a thread of the pool is not stranded, a pass
   comes back to every new frame of a camera or to a newer one: a time-out, a
   failed batch or a reload costs the frame it met, never the ones after it.  *)
KeepsDetecting ==
  \A c \in Camera :
    []<>(\/ analyzed[c] = frame[c] \/ ~running
         \/ workers = 0 \/ \A t \in Thread : Stranded(t))

(* The same of the workers and the threads that reloads leave: one that lost
   all of them would have to get others.                                     *)
AlwaysDetecting == \A c \in Camera : []<>(analyzed[c] = frame[c] \/ ~running)
=============================================================================
