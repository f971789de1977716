------------------------- MODULE NotificationsProofs -------------------------
(***************************************************************************)
(* Proofs about Notifications, for every set of targets, workers and       *)
(* manual requests, and any number of lost leases, kills and manual sends; *)
(* and, at the end, about PhoneAlerts.                                     *)
(***************************************************************************)
EXTENDS Notifications, Integers, FiniteSetTheorems, TLAPS

\* A worker that is not idle works on a delivery of an alert that was committed
\* with its tasks: the row is there, or alert and rows were deleted together.
\* When it is about to complete the task, everything was sent.
Employed ==
  \A w \in Worker : worker[w].pc # "idle" =>
    /\ worker[w].target \in Target /\ ~direct
    /\ delivery[worker[w].target] # "none" \/ alert = "deleted"
    /\ worker[w].pc = "sent" =>
         received[worker[w].target] = "everything" \/ alert = "deleted"

\* So does a task.
Tasked ==
  \A t \in Target : task[t].status # "none" =>
    ~direct /\ (delivery[t] # "none" \/ alert = "deleted")

\* Before the alert is there nothing is delivered, sent or summed up, ...
Nothing ==
  alert = "none" =>
    /\ \A t \in Target : delivery[t] = "none"
    /\ loop.step = "free"
    /\ \A r \in Request \union {NoOne} : sending[r] = {}

\* ... and after its deletion no row comes back.
Gone == alert = "deleted" => \A t \in Target : delivery[t] = "none"

\* What a coroutine has summed up is still true when it writes it, although
\* workers write in between, as far as the properties depend on it.
Summed ==
  loop.step = "writes" =>
    /\ loop.status = "delivered" => \A t \in Listed : received[t] = "everything"
    /\ direct /\ Present => loop.status = Summary

\* What the safety of one step rests on, besides the types
Rows == Employed /\ Tasked /\ Nothing /\ Gone /\ Summed

NInv == TypeOK /\ Rows /\ StatusAgrees /\ DeliveredIsTrue

-----------------------------------------------------------------------------
(* Lemmas about the operators *)

\* A send never takes back what has arrived, and brings everything when it
\* succeeds.
LEMMA SendBrings ==
  ASSUME TypeOK, NEW t \in Target, NEW ok \in BOOLEAN, Send(t, ok)
  PROVE  /\ received' \in [Target -> {"nothing", "text", "everything"}]
         /\ \A u \in Target : received[u] = "everything" => received'[u] = "everything"
         /\ ok => received'[t] = "everything"
  BY DEF TypeOK, Send

\* The sum is a status, and "delivered" only of deliveries that all are.
LEMMA SummaryType ==
  ASSUME TypeOK
  PROVE  /\ Summary \in Status
         /\ Summary = "delivered" => \A t \in Listed : delivery[t] = "delivered"
  BY DEF Summary, Status, Listed, In

LEMMA WrittenType ==
  ASSUME TypeOK, NEW t \in Target, NEW status \in {"pending", "delivered", "failed"}
  PROVE  /\ Written(t, status) \in [Target -> {"none", "pending", "delivered", "failed"}]
         /\ \A u \in Target : Written(t, status)[u] =
              IF u = t /\ delivery[t] # "none" THEN status ELSE delivery[u]
  BY DEF TypeOK, Written

-----------------------------------------------------------------------------
(* Types *)

\* The rows of the tasks
Task == [status : Unfinished \union {"none", "failed", "completed"},
         attempts : 0..MaxAttempts, holder : Worker \union {NoOne}]

TasksOK ==
  /\ task \in [Target -> Task]
  /\ \A t \in Target : task[t].holder # NoOne => task[t].status = "running"

LEMMA NewTaskType == NoTask \in Task /\ NewTask \in Task /\ NoTask.holder = NoOne /\ NewTask.holder = NoOne
  BY NotificationsAssumption DEF Task, NoTask, NewTask, Unfinished

LEMMA TypeInit == Init => TypeOK
<1> SUFFICES ASSUME Init PROVE TypeOK
  OBVIOUS
<1>1. TasksOK
  BY NewTaskType DEF Init, TasksOK
<1>2. QED
  BY <1>1, NotificationsAssumption DEF Init, TypeOK, TasksOK, Task, Idle, FreeLoop, Status

LEMMA TypeStep ==
  ASSUME TypeOK, Employed, [Next]_vars
  PROVE  TypeOK'
<1> USE NotificationsAssumption
<1>1. ASSUME NEW T \in SUBSET Target, Commit(T) \/ Schedule(T)
      PROVE  TypeOK'
  <2>1. TasksOK'
    BY <1>1, NewTaskType DEF TypeOK, TasksOK, Task, Commit, Schedule
  <2>2. QED
    BY <1>1, <2>1 DEF TypeOK, TasksOK, Task, Commit, Schedule, Created, Status
<1>2. ASSUME NEW w \in Worker, NEW t \in Target, Claim(w, t)
      PROVE  TypeOK'
  <2> DEFINE claimed == [status |-> "running", holder |-> w,
         attempts |-> IF task[t].attempts = MaxAttempts THEN task[t].attempts ELSE task[t].attempts + 1]
  <2>1. claimed.attempts \in 0..MaxAttempts
    <3>1. task[t].attempts \in 0..MaxAttempts
      BY DEF TypeOK
    <3>2. QED
      BY <3>1
  <2>2. claimed \in Task /\ claimed.status = "running"
    BY <2>1 DEF Task, Unfinished
  <2>3. task' = [task EXCEPT ![t] = claimed]
    BY <1>2 DEF Claim
  <2> HIDE DEF claimed
  <2>4. TasksOK'
    BY <2>2, <2>3 DEF TypeOK, TasksOK, Task
  <2>5. QED
    BY <1>2, <2>4 DEF TypeOK, TasksOK, Task, Claim, Loop
<1>3. ASSUME NEW w \in Worker, WorkerStep(w)
      PROVE  TypeOK'
  <2> DEFINE t == worker[w].target
  <2>1. CASE LoadDelivery(w)
    BY <2>1 DEF TypeOK, LoadDelivery, Goes, Loop
  <2>2. CASE SendEnds(w)
    <3>1. t \in Target
      BY <2>2 DEF SendEnds, Employed
    <3>2. PICK ok \in BOOLEAN : Send(t, ok) /\ Goes(w, IF ok THEN "sent" ELSE "raised")
      BY <2>2 DEF SendEnds
    <3>3. received' \in [Target -> {"nothing", "text", "everything"}]
      BY <3>1, <3>2, SendBrings
    <3>4. QED
      BY <2>2, <3>2, <3>3 DEF TypeOK, SendEnds, Goes, Loop
  <2>3. CASE Complete(w)
    <3>1. t \in Target
      BY <2>3 DEF Complete, Employed
    <3>2. Written(t, "delivered") \in [Target -> {"none", "pending", "delivered", "failed"}]
      BY <3>1, WrittenType
    <3>3. TasksOK'
      <4> DEFINE done == [task[t] EXCEPT !.status = "completed", !.holder = NoOne]
      <4>1. done \in Task /\ done.holder = NoOne
        <5>1. task[t] \in Task
          BY <3>1 DEF TypeOK, Task
        <5> HIDE DEF t
        <5>2. QED
          BY ONLY <5>1 DEF Task, done
      <4>2. CASE Holds(w)
        <5>1. task' = [task EXCEPT ![t] = done]
          BY <2>3, <3>1, <4>2 DEF TypeOK, Complete
        <5> HIDE DEF done
        <5>2. QED
          BY <3>1, <4>1, <5>1 DEF TypeOK, TasksOK, Task
      <4>3. CASE ~Holds(w)
        BY <2>3, <4>3 DEF TypeOK, TasksOK, Task, Complete
      <4>4. QED
        BY <4>2, <4>3
    <3>4. delivery' \in [Target -> {"none", "pending", "delivered", "failed"}]
      BY <2>3, <3>2 DEF TypeOK, Complete
    <3>5. alert' \in Status \union {"none", "deleted"}
      BY <2>3 DEF TypeOK, Complete, Status
    <3>6. QED
      BY <2>3, <3>3, <3>4, <3>5 DEF TypeOK, TasksOK, Task, Complete, Loop, Idle
  <2>4. CASE CompleteRaises(w)
    BY <2>4 DEF TypeOK, CompleteRaises, Goes, Loop
  <2>5. CASE FailTask(w)
    <3>1. t \in Target
      BY <2>5 DEF FailTask, Employed
    <3>2. QED
      BY <2>5, <3>1 DEF TypeOK, FailTask, Goes, Loop, Unfinished
  <2>6. CASE MarkFailed(w)
    <3>1. t \in Target
      BY <2>6 DEF MarkFailed, Employed
    <3>2. Written(t, "failed") \in [Target -> {"none", "pending", "delivered", "failed"}]
      BY <3>1, WrittenType
    <3>3. QED
      BY <2>6, <3>1, <3>2 DEF TypeOK, MarkFailed, Loop, Idle, Status
  <2>7. CASE FailureIgnored(w)
    BY <2>7 DEF TypeOK, FailureIgnored, Loop, Idle
  <2>8. QED
    BY <1>3, <2>1, <2>2, <2>3, <2>4, <2>5, <2>6, <2>7 DEF WorkerStep
<1>4. ASSUME NEW t \in Target, LeaseEnds(t) \/ Retry(t)
      PROVE  TypeOK'
  <2>1. TasksOK'
    <3>1. CASE LeaseEnds(t)
      BY <3>1 DEF TypeOK, TasksOK, Task, LeaseEnds
    <3>2. CASE Retry(t)
      BY <3>2, NewTaskType DEF TypeOK, TasksOK, Task, Retry
    <3>3. QED
      BY <1>4, <3>1, <3>2
  <2>2. left' \in [losses : 0..MaxLosses, restarts : 0..MaxRestarts, sends : 0..MaxSends]
    BY <1>4 DEF TypeOK, LeaseEnds, Retry
  <2>3. QED
    BY <1>4, <2>1, <2>2 DEF TypeOK, TasksOK, Task, LeaseEnds, Retry, Loop
<1>5. ASSUME NEW r \in Request, NEW T \in SUBSET Target, ManualSend(r, T)
      PROVE  TypeOK'
  BY <1>5 DEF TypeOK, ManualSend, Upserted, Workers
<1>6. ASSUME NEW r \in Request \union {NoOne}, NEW t \in Target, DeliverEnds(r, t)
      PROVE  TypeOK'
  <2>1. PICK ok \in BOOLEAN :
          /\ Send(t, ok)
          /\ delivery' = Written(t, IF ok THEN "delivered" ELSE "failed")
    BY <1>6 DEF DeliverEnds
  <2>2. received' \in [Target -> {"nothing", "text", "everything"}]
    BY <2>1, SendBrings
  <2>3. delivery' \in [Target -> {"none", "pending", "delivered", "failed"}]
    BY <2>1, WrittenType
  <2>4. QED
    BY <1>6, <2>2, <2>3 DEF TypeOK, DeliverEnds, Workers
<1>7. CASE RefreshReads \/ RefreshWrites
  BY <1>7, SummaryType DEF TypeOK, RefreshReads, RefreshWrites, FreeLoop, Workers, Status
<1>8. CASE RemovePictures \/ DeleteAlert
  BY <1>8 DEF TypeOK, RemovePictures, DeleteAlert, Workers
<1>9. CASE Restart
  <2>1. TasksOK'
    <3>1. ASSUME NEW t \in Target
          PROVE  /\ [task[t] EXCEPT !.holder = NoOne] \in Task
                 /\ [task[t] EXCEPT !.holder = NoOne].holder = NoOne
      BY <3>1 DEF TypeOK, Task
    <3>2. QED
      BY <1>9, <3>1, NewTaskType DEF TasksOK, Restart
  <2>2. left' \in [losses : 0..MaxLosses, restarts : 0..MaxRestarts, sends : 0..MaxSends]
    BY <1>9 DEF TypeOK, Restart
  <2>3. loop' \in [step : {"free", "reads", "writes"}, status : Status]
    BY <1>9 DEF Restart, FreeLoop, Status
  <2>4. worker' \in [Worker -> [pc : {"idle", "loading", "sending", "sent", "raised", "failing"},
                                target : Target \union {NoOne}]]
    BY <1>9 DEF Restart, Idle
  <2>5. sending' \in [Request \union {NoOne} -> SUBSET Target]
    BY <1>9 DEF Restart
  <2>6. QED
    BY <1>9, <2>1, <2>2, <2>3, <2>4, <2>5 DEF TypeOK, TasksOK, Task, Restart
<1>10. CASE UNCHANGED vars
  BY <1>10 DEF TypeOK, vars
<1>11. QED
  BY <1>1, <1>2, <1>3, <1>4, <1>5, <1>6, <1>7, <1>8, <1>9, <1>10 DEF Next

-----------------------------------------------------------------------------
(* Rows, status and what was received *)

LEMMA InitRows == Init => Rows /\ StatusAgrees /\ DeliveredIsTrue
  BY NotificationsAssumption
     DEF Init, Rows, Employed, Tasked, Nothing, Gone, Summed, StatusAgrees,
         DeliveredIsTrue, Present, Status, Listed, NoTask, Idle, FreeLoop

\* The properties that one step must keep
Safe == Rows /\ StatusAgrees /\ DeliveredIsTrue

LEMMA AlertStep ==
  ASSUME NInv, NEW T \in SUBSET Target, Commit(T) \/ Schedule(T)
  PROVE  Safe'
<1> USE DEF NInv
<1>1. /\ alert' = (IF T = {} THEN "not_sent" ELSE "pending")
      /\ delivery' = [t \in Target |-> IF t \in T THEN "pending" ELSE "none"]
      /\ alert = "none" /\ UNCHANGED <<staff, received, worker, loop, restarted>>
  BY DEF Commit, Schedule, Created
<1>2. Employed' /\ Gone' /\ Nothing'
  BY <1>1 DEF Employed, Gone, Nothing, Rows, direct
<1>3. Tasked'
  BY <1>1 DEF Commit, Schedule, Tasked, Rows, direct, NoTask, NewTask
<1>4. Summed'
  BY <1>1 DEF Summed, Rows, Nothing
<1>5. StatusAgrees'
  <2>1. CASE T = {}
    BY <1>1, <2>1 DEF StatusAgrees, Summary, Listed
  <2>2. CASE T # {}
    <3>1. CASE Schedule(T)
      <4>1. sending'[NoOne] # {} /\ NoOne \in DOMAIN sending'
        BY <2>2, <3>1 DEF Schedule, TypeOK
      <4>2. QED
        BY <4>1 DEF StatusAgrees
    <3>2. CASE Commit(T)
      BY <3>2, <1>1 DEF Commit, StatusAgrees, direct
    <3>3. QED
      BY <3>1, <3>2
  <2>3. QED
    BY <2>1, <2>2
<1>6. DeliveredIsTrue'
  BY <1>1 DEF DeliveredIsTrue
<1>7. QED
  BY <1>2, <1>3, <1>4, <1>5, <1>6 DEF Safe, Rows

LEMMA WorkerKeeps ==
  ASSUME NInv, NEW w \in Worker, WorkerStep(w)
  PROVE  Safe'
<1> USE DEF NInv
<1> DEFINE t == worker[w].target
<1>1. /\ worker[w].pc # "idle" /\ t \in Target /\ ~direct
      /\ delivery[t] # "none" \/ alert = "deleted"
  BY DEF WorkerStep, LoadDelivery, SendEnds, Complete, CompleteRaises, FailTask, MarkFailed,
         FailureIgnored, Rows, Employed
<1>2. UNCHANGED <<staff, sending, loop, restarted>>
  BY DEF WorkerStep, LoadDelivery, SendEnds, Complete, CompleteRaises, FailTask, MarkFailed,
         FailureIgnored, Loop
<1>3. StatusAgrees'
  BY <1>1, <1>2 DEF StatusAgrees, direct
<1>4. CASE LoadDelivery(w)
  <2>1. /\ UNCHANGED <<alert, delivery, received, task>>
        /\ \/ worker' = [worker EXCEPT ![w].pc = "sending"] \/ worker' = [worker EXCEPT ![w].pc = "raised"]
           \/ worker' = [worker EXCEPT ![w].pc = "sent"] /\ delivery[t] = "none"
    BY <1>4 DEF LoadDelivery, Goes
  <2>2. Employed'
    BY <1>1, <1>2, <2>1 DEF Rows, Employed, TypeOK, direct
  <2>3. Tasked' /\ Nothing' /\ Gone' /\ Summed' /\ DeliveredIsTrue'
    BY <1>1, <1>2, <2>1 DEF Rows, Tasked, Nothing, Gone, Summed, DeliveredIsTrue, direct, Listed
  <2>4. QED
    BY <1>3, <2>2, <2>3 DEF Safe, Rows
<1>5. CASE SendEnds(w)
  <2>1. PICK ok \in BOOLEAN : Send(t, ok) /\ Goes(w, IF ok THEN "sent" ELSE "raised")
    BY <1>5 DEF SendEnds
  <2>2. /\ \A u \in Target : received[u] = "everything" => received'[u] = "everything"
        /\ ok => received'[t] = "everything"
    BY <1>1, <2>1, SendBrings
  <2>3. Employed'
    BY <1>1, <1>5, <2>1, <2>2 DEF SendEnds, Goes, Loop, Rows, Employed, TypeOK, direct
  <2>4. Tasked' /\ Nothing' /\ Gone'
    BY <1>5 DEF SendEnds, Loop, Rows, Tasked, Nothing, Gone, direct
  <2>5. Summed'
    BY <1>1, <1>5, <2>2 DEF SendEnds, Loop, Rows, Summed, direct, Listed
  <2>6. DeliveredIsTrue'
    BY <1>5, <2>2 DEF SendEnds, Loop, DeliveredIsTrue, Listed
  <2>7. QED
    BY <1>3, <2>3, <2>4, <2>5, <2>6 DEF Safe, Rows
<1>6. CASE Complete(w) /\ Holds(w)
  <2>1. /\ \A u \in Target : delivery'[u] =
              IF u = t /\ delivery[t] # "none" THEN "delivered" ELSE delivery[u]
        /\ task' = [task EXCEPT ![t].status = "completed", ![t].holder = NoOne]
        /\ worker' = [worker EXCEPT ![w] = Idle] /\ UNCHANGED received
        /\ alert' = IF delivery[t] = "none" THEN alert
                    ELSE IF Listed \subseteq In("delivered") \union {t} THEN "delivered"
                    ELSE "pending"
    BY <1>1, <1>6, WrittenType DEF Complete
  <2>2. received[t] = "everything" \/ alert = "deleted"
    BY <1>6 DEF Complete, Rows, Employed
  <2>3. Employed' /\ Tasked' /\ Nothing' /\ Gone'
    BY <1>1, <1>2, <2>1, <2>2 DEF Rows, Employed, Tasked, Nothing, Gone, TypeOK, direct, Idle
  <2>4. Listed' = Listed
    BY <2>1 DEF Listed
  <2>5. Summed'
    BY <1>1, <1>2, <2>1, <2>2, <2>4 DEF Rows, Summed, direct, Gone
  <2>6. DeliveredIsTrue'
    BY <1>1, <1>2, <2>1, <2>2, <2>4 DEF DeliveredIsTrue, Rows, Gone, In, Listed
  <2>7. QED
    BY <1>3, <2>3, <2>5, <2>6 DEF Safe, Rows
<1>7. CASE CompleteRaises(w) \/ FailureIgnored(w) \/ (Complete(w) /\ ~Holds(w))
  <2>1. /\ worker' \in {[worker EXCEPT ![w].pc = "raised"], [worker EXCEPT ![w] = Idle]}
        /\ UNCHANGED <<alert, delivery, received, task>>
    BY <1>7 DEF CompleteRaises, FailureIgnored, Complete, Goes
  <2>2. Employed'
    BY <1>1, <1>2, <2>1 DEF Rows, Employed, TypeOK, direct, Idle
  <2>3. Tasked' /\ Nothing' /\ Gone' /\ Summed' /\ DeliveredIsTrue'
    BY <1>1, <1>2, <2>1 DEF Rows, Tasked, Nothing, Gone, Summed, DeliveredIsTrue, direct, Listed
  <2>4. QED
    BY <1>3, <2>2, <2>3 DEF Safe, Rows
<1>8. CASE FailTask(w)
  <2>1. /\ worker' = [worker EXCEPT ![w].pc = "failing"]
        /\ UNCHANGED <<alert, delivery, received>>
    BY <1>8 DEF FailTask, Goes
  <2>2. Employed'
    BY <1>1, <1>2, <2>1 DEF Rows, Employed, TypeOK, direct
  <2>3. Tasked'
    BY <1>1, <1>2, <1>8, <2>1 DEF FailTask, Rows, Tasked, TypeOK, direct
  <2>4. Nothing' /\ Gone' /\ Summed' /\ DeliveredIsTrue'
    BY <1>1, <1>2, <2>1 DEF Rows, Nothing, Gone, Summed, DeliveredIsTrue, direct, Listed
  <2>5. QED
    BY <1>3, <2>2, <2>3, <2>4 DEF Safe, Rows
<1>9. CASE MarkFailed(w)
  <2>1. /\ \A u \in Target : delivery'[u] =
              IF u = t /\ delivery[t] # "none" THEN "failed" ELSE delivery[u]
        /\ worker' = [worker EXCEPT ![w] = Idle]
        /\ alert' = IF delivery[t] # "none" THEN "failed" ELSE alert
        /\ UNCHANGED <<task, received>>
    BY <1>1, <1>9, WrittenType DEF MarkFailed
  <2>2. Listed' = Listed
    BY <2>1 DEF Listed
  <2>3. Employed' /\ Tasked' /\ Nothing' /\ Gone'
    BY <1>1, <1>2, <2>1 DEF Rows, Employed, Tasked, Nothing, Gone, TypeOK, direct, Idle
  <2>4. Summed' /\ DeliveredIsTrue'
    BY <1>1, <1>2, <2>1, <2>2 DEF Rows, Summed, DeliveredIsTrue, direct, Gone
  <2>5. QED
    BY <1>3, <2>3, <2>4 DEF Safe, Rows
<1>10. QED
  BY <1>4, <1>5, <1>6, <1>7, <1>8, <1>9 DEF WorkerStep

LEMMA TaskStep ==
  ASSUME NInv, NEW t \in Target,
         (\E w \in Worker : Claim(w, t)) \/ LeaseEnds(t) \/ Retry(t)
  PROVE  Safe'
<1> USE DEF NInv
<1>1. task[t].status # "none" /\ UNCHANGED <<staff, alert, delivery, received, sending, loop, restarted>>
  BY DEF Claim, LeaseEnds, Retry, Loop, Unfinished, TypeOK
<1>2. ~direct /\ (delivery[t] # "none" \/ alert = "deleted")
  BY <1>1 DEF Rows, Tasked
<1>3. Tasked'
  BY <1>1, <1>2 DEF Rows, Tasked, Claim, LeaseEnds, Retry, TypeOK, direct, NewTask, NoTask
<1>4. Employed'
  <2>1. UNCHANGED worker \/ \E w \in Worker : worker' = [worker EXCEPT ![w] = [pc |-> "loading", target |-> t]]
    BY DEF Claim, LeaseEnds, Retry
  <2>2. QED
    BY <1>1, <1>2, <2>1 DEF Rows, Employed, TypeOK, direct
<1>5. Nothing' /\ Gone' /\ Summed' /\ StatusAgrees' /\ DeliveredIsTrue'
  BY <1>1, <1>2 DEF Rows, Nothing, Gone, Summed, StatusAgrees, DeliveredIsTrue, direct, Listed
<1>6. QED
  BY <1>3, <1>4, <1>5 DEF Safe, Rows

LEMMA CoroutineStep ==
  ASSUME NInv, NEW r \in Request \union {NoOne}, NEW t \in Target, DeliverEnds(r, t)
  PROVE  Safe'
<1> USE DEF NInv
<1>1. PICK ok \in BOOLEAN :
        /\ Send(t, ok)
        /\ delivery' = Written(t, IF ok THEN "delivered" ELSE "failed")
  BY DEF DeliverEnds
<1>2. /\ \A u \in Target : received[u] = "everything" => received'[u] = "everything"
      /\ ok => received'[t] = "everything"
  BY <1>1, SendBrings
<1>3. \A u \in Target : delivery'[u] =
        IF u = t /\ delivery[t] # "none" THEN (IF ok THEN "delivered" ELSE "failed") ELSE delivery[u]
  BY <1>1, WrittenType
<1>4. /\ UNCHANGED <<staff, task, worker, restarted, alert, evidence>>
      /\ loop'.step = "reads" /\ sending[r] # {} /\ alert # "none"
  BY DEF DeliverEnds, Workers, TypeOK, Rows, Nothing
<1>5. Employed' /\ Tasked' /\ Nothing' /\ Gone'
  BY <1>2, <1>3, <1>4 DEF Rows, Employed, Tasked, Nothing, Gone, direct
<1>6. Summed' /\ StatusAgrees'
  BY <1>4 DEF Summed, StatusAgrees
<1>7. DeliveredIsTrue'
  BY <1>2, <1>3, <1>4 DEF DeliveredIsTrue
<1>8. QED
  BY <1>5, <1>6, <1>7 DEF Safe, Rows

LEMMA ManualStep ==
  ASSUME NInv, NEW r \in Request, NEW T \in SUBSET Target, ManualSend(r, T)
  PROVE  Safe'
<1> USE DEF NInv
<1>1. /\ alert \in Status /\ loop.step = "free"
      /\ \A u \in Target : delivery'[u] = IF u \in T THEN "pending" ELSE delivery[u]
      /\ UNCHANGED <<staff, task, worker, restarted, alert, evidence, received, loop>>
      /\ sending' = [sending EXCEPT ![r] = T] /\ T # {}
  BY DEF ManualSend, Workers, Upserted, Present
<1>2. alert # "none" /\ alert # "deleted"
  BY <1>1 DEF Status
<1>3. Employed' /\ Tasked' /\ Nothing' /\ Gone'
  BY <1>1, <1>2 DEF Rows, Employed, Tasked, Nothing, Gone, direct
<1>4. r \in DOMAIN sending' /\ sending'[r] # {}
  BY <1>1 DEF TypeOK
<1>5. Summed' /\ StatusAgrees'
  BY <1>1, <1>4 DEF Summed, StatusAgrees
<1>6. DeliveredIsTrue'
  BY <1>1, <1>2 DEF DeliveredIsTrue, Listed
<1>7. QED
  BY <1>3, <1>5, <1>6 DEF Safe, Rows

LEMMA RefreshStep ==
  ASSUME NInv, RefreshReads \/ RefreshWrites
  PROVE  Safe'
<1> USE DEF NInv
<1>1. UNCHANGED <<staff, task, worker, restarted, evidence, delivery, received, sending>>
  BY DEF RefreshReads, RefreshWrites, Workers
<1>2. alert # "none" /\ (alert' = alert \/ (Present /\ alert' = loop.status))
  BY DEF RefreshReads, RefreshWrites, Rows, Nothing
<1>3. alert' # "none" /\ (alert' = "deleted" <=> alert = "deleted")
  BY <1>2 DEF TypeOK, Status, Present
<1>4. Employed' /\ Tasked' /\ Nothing' /\ Gone'
  BY <1>1, <1>3 DEF Rows, Employed, Tasked, Nothing, Gone, direct
<1>5. CASE RefreshReads
  <2>1. loop' = [step |-> "writes", status |-> Summary] /\ UNCHANGED alert
    BY <1>5 DEF RefreshReads
  <2>2. Summed'
    <3>1. Summary' = Summary /\ Listed' = Listed
      BY <1>1 DEF Summary, Listed, In
    <3>2. QED
      BY <1>1, <2>1, <3>1, SummaryType DEF Summed, DeliveredIsTrue, Listed
  <2>3. StatusAgrees' /\ DeliveredIsTrue'
    BY <1>1, <2>1 DEF StatusAgrees, DeliveredIsTrue
  <2>4. QED
    BY <1>4, <2>2, <2>3 DEF Safe, Rows
<1>6. CASE RefreshWrites
  <2>1. loop' = FreeLoop /\ loop.step = "writes" /\ alert' = IF Present THEN loop.status ELSE alert
    BY <1>6 DEF RefreshWrites
  <2>2. Summed'
    BY <2>1 DEF Summed, FreeLoop
  <2>3. StatusAgrees'
    <3>1. Summary' = Summary /\ direct' = direct
      BY <1>1 DEF Summary, Listed, In, direct
    <3>2. Present' <=> Present
      BY <1>2, <1>3, <2>1 DEF Present, TypeOK, Status
    <3>3. QED
      BY <2>1, <3>1, <3>2 DEF StatusAgrees, Rows, Summed
  <2>4. DeliveredIsTrue'
    BY <1>1, <2>1 DEF DeliveredIsTrue, Rows, Summed, Present, Status, Listed
  <2>5. QED
    BY <1>4, <2>2, <2>3, <2>4 DEF Safe, Rows
<1>7. QED
  BY <1>5, <1>6

LEMMA CleanupStep ==
  ASSUME NInv, RemovePictures \/ DeleteAlert \/ Restart
  PROVE  Safe'
<1> USE DEF NInv
<1>1. CASE RemovePictures
  BY <1>1 DEF RemovePictures, Workers, Safe, Rows, Employed, Tasked, Nothing, Gone, Summed,
     StatusAgrees, DeliveredIsTrue, direct, Present, Summary, Listed, In
<1>2. CASE DeleteAlert
  BY <1>2 DEF DeleteAlert, Workers, Safe, Rows, Employed, Tasked, Nothing, Gone, Summed,
     StatusAgrees, DeliveredIsTrue, direct, Present, Status, Listed
<1>3. CASE Restart
  <2>1. /\ UNCHANGED <<staff, alert, evidence, delivery, received>>
        /\ restarted' = TRUE /\ loop' = FreeLoop
        /\ sending' = [q \in Request \union {NoOne} |-> {}]
        /\ worker' = [w \in Worker |-> Idle]
    BY <1>3 DEF Restart
  <2>2. Tasked'
    BY <1>3, <2>1 DEF Restart, Rows, Tasked, TypeOK, direct, NewTask, NoTask
  <2>3. Employed' /\ Nothing' /\ Gone' /\ Summed' /\ StatusAgrees' /\ DeliveredIsTrue'
    BY <2>1 DEF Rows, Employed, Nothing, Gone, Summed, StatusAgrees, DeliveredIsTrue, Idle, FreeLoop
  <2>4. QED
    BY <2>2, <2>3 DEF Safe, Rows
<1>4. QED
  BY <1>1, <1>2, <1>3

-----------------------------------------------------------------------------
(* Theorems *)

LEMMA InvariantHolds == Spec => []NInv
<1>1. Init => NInv
  BY TypeInit, InitRows DEF NInv
<1>2. NInv /\ [Next]_vars => NInv'
  <2> SUFFICES ASSUME NInv, [Next]_vars
               PROVE  NInv'
    OBVIOUS
  <2>1. TypeOK'
    BY TypeStep DEF NInv, Rows
  <2>2. CASE Next
    <3>1. Safe'
      BY <2>2, AlertStep, WorkerKeeps, TaskStep, CoroutineStep, ManualStep, RefreshStep, CleanupStep
         DEF Next
    <3>2. QED
      BY <2>1, <3>1 DEF Safe, NInv
  <2>3. CASE UNCHANGED vars
    BY <2>1, <2>3 DEF NInv, vars, Rows, Employed, Tasked, Nothing, Gone, Summed, StatusAgrees,
       DeliveredIsTrue, direct, Present, Summary, Listed, In
  <2>4. QED
    BY <2>2, <2>3
<1>3. QED
  BY <1>1, <1>2, PTL DEF Spec

\* The types hold and, without background processing, the status of the alert is
\* the sum of its deliveries (_refresh_alert_status) whenever nothing is being
\* sent, for every order in which the coroutines of any number of requests end.
THEOREM ConsistentAlways == Spec => []Consistent
<1>1. NInv => Consistent
  BY DEF NInv, Consistent
<1>2. QED
  BY <1>1, InvariantHolds, PTL

\* "delivered" is never claimed of a delivery or an alert unless its targets have
\* received text and pictures, for any number of workers, requests, lost leases
\* and deletions: whoever writes the status last.
THEOREM DeliveredIsTrueAlways == Spec => []DeliveredIsTrue
<1>1. NInv => DeliveredIsTrue
  BY DEF NInv
<1>2. QED
  BY <1>1, InvariantHolds, PTL

-----------------------------------------------------------------------------
(***************************************************************************)
(* Proofs about PhoneAlerts, where the alerts about the use of phones come *)
(* from: for every set of cameras and every threshold, cooldown and age of *)
(* reviews.  The inductive invariant PhoneInv has the types and what is    *)
(* younger than a denial.                                                  *)
(***************************************************************************)
CONSTANTS Camera, Threshold, Cooldown, MaxAge, MaxUpset

VARIABLES troubles, since, alerted, sampled, pending, active, online, duty, steady, jobs, writer,
          dbCool, memCool, passCool, version, print, dbPrint, upsets, warm, denied

Phone == INSTANCE PhoneAlerts

PhoneTyped ==
  /\ Phone!TypeOK
  /\ \A c \in Camera : denied[c] # Phone!NoEvent
  /\ warm # Phone!NoEvent /\ IsFiniteSet(jobs)
  /\ writer = Phone!None \/ writer.outcome \in {"alert", "cooldown", "stale"}
  /\ print \in [Camera -> Nat] /\ dbPrint \in [Camera -> Nat]
  /\ version \in Nat /\ upsets \in 0 .. MaxUpset
  /\ version + (IF Phone!Editing THEN 1 ELSE 0) <= upsets

\* What is known of a use, and what may still be said of it, is younger than the
\* sample of the last denial: reviews of a camera are answered in their order.
AfterDenial(c) ==
  /\ since[c] <= denied[c]
  /\ pending[c] # Phone!None => pending[c].age <= denied[c]
  /\ active[c] # Phone!None => active[c].age <= denied[c]
  /\ pending[c] # Phone!None /\ active[c] # Phone!None => pending[c].age <= active[c].age

DenialInv ==
  /\ \A c \in Camera : AfterDenial(c)
  /\ \A j \in jobs : j.agreed
  /\ writer # Phone!None => writer.agreed

PhoneInv == PhoneTyped /\ DenialInv

LEMMA TwoElements ==
  ASSUME NEW a, NEW b, a # b
  PROVE  IsFiniteSet({a, b}) /\ Cardinality({a, b}) = 2
<1>1. IsFiniteSet({a}) /\ Cardinality({a}) = 1
  BY FS_Singleton
<1>2. {a, b} = {a} \cup {b} /\ b \notin {a}
  OBVIOUS
<1>3. QED BY <1>1, <1>2, FS_AddElement

LEMMA PhoneCardinality ==
  ASSUME NEW S
  PROVE  Phone!Cardinality(S) = Cardinality(S)
BY Zenon DEF Phone!Cardinality, Cardinality

\* The smaller and the larger of two numbers.
LEMMA PhoneMin ==
  ASSUME NEW a \in Int, NEW b \in Int
  PROVE  Phone!Min({a, b}) = (IF a <= b THEN a ELSE b)
BY DEF Phone!Min

LEMMA PhoneMax ==
  ASSUME NEW a \in Int, NEW b \in Int
  PROVE  Phone!Max({a, b}) = (IF a >= b THEN a ELSE b)
BY DEF Phone!Max

\* How ages grow and cooldowns shrink.
LEMMA PhoneClock ==
  ASSUME Phone!PhoneAlertsAssumption
  PROVE  /\ Phone!Oldest \in Nat /\ Phone!Oldest > MaxAge + 1 /\ Phone!Oldest > Threshold
         /\ \A a \in Phone!Age : Phone!Older(a) =
              (IF a = -1 THEN -1 ELSE IF a < Phone!Oldest THEN a + 1 ELSE Phone!Oldest)
         /\ \A n \in Nat : Phone!Left(n) = (IF n = 0 THEN 0 ELSE n - 1)
         /\ Phone!OlderRequest(Phone!None) = Phone!None
         /\ \A r \in Phone!Request : r # Phone!None /\ Phone!OlderRequest(r) =
              [r EXCEPT !.age = IF r.age <= MaxAge THEN r.age + 1 ELSE MaxAge + 1]
<1>1. Phone!Oldest \in Nat /\ Phone!Oldest > MaxAge + 1 /\ Phone!Oldest > Threshold
  BY DEF Phone!PhoneAlertsAssumption, Phone!Oldest
<1>2. ASSUME NEW a \in Phone!Age
      PROVE  Phone!Older(a) =
              (IF a = -1 THEN -1 ELSE IF a < Phone!Oldest THEN a + 1 ELSE Phone!Oldest)
  <2>1. a \in Int /\ (a # -1 => a \in 0 .. Phone!Oldest)
    BY <1>1 DEF Phone!Age, Phone!NoEvent
  <2>2. Phone!Min({a + 1, Phone!Oldest}) =
          (IF a + 1 <= Phone!Oldest THEN a + 1 ELSE Phone!Oldest)
    BY <1>1, <2>1, PhoneMin
  <2>3. QED BY <1>1, <2>1, <2>2 DEF Phone!Older, Phone!NoEvent
<1>3. ASSUME NEW n \in Nat
      PROVE  Phone!Left(n) = (IF n = 0 THEN 0 ELSE n - 1)
  <2>1. Phone!Max({n - 1, 0}) = (IF n - 1 >= 0 THEN n - 1 ELSE 0)
    BY PhoneMax
  <2>2. QED BY <2>1 DEF Phone!Left
<1>4. Phone!OlderRequest(Phone!None) = Phone!None
  BY DEF Phone!OlderRequest
<1>5. ASSUME NEW r \in Phone!Request
      PROVE  r # Phone!None /\ Phone!OlderRequest(r) =
              [r EXCEPT !.age = IF r.age <= MaxAge THEN r.age + 1 ELSE MaxAge + 1]
  <2>1. r.age \in 0 .. MaxAge + 1 /\ r # Phone!None
    BY DEF Phone!Request, Phone!None
  <2>2. Phone!Min({r.age + 1, MaxAge + 1}) =
          (IF r.age + 1 <= MaxAge + 1 THEN r.age + 1 ELSE MaxAge + 1)
    BY <2>1, PhoneMin DEF Phone!PhoneAlertsAssumption
  <2>3. Phone!Min({r.age + 1, MaxAge + 1}) =
          (IF r.age <= MaxAge THEN r.age + 1 ELSE MaxAge + 1)
    BY <2>1, <2>2 DEF Phone!PhoneAlertsAssumption
  <2>4. QED BY <2>1, <2>3 DEF Phone!OlderRequest
<1>6. QED BY <1>1, <1>2, <1>3, <1>4, <1>5

\* A use that is enqueued has a number of its own.
LEMMA PhoneJob ==
  ASSUME NEW c \in Camera, IsFiniteSet(jobs), Phone!HasRoom(c)
  PROVE  Phone!NewJob(c).id \in Phone!JobId
<1> DEFINE ids == {j.id : j \in Phone!JobsOf(c)}
<1>1. Phone!JobId = {1, 2}
  BY DEF Phone!JobId
<1>2. PICK n \in Phone!JobId : n \notin ids
  <2>1. SUFFICES ASSUME 1 \in ids, 2 \in ids PROVE FALSE
    BY <1>1
  <2>2. PICK j \in Phone!JobsOf(c), k \in Phone!JobsOf(c) : j.id = 1 /\ k.id = 2
    BY <2>1
  <2>3. IsFiniteSet(Phone!JobsOf(c))
    BY FS_Subset DEF Phone!JobsOf
  <2>4. {j, k} \subseteq Phone!JobsOf(c) /\ j # k
    BY <2>2
  <2>5. Cardinality({j, k}) <= Cardinality(Phone!JobsOf(c)) /\ Cardinality({j, k}) = 2
    BY <2>3, <2>4, FS_Subset, TwoElements
  <2>6. Cardinality(Phone!JobsOf(c)) \in Nat
    BY <2>3, FS_CardinalityType
  <2>7. Cardinality(Phone!JobId) = 2
    <3>1. IsFiniteSet({1, 2}) /\ Cardinality({1, 2}) = 2
      BY TwoElements, 1 # 2
    <3>2. QED BY <1>1, <3>1
  <2>8. Cardinality(Phone!JobsOf(c)) < Cardinality(Phone!JobId)
    BY PhoneCardinality DEF Phone!HasRoom
  <2>9. QED BY <2>5, <2>6, <2>7, <2>8
<1>3. Phone!Min(Phone!JobId \ ids) \in Phone!JobId
  <2>1. \E x \in Phone!JobId \ ids : \A y \in Phone!JobId \ ids : x <= y
    BY <1>1, <1>2
  <2>2. QED BY <2>1 DEF Phone!Min
<1>4. QED BY <1>3 DEF Phone!NewJob

PhoneStep(c) ==
  \/ Phone!Pass(c) \/ Phone!TakeReview(c) \/ Phone!Answer(c) \/ Phone!ReviewFails(c)
  \/ Phone!Unconfigured(c) \/ Phone!Shift(c) \/ Phone!Connection(c)
  \/ Phone!Edit(c, TRUE) \/ Phone!Edit(c, FALSE)
PhoneWorld ==
  (\E j \in jobs : Phone!Commit(j)) \/ Phone!AfterCommit \/ Phone!Refresh \/ Phone!Restart
  \/ Phone!Settle

\* The steps of one camera, those of the process and the clock.
LEMMA PhoneSteps ==
  Phone!Next <=> (\E c \in Camera : PhoneStep(c)) \/ PhoneWorld \/ Phone!Tick
BY Zenon DEF Phone!Next, Phone!Reviewing, Phone!Writing, PhoneStep, PhoneWorld

\* An answer: it is stale, confirms or denies.
LEMMA PhoneAnswer ==
  ASSUME NEW c \in Camera, Phone!Answer(c)
  PROVE  /\ active[c] # Phone!None /\ Phone!Done(c)
         /\ UNCHANGED <<troubles, sampled, Phone!worldVars, writer, Phone!coolVars,
                        Phone!configVars, upsets, warm>>
         /\ \/ UNCHANGED <<Phone!ruleVars, jobs, denied>>
            \/ ~(active[c].age > MaxAge) /\ Phone!Confirmed(c) /\ UNCHANGED denied
            \/ ~(active[c].age > MaxAge) /\ Phone!Quiet(c) /\ UNCHANGED jobs
               /\ denied' = [denied EXCEPT ![c] = active[c].age]
BY Zenon DEF Phone!Answer, Phone!Stale

\* A use that is confirmed begins, is enqueued, or goes on.
LEMMA PhoneConfirmed ==
  ASSUME NEW c \in Camera, Phone!Confirmed(c)
  PROVE  \/ /\ since[c] = Phone!NoEvent /\ UNCHANGED <<alerted, jobs>>
            /\ since' = [since EXCEPT ![c] = active[c].age]
         \/ /\ since[c] # Phone!NoEvent /\ Phone!Lasts(c) /\ Phone!HasRoom(c)
            /\ alerted' = [alerted EXCEPT ![c] = TRUE] /\ UNCHANGED since
            /\ \/ memCool > 0 /\ UNCHANGED jobs
               \/ ~(memCool > 0) /\ jobs' = jobs \cup {Phone!NewJob(c)}
         \/ UNCHANGED <<since, alerted, jobs>>
BY DEF Phone!Confirmed, Phone!Enqueue, Phone!ruleVars

LEMMA PhoneTypedStep ==
  ASSUME Phone!PhoneAlertsAssumption, PhoneTyped, [Phone!Next]_(Phone!vars)
  PROVE  PhoneTyped'
<1> USE DEF Phone!PhoneAlertsAssumption, PhoneTyped, Phone!TypeOK, Phone!Age, Phone!NoEvent,
   Phone!None,
      Phone!Editing, Phone!ruleVars, Phone!reviewVars, Phone!worldVars, Phone!writeVars,
      Phone!coolVars, Phone!configVars, Phone!historyVars
<1>1. ASSUME NEW c \in Camera, Phone!Pass(c) PROVE PhoneTyped'
  <2>1. [at |-> "asked", age |-> 0, version |-> version] \in Phone!Request
    BY DEF Phone!Request
  <2>2. pending' \in [Camera -> Phone!Request \cup {Phone!None}]
    <3>1. pending' = pending \/ Phone!Schedule(c)
      BY <1>1 DEF Phone!Pass
    <3>2. QED BY <2>1, <3>1 DEF Phone!Schedule
  <2>3. since' \in [Camera -> Phone!Age] /\ alerted' \in [Camera -> BOOLEAN]
        /\ \A d \in Camera : alerted'[d] => since'[d] >= Threshold
    BY <1>1 DEF Phone!Pass, Phone!Quiet
  <2>4. QED BY <1>1, <2>2, <2>3 DEF Phone!Pass
<1>2. ASSUME NEW c \in Camera, Phone!TakeReview(c) PROVE PhoneTyped'
  BY <1>2 DEF Phone!TakeReview
<1>3. ASSUME NEW c \in Camera, Phone!Answer(c) PROVE PhoneTyped'
  <2>1. /\ pending' = pending /\ active' \in [Camera -> Phone!Request \cup {Phone!None}]
        /\ active[c] \in Phone!Request
    BY <1>3, PhoneAnswer DEF Phone!Done
  <2>2. active[c].age \in 0 .. MaxAge + 1
    BY <2>1 DEF Phone!Request
  <2>3. UNCHANGED <<troubles, sampled, online, duty, steady, writer, dbCool, memCool,
                    passCool, version, print, dbPrint, upsets, warm>>
    BY <1>3, PhoneAnswer
  <2>4. CASE UNCHANGED <<Phone!ruleVars, jobs, denied>>
    BY <1>3, <2>1, <2>4, PhoneAnswer
  <2>5. CASE Phone!Quiet(c) /\ UNCHANGED jobs /\ denied' = [denied EXCEPT ![c] = active[c].age]
    <3>1. denied' \in [Camera -> Phone!Age] /\ \A d \in Camera : denied'[d] # -1
      BY <2>2, <2>5, PhoneClock
    <3>2. since' \in [Camera -> Phone!Age] /\ alerted' \in [Camera -> BOOLEAN]
          /\ \A d \in Camera : alerted'[d] => since'[d] >= Threshold
      BY <2>5 DEF Phone!Quiet
    <3>3. QED BY <2>1, <2>5, <2>3, <3>1, <3>2
  <2>6. CASE Phone!Confirmed(c) /\ UNCHANGED denied
    <3>1. CASE since[c] = -1 /\ UNCHANGED <<alerted, jobs>>
               /\ since' = [since EXCEPT ![c] = active[c].age]
      <4>1. since' \in [Camera -> Phone!Age]
        BY <2>2, <3>1, PhoneClock
      <4>2. ~alerted[c]
        BY <3>1
      <4>3. QED BY <1>3, <2>1, <2>6, <3>1, <4>1, <4>2, PhoneAnswer
    <3>2. CASE /\ since[c] # -1 /\ Phone!Lasts(c) /\ Phone!HasRoom(c)
               /\ alerted' = [alerted EXCEPT ![c] = TRUE] /\ UNCHANGED since
               /\ \/ UNCHANGED jobs
                  \/ jobs' = jobs \cup {Phone!NewJob(c)}
      <4>1. since[c] \in Threshold .. Phone!Oldest
        BY <2>2, <3>2, PhoneClock DEF Phone!Lasts
      <4>2. Phone!NewJob(c).cam \in Camera /\ Phone!NewJob(c).begun \in Threshold .. Phone!Oldest
        BY <4>1 DEF Phone!NewJob
      <4>3. Phone!NewJob(c).id \in Phone!JobId
        BY <3>2, PhoneJob
      <4>4. /\ IsFiniteSet(jobs')
            /\ \A j \in jobs' : /\ j.cam \in Camera /\ j.id \in Phone!JobId
                                /\ j.begun \in Threshold .. Phone!Oldest
        BY <3>2, <4>2, <4>3, FS_AddElement
      <4>5. QED BY <1>3, <2>1, <2>6, <3>2, <4>1, <4>4, PhoneAnswer
    <3>3. CASE UNCHANGED <<since, alerted, jobs>>
      BY <1>3, <2>1, <2>6, <3>3, PhoneAnswer
    <3>4. QED BY <2>6, <3>1, <3>2, <3>3, PhoneConfirmed
  <2>7. QED BY <1>3, <2>4, <2>5, <2>6, PhoneAnswer
<1>4. ASSUME NEW c \in Camera, Phone!ReviewFails(c) \/ Phone!Unconfigured(c) PROVE PhoneTyped'
  BY <1>4 DEF Phone!ReviewFails, Phone!Unconfigured, Phone!Done, Phone!Quiet
<1>5. ASSUME NEW c \in Camera, Phone!Shift(c) \/ Phone!Connection(c) PROVE PhoneTyped'
  BY <1>5 DEF Phone!Shift, Phone!Connection, Phone!Toggle, Phone!Upset
<1>6. ASSUME NEW c \in Camera, NEW removes \in BOOLEAN, Phone!Edit(c, removes) PROVE PhoneTyped'
  <2>1. /\ dbPrint' \in [Camera -> Nat] /\ print' = print /\ version' = version
        /\ upsets' = upsets + 1 /\ upsets' \in 0 .. MaxUpset /\ version <= upsets
    BY <1>6 DEF Phone!Edit, Phone!Upset
  <2>2. version' + (IF dbPrint' # print' THEN 1 ELSE 0) <= upsets'
    BY <2>1
  <2>3. since' \in [Camera -> Phone!Age] /\ alerted' \in [Camera -> BOOLEAN]
        /\ \A d \in Camera : alerted'[d] => since'[d] >= Threshold
    BY <1>6 DEF Phone!Edit, Phone!Quiet
  <2>4. QED BY <1>6, <2>1, <2>2, <2>3 DEF Phone!Edit
<1>7. ASSUME PhoneWorld PROVE PhoneTyped'
  <2>1. CASE \E j \in jobs : Phone!Commit(j)
    <3>1. PICK j \in jobs : Phone!Commit(j)
      BY <2>1
    <3>2. Phone!Outcome(j) \in {"alert", "cooldown", "stale"}
      BY DEF Phone!Outcome
    <3>3. /\ writer'.at = "committed" /\ writer'.outcome \in {"alert", "cooldown", "stale"}
          /\ jobs' \subseteq jobs
      BY <3>1, <3>2 DEF Phone!Commit
    <3>4. /\ IsFiniteSet(jobs')
          /\ dbCool' \in 0 .. Cooldown /\ warm' \in Phone!Age /\ warm' # -1
      BY <3>1, <3>3, FS_Subset, PhoneClock DEF Phone!Commit
    <3>5. QED BY <3>1, <3>3, <3>4 DEF Phone!Commit
  <2>2. CASE Phone!AfterCommit
    BY <2>2 DEF Phone!AfterCommit
  <2>3. CASE Phone!Refresh \/ Phone!Settle
    BY <2>3 DEF Phone!Refresh, Phone!Settle
  <2>4. CASE Phone!Restart
    BY <2>4, FS_Subset DEF Phone!Restart, Phone!Upset
  <2>5. QED BY <1>7, <2>1, <2>2, <2>3, <2>4 DEF PhoneWorld
<1>8. ASSUME Phone!Tick PROVE PhoneTyped'
  <2>1. since' \in [Camera -> Phone!Age]
        /\ \A d \in Camera : alerted'[d] => since'[d] >= Threshold
    BY <1>8, PhoneClock DEF Phone!Tick
  <2>2. \A r \in Phone!Request : Phone!OlderRequest(r) \in Phone!Request
    BY PhoneClock DEF Phone!Request
  <2>3. /\ pending' \in [Camera -> Phone!Request \cup {Phone!None}]
        /\ active' \in [Camera -> Phone!Request \cup {Phone!None}]
    BY <1>8, <2>2, PhoneClock DEF Phone!Tick
  <2>4. dbCool' \in 0 .. Cooldown /\ memCool' \in 0 .. Cooldown /\ passCool' \in 0 .. Cooldown
    BY <1>8, PhoneClock DEF Phone!Tick
  <2>5. warm' \in Phone!Age /\ warm' # -1
    BY <1>8, PhoneClock DEF Phone!Tick
  <2>6. denied' \in [Camera -> Phone!Age] /\ \A d \in Camera : denied'[d] # -1
    BY <1>8, PhoneClock DEF Phone!Tick
  <2>7. QED BY <1>8, <2>1, <2>3, <2>4, <2>5, <2>6 DEF Phone!Tick
<1>9. CASE UNCHANGED Phone!vars
  BY <1>9 DEF Phone!vars
<1>10. QED
  BY <1>1, <1>2, <1>3, <1>4, <1>5, <1>6, <1>7, <1>8, <1>9, PhoneSteps DEF PhoneStep

\* The ages of a camera
LEMMA PhoneAges ==
  ASSUME Phone!PhoneAlertsAssumption, PhoneTyped, NEW c \in Camera
  PROVE  /\ since[c] \in Int /\ denied[c] \in 0 .. Phone!Oldest /\ warm \in 0 .. Phone!Oldest
         /\ since[c] >= -1 /\ (since[c] # -1 => since[c] \in 0 .. Phone!Oldest)
         /\ pending[c] # Phone!None => pending[c] \in Phone!Request
                                       /\ pending[c].age \in 0 .. MaxAge + 1
         /\ active[c] # Phone!None => active[c] \in Phone!Request
                                      /\ active[c].age \in 0 .. MaxAge + 1
BY PhoneClock DEF Phone!PhoneAlertsAssumption, PhoneTyped, Phone!TypeOK, Phone!Age,
   Phone!NoEvent, Phone!Request

LEMMA DenialStep ==
  ASSUME Phone!PhoneAlertsAssumption, PhoneTyped, DenialInv, [Phone!Next]_(Phone!vars)
  PROVE  DenialInv'
<1> USE DEF DenialInv, AfterDenial, Phone!NoEvent, Phone!ruleVars, Phone!reviewVars,
      Phone!worldVars, Phone!writeVars, Phone!coolVars, Phone!configVars, Phone!historyVars
<1>1. /\ since \in [Camera -> Phone!Age] /\ denied \in [Camera -> Phone!Age]
      /\ DOMAIN pending = Camera /\ DOMAIN active = Camera
  BY DEF PhoneTyped, Phone!TypeOK
<1>2. ASSUME NEW c \in Camera, Phone!Pass(c) PROVE DenialInv'
  <2>1. since' = since \/ since' = [since EXCEPT ![c] = -1]
    BY <1>2 DEF Phone!Pass, Phone!Quiet
  <2>2. \/ pending' = pending
        \/ pending' = [pending EXCEPT ![c] = [at |-> "asked", age |-> 0, version |-> version]]
    BY <1>2 DEF Phone!Pass, Phone!Schedule
  <2>3. ASSUME NEW d \in Camera PROVE AfterDenial(d)'
    BY <1>1, <1>2, <2>1, <2>2, PhoneAges DEF Phone!Pass
  <2>4. QED BY <1>2, <2>3 DEF Phone!Pass
<1>3. ASSUME NEW c \in Camera, Phone!TakeReview(c) PROVE DenialInv'
  <2>1. ASSUME NEW d \in Camera PROVE AfterDenial(d)'
    BY <1>1, <1>3, PhoneAges DEF Phone!TakeReview
  <2>2. QED BY <1>3, <2>1 DEF Phone!TakeReview
<1>4. ASSUME NEW c \in Camera, Phone!Answer(c) PROVE DenialInv'
  <2>1. /\ active[c] # Phone!None /\ pending' = pending
        /\ active' = [active EXCEPT ![c] = Phone!None] /\ writer' = writer
    BY <1>4, PhoneAnswer DEF Phone!Done
  <2>2. CASE UNCHANGED <<since, alerted, jobs, denied>>
    BY <1>1, <2>1, <2>2
  <2>3. CASE Phone!Quiet(c) /\ UNCHANGED jobs /\ denied' = [denied EXCEPT ![c] = active[c].age]
    <3>1. ASSUME NEW d \in Camera PROVE AfterDenial(d)'
      BY <1>1, <2>1, <2>3, PhoneAges DEF Phone!Quiet
    <3>2. QED BY <2>1, <2>3, <3>1
  <2>4. CASE Phone!Confirmed(c) /\ UNCHANGED denied
    <3>1. \/ since' = since
          \/ since' = [since EXCEPT ![c] = active[c].age]
      BY <2>4, PhoneConfirmed
    <3>2. ASSUME NEW d \in Camera PROVE AfterDenial(d)'
      BY <1>1, <2>1, <2>4, <3>1, PhoneAges
    <3>3. jobs' = jobs \/ jobs' = jobs \cup {Phone!NewJob(c)}
      BY <2>4, PhoneConfirmed
    <3>4. Phone!NewJob(c).agreed
      BY DEF Phone!NewJob
    <3>5. QED BY <2>1, <3>2, <3>3, <3>4
  <2>5. QED BY <1>4, <2>2, <2>3, <2>4, PhoneAnswer
<1>5. ASSUME NEW c \in Camera, Phone!ReviewFails(c) PROVE DenialInv'
  BY <1>1, <1>5 DEF Phone!ReviewFails, Phone!Done
<1>6. ASSUME NEW c \in Camera, Phone!Unconfigured(c) PROVE DenialInv'
  <2>1. ASSUME NEW d \in Camera PROVE AfterDenial(d)'
    BY <1>1, <1>6, PhoneAges DEF Phone!Unconfigured, Phone!Done, Phone!Quiet
  <2>2. QED BY <1>6, <2>1 DEF Phone!Unconfigured
<1>7. ASSUME NEW c \in Camera, Phone!Shift(c) \/ Phone!Connection(c) PROVE DenialInv'
  BY <1>7 DEF Phone!Shift, Phone!Connection
<1>8. ASSUME NEW c \in Camera, NEW removes \in BOOLEAN, Phone!Edit(c, removes) PROVE DenialInv'
  <2>1. since' = since \/ since' = [since EXCEPT ![c] = -1]
    BY <1>8 DEF Phone!Edit, Phone!Quiet
  <2>2. ASSUME NEW d \in Camera PROVE AfterDenial(d)'
    BY <1>1, <1>8, <2>1, PhoneAges DEF Phone!Edit
  <2>3. QED BY <1>8, <2>2 DEF Phone!Edit
<1>9. ASSUME PhoneWorld PROVE DenialInv'
  <2>1. CASE \E j \in jobs : Phone!Commit(j)
    BY <2>1 DEF Phone!Commit
  <2>2. CASE Phone!AfterCommit
    BY <2>2 DEF Phone!AfterCommit
  <2>3. CASE Phone!Refresh \/ Phone!Settle
    BY <2>3 DEF Phone!Refresh, Phone!Settle
  <2>4. CASE Phone!Restart
    <3>1. ASSUME NEW d \in Camera PROVE AfterDenial(d)'
      BY <2>4, PhoneAges DEF Phone!Restart
    <3>2. QED BY <2>4, <3>1 DEF Phone!Restart
  <2>5. QED BY <1>9, <2>1, <2>2, <2>3, <2>4 DEF PhoneWorld
<1>10. ASSUME Phone!Tick PROVE DenialInv'
  <2>1. ASSUME NEW d \in Camera PROVE AfterDenial(d)'
    <3>1. since'[d] = Phone!Older(since[d]) /\ denied'[d] = Phone!Older(denied[d])
          /\ pending'[d] = Phone!OlderRequest(pending[d])
          /\ active'[d] = Phone!OlderRequest(active[d])
      BY <1>10 DEF Phone!Tick
    <3>2. since'[d] <= denied'[d]
      BY <1>1, <3>1, PhoneAges, PhoneClock
    <3>3. ASSUME NEW r \in Phone!Request, r.age \in 0 .. MaxAge + 1
          PROVE  Phone!OlderRequest(r).age = (IF r.age <= MaxAge THEN r.age + 1 ELSE MaxAge + 1)
      BY <3>3, PhoneClock DEF Phone!Request
    <3>4. pending'[d] # Phone!None =>
            pending[d] # Phone!None /\ pending'[d].age <= denied'[d]
      BY <1>1, <3>1, <3>3, PhoneAges, PhoneClock DEF Phone!PhoneAlertsAssumption
    <3>5. active'[d] # Phone!None =>
            active[d] # Phone!None /\ active'[d].age <= denied'[d]
      BY <1>1, <3>1, <3>3, PhoneAges, PhoneClock DEF Phone!PhoneAlertsAssumption
    <3>6. pending'[d] # Phone!None /\ active'[d] # Phone!None => pending'[d].age <= active'[d].age
      BY <1>1, <3>1, <3>3, <3>4, <3>5, PhoneAges DEF Phone!PhoneAlertsAssumption
    <3>7. QED BY <3>2, <3>4, <3>5, <3>6
  <2>2. QED BY <1>10, <2>1 DEF Phone!Tick
<1>11. CASE UNCHANGED Phone!vars
  BY <1>11 DEF Phone!vars
<1>12. QED
  BY <1>2, <1>3, <1>4, <1>5, <1>6, <1>7, <1>8, <1>9, <1>10, <1>11, PhoneSteps DEF PhoneStep

LEMMA PhoneStartsInTime ==
  ASSUME Phone!PhoneAlertsAssumption, Phone!Init
  PROVE  PhoneInv
<1> USE DEF Phone!Init, Phone!NoEvent, Phone!None, Phone!Age, Phone!PhoneAlertsAssumption
<1>1. PhoneTyped
  BY PhoneClock, FS_EmptySet DEF PhoneTyped, Phone!TypeOK, Phone!Trouble, Phone!Editing
<1>2. DenialInv
  BY PhoneClock DEF DenialInv, AfterDenial
<1>3. QED BY <1>1, <1>2 DEF PhoneInv

LEMMA PhoneInvariant == ASSUME Phone!PhoneAlertsAssumption PROVE Phone!Spec => []PhoneInv
<1>1. Phone!Init => PhoneInv
  BY PhoneStartsInTime
<1>2. PhoneInv /\ [Phone!Next]_(Phone!vars) => PhoneInv'
  <2>1. ASSUME PhoneInv, [Phone!Next]_(Phone!vars) PROVE PhoneInv'
    <3>1. PhoneTyped' /\ DenialInv'
      BY <2>1, PhoneTypedStep, DenialStep DEF PhoneInv
    <3>2. QED BY <3>1 DEF PhoneInv
  <2>2. QED BY <2>1
<1>3. QED BY <1>1, <1>2, PTL DEF Phone!Spec

\* The variables of PhoneAlerts have their types; a camera whose use was put into
\* the outbox has used its phone for the threshold.
THEOREM PhoneTypes == ASSUME Phone!PhoneAlertsAssumption PROVE Phone!Spec => []Phone!TypeOK
<1>1. PhoneInv => Phone!TypeOK
  BY DEF PhoneInv, PhoneTyped
<1>2. QED BY <1>1, PhoneInvariant, PTL

\* No alert is about an event during which an answer denied the use, whatever goes wrong.
THEOREM NeverDenied == ASSUME Phone!PhoneAlertsAssumption
   PROVE Phone!Spec => [](Phone!Alerts => writer.agreed)
<1>1. PhoneInv => (Phone!Alerts => writer.agreed)
  BY DEF PhoneInv, PhoneTyped, DenialInv, Phone!Alerts, Phone!None
<1>2. QED BY <1>1, PhoneInvariant, PTL

=============================================================================
