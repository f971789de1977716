----------------------------- MODULE Notifications -----------------------------
(***************************************************************************)
(* What becomes of the notifications of one alert: a row per delivery to a *)
(* webhook target, the status of the alert that sums them up, and who      *)
(* works on them.                                                          *)
(*                                                                         *)
(* With background processing the alert, its deliveries and one task per   *)
(* delivery are committed together (AsyncPipeline._outcome) and workers    *)
(* claim the tasks under leases (_notifications).  Without it, coroutines  *)
(* of the process send (AlertService._deliver).  A manual send always uses *)
(* coroutines.  Cleanup deletes the alert, its pictures first.             *)
(*                                                                         *)
(* A worker's transactions run in threads of the I/O pool, those of the    *)
(* coroutines in the event loop, so the former may fall between the latter.*)
(***************************************************************************)
EXTENDS Naturals, FiniteSets

CONSTANTS
  Target,        \* the webhook targets
  Worker,        \* coroutines of _notifications (4)
  Request,       \* manual sends that may run at a time
  NoOne,
  MaxAttempts,   \* of TaskStore.fail (5)
  MaxLosses,     \* bounds: leases that end under a worker and failures that
                 \* cannot be written, ...
  MaxRestarts,   \* ... kills of the process, ...
  MaxSends       \* ... manual sends

ASSUME NotificationsAssumption ==
  /\ NoOne \notin Worker \union Request
  /\ MaxAttempts \in Nat \ {0} /\ MaxLosses \in Nat /\ MaxRestarts \in Nat /\ MaxSends \in Nat

VARIABLES
  staff,         \* the workers that run; none without background processing
  alert,         \* its webhook_status, or that it is not there yet or any more
  evidence,      \* its pictures are on the disk
  delivery,      \* the status of the delivery to each target
  received,      \* what has reached each target: the text, the pictures too
  task,          \* the background task of each delivery; attempts up to MaxAttempts
  worker,
  sending,       \* the deliveries that coroutines of a request, or of the
                 \* alert itself (NoOne), are sending
  loop,          \* a coroutine that has the event loop between two transactions
  restarted,     \* the process was killed
  left           \* what may still happen, of each that is bounded

vars == <<staff, alert, evidence, delivery, received, task, worker, sending, loop, restarted, left>>

Status == {"not_sent", "pending", "delivered", "failed", "partial"}
Unfinished == {"pending", "retry", "running"}

TypeOK ==
  /\ staff \subseteq Worker /\ evidence \in BOOLEAN
  /\ alert \in Status \union {"none", "deleted"}
  /\ delivery \in [Target -> {"none", "pending", "delivered", "failed"}]
  /\ received \in [Target -> {"nothing", "text", "everything"}]
  /\ task \in [Target -> [status : Unfinished \union {"none", "failed", "completed"},
                          attempts : 0..MaxAttempts, holder : Worker \union {NoOne}]]
  /\ \A t \in Target : task[t].holder # NoOne => task[t].status = "running"
  /\ worker \in [Worker -> [pc : {"idle", "loading", "sending", "sent", "raised", "failing"},
                            target : Target \union {NoOne}]]
  /\ sending \in [Request \union {NoOne} -> SUBSET Target]
  /\ loop \in [step : {"free", "reads", "writes"}, status : Status]
  /\ restarted \in BOOLEAN
  /\ left \in [losses : 0..MaxLosses, restarts : 0..MaxRestarts, sends : 0..MaxSends]

-----------------------------------------------------------------------------

NoTask == [status |-> "none", attempts |-> 0, holder |-> NoOne]
NewTask == [NoTask EXCEPT !.status = "pending"]
Idle == [pc |-> "idle", target |-> NoOne]
FreeLoop == [step |-> "free", status |-> "not_sent"]

Init ==
  /\ staff \in SUBSET Worker
  /\ alert = "none" /\ evidence = FALSE
  /\ delivery = [t \in Target |-> "none"]
  /\ received = [t \in Target |-> "nothing"]
  /\ task = [t \in Target |-> NoTask]
  /\ worker = [w \in Worker |-> Idle]
  /\ sending = [r \in Request \union {NoOne} |-> {}]
  /\ loop = FreeLoop
  /\ restarted = FALSE
  /\ left \in [losses : 0..MaxLosses, restarts : 0..MaxRestarts, sends : 0..MaxSends]

direct == staff = {}
Present == alert \in Status
Listed == {t \in Target : delivery[t] # "none"}
In(status) == {t \in Listed : delivery[t] = status}

\* upsert_webhook_delivery: rows that are there are pending again.
Upserted(T) == [t \in Target |-> IF t \in T THEN "pending" ELSE delivery[t]]

\* update_webhook_delivery: a row that was deleted is not written.
Written(t, status) ==
  IF delivery[t] = "none" THEN delivery ELSE [delivery EXCEPT ![t] = status]

\* _refresh_alert_status: the deliveries summed up
Summary ==
  IF Listed = {} THEN "not_sent"
  ELSE IF In("delivered") = Listed THEN "delivered"
  ELSE IF In("failed") = Listed THEN "failed"
  ELSE IF In("delivered") # {} /\ In("failed") # {} THEN "partial"
  ELSE "pending"

\* The alert is there, with deliveries to the targets of T.
Created(T, status) ==
  /\ alert = "none"
  /\ alert' = status /\ evidence' = TRUE
  /\ delivery' = [t \in Target |-> IF t \in T THEN "pending" ELSE "none"]
  /\ UNCHANGED <<staff, received, worker, loop, restarted, left>>

\* Mutant: the tasks are inserted after the commit, which a kill may prevent.
CommitWithoutTasks(T) ==
  /\ ~direct
  /\ Created(T, IF T = {} THEN "not_sent" ELSE "pending")
  /\ UNCHANGED <<task, sending>>

\* alert_write: everything in the transaction of the alert
Commit(T) ==
  /\ ~direct
  /\ Created(T, IF T = {} THEN "not_sent" ELSE "pending")
  /\ task' = [t \in Target |-> IF t \in T THEN NewTask ELSE NoTask]
  /\ UNCHANGED sending

\* _schedule_delivery: rows, coroutines and status with the loop in one's hands
Schedule(T) ==
  /\ direct
  /\ Created(T, IF T = {} THEN "not_sent" ELSE "pending")
  /\ sending' = [sending EXCEPT ![NoOne] = T]
  /\ UNCHANGED task

-----------------------------------------------------------------------------
(* Sending *)

\* What WebhookClient.send does to t: the text, then each picture, until one of
\* them is refused, lost, or not on the disk.  It succeeds when every answer has
\* arrived.
Send(t, succeeds) ==
  /\ succeeds => evidence
  /\ \E now \in {"nothing", "text", "everything"} :
       /\ succeeds => now = "everything"
       /\ ~evidence => now # "everything"
       /\ received' = [received EXCEPT ![t] =
            IF now = "nothing" \/ @ = "everything" THEN @ ELSE now]

-----------------------------------------------------------------------------
(* The workers *)

Loop == <<staff, evidence, sending, loop, restarted>>

\* TaskStore.claim: a task that is due, or whose lease has ended
Claim(w, t) ==
  /\ w \in staff /\ worker[w].pc = "idle"
  /\ task[t].status \in Unfinished /\ task[t].holder = NoOne
  /\ task' = [task EXCEPT ![t] =
       [status |-> "running", holder |-> w,
        attempts |-> IF @.attempts = MaxAttempts THEN @.attempts ELSE @.attempts + 1]]
  /\ worker' = [worker EXCEPT ![w] = [pc |-> "loading", target |-> t]]
  /\ UNCHANGED <<Loop, alert, delivery, received, left>>

Goes(w, pc) == worker' = [worker EXCEPT ![w].pc = pc]

\* load: nothing is sent for a delivery that was deleted.  Any transaction may
\* raise instead of committing.
LoadDelivery(w) ==
  /\ worker[w].pc = "loading"
  /\ \/ Goes(w, IF delivery[worker[w].target] = "none" THEN "sent" ELSE "sending")
     \/ Goes(w, "raised")
  /\ UNCHANGED <<Loop, alert, delivery, received, task, left>>

\* The answers, or an exception or the timeout of 60 seconds
SendEnds(w) ==
  /\ worker[w].pc = "sending" /\ loop.step = "free"
  /\ \E succeeds \in BOOLEAN :
       /\ Send(worker[w].target, succeeds)
       /\ Goes(w, IF succeeds THEN "sent" ELSE "raised")
  /\ UNCHANGED <<Loop, alert, delivery, task, left>>

Holds(w) == task[worker[w].target].holder = w

\* Mutant: the other deliveries of the alert are not looked at.
CompleteAlone(w) ==
  LET t == worker[w].target
      there == delivery[t] # "none"
  IN  /\ worker[w].pc = "sent"
      /\ IF Holds(w)
         THEN /\ task' = [task EXCEPT ![t].status = "completed", ![t].holder = NoOne]
              /\ delivery' = Written(t, "delivered")
              /\ alert' = IF there THEN "delivered" ELSE alert
         ELSE UNCHANGED <<task, delivery, alert>>
      /\ worker' = [worker EXCEPT ![w] = Idle]
      /\ UNCHANGED <<Loop, received, left>>

\* complete: the delivery and the alert's status with the task, if the worker
\* still has its lease
Complete(w) ==
  LET t == worker[w].target
      there == delivery[t] # "none"
  IN  /\ worker[w].pc = "sent"
      /\ IF Holds(w)
         THEN /\ task' = [task EXCEPT ![t].status = "completed", ![t].holder = NoOne]
              /\ delivery' = Written(t, "delivered")
              /\ alert' = IF ~there THEN alert
                          ELSE IF Listed \subseteq In("delivered") \union {t} THEN "delivered"
                          ELSE "pending"
         ELSE UNCHANGED <<task, delivery, alert>>
      /\ worker' = [worker EXCEPT ![w] = Idle]
      /\ UNCHANGED <<Loop, received, left>>

CompleteRaises(w) ==
  /\ worker[w].pc = "sent"
  /\ Goes(w, "raised")
  /\ UNCHANGED <<Loop, alert, delivery, received, task, left>>

\* store.fail: the task is retried, or failed for good, if the lease is held ...
FailTask(w) ==
  /\ worker[w].pc = "raised"
  /\ IF Holds(w)
     THEN LET t == worker[w].target IN
            task' = [task EXCEPT ![t].holder = NoOne,
              ![t].status = IF task[t].attempts >= MaxAttempts THEN "failed" ELSE "retry"]
     ELSE UNCHANGED task
  /\ Goes(w, "failing")
  /\ UNCHANGED <<Loop, alert, delivery, received, left>>

\* ... and failed() marks delivery and alert in any case.
MarkFailed(w) ==
  LET t == worker[w].target IN
    /\ worker[w].pc = "failing"
    /\ delivery' = Written(t, "failed")
    /\ alert' = IF delivery[t] # "none" THEN "failed" ELSE alert
    /\ worker' = [worker EXCEPT ![w] = Idle]
    /\ UNCHANGED <<Loop, received, task, left>>

\* An exception of one of the two is ignored, and what is left undone with it.
FailureIgnored(w) ==
  /\ worker[w].pc \in {"raised", "failing"} /\ left.losses > 0
  /\ worker' = [worker EXCEPT ![w] = Idle]
  /\ left' = [left EXCEPT !.losses = @ - 1]
  /\ UNCHANGED <<Loop, alert, delivery, received, task>>

WorkerStep(w) ==
  \/ LoadDelivery(w) \/ SendEnds(w) \/ Complete(w) \/ CompleteRaises(w)
  \/ FailTask(w) \/ MarkFailed(w) \/ FailureIgnored(w)

\* The lease of a claim ends: it was lost in a transaction that raised, or its
\* worker was held up.
LeaseEnds(t) ==
  /\ task[t].holder # NoOne
  /\ \/ left.losses > 0 /\ left' = [left EXCEPT !.losses = @ - 1]
     \/ worker[task[t].holder].target # t /\ UNCHANGED left
  /\ task' = [task EXCEPT ![t].holder = NoOne]
  /\ UNCHANGED <<Loop, alert, delivery, received, worker>>

\* An administrator retries a failed task.
Retry(t) ==
  /\ task[t].status = "failed"
  /\ task' = [task EXCEPT ![t] = NewTask]
  /\ UNCHANGED <<Loop, alert, delivery, received, worker, left>>

-----------------------------------------------------------------------------
(* The coroutines *)

Workers == <<staff, task, worker, restarted>>

\* manual_send: every delivery is pending again, its coroutine starts.  The
\* alert keeps its status.
ManualSend(r, T) ==
  /\ loop.step = "free" /\ sending[r] = {} /\ T # {} /\ Present
  /\ left.sends > 0 /\ left' = [left EXCEPT !.sends = @ - 1]
  /\ delivery' = Upserted(T)
  /\ sending' = [sending EXCEPT ![r] = T]
  /\ UNCHANGED <<Workers, alert, evidence, received, loop>>

\* Mutant: only what was delivered is summed up.
DeliverEndsQuietly(r, t) ==
  /\ loop.step = "free" /\ t \in sending[r]
  /\ \E succeeds \in BOOLEAN :
       /\ Send(t, succeeds)
       /\ delivery' = Written(t, IF succeeds THEN "delivered" ELSE "failed")
       /\ loop' = [loop EXCEPT !.step = IF succeeds THEN "reads" ELSE "free"]
  /\ sending' = [sending EXCEPT ![r] = @ \ {t}]
  /\ UNCHANGED <<Workers, alert, evidence, left>>

\* _deliver: the delivery gets its status, the summary of all is next.
DeliverEnds(r, t) ==
  /\ loop.step = "free" /\ t \in sending[r]
  /\ \E succeeds \in BOOLEAN :
       /\ Send(t, succeeds)
       /\ delivery' = Written(t, IF succeeds THEN "delivered" ELSE "failed")
  /\ sending' = [sending EXCEPT ![r] = @ \ {t}]
  /\ loop' = [loop EXCEPT !.step = "reads"]
  /\ UNCHANGED <<Workers, alert, evidence, left>>

RefreshReads ==
  /\ loop.step = "reads"
  /\ loop' = [step |-> "writes", status |-> Summary]
  /\ UNCHANGED <<Workers, alert, evidence, delivery, received, sending, left>>

RefreshWrites ==
  /\ loop.step = "writes"
  /\ alert' = IF Present THEN loop.status ELSE alert
  /\ loop' = FreeLoop
  /\ UNCHANGED <<Workers, evidence, delivery, received, sending, left>>

-----------------------------------------------------------------------------
(* Cleanup, kills *)

\* CleanupService in its thread: the pictures, and then alert and deliveries in
\* one transaction, which may never come.
RemovePictures ==
  /\ Present /\ evidence
  /\ evidence' = FALSE
  /\ UNCHANGED <<Workers, alert, delivery, received, sending, loop, left>>

DeleteAlert ==
  /\ Present /\ ~evidence
  /\ alert' = "deleted"
  /\ delivery' = [t \in Target |-> "none"]
  /\ UNCHANGED <<Workers, evidence, received, sending, loop, left>>

\* The process is killed and starts again.  A pending delivery that has no task
\* gets one from start().
Restart ==
  /\ left.restarts > 0 /\ left' = [left EXCEPT !.restarts = @ - 1]
  /\ restarted' = TRUE
  /\ task' = [t \in Target |->
       IF ~direct /\ delivery[t] = "pending" /\ task[t].status = "none" THEN NewTask
       ELSE [task[t] EXCEPT !.holder = NoOne]]
  /\ worker' = [w \in Worker |-> Idle]
  /\ sending' = [r \in Request \union {NoOne} |-> {}]
  /\ loop' = FreeLoop
  /\ UNCHANGED <<staff, alert, evidence, delivery, received>>

-----------------------------------------------------------------------------

Next ==
  \/ \E T \in SUBSET Target : Commit(T) \/ Schedule(T)
  \/ \E w \in Worker, t \in Target : Claim(w, t)
  \/ \E w \in Worker : WorkerStep(w)
  \/ \E t \in Target : LeaseEnds(t) \/ Retry(t)
  \/ \E r \in Request, T \in SUBSET Target : ManualSend(r, T)
  \/ \E r \in Request \union {NoOne}, t \in Target : DeliverEnds(r, t)
  \/ RefreshReads \/ RefreshWrites
  \/ RemovePictures \/ DeleteAlert
  \/ Restart

Spec == Init /\ [][Next]_vars

\* Workers are loops that claim whatever is due, the pool runs what it is given,
\* a send has a timeout, a coroutine does not keep the event loop, and leases
\* that nobody renews end.
Fairness ==
  /\ [][Next]_vars
  /\ WF_vars(RefreshReads \/ RefreshWrites)
  /\ \A w \in Worker : WF_vars(WorkerStep(w))
  /\ \A t \in Target : SF_vars(\E w \in Worker : Claim(w, t)) /\ WF_vars(LeaseEnds(t))

FairSpec == Init /\ Fairness

-----------------------------------------------------------------------------
(* Properties *)

\* A delivery counts as delivered only if the text and all pictures have reached
\* its target, and an alert only if each of its deliveries has, whoever sent it
\* and whatever was lost, retried or written late, or is about to be sent by a
\* manual request.  A request that is killed may leave the status behind.
DeliveredIsTrue ==
  /\ \A t \in Target : delivery[t] = "delivered" => received[t] = "everything"
  /\ alert = "delivered" /\ loop.step = "free" /\ ~restarted =>
       \A t \in Listed : received[t] # "everything" => delivery[t] = "pending"

\* Without background processing the status of an alert is the sum of its
\* deliveries whenever nothing is being sent, in whatever order the coroutines
\* of several requests end.
StatusAgrees ==
  direct /\ ~restarted /\ Present /\ loop.step = "free" /\ (\A r \in DOMAIN sending : sending[r] = {})
    => alert = Summary

\* The types, and the alert against its deliveries.
Consistent == TypeOK /\ StatusAgrees

\* With it, a delivery that is committed with its alert is worked on until it is
\* sent or has failed five times, through lost leases, kills and deletion; and
\* so is one that a killed manual request left to nobody.
NotificationsEnd ==
  \A t \in Target :
    ~direct /\ delivery[t] = "pending" /\ task[t].status # "completed" /\ (\A r \in Request : t \notin sending[r])
      ~> \/ task[t].status \in {"completed", "failed"}
         \/ delivery[t] = "none"
         \/ \E r \in Request : t \in sending[r]

\* An alert is shown as pending only while something is pending.
PendingIsTrue ==
  alert = "pending" /\ loop.step = "free" => In("pending") # {} \/ \E t \in Target : task[t].status \in Unfinished

\* A delivery that its task completed is not marked as failed by a worker whose
\* lease was lost.
CompletedStays ==
  [][\A w \in Worker, t \in Target :
       MarkFailed(w) /\ worker[w].target = t => task[t].status # "completed"]_vars
=============================================================================
