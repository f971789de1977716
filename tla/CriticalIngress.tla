--------------------------- MODULE CriticalIngress ---------------------------
(***************************************************************************)
(* The way of an accepted job from memory into the outbox table: the       *)
(* bounded queue CriticalIngress with its writer task                      *)
(* (backend/background.py), the overflow AsyncPipeline.retained, the       *)
(* maintenance task that readmits it and the shutdown sequence             *)
(* AsyncPipeline.close (backend/async_pipeline.py).                        *)
(*                                                                         *)
(* One step is what the event loop runs between two awaits.  A database    *)
(* call runs in a thread of IOPool: the transaction is a step of its own   *)
(* (Thread), and the task sees its outcome in a later one (Resume), with   *)
(* submissions and the shutdown in between.                                *)
(***************************************************************************)
EXTENDS Integers, FiniteSets, Sequences, SequencesExt

CONSTANTS
  Key,         \* idempotency keys
  Work,        \* immutable contents: kind, camera, payload, evidence
  NoWork,      \* the contents of a row that does not exist
  Alert,       \* keys of alerts: derived from the event, so that another
               \* reconstruction of the event reuses the key
  Traffic,     \* keys of traffic flushes (uuid4, as all that are no alerts)
  Jobs,        \* the jobs that may be submitted, [key, work]
  Poison,      \* jobs whose insertion always fails
  Capacity,    \* background_queue_capacity (4096)
  RetainLimit, \* max(32, 32 * cameras)
  BatchSize    \* jobs per persist_many (100)

ASSUME IngressAssumption ==
  /\ NoWork \notin Work
  /\ Alert \subseteq Key /\ Traffic \subseteq Key \ Alert
  /\ Jobs \subseteq [key : Key, work : Work]
  /\ Poison \subseteq Jobs
  /\ Capacity \in Nat \ {0}
  /\ RetainLimit \in Nat \ {0}
  /\ BatchSize \in Nat \ {0}

VARIABLES
  table,      \* the contents of the durable rows
  settled,    \* the rows whose business transaction has committed
  pending,    \* CriticalIngress.pending, oldest first
  retained,   \* AsyncPipeline.retained, oldest first
  reserved,   \* keys that are not submitted again (reserved_alerts, used uuids)
  wpc, todo, outcome,   \* the writer task: where it is, the jobs it still has
                        \* to handle, what the database call came to
  mpc,        \* the maintenance task
  cpc,        \* the shutdown
  cancelled,  \* tasks with a cancellation on its way while a thread runs
  accepted,   \* history: jobs submit did not refuse, in this process's life
  isolated    \* history: jobs set aside as conflicting (dead_letters)

writer == <<wpc, todo, outcome>>
memory == <<pending, retained, reserved, accepted, isolated>>
vars   == <<table, settled, pending, retained, reserved, wpc, todo, outcome,
            mpc, cpc, cancelled, accepted, isolated>>

TypeOK ==
  /\ table \in [Key -> Work \union {NoWork}]
  /\ settled \subseteq Key
  /\ pending \in Seq(Jobs) /\ Len(pending) <= Capacity
  /\ retained \in Seq(Jobs) /\ Len(retained) <= RetainLimit
  /\ reserved \subseteq Key
  /\ wpc \in {"idle", "many", "each", "stopped"}
  /\ todo \in Seq(Jobs)
  /\ outcome \in {"running", "ok", "conflict", "error"}
  /\ mpc \in {"sleep", "stats", "stopped"}
  /\ cpc \in {"open", "gather", "drain", "ingress", "aborted", "down"}
  /\ cancelled \subseteq {"writer", "maintenance"}
  /\ accepted \in Seq(Jobs)
  /\ isolated \subseteq Jobs

-----------------------------------------------------------------------------

Elements(s) == {s[i] : i \in DOMAIN s}

KeysOf(s) == {s[i].key : i \in DOMAIN s}

Without(s, k) ==
  IF k \in KeysOf(s)
  THEN RemoveAt(s, CHOOSE i \in DOMAIN s : s[i].key = k)
  ELSE s

Durable(j) == table[j.key] = j.work

\* A row with other work exists: persist raises IdempotencyConflict.
Conflicting(j) == table[j.key] \notin {NoWork, j.work}

Closed == cpc \in {"ingress", "down"}

Init ==
  /\ table = [k \in Key |-> NoWork]
  /\ settled = {}
  /\ pending = <<>> /\ retained = <<>>
  /\ reserved = {}
  /\ wpc = "idle" /\ todo = <<>> /\ outcome = "ok"
  /\ mpc = "sleep"
  /\ cpc = "open"
  /\ cancelled = {}
  /\ accepted = <<>> /\ isolated = {}

-----------------------------------------------------------------------------
(* Submitting *)

Accepting(j) == IF j \in Elements(accepted) THEN accepted ELSE Append(accepted, j)

\* CriticalIngress.submit appends the job ...
Takes(j) ==
  /\ ~Closed
  /\ j.key \notin KeysOf(pending)
  /\ Len(pending) < Capacity

\* ... or has it already; the same key with other work raises.
Has(j)    == ~Closed /\ j \in Elements(pending)
Clashes(j) == ~Closed /\ j \notin Elements(pending) /\ j.key \in KeysOf(pending)

\* Mutant: a job that does not fit is dropped silently.
HandOverDropping(j) ==
  /\ pending' = IF Takes(j) THEN Append(pending, j) ELSE pending
  /\ accepted' = Accepting(j)
  /\ UNCHANGED retained

\* AsyncPipeline.submit: what the ingress refuses is retained.
HandOver(j) ==
  \/ /\ Takes(j)
     /\ pending' = Append(pending, j)
     /\ accepted' = Accepting(j)
     /\ UNCHANGED retained
  \/ /\ Has(j)
     /\ accepted' = Accepting(j)
     /\ UNCHANGED <<pending, retained>>
  \/ /\ ~Takes(j) /\ ~Has(j) /\ ~Clashes(j)
     /\ Len(retained) < RetainLimit
     /\ retained' = IF j.key \in KeysOf(retained)
                    THEN [i \in DOMAIN retained |->
                            IF retained[i].key = j.key THEN j ELSE retained[i]]
                    ELSE Append(retained, j)
     /\ accepted' = Accepting(j)
     /\ UNCHANGED pending

\* ValueError of the ingress, or RuntimeError: retained is full.
Refuses(j) ==
  \/ Clashes(j)
  \/ ~Takes(j) /\ ~Has(j) /\ Len(retained) >= RetainLimit

\* Mutant: an alert is not reserved while it is on its way.
SubmitUnreserved(j) ==
  /\ cpc = "open"
  /\ j.key \notin Traffic
  /\ reserved' = reserved \union {j.key}
  /\ \/ HandOver(j)
     \/ Refuses(j) /\ UNCHANGED <<pending, retained, accepted>>
  /\ UNCHANGED <<table, settled, writer, mpc, cpc, cancelled, isolated>>

\* A pipeline task submits a job while the process is not shutting down.  The
\* key of an alert is reserved first, and stays so if the submission raises.
Submit(j) ==
  /\ cpc = "open"
  /\ j.key \notin Traffic /\ j.key \notin reserved
  /\ reserved' = reserved \union {j.key}
  /\ \/ HandOver(j)
     \/ Refuses(j) /\ UNCHANGED <<pending, retained, accepted>>
  /\ UNCHANGED <<table, settled, writer, mpc, cpc, cancelled, isolated>>

\* The business worker has completed the row of an alert: another event with
\* the same identity may be submitted.
CompleteRow(k) ==
  /\ k \in Alert /\ table[k] # NoWork /\ k \notin settled
  /\ cpc \in {"open", "gather"}
  /\ settled' = settled \union {k}
  /\ reserved' = reserved \ {k}
  /\ UNCHANGED <<table, pending, retained, writer, mpc, cpc, cancelled,
                 accepted, isolated>>

-----------------------------------------------------------------------------
(* The writer task *)

\* flush_one: one call of persist_many for the oldest jobs.
Flush ==
  /\ wpc = "idle" /\ pending # <<>>
  /\ wpc' = "many"
  /\ todo' = SubSeq(pending, 1, IF Len(pending) < BatchSize THEN Len(pending) ELSE BatchSize)
  /\ outcome' = "running"
  /\ UNCHANGED <<table, settled, memory, mpc, cpc, cancelled>>

\* The jobs of the running call: the batch, or its next job alone.
Calling == IF wpc = "many" THEN Elements(todo) ELSE {Head(todo)}

Insert(B) == [k \in Key |-> IF \E j \in B : j.key = k
                            THEN (CHOOSE j \in B : j.key = k).work ELSE table[k]]

\* The transaction of persist_many or persist: all rows or none.  A database
\* error may also hide a transaction that has committed.
Thread(result) ==
  /\ wpc \in {"many", "each"} /\ outcome = "running"
  /\ outcome' = result
  /\ \/ /\ result = "conflict" /\ \E j \in Calling : Conflicting(j)
        /\ UNCHANGED table
     \/ /\ result = "error"
        /\ UNCHANGED table
     \/ /\ result \in {"ok", "error"}
        /\ \A j \in Calling : ~Conflicting(j) /\ j \notin Poison
        /\ table' = Insert(Calling)
  /\ UNCHANGED <<settled, memory, wpc, todo, mpc, cpc, cancelled>>

\* Mutant: a job that failed keeps its place.
AdvanceInPlace ==
  LET j == Head(todo) IN
    /\ todo' = Tail(todo)
    /\ pending' = IF outcome = "error" THEN pending ELSE Without(pending, j.key)
    /\ isolated' = IF outcome = "conflict" THEN isolated \union {j} ELSE isolated

\* _flush_individually, one job: written, set aside, or moved to the end.
Advance ==
  LET j == Head(todo) IN
    /\ todo' = Tail(todo)
    /\ \/ /\ outcome = "ok"
          /\ pending' = Without(pending, j.key)
          /\ UNCHANGED isolated
       \/ /\ outcome = "conflict"
          /\ pending' = Without(pending, j.key)
          /\ isolated' = isolated \union {j}
       \/ /\ outcome = "error"
          /\ pending' = IF j.key \in KeysOf(pending)
                        THEN Append(Without(pending, j.key), j) ELSE pending
          /\ UNCHANGED isolated

\* The next call of _flush_individually, or the end of the pass.
Continue ==
  \/ /\ Len(todo) > 1 /\ wpc' = "each" /\ outcome' = "running"
  \/ /\ Len(todo) = 1 /\ outcome' = "ok"
     /\ wpc' = IF Closed THEN "stopped" ELSE "idle"

\* A cancellation reaches the writer where its thread's call returns: IOPool.run
\* raises it after a call that succeeded, and what the call wrote stays pending.
Stop ==
  /\ outcome = "ok" /\ "writer" \in cancelled
  /\ wpc' = "stopped" /\ todo' = <<>>
  /\ UNCHANGED <<outcome, pending, isolated>>

\* persist_many returned.
ResumeMany ==
  /\ wpc = "many" /\ outcome # "running"
  /\ cancelled' = cancelled \ {"writer"}
  /\ \/ Stop
     \/ /\ outcome = "ok" /\ "writer" \notin cancelled
        /\ pending' = SubSeq(pending, Len(todo) + 1, Len(pending))
        /\ wpc' = IF Closed THEN "stopped" ELSE "idle"
        /\ todo' = <<>>
        /\ UNCHANGED <<outcome, isolated>>
     \/ /\ outcome # "ok" /\ Len(todo) > 1
        /\ wpc' = "each" /\ outcome' = "running"
        /\ UNCHANGED <<todo, pending, isolated>>
     \/ /\ outcome = "conflict" /\ Len(todo) = 1
        /\ Advance /\ Continue
     \/ /\ outcome = "error" /\ Len(todo) = 1
        /\ todo' = <<>> /\ outcome' = "ok"
        /\ wpc' = IF Closed THEN "stopped" ELSE "idle"
        /\ UNCHANGED <<pending, isolated>>
  /\ UNCHANGED <<table, settled, retained, reserved, accepted, mpc, cpc>>

\* persist returned.
ResumeEach ==
  /\ wpc = "each" /\ outcome # "running"
  /\ cancelled' = cancelled \ {"writer"}
  /\ \/ Stop
     \/ /\ outcome # "ok" \/ "writer" \notin cancelled
        /\ Advance /\ Continue
  /\ UNCHANGED <<table, settled, retained, reserved, accepted, mpc, cpc>>

Writer == Flush \/ ResumeMany \/ ResumeEach

-----------------------------------------------------------------------------
(* Maintenance and shutdown *)

\* Mutant: retained jobs, accepted long ago, go to the head of the queue.
AdmitInFront ==
  LET room == IF Closed THEN 0 ELSE Capacity - Len(pending)
      n    == IF Len(retained) < room THEN Len(retained) ELSE room
  IN  /\ pending' = SubSeq(retained, 1, n) \o pending
      /\ retained' = SubSeq(retained, n + 1, Len(retained))

\* _admit_retained: oldest first, until the ingress is full.
Admitted ==
  LET room == IF Closed THEN 0 ELSE Capacity - Len(pending)
  IN  IF Len(retained) < room THEN Len(retained) ELSE room

Admit ==
  /\ pending' = pending \o SubSeq(retained, 1, Admitted)
  /\ retained' = SubSeq(retained, Admitted + 1, Len(retained))

\* _flush_flow: whatever traffic there is becomes one job under a new key.
FlushFlow(t) ==
  /\ t.key \in Traffic \ reserved
  /\ reserved' = reserved \union {t.key}

\* One pass of _maintenance up to its database call.  Traffic is flushed only
\* when nothing is retained and the ingress has room.
Maintain ==
  /\ mpc = "sleep"
  /\ mpc' = "stats"
  /\ \/ /\ Admit
        /\ UNCHANGED <<reserved, accepted>>
     \/ /\ Admitted = Len(retained) /\ Len(pending) + Admitted < Capacity
        /\ \E t \in Jobs :
             /\ FlushFlow(t)
             /\ pending' = pending \o Append(retained, t)
             /\ accepted' = Accepting(t)
        /\ retained' = <<>>
  /\ UNCHANGED <<table, settled, writer, cpc, cancelled, isolated>>

\* Its call returned, and a cancellation takes effect ...
MaintainReturns ==
  /\ mpc = "stats"
  /\ mpc' = IF "maintenance" \in cancelled THEN "stopped" ELSE "sleep"
  /\ cancelled' = cancelled \ {"maintenance"}
  /\ UNCHANGED <<table, settled, memory, writer, cpc>>

\* ... or it raised: the exception takes the place of the cancellation, and
\* the loop catches it and goes on.
MaintainRaises ==
  /\ mpc = "stats"
  /\ mpc' = "sleep"
  /\ cancelled' = cancelled \ {"maintenance"}
  /\ UNCHANGED <<table, settled, memory, writer, cpc>>

\* close: flush the traffic, which raises if there is no room at all, and
\* cancel the tasks; the writer goes on.
Close ==
  /\ cpc = "open"
  /\ \/ /\ UNCHANGED <<pending, retained, reserved, accepted>>
        /\ cpc' = "gather"
     \/ \E t \in Jobs :
          /\ FlushFlow(t)
          /\ \/ HandOver(t) /\ cpc' = "gather"
             \/ Refuses(t) /\ cpc' = "aborted" /\ UNCHANGED <<pending, retained, accepted>>
  /\ \/ cpc' = "aborted" /\ UNCHANGED <<mpc, cancelled>>
     \/ /\ cpc' = "gather" /\ mpc = "stats"
        /\ cancelled' = cancelled \union {"maintenance"} /\ UNCHANGED mpc
     \/ /\ cpc' = "gather" /\ mpc # "stats"
        /\ mpc' = "stopped" /\ UNCHANGED cancelled
  /\ UNCHANGED <<table, settled, writer, isolated>>

\* gather returns when the cancelled tasks have ended.
Gathered ==
  /\ cpc = "gather" /\ mpc = "stopped"
  /\ cpc' = "drain"
  /\ UNCHANGED <<table, settled, memory, writer, mpc, cancelled>>

\* The drain loop readmits retained jobs while the writer works ...
Drain ==
  /\ cpc = "drain" /\ retained # <<>> /\ Admitted > 0
  /\ Admit
  /\ UNCHANGED <<table, settled, reserved, accepted, isolated, writer, mpc, cpc, cancelled>>

\* ... until nothing is left or its ten seconds are over; CriticalIngress.close
\* then refuses further jobs and cancels the writer.
CloseIngress ==
  /\ cpc = "drain"
  /\ cpc' = "ingress"
  /\ \/ wpc = "idle" /\ wpc' = "stopped" /\ UNCHANGED cancelled
     \/ wpc # "idle" /\ cancelled' = cancelled \union {"writer"} /\ UNCHANGED wpc
  /\ UNCHANGED <<table, settled, memory, todo, outcome, mpc>>

\* What is left is reported; the process ends.
Down ==
  /\ cpc = "ingress" /\ wpc = "stopped"
  /\ cpc' = "down"
  /\ UNCHANGED <<table, settled, memory, writer, mpc, cancelled>>

\* The process is killed, or started again after its shutdown: only the table
\* survives, and the keys of its alerts are reserved again.
Restart ==
  /\ pending' = <<>> /\ retained' = <<>> /\ accepted' = <<>> /\ isolated' = {}
  /\ reserved' = (reserved \ Alert) \union {k \in Alert : table[k] # NoWork}
  /\ wpc' = "idle" /\ todo' = <<>> /\ outcome' = "ok"
  /\ mpc' = "sleep" /\ cpc' = "open" /\ cancelled' = {}
  /\ UNCHANGED <<table, settled>>

Next ==
  \/ \E j \in Jobs : Submit(j)
  \/ \E k \in Key : CompleteRow(k)
  \/ Flush \/ ResumeMany \/ ResumeEach
  \/ \E result \in {"ok", "conflict", "error"} : Thread(result)
  \/ Maintain \/ MaintainReturns \/ MaintainRaises
  \/ Close \/ Gathered \/ Drain \/ CloseIngress \/ Down
  \/ Restart

Spec == Init /\ [][Next]_vars

\* Threads return, ready tasks run, and the drain ends after ten seconds.
\* Nobody has to submit, to close or to restart.
FairSpec ==
  /\ Spec
  /\ WF_vars(Writer)
  /\ WF_vars(\E result \in {"ok", "conflict", "error"} : Thread(result))
  /\ WF_vars(Maintain) /\ WF_vars(MaintainReturns \/ MaintainRaises)
  /\ WF_vars(Gathered) /\ WF_vars(Drain) /\ WF_vars(CloseIngress) /\ WF_vars(Down)

-----------------------------------------------------------------------------
(* Properties *)

\* Nothing that was accepted gets lost while the process lives: it is still in
\* memory, or durable, or was set aside because its key belongs to a row that
\* says something else (CriticalIngress.flush_one and _flush_individually,
\* AsyncPipeline.submit and _admit_retained).
NothingLost ==
  \A j \in Elements(accepted) :
    \/ j \in Elements(pending) \union Elements(retained)
    \/ Durable(j)
    \/ j \in isolated /\ Conflicting(j)

\* No key is queued twice, not even once in the ingress and once retained:
\* readmitting the retained job would raise and stop the jobs behind it, and
\* retaining it again would overwrite it.
KeysOnce ==
  /\ \A s \in {pending, retained} : \A m, n \in DOMAIN s :
       s[m].key = s[n].key => m = n
  /\ KeysOf(pending) \intersect KeysOf(retained) = {}

\* Whatever happens while a call runs in its thread, the jobs that the writer
\* still has to handle are pending when it comes back, those of a batch at the
\* head of the queue: flush_one pops them without looking.
CallsArePending ==
  /\ wpc = "many" => IsPrefix(todo, pending)
  /\ wpc = "each" => Elements(todo) \subseteq Elements(pending)

\* The types, and what the writer's task and its thread rely on of each other.
Consistent == TypeOK /\ CallsArePending

\* docs/ASYNC_PIPELINE_IMPLEMENTATION.md: what a shutdown reports as left covers
\* everything that was accepted and is not durable.
ShutdownReports ==
  cpc = "down" =>
    Cardinality({j \in Elements(accepted) : ~Durable(j) /\ j \notin isolated})
      <= Len(pending) + Len(retained)

\* Nothing is lost in silence, neither by the running process nor by its end.
Accounted == NothingLost /\ ShutdownReports

\* A call fails although its jobs are all right.
Trouble == /\ outcome = "running" /\ outcome' = "error"
           /\ Calling \intersect Poison = {}

\* Once the database works again, a job that can be written is written, however
\* many others in the queue cannot (fewer than fill it): they are moved behind
\* it and do not block the head of the queue.
HealthyPersist ==
  <>[][~Trouble]_vars =>
    \A j \in Jobs \ Poison :
      j \in Elements(accepted) ~> Durable(j) \/ j \in isolated \/ cpc # "open"
                                  \/ j \notin Elements(accepted)

\* background.py: "Bounded FIFO": jobs become durable in the order in which
\* they were accepted.
FIFO ==
  \A m, n \in DOMAIN accepted :
    m < n /\ Durable(accepted[n]) =>
      Durable(accepted[m]) \/ accepted[m] \in isolated

\* async_pipeline.py: "Drain accepted work before normal shutdown": once the
\* shutdown has cancelled the tasks it comes to the drain and to its end.
ShutdownEnds == cpc = "gather" ~> cpc # "gather"
=============================================================================
