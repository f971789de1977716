---------------------------- MODULE TrafficWrites ----------------------------
(***************************************************************************)
(* People flow from a camera's detections to the table traffic_aggregates: *)
(* DeferredRepository.upsert_traffic collects per camera and minute,       *)
(* AsyncPipeline._flush_flow cuts what was collected into jobs, and        *)
(* _write_transaction adds each job to the table (async_pipeline.py).      *)
(*                                                                         *)
(* Between the two a job travels through CriticalIngress and TaskStore.    *)
(* Here they are what they promise: the Outbox, entered and applied first  *)
(* come first served, except for jobs whose insertion or application       *)
(* failed: the younger ones pass them.                                     *)
(***************************************************************************)
EXTENDS Integers, FiniteSets, Sequences, Functions

CONSTANTS
  Camera,
  Minute,       \* the minutes of the run; a slot is a camera and a minute
  Flush,        \* keys of the flush jobs (uuid4)
  FlushLimit,   \* slots per job (100)
  Visitors,     \* how many new visitors a detection may see
  MaxSeen       \* bound: detections per slot

ASSUME TrafficAssumption ==
  /\ FlushLimit \in Nat \ {0}
  /\ MaxSeen \in Nat
  /\ Visitors \subseteq Nat
  /\ IsFiniteSet(Flush)

VARIABLES
  cameras,      \* the cameras that have not been deleted
  flow,         \* flow_pending, in insertion order
  memory,       \* flush jobs that are not durable yet, oldest first
  rows,         \* the payload of each flush job
  phase, applied,   \* the outbox
  queue,        \* its jobs in created_at order
  delayed,      \* jobs that wait for a retry or for the end of a lost lease
  aggregate,    \* traffic_aggregates, by slot
  seen,         \* history: detections per slot
  counted,      \* history: visitors counted per slot
  lost,         \* history: visitors counted in a process that was killed
  troubled      \* history: something failed or the process was killed

outbox == <<phase, applied, queue, delayed>>
vars   == <<cameras, flow, memory, rows, phase, applied, queue, delayed,
            aggregate, seen, counted, lost, troubled>>

Slot == Camera \X Minute

\* A detection's current_count is represented by its number.
Entry == [slot : Slot, current : 0..MaxSeen, entered : Nat]

Outbox == INSTANCE Outbox WITH Key <- Flush

TypeOK ==
  /\ cameras \subseteq Camera
  /\ flow \in Seq(Entry)
  /\ memory \in Seq(Flush)
  /\ rows \in [Flush -> Seq(Entry)]
  /\ Outbox!TypeOK
  /\ queue \in Seq(Flush)
  /\ delayed \subseteq Flush
  /\ aggregate \in [Slot -> [current : 0..MaxSeen, entered : Nat]]
  /\ seen \in [Slot -> 0..MaxSeen]
  /\ counted \in [Slot -> Nat]
  /\ lost \in [Slot -> Nat]
  /\ troubled \in BOOLEAN

-----------------------------------------------------------------------------

\* What the entries of s say was entered in slot p, which occurs at most once.
Entered(s, p) ==
  LET I == {i \in DOMAIN s : s[i].slot = p} IN
    IF I = {} THEN 0 ELSE s[CHOOSE i \in I : TRUE].entered

Elements(s) == {s[i] : i \in DOMAIN s}

EnteredIn(J, p) == SumFunctionOnSet([j \in Flush |-> Entered(rows[j], p)], J)

Init ==
  /\ cameras = Camera
  /\ flow = <<>>
  /\ memory = <<>>
  /\ rows = [j \in Flush |-> <<>>]
  /\ Outbox!Init
  /\ queue = <<>> /\ delayed = {}
  /\ aggregate = [p \in Slot |-> [current |-> 0, entered |-> 0]]
  /\ seen = [p \in Slot |-> 0]
  /\ counted = [p \in Slot |-> 0]
  /\ lost = [p \in Slot |-> 0]
  /\ troubled = FALSE

\* Mutant: every detection gets an entry of its own.
CollectAppending(p, current, n) ==
  Append(flow, [slot |-> p, current |-> current, entered |-> n])

\* The current count is replaced, visitors are added.
Collect(p, current, n) ==
  IF \E i \in DOMAIN flow : flow[i].slot = p
  THEN [i \in DOMAIN flow |->
          IF flow[i].slot = p
          THEN [slot |-> p, current |-> current, entered |-> flow[i].entered + n]
          ELSE flow[i]]
  ELSE Append(flow, [slot |-> p, current |-> current, entered |-> n])

\* upsert_traffic: a detection saw n new visitors.
UpsertTraffic(p, n) ==
  /\ p[1] \in cameras /\ seen[p] < MaxSeen
  /\ \A q \in Slot : q[2] > p[2] => seen[q] = 0        \* minutes pass in order
  /\ seen' = [seen EXCEPT ![p] = @ + 1]
  /\ counted' = [counted EXCEPT ![p] = @ + n]
  /\ flow' = Collect(p, seen[p] + 1, n)
  /\ UNCHANGED <<cameras, memory, rows, outbox, aggregate, lost, troubled>>

\* Mutant: all slots leave flow_pending, not only those in the job.
FlushFlowAll(j) ==
  /\ phase[j] = "absent" /\ rows[j] = <<>> /\ flow # <<>>
  /\ rows' = [rows EXCEPT ![j] =
       SubSeq(flow, 1, IF Len(flow) < FlushLimit THEN Len(flow) ELSE FlushLimit)]
  /\ memory' = Append(memory, j)
  /\ flow' = <<>>
  /\ UNCHANGED <<cameras, outbox, aggregate, seen, counted, lost, troubled>>

\* _flush_flow, when the submission is accepted; if it raises, all stays put.
FlushFlow(j) ==
  /\ phase[j] = "absent" /\ rows[j] = <<>> /\ flow # <<>>
  /\ LET n == IF Len(flow) < FlushLimit THEN Len(flow) ELSE FlushLimit IN
       /\ rows' = [rows EXCEPT ![j] = SubSeq(flow, 1, n)]
       /\ flow' = SubSeq(flow, n + 1, Len(flow))
  /\ memory' = Append(memory, j)
  /\ UNCHANGED <<cameras, outbox, aggregate, seen, counted, lost, troubled>>

\* The oldest job becomes durable.  The queue may not learn of it: then it is
\* persisted once more later, which changes nothing (CriticalIngress).
Persist(j) ==
  /\ memory # <<>> /\ j = Head(memory)
  /\ Outbox!Accept(j)
  /\ queue' = Append(queue, j)
  /\ memory' = Tail(memory)
  /\ UNCHANGED <<cameras, flow, rows, delayed, aggregate, seen, counted, lost, troubled>>

\* Its insertion fails, and the ingress moves it behind the others.
Postpone ==
  /\ Len(memory) > 1
  /\ memory' = Append(Tail(memory), Head(memory))
  /\ troubled' = TRUE
  /\ UNCHANGED <<cameras, flow, rows, outbox, aggregate, seen, counted, lost>>

\* Mutant: the writer takes any job.
IsNextAny(j) == phase[j] = "open" /\ j \notin delayed

\* The single writer takes the oldest job that is not waiting.
IsNext(j) ==
  \E i \in DOMAIN queue :
    /\ queue[i] = j /\ phase[j] = "open" /\ j \notin delayed
    /\ \A h \in 1..(i - 1) : phase[queue[h]] # "open" \/ queue[h] \in delayed

\* The handler of traffic_write, in the transaction that completes the job: for
\* every entry the current count is replaced and the visitors are added.
Apply(j) ==
  /\ IsNext(j)
  /\ Outbox!Apply({j})
  /\ aggregate' = [p \in Slot |->
       LET I == {i \in DOMAIN rows[j] : rows[j][i].slot = p /\ p[1] \in cameras} IN
         IF I = {} THEN aggregate[p]
         ELSE LET e == rows[j][CHOOSE i \in I : TRUE] IN
                [current |-> e.current, entered |-> aggregate[p].entered + e.entered]]
  /\ UNCHANGED <<cameras, flow, memory, rows, queue, delayed, seen, counted, lost, troubled>>

\* The handler raises: the job waits for its retry, or is given up ...
Fail(j) ==
  /\ IsNext(j)
  /\ \/ delayed' = delayed \union {j} /\ UNCHANGED <<phase, applied>>
     \/ Outbox!GiveUp(j) /\ UNCHANGED delayed
  /\ troubled' = TRUE
  /\ UNCHANGED <<cameras, flow, memory, rows, queue, aggregate, seen, counted, lost>>

\* ... until its backoff or its lost lease is over,
Return(j) ==
  /\ j \in delayed
  /\ delayed' = delayed \ {j}
  /\ UNCHANGED <<cameras, flow, memory, rows, phase, applied, queue, aggregate,
                 seen, counted, lost, troubled>>

\* or until an administrator retries it.
Reopen(j) ==
  /\ Outbox!Reopen(j)
  /\ UNCHANGED <<cameras, flow, memory, rows, queue, delayed, aggregate, seen,
                 counted, lost, troubled>>

\* A deleted camera takes its aggregates with it (ON DELETE CASCADE).
DeleteCamera(c) ==
  /\ c \in cameras
  /\ cameras' = cameras \ {c}
  /\ aggregate' = [p \in Slot |-> IF p[1] = c THEN [current |-> 0, entered |-> 0]
                                              ELSE aggregate[p]]
  /\ UNCHANGED <<flow, memory, rows, outbox, seen, counted, lost, troubled>>

\* The process is killed: what is not durable is lost, and the jobs it had
\* claimed wait until their leases run out.
Crash ==
  /\ flow' = <<>> /\ memory' = <<>>
  /\ lost' = [p \in Slot |->
       lost[p] + Entered(flow, p) + EnteredIn(Elements(memory), p)]
  /\ \E J \in SUBSET {j \in Flush : phase[j] = "open"} : delayed' = delayed \union J
  /\ troubled' = TRUE
  /\ UNCHANGED <<cameras, rows, phase, applied, queue, aggregate, seen, counted>>

Next ==
  \/ \E p \in Slot, n \in Visitors : UpsertTraffic(p, n)
  \/ \E j \in Flush : FlushFlow(j) \/ Persist(j) \/ Apply(j)
                    \/ Fail(j) \/ Return(j) \/ Reopen(j)
  \/ Postpone
  \/ \E c \in Camera : DeleteCamera(c)
  \/ Crash

Spec == Init /\ [][Next]_vars

-----------------------------------------------------------------------------
(* Properties *)

\* Every visitor is counted exactly once: the table, the jobs that are still to
\* be applied and what was collected but not flushed add up to what the
\* detections counted, whatever was retried, reordered or given up; only a
\* killed process takes the visitors with it that it had in memory.
EveryVisitorOnce ==
  \A p \in Slot : p[1] \in cameras =>
    counted[p] = aggregate[p].entered + Entered(flow, p)
                 + EnteredIn(Elements(memory) \union {j \in Flush : phase[j] \in {"open", "dead"}}, p)
                 + lost[p]

\* What one flush carries never splits or repeats a slot.
SlotsOnce ==
  \A s \in {flow} \union {rows[j] : j \in Flush} : \A m, n \in DOMAIN s :
    s[m].slot = s[n].slot => m = n

\* The types, and the slots of each job.
Consistent == TypeOK /\ SlotsOnce

\* The current count of a slot that a step writes is not older than the one it
\* replaces.
Forward == \A p \in Slot : p[1] \in cameras' => aggregate'[p].current >= aggregate[p].current

\* As long as nothing has failed, the counts are written in the order in which
\* the detections were made.
CurrentInOrderUntroubled == [][troubled \/ Forward]_vars

\* async_pipeline.py: "A single transaction writer preserves traffic
\* bucket/current ordering", also when jobs are retried.
CurrentInOrder == [][Forward]_vars
=============================================================================
