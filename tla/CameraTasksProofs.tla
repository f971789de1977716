-------------------------- MODULE CameraTasksProofs --------------------------
(***************************************************************************)
(* Proofs about CameraTasks, for any number of cameras and workers, any    *)
(* queue length, and every combination of restarts, outages, expired locks *)
(* and deleted cameras.                                                    *)
(***************************************************************************)
EXTENDS CameraTasks, SequenceTheorems, FunctionTheorems, FiniteSetTheorems, TLAPS

-----------------------------------------------------------------------------
(* The inductive invariant *)

\* A worker that has a task
Busy == [pc : {"got", "acquire", "wait", "analyse", "release", "delete", "ack"},
         task : Entry, seq : 0..MaxFrame]

Schedule == {Looking, [at |-> "dead"]}
              \cup [at : {"asking", "adding", "noting"}, kind : Kind, cam : Camera]

CameraTypes ==
  /\ streaming \subseteq listed /\ listed \subseteq Camera
  /\ frame \in [Camera -> 0..MaxFrame]
  /\ due \in [Kind -> [Camera -> BOOLEAN]]
  /\ last \in [Kind -> [Camera -> 0..MaxFrame]]
  /\ seen \in [Kind -> [Camera -> 0..MaxFrame]]

QueueTypes ==
  /\ queued \in [Kind -> SUBSET Camera]
  /\ backlog \in [Kind -> Seq(Entry)]
  /\ pending \in [Kind -> SUBSET Entry]
  /\ recovered \in [Kind -> Seq(Entry)]

RunTypes ==
  /\ sched \in Schedule
  /\ work \in [Worker -> {Idle, [pc |-> "dead"]} \cup Busy]
  /\ lock \in [Camera -> Worker \cup {Free, Manual}]
  /\ redisLock \in [Camera -> Kind \cup {Free, Dead}]

Types == CameraTypes /\ QueueTypes /\ RunTypes

\* A queue is within its bounds, and the id of a task names one task wherever it
\* is: in the stream, read, recovered or with a worker.
Bounded(k) ==
  /\ IsFiniteSet(pending[k]) /\ Depth(k) <= QueueMax
  /\ Len(recovered[k]) <= QueueMax

IdsOnce(k) == \A e, f \in Existing(k) : e.id = f.id => e = f

Queues == \A k \in Kind : Bounded(k) /\ IdsOnce(k)

\* What depths() answered still holds when the entry is appended.
Room == sched.at = "adding" => Depth(sched.kind) < QueueMax

\* Who analyses a camera holds its lock and looks at a frame that is new.  The
\* newest frame is new as well, or the camera was removed under the analysis:
\* detect_latest may still read it.
Sound(w) ==
  LET k == KindOf(w)  c == work[w].task.cam IN
    /\ lock[c] = w
    /\ work[w].seq > seen[k][c]
    /\ seen[k][c] = 0 \/ seen[k][c] < frame[c]

InFlight == \A w \in Worker : At(w, "analyse") => Sound(w)

\* The scheduler compares with a number that is not behind what was analysed.
Compared == \A k \in Kind, c \in Camera : seen[k][c] <= last[k][c]

\* Without Redis a mark stands for a task in the queue, or for a worker's that
\* is not at its end yet.
Waits(k, c) ==
  \/ \E e \in ToSet(backlog[k]) : e.cam = c
  \/ \E w \in Worker : /\ Holds(w) /\ KindOf(w) = k
                       /\ work[w].pc # "ack" /\ work[w].task.cam = c

InMemory ==
  /\ sched = Looking /\ ~outage
  /\ \A k \in Kind : pending[k] = {} /\ recovered[k] = <<>>
  /\ \A k \in Kind : \A c \in queued[k] : Waits(k, c)

IInv ==
  Types /\ Queues /\ Room /\ InFlight /\ Compared /\ (~UsesRedis => InMemory)

-----------------------------------------------------------------------------
(* Lemmas about sequences and the functions of lines and cameras *)

LEMMA QueueSet ==
  ASSUME NEW S, NEW s \in Seq(S)
  PROVE  /\ Len(s) \in Nat /\ ToSet(s) \subseteq S
         /\ IsFiniteSet(ToSet(s)) /\ Cardinality(ToSet(s)) <= Len(s)
<1>1. Len(s) \in Nat /\ DOMAIN s = 1..Len(s) /\ s \in [1..Len(s) -> S]
  BY LenProperties
<1>2. s \in [1..Len(s) -> ToSet(s)]
  BY <1>1 DEF ToSet
<1>3. \A e \in ToSet(s) : \E i \in 1..Len(s) : s[i] = e
  BY <1>1 DEF ToSet
<1>4. s \in Surjection(1..Len(s), ToSet(s))
  BY <1>2, <1>3, Fun_IsSurj
<1>5. IsFiniteSet(1..Len(s)) /\ Cardinality(1..Len(s)) = Len(s)
  <2>1. 1 \in Int /\ Len(s) \in Int
    BY <1>1
  <2>2. /\ IsFiniteSet(1..Len(s))
        /\ Cardinality(1..Len(s)) = IF 1 > Len(s) THEN 0 ELSE Len(s) - 1 + 1
    BY <2>1, FS_Interval
  <2>3. QED
    BY <1>1, <2>2
<1>6. ToSet(s) \subseteq S
  BY <1>1 DEF ToSet
<1>7. QED
  BY <1>1, <1>4, <1>5, <1>6, FS_Surjection

LEMMA EmptyQueue ==
  ASSUME NEW S
  PROVE  <<>> \in Seq(S) /\ ToSet(<<>>) = {} /\ Len(<<>>) = 0
  BY EmptySeq DEF ToSet

LEMMA AppendQueue ==
  ASSUME NEW S, NEW s \in Seq(S), NEW x \in S
  PROVE  /\ Append(s, x) \in Seq(S) /\ Len(Append(s, x)) = Len(s) + 1
         /\ ToSet(Append(s, x)) = ToSet(s) \cup {x}
<1> DEFINE t == Append(s, x)
<1>1. /\ t \in Seq(S) /\ Len(t) = Len(s) + 1
      /\ (\A i \in 1..Len(s) : t[i] = s[i]) /\ t[Len(s) + 1] = x
  BY AppendProperties
<1>2. Len(s) \in Nat /\ DOMAIN s = 1..Len(s) /\ DOMAIN t = 1..(Len(s) + 1)
  BY <1>1, LenProperties
<1> HIDE DEF t
<1>3. /\ \A i \in DOMAIN s : i \in DOMAIN t /\ t[i] = s[i]
      /\ Len(s) + 1 \in DOMAIN t
      /\ \A i \in DOMAIN t : i \in DOMAIN s \/ i = Len(s) + 1
  BY <1>1, <1>2
<1>4. ToSet(t) = ToSet(s) \cup {x}
  BY <1>1, <1>3 DEF ToSet
<1>5. QED
  BY <1>1, <1>4 DEF t

LEMMA TailQueue ==
  ASSUME NEW S, NEW s \in Seq(S), s # <<>>
  PROVE  /\ Tail(s) \in Seq(S) /\ Len(Tail(s)) = Len(s) - 1
         /\ Head(s) \in S /\ ToSet(s) = ToSet(Tail(s)) \cup {Head(s)}
<1> DEFINE t == Tail(s)
<1>1. /\ Head(s) \in S /\ t \in Seq(S) /\ Len(t) = Len(s) - 1
      /\ \A i \in 1..Len(t) : t[i] = s[i + 1]
  BY HeadTailProperties
<1>2. Len(s) \in Nat \ {0}
  BY EmptySeq
<1>3. Head(s) = s[1]
  BY <1>2
<1>4. DOMAIN s = 1..Len(s) /\ DOMAIN t = 1..(Len(s) - 1)
  BY <1>1, LenProperties
<1> DEFINE h == Head(s)
<1> HIDE DEF t, h
<1>5. /\ 1 \in DOMAIN s
      /\ \A i \in DOMAIN t : i + 1 \in DOMAIN s /\ t[i] = s[i + 1]
      /\ \A i \in DOMAIN s : i = 1 \/ (i - 1 \in DOMAIN t /\ t[i - 1] = s[i])
  BY <1>1, <1>2, <1>4
<1>6. ToSet(s) = ToSet(t) \cup {h}
  BY <1>3, <1>5 DEF ToSet, h
<1>7. QED
  BY <1>1, <1>6 DEF t, h

LEMMA SetOne ==
  ASSUME NEW A, NEW B, NEW T, NEW f \in [A -> [B -> T]],
         NEW k \in A, NEW c \in B, NEW v \in T
  PROVE  /\ Set1(f, k, c, v) \in [A -> [B -> T]]
         /\ Set1(f, k, c, v)[k][c] = v
         /\ \A j \in A, d \in B : j # k \/ d # c => Set1(f, k, c, v)[j][d] = f[j][d]
<1>1. f[k] \in [B -> T]
  OBVIOUS
<1> DEFINE g == [f[k] EXCEPT ![c] = v]
<1>2. /\ g \in [B -> T] /\ g[c] = v
      /\ \A d \in B : d # c => g[d] = f[k][d]
  BY <1>1
<1>3. Set1(f, k, c, v) = [f EXCEPT ![k] = g]
  BY DEF Set1
<1> HIDE DEF g
<1>4. QED
  BY <1>2, <1>3

LEMMA SetAt ==
  ASSUME NEW f, DOMAIN f = Kind, \A j \in Kind : DOMAIN f[j] = Camera,
         NEW k \in Kind, NEW c \in Camera, NEW v
  PROVE  /\ Set1(f, k, c, v)[k][c] = v
         /\ \A j \in Kind, d \in Camera :
              j # k \/ d # c => Set1(f, k, c, v)[j][d] = f[j][d]
  BY DEF Set1

-----------------------------------------------------------------------------
(* Lemmas about the workers and the ids of tasks *)

\* Where a worker is that has a task
Point == {"got", "acquire", "wait", "analyse", "release", "delete", "ack"}

LEMMA KindType == \A w \in Worker : KindOf(w) \in Kind
  BY DEF Kind

LEMMA HolderBusy ==
  ASSUME RunTypes, NEW w \in Worker, Holds(w)
  PROVE  /\ work[w] \in Busy /\ work[w].pc \in Point
         /\ work[w].task \in Entry /\ work[w].task.cam \in Camera
         /\ work[w].seq \in 0..MaxFrame
         /\ KindOf(w) \in Kind
<1>1. work[w] \in {Idle, [pc |-> "dead"]} \cup Busy
  BY DEF RunTypes
<1>2. work[w] \in Busy
  BY <1>1 DEF Holds, Idle
<1>3. work[w].task \in Entry /\ work[w].seq \in 0..MaxFrame /\ work[w].pc \in Point
  BY <1>2 DEF Busy, Point
<1>4. work[w].task.cam \in Camera
  BY <1>3 DEF Entry
<1>5. QED
  BY <1>2, <1>3, <1>4, KindType

LEMMA WorkerMoves ==
  ASSUME RunTypes, NEW w \in Worker, Holds(w), NEW p \in Point, Go(w, p)
  PROVE  /\ work' \in [Worker -> {Idle, [pc |-> "dead"]} \cup Busy]
         /\ work'[w].pc = p /\ work'[w].task = work[w].task
         /\ work'[w].seq = work[w].seq
         /\ \A v \in Worker \ {w} : work'[v] = work[v]
<1>1. work[w] \in Busy /\ work \in [Worker -> {Idle, [pc |-> "dead"]} \cup Busy]
  BY HolderBusy DEF RunTypes
<1> DEFINE r == [work[w] EXCEPT !.pc = p]
<1>2. r \in Busy /\ r.pc = p /\ r.task = work[w].task /\ r.seq = work[w].seq
  BY <1>1 DEF Busy, Point
<1>3. work' = [work EXCEPT ![w] = r]
  BY DEF Go
<1> HIDE DEF r
<1>4. QED
  BY <1>1, <1>2, <1>3

\* The worker w gets another record.
LEMMA WorkerBecomes ==
  ASSUME RunTypes, NEW w \in Worker,
         NEW r \in {Idle, [pc |-> "dead"]} \cup Busy, work' = [work EXCEPT ![w] = r]
  PROVE  /\ work' \in [Worker -> {Idle, [pc |-> "dead"]} \cup Busy]
         /\ work'[w] = r
         /\ \A v \in Worker \ {w} : work'[v] = work[v]
  BY DEF RunTypes

LEMMA HandsFinite ==
  ASSUME CameraTasksAssumption, RunTypes, NEW k \in Kind
  PROVE  /\ IsFiniteSet(InHands(k)) /\ Cardinality(InHands(k)) <= Cardinality(Worker)
         /\ InHands(k) \subseteq Entry
<1> DEFINE V == {v \in Worker : Holds(v) /\ KindOf(v) = k}
           f == [v \in V |-> work[v].task]
<1>1. IsFiniteSet(Worker)
  BY DEF CameraTasksAssumption, Worker
<1>2. IsFiniteSet(V) /\ Cardinality(V) <= Cardinality(Worker)
  <2>1. V \in SUBSET Worker
    OBVIOUS
  <2> HIDE DEF V
  <2>2. QED
    BY <1>1, <2>1, FS_Subset
<1>3. InHands(k) = {work[v].task : v \in V}
  BY DEF InHands
<1>4. f \in Surjection(V, InHands(k))
  <2> HIDE DEF V
  <2>1. f \in [V -> InHands(k)]
    BY <1>3
  <2>2. \A t \in InHands(k) : \E v \in V : f[v] = t
    BY <1>3
  <2>3. QED
    BY <2>1, <2>2, Fun_IsSurj
<1>5. IsFiniteSet(InHands(k)) /\ Cardinality(InHands(k)) <= Cardinality(V)
  <2> HIDE DEF V, f
  <2>1. QED
    BY <1>2, <1>4, FS_Surjection
<1>6. InHands(k) \subseteq Entry
  <2>1. \A v \in V : work[v].task \in Entry
    BY HolderBusy
  <2>2. QED
    BY <1>3, <2>1
<1>7. /\ Cardinality(InHands(k)) \in Nat /\ Cardinality(V) \in Nat
      /\ Cardinality(Worker) \in Nat
  BY <1>1, <1>2, <1>5, FS_CardinalityType
<1>8. QED
  BY <1>2, <1>5, <1>6, <1>7

LEMMA SmallUnion ==
  ASSUME NEW A, NEW B, NEW m \in Nat, NEW n \in Nat,
         IsFiniteSet(A), Cardinality(A) <= m, IsFiniteSet(B), Cardinality(B) <= n
  PROVE  IsFiniteSet(A \cup B) /\ Cardinality(A \cup B) <= m + n
<1>1. /\ IsFiniteSet(A \cup B)
      /\ Cardinality(A \cup B) = Cardinality(A) + Cardinality(B) - Cardinality(A \cap B)
  BY FS_Union
<1>2. IsFiniteSet(A \cap B)
  BY FS_Intersection
<1>3. /\ Cardinality(A) \in Nat /\ Cardinality(B) \in Nat
      /\ Cardinality(A \cap B) \in Nat
  BY <1>2, FS_CardinalityType
<1>4. QED
  BY <1>1, <1>3

\* The tasks that exist are entries, and fewer than QueueMax are in the stream.
LEMMA TasksFinite ==
  ASSUME CameraTasksAssumption, QueueTypes, RunTypes, NEW k \in Kind, Bounded(k)
  PROVE  /\ Existing(k) \subseteq Entry /\ IsFiniteSet(Existing(k))
         /\ Depth(k) < QueueMax =>
              Cardinality(Existing(k)) < 2 * QueueMax + Cardinality(Worker)
<1>1. /\ backlog[k] \in Seq(Entry) /\ recovered[k] \in Seq(Entry)
      /\ pending[k] \subseteq Entry
  BY DEF QueueTypes
<1>2. /\ Len(backlog[k]) \in Nat /\ ToSet(backlog[k]) \subseteq Entry
      /\ IsFiniteSet(ToSet(backlog[k]))
      /\ Cardinality(ToSet(backlog[k])) <= Len(backlog[k])
  BY <1>1, QueueSet
<1>3. /\ Len(recovered[k]) \in Nat /\ ToSet(recovered[k]) \subseteq Entry
      /\ IsFiniteSet(ToSet(recovered[k]))
      /\ Cardinality(ToSet(recovered[k])) <= Len(recovered[k])
  BY <1>1, QueueSet
<1>4. IsFiniteSet(pending[k]) /\ Cardinality(pending[k]) \in Nat
  BY FS_CardinalityType DEF Bounded
<1>5. /\ IsFiniteSet(InHands(k)) /\ Cardinality(InHands(k)) <= Cardinality(Worker)
      /\ InHands(k) \subseteq Entry
  BY HandsFinite
<1>6. Cardinality(Worker) \in Nat
  BY FS_CardinalityType DEF CameraTasksAssumption, Worker
<1> DEFINE A == ToSet(backlog[k]) \cup pending[k]
           B == A \cup ToSet(recovered[k])
           l == Len(backlog[k])   m == Cardinality(pending[k])
           n == Len(recovered[k])   h == Cardinality(Worker)
<1>7. IsFiniteSet(A) /\ Cardinality(A) <= l + m
  <2>1. Cardinality(pending[k]) <= m
    BY <1>4
  <2>2. QED
    BY <1>2, <1>4, <2>1, SmallUnion
<1>8. IsFiniteSet(B) /\ Cardinality(B) <= l + m + n
  <2>1. l + m \in Nat
    BY <1>2, <1>4
  <2> HIDE DEF A
  <2>2. QED
    BY <1>3, <1>7, <2>1, SmallUnion
<1>9. IsFiniteSet(B \cup InHands(k)) /\ Cardinality(B \cup InHands(k)) <= l + m + n + h
  <2>1. l + m + n \in Nat
    BY <1>2, <1>3, <1>4
  <2> HIDE DEF B
  <2>2. QED
    BY <1>5, <1>6, <1>8, <2>1, SmallUnion
<1>10. Existing(k) = B \cup InHands(k) /\ Existing(k) \subseteq Entry
  BY <1>1, <1>2, <1>3, <1>5 DEF Existing
<1>11. IsFiniteSet(Existing(k)) /\ Cardinality(Existing(k)) <= l + m + n + h
  BY <1>9, <1>10
<1>12. Cardinality(Existing(k)) \in Nat
  BY <1>11, FS_CardinalityType
<1>13. l + m < QueueMax => l + m + n + h < 2 * QueueMax + h
  <2>1. n <= QueueMax /\ QueueMax \in Nat
    BY DEF Bounded, CameraTasksAssumption
  <2> HIDE DEF l, m, n, h
  <2>2. l \in Nat /\ m \in Nat /\ n \in Nat /\ h \in Nat
    BY <1>2, <1>3, <1>4, <1>6 DEF l, m, n, h
  <2>3. QED
    BY <2>1, <2>2
<1>14. QED
  <2>1. l \in Nat /\ m \in Nat /\ n \in Nat /\ h \in Nat /\ QueueMax \in Nat
    BY <1>2, <1>3, <1>4, <1>6 DEF CameraTasksAssumption
  <2>2. Depth(k) = l + m
    BY DEF Depth
  <2> HIDE DEF l, m, n, A, B
  <2>3. Depth(k) < QueueMax => Cardinality(Existing(k)) < 2 * QueueMax + h
    BY <1>11, <1>12, <1>13, <2>1, <2>2
  <2>4. QED
    BY <1>10, <1>11, <2>3

\* There is an id that no task has.
LEMMA FreeId ==
  ASSUME CameraTasksAssumption, QueueTypes, RunTypes, NEW k \in Kind, Bounded(k),
         Depth(k) < QueueMax, NEW c \in Camera
  PROVE  /\ FreshTask(k, c) \in Entry /\ FreshTask(k, c).cam = c
         /\ \A e \in Existing(k) : e.id # FreshTask(k, c).id
<1> DEFINE E == Existing(k)   I == {e.id : e \in E}
           f == [e \in E |-> e.id]
<1>1. IsFiniteSet(E) /\ Cardinality(E) < 2 * QueueMax + Cardinality(Worker)
  BY TasksFinite
<1>2. IsFiniteSet(I) /\ Cardinality(I) <= Cardinality(E)
  <2> HIDE DEF E
  <2>1. f \in [E -> I] /\ \A i \in I : \E e \in E : f[e] = i
    OBVIOUS
  <2> HIDE DEF I, f
  <2>2. f \in Surjection(E, I)
    BY <2>1, Fun_IsSurj
  <2>3. QED
    BY <1>1, <2>2, FS_Surjection
<1>3. PICK i \in TaskId : i \notin I
  <2> SUFFICES ASSUME TaskId \subseteq I PROVE FALSE
    OBVIOUS
  <2>1. IsFiniteSet(TaskId) /\ Cardinality(TaskId) <= Cardinality(I)
    <3> HIDE DEF I
    <3>1. QED
      BY <1>2, FS_Subset
  <2>2. Cardinality(TaskId) >= 2 * QueueMax + Cardinality(Worker)
    BY <2>1 DEF CameraTasksAssumption, Worker
  <2>3. /\ Cardinality(TaskId) \in Nat /\ Cardinality(I) \in Nat
        /\ Cardinality(E) \in Nat
    <3> HIDE DEF I, E
    <3>1. QED
      BY <1>1, <1>2, <2>1, FS_CardinalityType
  <2>4. QueueMax \in Nat /\ Cardinality(Worker) \in Nat
    BY FS_CardinalityType DEF CameraTasksAssumption, Worker
  <2> HIDE DEF I, E
  <2>5. QED
    BY <1>1, <1>2, <2>1, <2>2, <2>3, <2>4
<1> DEFINE j == CHOOSE x \in TaskId : \A e \in Existing(k) : e.id # x
<1>4. j \in TaskId /\ \A e \in Existing(k) : e.id # j
  <2>1. \E x \in TaskId : \A e \in Existing(k) : e.id # x
    BY <1>3
  <2>2. QED
    BY <2>1
<1>5. FreshTask(k, c) = [cam |-> c, id |-> j]
  BY DEF FreshTask
<1> HIDE DEF j
<1>6. QED
  BY <1>4, <1>5 DEF Entry

-----------------------------------------------------------------------------
(* Types *)

LEMMA TypesInit == CameraTasksAssumption /\ Init => Types
<1> SUFFICES ASSUME CameraTasksAssumption, Init PROVE Types
  OBVIOUS
<1>1. CameraTypes
  BY DEF Init, CameraTypes, CameraTasksAssumption
<1>2. QueueTypes
  <2>1. <<>> \in Seq(Entry)
    BY EmptyQueue
  <2>2. QED
    BY <2>1 DEF Init, QueueTypes
<1>3. RunTypes
  BY DEF Init, RunTypes, Schedule
<1>4. QED
  BY <1>1, <1>2, <1>3 DEF Types

\* One more task in the stream
LEMMA AppendTypes ==
  ASSUME CameraTasksAssumption, QueueTypes, RunTypes, NEW k \in Kind, NEW c \in Camera,
         Bounded(k), Depth(k) < QueueMax, Append1(k, c)
  PROVE  backlog' \in [Kind -> Seq(Entry)]
<1>1. FreshTask(k, c) \in Entry
  BY FreeId
<1>2. backlog[k] \in Seq(Entry) /\ backlog \in [Kind -> Seq(Entry)]
  BY DEF QueueTypes
<1>3. Append(backlog[k], FreshTask(k, c)) \in Seq(Entry)
  BY <1>1, <1>2, AppendQueue
<1>4. backlog' = [backlog EXCEPT ![k] = Append(backlog[k], FreshTask(k, c))]
  BY DEF Append1
<1>5. QED
  BY <1>2, <1>3, <1>4

LEMMA ShortInMemory ==
  ASSUME QueueTypes, InMemory, NEW k \in Kind
  PROVE  Depth(k) = Len(backlog[k])
<1>1. pending[k] = {} /\ Cardinality({}) = 0
  BY FS_EmptySet DEF InMemory
<1>2. Len(backlog[k]) \in Nat
  BY QueueSet DEF QueueTypes
<1>3. QED
  BY <1>1, <1>2 DEF Depth

\* Where the scheduler may be
LEMMA SchedulePlaces ==
  ASSUME RunTypes
  PROVE  /\ sched = Looking \/ sched.at # "looking"
         /\ sched.at \in {"asking", "adding", "noting"} => sched.kind \in Kind /\ sched.cam \in Camera
  BY DEF RunTypes, Schedule, Looking

LEMMA SchedulingTypes ==
  ASSUME CameraTasksAssumption, Types, \A k \in Kind : Bounded(k), Room,
         ~UsesRedis => InMemory, Scheduling
  PROVE  Types'
<1> USE DEF Types
<1>1. ASSUME NEW k \in Kind, NEW c \in Camera, StartPeriod(k, c)
      PROVE  due' \in [Kind -> [Camera -> BOOLEAN]]
  <2>1. due \in [Kind -> [Camera -> BOOLEAN]] /\ FALSE \in BOOLEAN
    BY DEF CameraTypes
  <2>2. Set1(due, k, c, FALSE) \in [Kind -> [Camera -> BOOLEAN]]
    BY <2>1, SetOne
  <2>3. QED
    BY <1>1, <2>1, <2>2 DEF StartPeriod
<1>2. ASSUME NEW k \in Kind, NEW c \in Camera
      PROVE  [queued EXCEPT ![k] = @ \cup {c}] \in [Kind -> SUBSET Camera]
  BY DEF QueueTypes
<1>3. ASSUME NEW k \in Kind, NEW c \in Camera
      PROVE  /\ Asking(k, c) \in Schedule /\ Adding(k, c) \in Schedule
             /\ Noting(k, c) \in Schedule /\ Looking \in Schedule
  BY DEF Asking, Adding, Noting, Schedule
<1>4. ASSUME NEW k \in Kind, NEW c \in Camera, LookMemory(k, c) PROVE Types'
  <2>1. CameraTypes'
    <3>1. UNCHANGED <<listed, streaming, frame, last, seen>> /\ StartPeriod(k, c)
      BY <1>4 DEF LookMemory
    <3>2. due' \in [Kind -> [Camera -> BOOLEAN]]
      BY <1>1, <3>1
    <3>3. QED
      BY <3>1, <3>2 DEF CameraTypes
  <2>2. backlog' \in [Kind -> Seq(Entry)] /\ queued' \in [Kind -> SUBSET Camera]
    <3>1. CASE c \notin queued[k] /\ Len(backlog[k]) < QueueMax
      <4>1. Append1(k, c) /\ queued' = [queued EXCEPT ![k] = @ \cup {c}]
        BY <1>4, <3>1 DEF LookMemory
      <4>2. Depth(k) < QueueMax
        BY <1>4, <3>1, ShortInMemory DEF LookMemory
      <4>3. QED
        BY <1>2, <4>1, <4>2, AppendTypes
    <3>2. CASE ~(c \notin queued[k] /\ Len(backlog[k]) < QueueMax)
      BY <1>4, <3>2 DEF LookMemory, QueueTypes
    <3>3. QED
      BY <3>1, <3>2
  <2>3. QueueTypes'
    BY <1>4, <2>2 DEF LookMemory, QueueTypes
  <2>4. RunTypes'
    BY <1>4 DEF LookMemory, RunTypes, lockVars
  <2>5. QED
    BY <2>1, <2>3, <2>4
<1>5. ASSUME NEW k \in Kind, NEW c \in Camera, LookRedis(k, c) PROVE Types'
  <2>1. CameraTypes'
    <3>1. UNCHANGED <<listed, streaming, frame, last, seen>> /\ StartPeriod(k, c)
      BY <1>5 DEF LookRedis
    <3>2. due' \in [Kind -> [Camera -> BOOLEAN]]
      BY <1>1, <3>1
    <3>3. QED
      BY <3>1, <3>2 DEF CameraTypes
  <2>2. QueueTypes'
    BY <1>5 DEF LookRedis, queueVars, QueueTypes
  <2>3. RunTypes'
    BY <1>3, <1>5 DEF LookRedis, RunTypes, lockVars
  <2>4. QED
    BY <2>1, <2>2, <2>3
<1>6. CASE Add
  <2> DEFINE k == sched.kind   c == sched.cam
  <2>1. k \in Kind /\ c \in Camera
    BY <1>6, SchedulePlaces DEF Add
  <2>2. CameraTypes'
    BY <1>6 DEF Add, cameraVars, CameraTypes
  <2>3. backlog' \in [Kind -> Seq(Entry)]
    <3>1. Append1(k, c) /\ Depth(k) < QueueMax
      BY <1>6 DEF Add, Room
    <3>2. QED
      BY <2>1, <3>1, AppendTypes
  <2>4. sched' \in Schedule
    BY <1>3, <1>6, <2>1 DEF Add
  <2>5. QueueTypes' /\ RunTypes'
    BY <1>6, <2>3, <2>4 DEF Add, lockVars, QueueTypes, RunTypes
  <2>6. QED
    BY <2>2, <2>5
<1>7. CASE Note
  <2>1. sched.kind \in Kind /\ sched.cam \in Camera
    BY <1>7, SchedulePlaces DEF Note
  <2>2. queued' \in [Kind -> SUBSET Camera]
    BY <1>2, <1>7, <2>1 DEF Note
  <2>3. CameraTypes' /\ QueueTypes'
    BY <1>7, <2>2 DEF Note, cameraVars, CameraTypes, QueueTypes
  <2>4. RunTypes'
    BY <1>3, <1>7, <2>1 DEF Note, lockVars, RunTypes
  <2>5. QED
    BY <2>3, <2>4
<1>8. CASE Ask
  <2>1. sched.kind \in Kind /\ sched.cam \in Camera
    BY <1>8, SchedulePlaces DEF Ask
  <2>2. CameraTypes' /\ QueueTypes'
    BY <1>8 DEF Ask, cameraVars, queueVars, CameraTypes, QueueTypes
  <2>3. RunTypes'
    BY <1>3, <1>8, <2>1 DEF Ask, lockVars, RunTypes
  <2>4. QED
    BY <2>2, <2>3
<1>9. QED
  BY <1>4, <1>5, <1>6, <1>7, <1>8 DEF Scheduling

\* A step of w that changes only work, queued and the lists of tasks
LEMMA ForgetTypes ==
  ASSUME QueueTypes, NEW k \in Kind, NEW c, Forgotten(k, c) \/ UNCHANGED queued
  PROVE  queued' \in [Kind -> SUBSET Camera]
  BY DEF QueueTypes, Forgotten

LEMMA TakenTypes ==
  ASSUME CameraTasksAssumption, Types, NEW w \in Worker, Take(w)
  PROVE  Types'
<1> DEFINE k == KindOf(w)
<1>1. k \in Kind
  BY KindType
<1>2. /\ backlog \in [Kind -> Seq(Entry)] /\ recovered \in [Kind -> Seq(Entry)]
      /\ pending \in [Kind -> SUBSET Entry] /\ queued \in [Kind -> SUBSET Camera]
  BY DEF Types, QueueTypes
<1>3. ASSUME NEW e \in Entry PROVE Lent(e) \in Busy
  BY <1>3 DEF Lent, Busy, CameraTasksAssumption
<1>4. CameraTypes' /\ queued' = queued /\ UNCHANGED <<sched, lock, redisLock>>
  BY DEF Take, cameraVars, CameraTypes, Types, lockVars
<1>5. ASSUME recovered[k] # <<>>, work' = [work EXCEPT ![w] = Lent(Head(recovered[k]))],
             recovered' = [recovered EXCEPT ![k] = Tail(@)], UNCHANGED <<backlog, pending>>
      PROVE  Types'
  <2>1. recovered[k] \in Seq(Entry)
    BY <1>1, <1>2
  <2>2. Head(recovered[k]) \in Entry /\ Tail(recovered[k]) \in Seq(Entry)
    BY <1>5, <2>1, TailQueue
  <2>3. recovered' \in [Kind -> Seq(Entry)]
    BY <1>2, <1>5, <2>2
  <2>4. work' \in [Worker -> {Idle, [pc |-> "dead"]} \cup Busy]
    BY <1>3, <1>5, <2>2, WorkerBecomes DEF Types
  <2>5. QueueTypes'
    BY <1>2, <1>4, <1>5, <2>3 DEF QueueTypes
  <2>6. RunTypes'
    BY <1>4, <2>4 DEF Types, RunTypes
  <2>7. QED
    BY <1>4, <2>5, <2>6 DEF Types
<1>6. ASSUME backlog[k] # <<>>, work' = [work EXCEPT ![w] = Lent(Head(backlog[k]))],
             backlog' = [backlog EXCEPT ![k] = Tail(@)], UNCHANGED recovered,
             pending' = IF UsesRedis
               THEN [pending EXCEPT ![k] = @ \cup {Head(backlog[k])}] ELSE pending
      PROVE  Types'
  <2>1. backlog[k] \in Seq(Entry)
    BY <1>1, <1>2
  <2>2. Head(backlog[k]) \in Entry /\ Tail(backlog[k]) \in Seq(Entry)
    BY <1>6, <2>1, TailQueue
  <2>3. backlog' \in [Kind -> Seq(Entry)]
    BY <1>2, <1>6, <2>2
  <2>4. pending' \in [Kind -> SUBSET Entry]
    <3> DEFINE e == Head(backlog[k])
    <3>1. e \in Entry /\ pending' = IF UsesRedis THEN [pending EXCEPT ![k] = @ \cup {e}]
                                                 ELSE pending
      BY <1>6, <2>2
    <3> HIDE DEF e
    <3>2. QED
      BY <1>1, <1>2, <3>1
  <2>5. work' \in [Worker -> {Idle, [pc |-> "dead"]} \cup Busy]
    BY <1>3, <1>6, <2>2, WorkerBecomes DEF Types
  <2>6. QueueTypes'
    BY <1>2, <1>4, <1>6, <2>3, <2>4 DEF QueueTypes
  <2>7. RunTypes'
    BY <1>4, <2>5 DEF Types, RunTypes
  <2>8. QED
    BY <1>4, <2>6, <2>7 DEF Types
<1>7. QED
  BY <1>5, <1>6 DEF Take

LEMMA WorkerTypes ==
  ASSUME CameraTasksAssumption, Types, NEW w \in Worker,
         WorkerStep(w) \/ Reclaim(w) \/ Infer(w) \/ RaiseIn(w) \/ WorkerFails(w)
  PROVE  Types'
<1> USE DEF Types
<1> DEFINE k == KindOf(w)   c == work[w].task.cam
           W == [Worker -> {Idle, [pc |-> "dead"]} \cup Busy]
<1>1. k \in Kind /\ work \in W
  BY KindType DEF RunTypes
<1>2. \A p \in Point : At(w, p) => Holds(w)
  BY DEF At, Point, Holds
<1>3. Holds(w) => /\ c \in Camera /\ work[w].seq \in 0..MaxFrame /\ work[w].task \in Entry
                  /\ work[w] \in Busy
  BY HolderBusy
<1>4. ASSUME NEW p \in Point, Holds(w), Go(w, p) PROVE work' \in W
  BY <1>4, WorkerMoves
<1>5. ASSUME Holds(w), Forgotten(k, c) \/ UNCHANGED queued
      PROVE  queued' \in [Kind -> SUBSET Camera]
  BY <1>1, <1>5, ForgetTypes
<1>6. ASSUME work' = [work EXCEPT ![w] = Idle] \/ work' = [work EXCEPT ![w] = [pc |-> "dead"]]
      PROVE  work' \in W
  BY <1>1, <1>6
<1>7. ASSUME NEW l \in Worker \cup {Free, Manual}, Holds(w)
      PROVE  [lock EXCEPT ![c] = l] \in [Camera -> Worker \cup {Free, Manual}]
  BY <1>3, <1>7 DEF RunTypes
<1>8. ASSUME NEW l \in Kind \cup {Free, Dead}, Holds(w)
      PROVE  [redisLock EXCEPT ![c] = l] \in [Camera -> Kind \cup {Free, Dead}]
  BY <1>3, <1>8 DEF RunTypes
<1>9. CASE Take(w)
  BY <1>9, TakenTypes
<1>10. CASE Begin(w)
  <2>1. Holds(w) /\ (Go(w, "ack") \/ Go(w, "acquire")) /\ (Forgotten(k, c) \/ UNCHANGED queued)
    BY <1>2, <1>10 DEF Begin, Point
  <2>2. work' \in W /\ queued' \in [Kind -> SUBSET Camera]
    BY <1>4, <1>5, <2>1 DEF Point
  <2>3. QED
    BY <1>10, <2>2 DEF Begin, cameraVars, lockVars, CameraTypes, QueueTypes, RunTypes
<1>11. CASE Acquire(w)
  <2>1. /\ Holds(w) /\ (Go(w, "ack") \/ Go(w, "wait"))
        /\ (Forgotten(k, c) \/ UNCHANGED queued)
        /\ redisLock' = redisLock \/ redisLock' = [redisLock EXCEPT ![c] = k]
    BY <1>2, <1>11 DEF Acquire, Point
  <2>2. work' \in W /\ queued' \in [Kind -> SUBSET Camera]
    BY <1>4, <1>5, <2>1 DEF Point
  <2>3. redisLock' \in [Camera -> Kind \cup {Free, Dead}]
    BY <1>1, <1>8, <2>1 DEF RunTypes
  <2>4. QED
    BY <1>11, <2>2, <2>3 DEF Acquire, cameraVars, CameraTypes, QueueTypes, RunTypes
<1>12. CASE Enter(w)
  <2>1. Holds(w)
    BY <1>2, <1>12 DEF Enter, Point
  <2>2. work' \in W
    <3>1. CASE Analysable(k, c)
      <4> DEFINE r == [work[w] EXCEPT !.pc = "analyse", !.seq = frame[c]]
      <4>1. frame[c] \in 0..MaxFrame
        BY <1>3, <2>1 DEF CameraTypes
      <4>2. r \in Busy
        BY <1>3, <2>1, <4>1 DEF Busy
      <4>3. work' = [work EXCEPT ![w] = r]
        BY <1>12, <3>1 DEF Enter
      <4> HIDE DEF r
      <4>4. QED
        BY <4>2, <4>3, WorkerBecomes
    <3>2. CASE ~Analysable(k, c)
      BY <1>4, <1>12, <2>1, <3>2 DEF Enter, Point
    <3>3. QED
      BY <3>1, <3>2
  <2>3. lock' \in [Camera -> Worker \cup {Free, Manual}]
    <3>1. lock' = lock \/ lock' = [lock EXCEPT ![c] = w]
      BY <1>12 DEF Enter
    <3>2. QED
      BY <1>7, <2>1, <3>1 DEF RunTypes
  <2>4. due' \in [Kind -> [Camera -> BOOLEAN]]
    <3>1. due' = due \/ due' = Set1(due, k, c, FALSE)
      BY <1>12 DEF Enter
    <3>2. due \in [Kind -> [Camera -> BOOLEAN]] /\ FALSE \in BOOLEAN
      BY DEF CameraTypes
    <3>3. Set1(due, k, c, FALSE) \in [Kind -> [Camera -> BOOLEAN]]
      <4>1. k \in Kind /\ c \in Camera
        BY <1>1, <1>3, <2>1
      <4> HIDE DEF k, c
      <4>2. QED
        BY <3>2, <4>1, SetOne
    <3>4. QED
      BY <3>1, <3>2, <3>3
  <2>5. CameraTypes' /\ QueueTypes'
    BY <1>12, <2>4 DEF Enter, CameraTypes, QueueTypes, queueVars
  <2>6. RunTypes'
    BY <1>12, <2>2, <2>3 DEF Enter, RunTypes
  <2>7. QED
    BY <2>5, <2>6
<1>13. CASE Finish(w)
  <2>1. Holds(w) /\ Go(w, "release") /\ lock' = [lock EXCEPT ![c] = Free]
    BY <1>2, <1>13 DEF Finish, Point
  <2>2. work' \in W
    BY <1>4, <2>1 DEF Point
  <2>3. lock' \in [Camera -> Worker \cup {Free, Manual}]
    BY <1>7, <2>1
  <2>4. /\ last' \in [Kind -> [Camera -> 0..MaxFrame]]
        /\ seen' \in [Kind -> [Camera -> 0..MaxFrame]]
    <3>1. /\ last \in [Kind -> [Camera -> 0..MaxFrame]]
          /\ seen \in [Kind -> [Camera -> 0..MaxFrame]]
          /\ c \in Camera /\ work[w].seq \in 0..MaxFrame
      BY <1>3, <2>1 DEF CameraTypes
    <3>2. /\ Set1(last, k, c, work[w].seq) \in [Kind -> [Camera -> 0..MaxFrame]]
          /\ Set1(seen, k, c, work[w].seq) \in [Kind -> [Camera -> 0..MaxFrame]]
      <4>1. k \in Kind
        BY <1>1
      <4> DEFINE n == work[w].seq
      <4>2. n \in 0..MaxFrame
        BY <3>1
      <4> HIDE DEF k, c, n
      <4>3. /\ Set1(last, k, c, n) \in [Kind -> [Camera -> 0..MaxFrame]]
            /\ Set1(seen, k, c, n) \in [Kind -> [Camera -> 0..MaxFrame]]
        BY <3>1, <4>1, <4>2, SetOne
      <4>4. QED
        BY <4>3 DEF n
    <3>3. QED
      BY <1>13, <3>2 DEF Finish
  <2>5. CameraTypes' /\ QueueTypes'
    BY <1>13, <2>4 DEF Finish, CameraTypes, QueueTypes, queueVars
  <2>6. RunTypes'
    BY <1>13, <2>2, <2>3 DEF Finish, RunTypes
  <2>7. QED
    BY <2>5, <2>6
<1>14. CASE Release(w)
  <2>1. Holds(w) /\ (Go(w, "ack") \/ Go(w, "delete")) /\ (Forgotten(k, c) \/ UNCHANGED queued)
    BY <1>2, <1>14 DEF Release, Point
  <2>2. work' \in W /\ queued' \in [Kind -> SUBSET Camera]
    BY <1>4, <1>5, <2>1 DEF Point
  <2>3. QED
    BY <1>14, <2>2 DEF Release, cameraVars, lockVars, CameraTypes, QueueTypes, RunTypes
<1>15. CASE Delete(w)
  <2>1. /\ Holds(w) /\ Go(w, "ack") /\ Forgotten(k, c)
        /\ redisLock' = [redisLock EXCEPT ![c] = Free]
    BY <1>2, <1>15 DEF Delete, Point
  <2>2. work' \in W /\ queued' \in [Kind -> SUBSET Camera]
    BY <1>4, <1>5, <2>1 DEF Point
  <2>3. redisLock' \in [Camera -> Kind \cup {Free, Dead}]
    BY <1>8, <2>1
  <2>4. QED
    BY <1>15, <2>2, <2>3 DEF Delete, cameraVars, CameraTypes, QueueTypes, RunTypes
<1>16. CASE Ack(w)
  <2>1. work' \in W /\ pending' \in [Kind -> SUBSET Entry]
    BY <1>1, <1>6, <1>16 DEF Ack, QueueTypes
  <2>2. QED
    BY <1>16, <2>1 DEF Ack, cameraVars, lockVars, CameraTypes, QueueTypes, RunTypes
<1>17. CASE Reclaim(w)
  <2>1. PICK e \in pending[k] : recovered' = [recovered EXCEPT ![k] = Append(@, e)]
    BY <1>17 DEF Reclaim
  <2>2. e \in Entry /\ recovered[k] \in Seq(Entry) /\ recovered \in [Kind -> Seq(Entry)]
    BY <1>1 DEF QueueTypes
  <2>3. Append(recovered[k], e) \in Seq(Entry)
    BY <2>2, AppendQueue
  <2>4. recovered' \in [Kind -> Seq(Entry)]
    BY <2>1, <2>2, <2>3
  <2>5. QED
    BY <1>17, <2>4 DEF Reclaim, cameraVars, lockVars, CameraTypes, QueueTypes, RunTypes
<1>18. CASE Infer(w)
  <2>1. Holds(w)
    BY <1>2, <1>18 DEF Infer, Point
  <2> DEFINE r == [work[w] EXCEPT !.seq = frame[c]]
  <2>2. r \in Busy
    BY <1>3, <2>1 DEF Busy, CameraTypes
  <2>3. work' = [work EXCEPT ![w] = r]
    BY <1>18 DEF Infer
  <2>4. work' \in W
    <3> HIDE DEF r
    <3>1. QED
      BY <2>2, <2>3, WorkerBecomes
  <2>5. CameraTypes' /\ QueueTypes'
    BY <1>18 DEF Infer, cameraVars, queueVars, CameraTypes, QueueTypes
  <2>6. RunTypes'
    BY <1>18, <2>4 DEF Infer, lockVars, RunTypes
  <2>7. QED
    BY <2>5, <2>6
<1>19. CASE RaiseIn(w)
  <2>1. Holds(w) /\ Go(w, "release") /\ lock' = [lock EXCEPT ![c] = Free]
    BY <1>2, <1>19 DEF RaiseIn, Point
  <2>2. work' \in W
    BY <1>4, <2>1 DEF Point
  <2>3. lock' \in [Camera -> Worker \cup {Free, Manual}]
    BY <1>7, <2>1
  <2>4. CameraTypes' /\ QueueTypes'
    BY <1>19 DEF RaiseIn, cameraVars, queueVars, CameraTypes, QueueTypes
  <2>5. RunTypes'
    BY <1>19, <2>2, <2>3 DEF RaiseIn, RunTypes
  <2>6. QED
    BY <2>4, <2>5
<1>20. CASE WorkerFails(w)
  <2>1. \/ work' = [work EXCEPT ![w] = [pc |-> "dead"]] /\ UNCHANGED queued
        \/ Holds(w) /\ Go(w, "ack") /\ Forgotten(k, c)
    BY <1>2, <1>20 DEF WorkerFails, Point
  <2>2. work' \in W
    BY <1>4, <1>6, <2>1 DEF Point
  <2>3. queued' \in [Kind -> SUBSET Camera]
    BY <1>5, <2>1 DEF QueueTypes
  <2>4. CameraTypes' /\ QueueTypes'
    BY <1>20, <2>3 DEF WorkerFails, cameraVars, CameraTypes, QueueTypes
  <2>5. RunTypes'
    BY <1>20, <2>2 DEF WorkerFails, lockVars, RunTypes
  <2>6. QED
    BY <2>4, <2>5
<1>21. QED
  BY <1>9, <1>10, <1>11, <1>12, <1>13, <1>14, <1>15, <1>16, <1>17, <1>18, <1>19, <1>20
     DEF WorkerStep

\* What neither the scheduler nor a worker does
Outside ==
  \/ \E k \in Kind, c \in Camera : Elapse(k, c)
  \/ \E c \in Camera :
       \/ Frame(c) \/ Expire(c)
       \/ RemoveMedia(c) \/ RemoveRuntime(c) \/ Create(c)
       \/ ManualBegins(c) \/ ManualEnds(c)
  \/ Outage \/ OutageEnds \/ SchedulerFails \/ Restart

LEMMA OutsideTypes ==
  ASSUME CameraTasksAssumption, Types, Outside
  PROVE  Types'
<1> USE DEF Types
<1>1. ASSUME NEW k \in Kind, NEW c \in Camera, Elapse(k, c) PROVE Types'
  <2>1. due \in [Kind -> [Camera -> BOOLEAN]] /\ TRUE \in BOOLEAN
    BY DEF CameraTypes
  <2>2. Set1(due, k, c, TRUE) \in [Kind -> [Camera -> BOOLEAN]]
    BY <2>1, SetOne
  <2>3. CameraTypes' /\ QueueTypes' /\ RunTypes'
    BY <1>1, <2>2 DEF Elapse, queueVars, lockVars, CameraTypes, QueueTypes, RunTypes
  <2>4. QED
    BY <2>3
<1>2. ASSUME NEW c \in Camera, Frame(c) PROVE Types'
  <2>1. frame' \in [Camera -> 0..MaxFrame]
    BY <1>2 DEF Frame, CameraTypes, CameraTasksAssumption
  <2>2. CameraTypes' /\ QueueTypes' /\ RunTypes'
    BY <1>2, <2>1 DEF Frame, queueVars, lockVars, CameraTypes, QueueTypes, RunTypes
  <2>3. QED
    BY <2>2
<1>3. ASSUME NEW c \in Camera, Expire(c) PROVE Types'
  BY <1>3 DEF Expire, cameraVars, queueVars, CameraTypes, QueueTypes, RunTypes
<1>4. ASSUME NEW c \in Camera, RemoveMedia(c) PROVE Types'
  <2>1. frame' \in [Camera -> 0..MaxFrame]
    BY <1>4 DEF RemoveMedia, CameraTypes, CameraTasksAssumption
  <2>2. seen' \in [Kind -> [Camera -> 0..MaxFrame]]
    <3>1. \A k \in Kind : [seen[k] EXCEPT ![c] = 0] \in [Camera -> 0..MaxFrame]
      BY DEF CameraTypes, CameraTasksAssumption
    <3>2. QED
      BY <1>4, <3>1 DEF RemoveMedia
  <2>3. CameraTypes' /\ QueueTypes' /\ RunTypes'
    BY <1>4, <2>1, <2>2
       DEF RemoveMedia, queueVars, lockVars, CameraTypes, QueueTypes, RunTypes
  <2>4. QED
    BY <2>3
<1>5. ASSUME NEW c \in Camera, RemoveRuntime(c) PROVE Types'
  <2>1. due' \in [Kind -> [Camera -> BOOLEAN]]
    <3>1. \A k \in Kind : [due[k] EXCEPT ![c] = TRUE] \in [Camera -> BOOLEAN]
      BY DEF CameraTypes
    <3>2. QED
      BY <1>5, <3>1 DEF RemoveRuntime
  <2>2. queued' \in [Kind -> SUBSET Camera]
    BY <1>5 DEF RemoveRuntime, QueueTypes
  <2>3. CameraTypes' /\ QueueTypes' /\ RunTypes'
    BY <1>5, <2>1, <2>2 DEF RemoveRuntime, lockVars, CameraTypes, QueueTypes, RunTypes
  <2>4. QED
    BY <2>3
<1>6. ASSUME NEW c \in Camera, Create(c) PROVE Types'
  BY <1>6 DEF Create, queueVars, lockVars, CameraTypes, QueueTypes, RunTypes
<1>7. ASSUME NEW c \in Camera, ManualBegins(c) \/ ManualEnds(c) PROVE Types'
  BY <1>7
     DEF ManualBegins, ManualEnds, cameraVars, queueVars, CameraTypes, QueueTypes, RunTypes
<1>8. CASE Outage \/ OutageEnds
  BY <1>8 DEF Outage, OutageEnds, cameraVars, queueVars, lockVars,
              CameraTypes, QueueTypes, RunTypes
<1>9. CASE SchedulerFails
  BY <1>9 DEF SchedulerFails, cameraVars, queueVars, lockVars,
              CameraTypes, QueueTypes, RunTypes, Schedule
<1>10. CASE Restart
  <2>1. CameraTypes'
    BY <1>10 DEF Restart, CameraTypes, CameraTasksAssumption
  <2>2. QueueTypes'
    <3>1. <<>> \in Seq(Entry)
      BY EmptyQueue
    <3>2. QED
      BY <1>10, <3>1 DEF Restart, QueueTypes
  <2>3. RunTypes'
    <3>1. redisLock' \in [Camera -> Kind \cup {Free, Dead}]
      BY <1>10 DEF Restart, RunTypes
    <3>2. QED
      BY <1>10, <3>1 DEF Restart, RunTypes, Schedule
  <2>4. QED
    BY <2>1, <2>2, <2>3
<1>11. QED
  BY <1>1, <1>2, <1>3, <1>4, <1>5, <1>6, <1>7, <1>8, <1>9, <1>10 DEF Outside

-----------------------------------------------------------------------------
(* Queues: their bounds, and one task for an id *)

\* Where no task is new, an id still names one task.
LEMMA FewerTasks ==
  ASSUME NEW k, IdsOnce(k), Existing(k)' \subseteq Existing(k)
  PROVE  IdsOnce(k)'
  BY DEF IdsOnce

\* A new task with an id of its own.
LEMMA OneMoreTask ==
  ASSUME NEW k, IdsOnce(k), NEW e, \A f \in Existing(k) : f.id # e.id,
         Existing(k)' \subseteq Existing(k) \cup {e}
  PROVE  IdsOnce(k)'
  BY DEF IdsOnce

\* Workers that have a task had it before.
LEMMA FewerHands ==
  ASSUME \A v \in Worker : Holds(v)' => Holds(v) /\ work'[v].task = work[v].task
  PROVE  \A k \in Kind : InHands(k)' \subseteq InHands(k)
  BY DEF InHands

LEMMA SameQueues ==
  ASSUME Queues, UNCHANGED <<backlog, pending, recovered>>,
         \A k \in Kind : InHands(k)' \subseteq InHands(k)
  PROVE  Queues'
<1> SUFFICES ASSUME NEW k \in Kind PROVE Bounded(k)' /\ IdsOnce(k)'
  BY DEF Queues
<1>1. Bounded(k)'
  BY DEF Queues, Bounded, Depth
<1>2. Existing(k)' \subseteq Existing(k)
  BY DEF Existing
<1>3. QED
  BY <1>1, <1>2, FewerTasks DEF Queues

LEMMA QueuesInit == CameraTasksAssumption /\ Init => Queues
<1> SUFFICES ASSUME CameraTasksAssumption, Init, NEW k \in Kind
             PROVE  Bounded(k) /\ IdsOnce(k)
  BY DEF Queues
<1>1. backlog[k] = <<>> /\ pending[k] = {} /\ recovered[k] = <<>>
  BY DEF Init
<1>2. ToSet(<<>>) = {} /\ Len(<<>>) = 0
  BY EmptyQueue
<1>3. IsFiniteSet({}) /\ Cardinality({}) = 0
  BY FS_EmptySet
<1>4. Bounded(k)
  BY <1>1, <1>2, <1>3 DEF Bounded, Depth, CameraTasksAssumption
<1>5. InHands(k) = {}
  BY DEF Init, InHands, Holds, Idle
<1>6. QED
  BY <1>1, <1>2, <1>4, <1>5 DEF IdsOnce, Existing

\* One more task in the stream
LEMMA AppendQueues ==
  ASSUME CameraTasksAssumption, QueueTypes, RunTypes, Queues,
         NEW k \in Kind, NEW c \in Camera, Depth(k) < QueueMax, Append1(k, c),
         UNCHANGED <<pending, recovered>>, UNCHANGED work
  PROVE  Queues'
<1> DEFINE e == FreshTask(k, c)
<1>1. Bounded(k) /\ IdsOnce(k)
  BY DEF Queues
<1>2. e \in Entry /\ \A f \in Existing(k) : f.id # e.id
  BY <1>1, FreeId
<1>3. backlog[k] \in Seq(Entry) /\ backlog \in [Kind -> Seq(Entry)]
  BY DEF QueueTypes
<1>4. backlog' = [backlog EXCEPT ![k] = Append(backlog[k], e)]
  BY DEF Append1
<1> HIDE DEF e
<1>5. Len(backlog'[k]) = Len(backlog[k]) + 1 /\ ToSet(backlog'[k]) = ToSet(backlog[k]) \cup {e}
  BY <1>2, <1>3, <1>4, AppendQueue
<1>6. \A j \in Kind : InHands(j)' = InHands(j)
  BY DEF InHands, Holds
<1>7. Bounded(k)'
  <2>1. Len(backlog[k]) \in Nat /\ Cardinality(pending[k]) \in Nat /\ QueueMax \in Nat
    BY <1>1, <1>3, QueueSet, FS_CardinalityType DEF Bounded, CameraTasksAssumption
  <2>2. Depth(k)' = Depth(k) + 1 /\ Depth(k) \in Nat
    BY <1>5, <2>1 DEF Depth
  <2>3. Depth(k)' <= QueueMax
    BY <2>1, <2>2
  <2>4. QED
    BY <1>1, <2>3 DEF Bounded
<1>8. IdsOnce(k)'
  <2>1. Existing(k)' \subseteq Existing(k) \cup {e}
    BY <1>5, <1>6 DEF Existing
  <2>2. QED
    BY <1>1, <1>2, <2>1, OneMoreTask
<1>9. ASSUME NEW j \in Kind, j # k PROVE Bounded(j)' /\ IdsOnce(j)'
  <2>1. backlog'[j] = backlog[j]
    BY <1>3, <1>4, <1>9
  <2>2. Bounded(j)'
    BY <2>1 DEF Queues, Bounded, Depth
  <2>3. Existing(j)' \subseteq Existing(j)
    BY <1>6, <2>1 DEF Existing
  <2>4. QED
    BY <2>2, <2>3, FewerTasks DEF Queues
<1>10. QED
  BY <1>7, <1>8, <1>9 DEF Queues

LEMMA SchedulingQueues ==
  ASSUME CameraTasksAssumption, Types, Queues, Room, ~UsesRedis => InMemory, Scheduling
  PROVE  Queues'
<1> USE DEF Types
<1>1. ASSUME UNCHANGED work PROVE \A k \in Kind : InHands(k)' \subseteq InHands(k)
  BY <1>1 DEF InHands, Holds
<1>2. ASSUME NEW k \in Kind, NEW c \in Camera, LookMemory(k, c) PROVE Queues'
  <2>1. UNCHANGED <<pending, recovered>> /\ UNCHANGED work
    BY <1>2 DEF LookMemory
  <2>2. CASE c \notin queued[k] /\ Len(backlog[k]) < QueueMax
    <3>1. Append1(k, c)
      BY <1>2, <2>2 DEF LookMemory
    <3>2. Depth(k) < QueueMax
      BY <1>2, <2>2, ShortInMemory DEF LookMemory
    <3>3. QED
      BY <2>1, <3>1, <3>2, AppendQueues
  <2>3. CASE ~(c \notin queued[k] /\ Len(backlog[k]) < QueueMax)
    <3>1. UNCHANGED <<backlog, pending, recovered>>
      BY <1>2, <2>1, <2>3 DEF LookMemory
    <3>2. QED
      BY <1>1, <2>1, <3>1, SameQueues
  <2>4. QED
    BY <2>2, <2>3
<1>3. ASSUME NEW k \in Kind, NEW c \in Camera, LookRedis(k, c) PROVE Queues'
  <2>1. UNCHANGED <<backlog, pending, recovered>> /\ UNCHANGED work
    BY <1>3 DEF LookRedis, queueVars
  <2>2. QED
    BY <1>1, <2>1, SameQueues
<1>4. CASE Add
  <2> DEFINE k == sched.kind   c == sched.cam
  <2>1. k \in Kind /\ c \in Camera
    BY <1>4, SchedulePlaces DEF Add
  <2>2. UNCHANGED <<pending, recovered>> /\ UNCHANGED work
    BY <1>4 DEF Add
  <2>3. Append1(k, c) /\ Depth(k) < QueueMax
    BY <1>4 DEF Add, Room
  <2>4. QED
    BY <2>1, <2>2, <2>3, AppendQueues
<1>5. CASE Ask \/ Note
  <2>1. UNCHANGED <<backlog, pending, recovered>> /\ UNCHANGED work
    BY <1>5 DEF Ask, Note, queueVars
  <2>2. QED
    BY <1>1, <2>1, SameQueues
<1>6. QED
  BY <1>2, <1>3, <1>4, <1>5 DEF Scheduling

\* A worker that takes a task has it in its hands, and nothing else changes.
LEMMA TakenHands ==
  ASSUME RunTypes, NEW w \in Worker, ~Holds(w), NEW e \in Entry,
         MaxFrame \in Nat, work' = [work EXCEPT ![w] = Lent(e)]
  PROVE  \A k \in Kind :
           InHands(k)' \subseteq InHands(k) \cup (IF k = KindOf(w) THEN {e} ELSE {})
<1>1. Lent(e) \in Busy /\ Lent(e).task = e
  BY DEF Lent, Busy
<1>2. work'[w].task = e /\ \A v \in Worker \ {w} : work'[v] = work[v]
  BY <1>1, WorkerBecomes
<1>3. \A v \in Worker : Holds(v)' =>
        \/ v = w /\ work'[v].task = e
        \/ Holds(v) /\ work'[v].task = work[v].task
  BY <1>2 DEF Holds
<1>4. QED
  BY <1>3 DEF InHands

LEMMA TakeQueues ==
  ASSUME CameraTasksAssumption, Types, Queues, NEW w \in Worker, Take(w)
  PROVE  Queues'
<1> DEFINE k == KindOf(w)
<1>1. k \in Kind /\ ~Holds(w) /\ MaxFrame \in Nat /\ RunTypes
  BY KindType DEF Take, At, Holds, CameraTasksAssumption, Types
<1>2. /\ backlog \in [Kind -> Seq(Entry)] /\ recovered \in [Kind -> Seq(Entry)]
      /\ pending \in [Kind -> SUBSET Entry] /\ QueueMax \in Nat
      /\ backlog[k] \in Seq(Entry) /\ recovered[k] \in Seq(Entry)
  BY <1>1 DEF Types, QueueTypes, CameraTasksAssumption
<1>3. Bounded(k) /\ IdsOnce(k)
  BY <1>1 DEF Queues
<1>4. /\ Len(backlog[k]) \in Nat /\ Len(recovered[k]) \in Nat
      /\ Cardinality(pending[k]) \in Nat /\ IsFiniteSet(pending[k])
  BY <1>2, <1>3, QueueSet, FS_CardinalityType DEF Bounded
<1>5. ASSUME NEW j \in Kind, j # k,
             backlog'[j] = backlog[j], pending'[j] = pending[j], recovered'[j] = recovered[j],
             InHands(j)' \subseteq InHands(j)
      PROVE  Bounded(j)' /\ IdsOnce(j)'
  <2>1. Existing(j)' \subseteq Existing(j)
    BY <1>5 DEF Existing
  <2>2. Bounded(j)'
    BY <1>5 DEF Queues, Bounded, Depth
  <2>3. QED
    BY <2>1, <2>2, FewerTasks DEF Queues
<1>6. ASSUME recovered[k] # <<>>, work' = [work EXCEPT ![w] = Lent(Head(recovered[k]))],
             recovered' = [recovered EXCEPT ![k] = Tail(@)], UNCHANGED <<backlog, pending>>
      PROVE  Queues'
  <2> DEFINE e == Head(recovered[k])   t == Tail(recovered[k])
  <2>1. /\ e \in Entry /\ ToSet(recovered[k]) = ToSet(t) \cup {e}
        /\ Len(t) = Len(recovered[k]) - 1
    BY <1>2, <1>6, TailQueue
  <2>2. work' = [work EXCEPT ![w] = Lent(e)] /\ recovered' = [recovered EXCEPT ![k] = t]
    BY <1>6
  <2> HIDE DEF e, t, k
  <2>3. \A j \in Kind : InHands(j)' \subseteq InHands(j) \cup (IF j = k THEN {e} ELSE {})
    BY <1>1, <2>1, <2>2, TakenHands DEF k
  <2>4. recovered'[k] = t /\ \A j \in Kind \ {k} : recovered'[j] = recovered[j]
    BY <1>1, <1>2, <2>2
  <2>5. Bounded(k)'
    <3>1. Len(recovered'[k]) <= QueueMax
      BY <1>2, <1>3, <1>4, <2>1, <2>4 DEF Bounded
    <3>2. QED
      BY <1>3, <1>6, <3>1 DEF Bounded, Depth
  <2>6. IdsOnce(k)'
    <3>1. InHands(k)' \subseteq InHands(k) \cup {e}
      BY <1>1, <2>3
    <3>2. Existing(k)' \subseteq Existing(k)
      BY <1>6, <2>1, <2>4, <3>1 DEF Existing
    <3>3. QED
      BY <1>3, <3>2, FewerTasks
  <2>7. ASSUME NEW j \in Kind, j # k PROVE Bounded(j)' /\ IdsOnce(j)'
    <3>1. InHands(j)' \subseteq InHands(j)
      BY <2>3, <2>7
    <3>2. QED
      BY <1>5, <1>6, <2>4, <2>7, <3>1
  <2>8. QED
    BY <2>5, <2>6, <2>7 DEF Queues
<1>7. ASSUME backlog[k] # <<>>, work' = [work EXCEPT ![w] = Lent(Head(backlog[k]))],
             backlog' = [backlog EXCEPT ![k] = Tail(@)], UNCHANGED recovered,
             pending' = IF UsesRedis
               THEN [pending EXCEPT ![k] = @ \cup {Head(backlog[k])}] ELSE pending
      PROVE  Queues'
  <2> DEFINE e == Head(backlog[k])   t == Tail(backlog[k])
  <2>1. /\ e \in Entry /\ ToSet(backlog[k]) = ToSet(t) \cup {e}
        /\ Len(t) = Len(backlog[k]) - 1
    BY <1>2, <1>7, TailQueue
  <2>2. /\ work' = [work EXCEPT ![w] = Lent(e)] /\ backlog' = [backlog EXCEPT ![k] = t]
        /\ pending' = IF UsesRedis THEN [pending EXCEPT ![k] = @ \cup {e}] ELSE pending
    BY <1>7
  <2> HIDE DEF e, t, k
  <2>3. \A j \in Kind : InHands(j)' \subseteq InHands(j) \cup (IF j = k THEN {e} ELSE {})
    BY <1>1, <2>1, <2>2, TakenHands DEF k
  <2>4. backlog'[k] = t /\ \A j \in Kind \ {k} : backlog'[j] = backlog[j]
    BY <1>1, <1>2, <2>2
  <2>5. /\ pending'[k] = pending[k] \/ pending'[k] = pending[k] \cup {e}
        /\ \A j \in Kind \ {k} : pending'[j] = pending[j]
    BY <1>1, <1>2, <2>2
  <2>6. IsFiniteSet(pending'[k]) /\ Cardinality(pending'[k]) <= Cardinality(pending[k]) + 1
    <3>1. /\ IsFiniteSet(pending[k] \cup {e})
          /\ Cardinality(pending[k] \cup {e}) =
               IF e \in pending[k] THEN Cardinality(pending[k]) ELSE Cardinality(pending[k]) + 1
      BY <1>4, FS_AddElement
    <3>2. Cardinality(pending[k] \cup {e}) <= Cardinality(pending[k]) + 1
      BY <1>4, <3>1
    <3>3. CASE pending'[k] = pending[k]
      BY <1>4, <3>3
    <3>4. CASE pending'[k] = pending[k] \cup {e}
      BY <3>1, <3>2, <3>4
    <3>5. QED
      BY <2>5, <3>3, <3>4
  <2>7. Bounded(k)'
    <3>1. Cardinality(pending'[k]) \in Nat
      BY <2>6, FS_CardinalityType
    <3>2. Depth(k)' <= QueueMax
      BY <1>2, <1>3, <1>4, <2>1, <2>4, <2>6, <3>1 DEF Bounded, Depth
    <3>3. QED
      BY <1>3, <1>7, <2>6, <3>2 DEF Bounded
  <2>8. IdsOnce(k)'
    <3>1. InHands(k)' \subseteq InHands(k) \cup {e}
      BY <1>1, <2>3
    <3>2. Existing(k)' \subseteq Existing(k)
      BY <1>7, <2>1, <2>4, <2>5, <3>1 DEF Existing
    <3>3. QED
      BY <1>3, <3>2, FewerTasks
  <2>9. ASSUME NEW j \in Kind, j # k PROVE Bounded(j)' /\ IdsOnce(j)'
    <3>1. InHands(j)' \subseteq InHands(j)
      BY <2>3, <2>9
    <3>2. QED
      BY <1>5, <1>7, <2>4, <2>5, <2>9, <3>1
  <2>10. QED
    BY <2>7, <2>8, <2>9 DEF Queues
<1>8. QED
  BY <1>6, <1>7 DEF Take

LEMMA ReclaimQueues ==
  ASSUME CameraTasksAssumption, Types, Queues, NEW w \in Worker, Reclaim(w)
  PROVE  Queues'
<1> DEFINE k == KindOf(w)
<1>1. k \in Kind
  BY KindType
<1>2. PICK e \in pending[k] : recovered' = [recovered EXCEPT ![k] = Append(@, e)]
  BY DEF Reclaim
<1>3. UNCHANGED <<backlog, pending>> /\ work' = work /\ Len(recovered[k]) < QueueMax
  BY DEF Reclaim
<1>4. /\ recovered \in [Kind -> Seq(Entry)] /\ recovered[k] \in Seq(Entry) /\ e \in Entry
      /\ QueueMax \in Nat /\ Len(recovered[k]) \in Nat
  <2>1. recovered \in [Kind -> Seq(Entry)] /\ recovered[k] \in Seq(Entry) /\ e \in Entry
    BY <1>1 DEF Types, QueueTypes
  <2>2. QED
    BY <2>1, QueueSet DEF CameraTasksAssumption
<1> HIDE DEF k
<1>5. /\ Len(recovered'[k]) = Len(recovered[k]) + 1
      /\ ToSet(recovered'[k]) = ToSet(recovered[k]) \cup {e}
      /\ \A j \in Kind \ {k} : recovered'[j] = recovered[j]
  BY <1>1, <1>2, <1>4, AppendQueue
<1>6. \A j \in Kind : InHands(j)' = InHands(j)
  BY <1>3 DEF InHands, Holds
<1>7. ASSUME NEW j \in Kind PROVE Existing(j)' \subseteq Existing(j)
  BY <1>2, <1>3, <1>5, <1>6 DEF Existing
<1>8. ASSUME NEW j \in Kind PROVE Bounded(j)'
  <2>1. Len(recovered'[j]) <= QueueMax
    BY <1>3, <1>4, <1>5 DEF Queues, Bounded
  <2>2. QED
    BY <1>3, <2>1 DEF Queues, Bounded, Depth
<1>9. QED
  BY <1>7, <1>8, FewerTasks DEF Queues

LEMMA AckQueues ==
  ASSUME CameraTasksAssumption, Types, Queues, NEW w \in Worker, Ack(w)
  PROVE  Queues'
<1> DEFINE k == KindOf(w)   e == work[w].task
<1>1. /\ UNCHANGED <<backlog, recovered>> /\ pending' = [pending EXCEPT ![k] = @ \ {e}]
      /\ work' = [work EXCEPT ![w] = Idle]
  BY DEF Ack
<1>2. pending \in [Kind -> SUBSET Entry] /\ backlog \in [Kind -> Seq(Entry)]
  BY DEF Types, QueueTypes
<1>3. \A j \in Kind : InHands(j)' \subseteq InHands(j)
  <2>1. work \in [Worker -> {Idle, [pc |-> "dead"]} \cup Busy]
    BY DEF Types, RunTypes
  <2>2. \A v \in Worker : work'[v] = work[v] \/ work'[v] = Idle
    BY <1>1, <2>1
  <2>3. \A v \in Worker : Holds(v)' => Holds(v) /\ work'[v].task = work[v].task
    BY <2>2 DEF Holds, Idle
  <2>4. QED
    BY <2>3, FewerHands
<1> HIDE DEF k, e
<1>4. \A j \in Kind : pending'[j] = pending[j] \/ pending'[j] = pending[j] \ {e}
  BY <1>1, <1>2
<1>5. ASSUME NEW j \in Kind PROVE Bounded(j)'
  <2>1. IsFiniteSet(pending[j]) /\ Cardinality(pending[j]) \in Nat
    BY FS_CardinalityType DEF Queues, Bounded
  <2>2. IsFiniteSet(pending'[j]) /\ Cardinality(pending'[j]) <= Cardinality(pending[j])
    <3>1. pending'[j] \in SUBSET pending[j]
      BY <1>4
    <3>2. QED
      BY <2>1, <3>1, FS_Subset
  <2>3. Cardinality(pending'[j]) \in Nat
    BY <2>2, FS_CardinalityType
  <2>4. Len(backlog[j]) \in Nat /\ QueueMax \in Nat
    BY <1>2, QueueSet DEF CameraTasksAssumption
  <2>5. Depth(j)' <= QueueMax
    BY <1>1, <2>1, <2>2, <2>3, <2>4 DEF Queues, Bounded, Depth
  <2>6. QED
    BY <1>1, <2>2, <2>5 DEF Queues, Bounded
<1>6. ASSUME NEW j \in Kind PROVE IdsOnce(j)'
  <2>1. Existing(j)' \subseteq Existing(j)
    BY <1>1, <1>3, <1>4 DEF Existing
  <2>2. QED
    BY <2>1, FewerTasks DEF Queues
<1>7. QED
  BY <1>5, <1>6 DEF Queues

\* What a worker does may make room, and takes none.
LEMMA WorkerRoom ==
  ASSUME CameraTasksAssumption, Types, Queues, NEW w \in Worker,
         WorkerStep(w) \/ Reclaim(w) \/ Infer(w) \/ RaiseIn(w) \/ WorkerFails(w),
         NEW k \in Kind
  PROVE  Depth(k)' <= Depth(k) /\ Depth(k) \in Nat /\ Depth(k)' \in Nat
<1>1. /\ backlog \in [Kind -> Seq(Entry)] /\ pending \in [Kind -> SUBSET Entry]
      /\ KindOf(w) \in Kind /\ IsFiniteSet(pending[k])
      /\ Len(backlog[k]) \in Nat /\ Cardinality(pending[k]) \in Nat
  BY KindType, QueueSet, FS_CardinalityType DEF Types, QueueTypes, Queues, Bounded
<1>2. CASE UNCHANGED <<backlog, pending>>
  BY <1>1, <1>2 DEF Depth
<1>3. CASE Take(w) /\ ~UNCHANGED <<backlog, pending>>
  <2> DEFINE j == KindOf(w)   e == Head(backlog[j])   t == Tail(backlog[j])
  <2>1. /\ backlog[j] # <<>> /\ backlog' = [backlog EXCEPT ![j] = t]
        /\ pending' = IF UsesRedis THEN [pending EXCEPT ![j] = @ \cup {e}] ELSE pending
    BY <1>3 DEF Take
  <2>2. Len(t) = Len(backlog[j]) - 1
    BY <1>1, <2>1, TailQueue
  <2> HIDE DEF e, t
  <2>3. CASE k = j
    <3>1. /\ backlog'[k] = t
          /\ pending'[k] = pending[k] \/ pending'[k] = pending[k] \cup {e}
      BY <1>1, <2>1, <2>3
    <3>2. Cardinality(pending[k] \cup {e}) \in {Cardinality(pending[k]), Cardinality(pending[k]) + 1}
      BY <1>1, FS_AddElement
    <3>3. Cardinality(pending'[k]) \in {Cardinality(pending[k]), Cardinality(pending[k]) + 1}
      BY <3>1, <3>2
    <3>4. QED
      BY <1>1, <2>2, <2>3, <3>1, <3>3 DEF Depth
  <2>4. CASE k # j
    <3>1. backlog'[k] = backlog[k] /\ pending'[k] = pending[k]
      BY <1>1, <2>1, <2>4
    <3>2. QED
      BY <1>1, <3>1 DEF Depth
  <2>5. QED
    BY <2>3, <2>4
<1>4. CASE Ack(w)
  <2>1. backlog' = backlog /\ pending'[k] \in SUBSET pending[k]
    BY <1>1, <1>4 DEF Ack
  <2>2. IsFiniteSet(pending'[k]) /\ Cardinality(pending'[k]) <= Cardinality(pending[k])
    BY <1>1, <2>1, FS_Subset
  <2>3. Cardinality(pending'[k]) \in Nat
    BY <2>2, FS_CardinalityType
  <2>4. QED
    BY <1>1, <2>1, <2>2, <2>3 DEF Depth
<1>5. ASSUME ~Take(w), ~Ack(w)
      PROVE  UNCHANGED <<backlog, pending>>
  BY <1>5 DEF WorkerStep, Begin, Acquire, Enter, Finish, Release, Delete, Reclaim, Infer,
              RaiseIn, WorkerFails, queueVars
<1>6. QED
  BY <1>2, <1>3, <1>4, <1>5

LEMMA WorkerQueues ==
  ASSUME CameraTasksAssumption, Types, Queues, NEW w \in Worker,
         WorkerStep(w) \/ Reclaim(w) \/ Infer(w) \/ RaiseIn(w) \/ WorkerFails(w)
  PROVE  Queues'
<1>1. \A p \in Point : At(w, p) => Holds(w)
  BY DEF At, Point, Holds
<1>2. work \in [Worker -> {Idle, [pc |-> "dead"]} \cup Busy] /\ RunTypes
  BY DEF Types, RunTypes
<1>3. ASSUME UNCHANGED <<backlog, pending, recovered>>,
             NEW p \in Point, Holds(w), Go(w, p)
      PROVE  Queues'
  <2>1. work'[w].task = work[w].task /\ \A v \in Worker \ {w} : work'[v] = work[v]
    BY <1>2, <1>3, WorkerMoves
  <2>2. \A v \in Worker : Holds(v)' => Holds(v) /\ work'[v].task = work[v].task
    BY <1>3, <2>1 DEF Holds
  <2>3. \A k \in Kind : InHands(k)' \subseteq InHands(k)
    BY <2>2, FewerHands
  <2>4. QED
    BY <1>3, <2>3, SameQueues
<1>4. ASSUME UNCHANGED <<backlog, pending, recovered>>, NEW r, Holds(w),
             work' = [work EXCEPT ![w] = r],
             r = [pc |-> "dead"] \/ r.task = work[w].task
      PROVE  Queues'
  <2>1. work'[w] = r /\ \A v \in Worker \ {w} : work'[v] = work[v]
    BY <1>2, <1>4
  <2>2. \A v \in Worker : Holds(v)' => Holds(v) /\ work'[v].task = work[v].task
    BY <1>4, <2>1 DEF Holds
  <2>3. \A k \in Kind : InHands(k)' \subseteq InHands(k)
    BY <2>2, FewerHands
  <2>4. QED
    BY <1>4, <2>3, SameQueues
<1>5. CASE Take(w)
  BY <1>5, TakeQueues
<1>6. CASE Begin(w)
  <2>1. /\ UNCHANGED <<backlog, pending, recovered>> /\ Holds(w)
        /\ Go(w, "ack") \/ Go(w, "acquire")
    BY <1>1, <1>6 DEF Begin, Point
  <2>2. QED
    BY <1>3, <2>1 DEF Point
<1>7. CASE Acquire(w)
  <2>1. /\ UNCHANGED <<backlog, pending, recovered>> /\ Holds(w)
        /\ Go(w, "ack") \/ Go(w, "wait")
    BY <1>1, <1>7 DEF Acquire, Point
  <2>2. QED
    BY <1>3, <2>1 DEF Point
<1>8. CASE Enter(w)
  <2>1. UNCHANGED <<backlog, pending, recovered>> /\ Holds(w)
    BY <1>1, <1>8 DEF Enter, Point, queueVars
  <2>2. CASE Analysable(KindOf(w), work[w].task.cam)
    <3> DEFINE r == [work[w] EXCEPT !.pc = "analyse", !.seq = frame[work[w].task.cam]]
    <3>1. work' = [work EXCEPT ![w] = r] /\ r.task = work[w].task
      <4>1. work[w] \in Busy
        BY <1>2, <2>1, HolderBusy
      <4>2. QED
        BY <1>8, <2>2, <4>1 DEF Enter, Busy
    <3> HIDE DEF r
    <3>2. QED
      BY <1>4, <2>1, <3>1
  <2>3. CASE ~Analysable(KindOf(w), work[w].task.cam)
    <3>1. Go(w, "release")
      BY <1>8, <2>3 DEF Enter
    <3>2. QED
      BY <1>3, <2>1, <3>1 DEF Point
  <2>4. QED
    BY <2>2, <2>3
<1>9. CASE Finish(w) \/ RaiseIn(w)
  <2>1. UNCHANGED <<backlog, pending, recovered>> /\ Holds(w) /\ Go(w, "release")
    BY <1>1, <1>9 DEF Finish, RaiseIn, Point, queueVars
  <2>2. QED
    BY <1>3, <2>1 DEF Point
<1>10. CASE Release(w)
  <2>1. /\ UNCHANGED <<backlog, pending, recovered>> /\ Holds(w)
        /\ Go(w, "ack") \/ Go(w, "delete")
    BY <1>1, <1>10 DEF Release, Point
  <2>2. QED
    BY <1>3, <2>1 DEF Point
<1>11. CASE Delete(w)
  <2>1. UNCHANGED <<backlog, pending, recovered>> /\ Holds(w) /\ Go(w, "ack")
    BY <1>1, <1>11 DEF Delete, Point
  <2>2. QED
    BY <1>3, <2>1 DEF Point
<1>12. CASE Ack(w)
  BY <1>12, AckQueues
<1>13. CASE Reclaim(w)
  BY <1>13, ReclaimQueues
<1>14. CASE Infer(w)
  <2> DEFINE r == [work[w] EXCEPT !.seq = frame[work[w].task.cam]]
  <2>1. UNCHANGED <<backlog, pending, recovered>> /\ Holds(w)
    BY <1>1, <1>14 DEF Infer, Point, queueVars
  <2>2. work' = [work EXCEPT ![w] = r] /\ r.task = work[w].task
    <3>1. work[w] \in Busy
      BY <1>2, <2>1, HolderBusy
    <3>2. QED
      BY <1>14, <3>1 DEF Infer, Busy
  <2> HIDE DEF r
  <2>3. QED
    BY <1>4, <2>1, <2>2
<1>15. CASE WorkerFails(w)
  <2>1. UNCHANGED <<backlog, pending, recovered>>
    BY <1>15 DEF WorkerFails
  <2>2. CASE At(w, "acquire") /\ Go(w, "ack")
    BY <1>1, <1>3, <2>1, <2>2 DEF Point
  <2>3. CASE work' = [work EXCEPT ![w] = [pc |-> "dead"]]
    <3>1. work'[w] = [pc |-> "dead"] /\ \A v \in Worker \ {w} : work'[v] = work[v]
      BY <1>2, <2>3
    <3>2. \A v \in Worker : Holds(v)' => Holds(v) /\ work'[v].task = work[v].task
      BY <3>1 DEF Holds
    <3>3. \A k \in Kind : InHands(k)' \subseteq InHands(k)
      BY <3>2, FewerHands
    <3>4. QED
      BY <2>1, <3>3, SameQueues
  <2>4. QED
    BY <1>15, <2>2, <2>3 DEF WorkerFails
<1>16. QED
  BY <1>5, <1>6, <1>7, <1>8, <1>9, <1>10, <1>11, <1>12, <1>13, <1>14, <1>15 DEF WorkerStep

LEMMA OutsideQueues ==
  ASSUME CameraTasksAssumption, Types, Queues, Outside
  PROVE  Queues'
<1>1. CASE Restart
  <2>1. /\ work' = [w \in Worker |-> Idle] /\ pending' = pending
        /\ recovered' = [k \in Kind |-> <<>>]
        /\ backlog' = backlog \/ backlog' = [k \in Kind |-> <<>>]
    BY <1>1 DEF Restart
  <2>2. ToSet(<<>>) = {} /\ Len(<<>>) = 0
    BY EmptyQueue
  <2>3. ASSUME NEW k \in Kind PROVE IdsOnce(k)'
    <3>1. InHands(k)' = {}
      BY <2>1 DEF InHands, Holds, Idle
    <3>2. ToSet(backlog'[k]) \subseteq ToSet(backlog[k]) /\ ToSet(recovered'[k]) = {}
      BY <2>1, <2>2
    <3>3. Existing(k)' \subseteq Existing(k)
      BY <2>1, <3>1, <3>2 DEF Existing
    <3>4. QED
      BY <3>3, FewerTasks DEF Queues
  <2>4. ASSUME NEW k \in Kind PROVE Bounded(k)'
    <3>1. Len(backlog'[k]) \in Nat /\ Len(backlog'[k]) <= Len(backlog[k])
      <4>1. Len(backlog[k]) \in Nat
        BY QueueSet DEF Types, QueueTypes
      <4>2. QED
        BY <2>1, <2>2, <4>1
    <3>2. /\ Cardinality(pending[k]) \in Nat /\ Len(backlog[k]) \in Nat /\ QueueMax \in Nat
          /\ Bounded(k)
      BY QueueSet, FS_CardinalityType
         DEF Types, QueueTypes, Queues, Bounded, CameraTasksAssumption
    <3>3. Depth(k)' <= QueueMax
      BY <2>1, <3>1, <3>2 DEF Bounded, Depth
    <3>4. Len(recovered'[k]) <= QueueMax
      BY <2>1, <2>2, <3>2
    <3>5. QED
      BY <2>1, <3>2, <3>3, <3>4 DEF Bounded
  <2>5. QED
    BY <2>3, <2>4 DEF Queues
<1>2. CASE Outside /\ ~Restart
  <2>1. UNCHANGED <<backlog, pending, recovered>> /\ UNCHANGED work
    BY <1>2 DEF Outside, Elapse, Frame, Expire, RemoveMedia, RemoveRuntime, Create,
                ManualBegins, ManualEnds, Outage, OutageEnds, SchedulerFails, queueVars
  <2>2. \A k \in Kind : InHands(k)' \subseteq InHands(k)
    BY <2>1 DEF InHands, Holds
  <2>3. QED
    BY <2>1, <2>2, SameQueues
<1>3. QED
  BY <1>1, <1>2

\* The room that depths() showed is there until the entry is appended: only the
\* scheduler itself puts tasks, and a process that is killed forgets the answer.
LEMMA RoomStep ==
  ASSUME CameraTasksAssumption, Types, Queues, Room, [Next]_vars
  PROVE  Room'
<1>1. CASE Scheduling
  <2>1. CASE Ask
    <3>1. CASE HasRoom(sched.kind)
      <4>1. sched'.kind = sched.kind /\ UNCHANGED <<backlog, pending>>
        BY <2>1, <3>1 DEF Ask, Adding, queueVars
      <4>2. QED
        BY <3>1, <4>1 DEF Room, HasRoom, Depth
    <3>2. CASE ~HasRoom(sched.kind)
      BY <2>1, <3>2 DEF Ask, Room, Looking
    <3>3. QED
      BY <3>1, <3>2
  <2>2. CASE ~Ask
    <3>1. sched'.at # "adding"
      BY <1>1, <2>2 DEF Scheduling, Add, Note, LookMemory, LookRedis, Asking, Noting, Looking
    <3>2. QED
      BY <3>1 DEF Room
  <2>3. QED
    BY <2>1, <2>2
<1>2. ASSUME NEW w \in Worker,
             WorkerStep(w) \/ Reclaim(w) \/ Infer(w) \/ RaiseIn(w) \/ WorkerFails(w)
      PROVE  Room'
  <2>1. sched' = sched
    BY <1>2 DEF WorkerStep, Take, Begin, Acquire, Enter, Finish, Release, Delete, Ack, Reclaim,
                Infer, RaiseIn, WorkerFails
  <2>2. SUFFICES ASSUME sched.at = "adding" PROVE Depth(sched.kind)' < QueueMax
    BY <2>1 DEF Room
  <2>3. PICK k \in Kind : k = sched.kind
    BY <2>2, SchedulePlaces DEF Types
  <2>4. sched'.kind = k /\ Depth(k) < QueueMax
    BY <2>1, <2>2, <2>3 DEF Room
  <2>5. Depth(k)' <= Depth(k) /\ Depth(k)' \in Nat /\ Depth(k) \in Nat /\ QueueMax \in Nat
    BY <1>2, WorkerRoom DEF CameraTasksAssumption
  <2>6. Depth(k)' < QueueMax
    BY <2>4, <2>5
  <2>7. Depth(sched.kind)' = Depth(k)'
    BY <2>4 DEF Depth
  <2>8. QED
    BY <2>6, <2>7
<1>3. CASE Outside
  <2>1. CASE UNCHANGED <<backlog, pending>> /\ UNCHANGED sched
    BY <2>1 DEF Room, Depth
  <2>2. CASE Restart \/ SchedulerFails
    BY <2>2 DEF Restart, SchedulerFails, Room, Looking
  <2>3. ASSUME ~Restart, ~SchedulerFails
        PROVE  UNCHANGED <<backlog, pending>> /\ UNCHANGED sched
    BY <1>3, <2>3 DEF Outside, Elapse, Frame, Expire, RemoveMedia, RemoveRuntime, Create,
                      ManualBegins, ManualEnds, Outage, OutageEnds, queueVars
  <2>4. QED
    BY <2>1, <2>2, <2>3
<1>4. CASE UNCHANGED vars
  BY <1>4 DEF vars, queueVars, Room, Depth
<1>5. QED
  BY <1>1, <1>2, <1>3, <1>4 DEF Next, Outside

-----------------------------------------------------------------------------
(* Analyses: who is analysing a camera, and which frame *)

LEMMA AnalysesInit == Init => InFlight /\ Compared
  BY DEF Init, InFlight, Compared, At, Idle

LEMMA ComparedStep ==
  ASSUME Types, Compared, [Next]_vars
  PROVE  Compared'
<1>1. CASE UNCHANGED <<last, seen>>
  BY <1>1 DEF Compared
<1>2. ASSUME NEW w \in Worker, Finish(w) PROVE Compared'
  <2> DEFINE k == KindOf(w)   c == work[w].task.cam   n == work[w].seq
  <2>1. Holds(w)
    BY <1>2 DEF Finish, At, Holds
  <2>2. k \in Kind /\ c \in Camera /\ n \in 0..MaxFrame
    BY <2>1, HolderBusy DEF Types
  <2>3. last' = Set1(last, k, c, n) /\ seen' = Set1(seen, k, c, n)
    BY <1>2 DEF Finish
  <2>4. /\ last \in [Kind -> [Camera -> 0..MaxFrame]]
        /\ seen \in [Kind -> [Camera -> 0..MaxFrame]]
    BY DEF Types, CameraTypes
  <2> HIDE DEF k, c, n
  <2>5. /\ last'[k][c] = n /\ seen'[k][c] = n
        /\ \A j \in Kind, d \in Camera : j # k \/ d # c =>
             last'[j][d] = last[j][d] /\ seen'[j][d] = seen[j][d]
    <3>1. /\ Set1(last, k, c, n)[k][c] = n
          /\ \A j \in Kind, d \in Camera : j # k \/ d # c =>
               Set1(last, k, c, n)[j][d] = last[j][d]
      BY <2>2, <2>4, SetAt
    <3>2. /\ Set1(seen, k, c, n)[k][c] = n
          /\ \A j \in Kind, d \in Camera : j # k \/ d # c =>
               Set1(seen, k, c, n)[j][d] = seen[j][d]
      BY <2>2, <2>4, SetAt
    <3>3. QED
      BY <2>3, <3>1, <3>2
  <2>6. ASSUME NEW j \in Kind, NEW d \in Camera PROVE seen'[j][d] <= last'[j][d]
    <3>1. CASE j = k /\ d = c
      BY <2>2, <2>5, <3>1
    <3>2. CASE j # k \/ d # c
      BY <2>5, <3>2 DEF Compared
    <3>3. QED
      BY <3>1, <3>2
  <2>7. QED
    BY <2>6 DEF Compared
<1>3. ASSUME NEW c \in Camera, RemoveMedia(c) PROVE Compared'
  <2>1. last' = last /\ seen' = [k \in Kind |-> [seen[k] EXCEPT ![c] = 0]]
    BY <1>3 DEF RemoveMedia
  <2>2. \A k \in Kind : seen[k] \in [Camera -> 0..MaxFrame] /\ last[k] \in [Camera -> 0..MaxFrame]
    BY DEF Types, CameraTypes
  <2>3. \A k \in Kind, d \in Camera : seen'[k][d] = IF d = c THEN 0 ELSE seen[k][d]
    BY <2>1, <2>2
  <2>4. \A k \in Kind, d \in Camera : 0 <= last[k][d]
    BY <2>2
  <2>5. QED
    BY <2>1, <2>3, <2>4 DEF Compared
<1>4. CASE Restart
  BY <1>4 DEF Restart, Compared
<1>5. CASE UNCHANGED vars
  BY <1>5 DEF vars, cameraVars, Compared
<1>6. ASSUME NEW w \in Worker,
             \/ Take(w) \/ Begin(w) \/ Acquire(w) \/ Enter(w) \/ Release(w) \/ Delete(w)
             \/ Ack(w) \/ Reclaim(w) \/ Infer(w) \/ RaiseIn(w) \/ WorkerFails(w)
      PROVE  UNCHANGED <<last, seen>>
  BY <1>6 DEF Take, Begin, Acquire, Enter, Release, Delete, Ack, Reclaim, Infer, RaiseIn,
              WorkerFails, cameraVars
<1>7. CASE Scheduling
  BY <1>1, <1>7 DEF Scheduling, LookMemory, LookRedis, Ask, Add, Note, cameraVars
<1>8. ASSUME Outside, ~Restart, ~\E c \in Camera : RemoveMedia(c)
      PROVE  UNCHANGED <<last, seen>>
  BY <1>8 DEF Outside, Elapse, Frame, Expire, RemoveRuntime, Create, ManualBegins, ManualEnds,
              Outage, OutageEnds, SchedulerFails, cameraVars
<1>9. QED
  BY <1>1, <1>2, <1>3, <1>4, <1>5, <1>6, <1>7, <1>8 DEF Next, WorkerStep, Outside

LEMMA SoundWorker ==
  ASSUME Types, InFlight, NEW w \in Worker, At(w, "analyse")
  PROVE  /\ Holds(w) /\ Sound(w) /\ work[w].task.cam \in Camera /\ KindOf(w) \in Kind
         /\ work[w].seq \in Nat
         /\ seen[KindOf(w)][work[w].task.cam] \in Nat /\ frame[work[w].task.cam] \in Nat
<1>1. Holds(w) /\ Sound(w)
  BY DEF At, Holds, InFlight
<1>2. /\ work[w].task.cam \in Camera /\ KindOf(w) \in Kind /\ work[w].seq \in 0..MaxFrame
  BY <1>1, HolderBusy DEF Types
<1>3. seen[KindOf(w)][work[w].task.cam] \in 0..MaxFrame /\ frame[work[w].task.cam] \in 0..MaxFrame
  BY <1>2 DEF Types, CameraTypes
<1>4. QED
  BY <1>1, <1>2, <1>3

\* The camera that one worker analyses is analysed by no other.
LEMMA AnalysesApart ==
  ASSUME InFlight, NEW v \in Worker, NEW w \in Worker,
         At(v, "analyse"), At(w, "analyse"), v # w
  PROVE  work[v].task.cam # work[w].task.cam
  BY DEF InFlight, Sound

\* An analysis that a step leaves alone
LEMMA AnalysisKept ==
  ASSUME NEW v, Sound(v), work'[v] = work[v],
         lock'[work[v].task.cam] = lock[work[v].task.cam],
         seen'[KindOf(v)][work[v].task.cam] = seen[KindOf(v)][work[v].task.cam],
         frame'[work[v].task.cam] = frame[work[v].task.cam]
  PROVE  Sound(v)'
  BY DEF Sound, KindOf

LEMMA SameAnalyses ==
  ASSUME InFlight, UNCHANGED <<lock, seen, frame>>,
         \A v \in Worker : At(v, "analyse")' => At(v, "analyse") /\ work'[v] = work[v]
  PROVE  InFlight'
  BY AnalysisKept DEF InFlight

LEMMA WorkerAnalyses ==
  ASSUME CameraTasksAssumption, Types, InFlight, Compared, NEW w \in Worker,
         WorkerStep(w) \/ Reclaim(w) \/ Infer(w) \/ RaiseIn(w) \/ WorkerFails(w)
  PROVE  InFlight'
<1> DEFINE k == KindOf(w)   c == work[w].task.cam
<1>1. \A p \in Point : At(w, p) => Holds(w)
  BY DEF At, Point, Holds
<1>2. /\ work \in [Worker -> {Idle, [pc |-> "dead"]} \cup Busy] /\ RunTypes
      /\ lock \in [Camera -> Worker \cup {Free, Manual}] /\ k \in Kind
  BY KindType DEF Types, RunTypes
<1>3. Free \notin Worker
  BY DEF Free, CameraTasksAssumption, Worker
<1>4. Holds(w) => c \in Camera
  BY <1>2, HolderBusy
<1>5. ASSUME UNCHANGED <<lock, seen, frame>>, NEW p \in Point \ {"analyse"}, Holds(w), Go(w, p)
      PROVE  InFlight'
  <2>1. work'[w].pc = p /\ \A v \in Worker \ {w} : work'[v] = work[v]
    BY <1>2, <1>5, WorkerMoves
  <2>2. QED
    BY <1>5, <2>1, SameAnalyses DEF At
<1>6. ASSUME UNCHANGED <<lock, seen, frame>>, NEW r, r.pc # "analyse",
             work' = [work EXCEPT ![w] = r]
      PROVE  InFlight'
  <2>1. work'[w] = r /\ \A v \in Worker \ {w} : work'[v] = work[v]
    BY <1>2, <1>6
  <2>2. QED
    BY <1>6, <2>1, SameAnalyses DEF At
<1>7. CASE Take(w)
  <2>1. UNCHANGED <<lock, seen, frame>>
    BY <1>7 DEF Take, cameraVars, lockVars
  <2>2. \/ work' = [work EXCEPT ![w] = Lent(Head(recovered[k]))]
        \/ work' = [work EXCEPT ![w] = Lent(Head(backlog[k]))]
    BY <1>7 DEF Take
  <2>3. \A e : Lent(e).pc # "analyse"
    BY DEF Lent
  <2>4. QED
    BY <1>6, <2>1, <2>2, <2>3
<1>8. CASE Begin(w) \/ Release(w)
  <2>1. /\ UNCHANGED <<lock, seen, frame>> /\ Holds(w)
        /\ Go(w, "ack") \/ Go(w, "acquire") \/ Go(w, "delete")
    BY <1>1, <1>8 DEF Begin, Release, Point, cameraVars, lockVars
  <2>2. QED
    BY <1>5, <2>1 DEF Point
<1>9. CASE Acquire(w) \/ Delete(w)
  <2>1. /\ UNCHANGED <<lock, seen, frame>> /\ Holds(w)
        /\ Go(w, "ack") \/ Go(w, "wait")
    BY <1>1, <1>9 DEF Acquire, Delete, Point, cameraVars
  <2>2. QED
    BY <1>5, <2>1 DEF Point
<1>10. CASE Enter(w)
  <2>1. Holds(w) /\ lock[c] = Free /\ UNCHANGED <<seen, frame>>
    BY <1>1, <1>10 DEF Enter, Point
  <2>2. CASE Analysable(k, c)
    <3> DEFINE r == [work[w] EXCEPT !.pc = "analyse", !.seq = frame[c]]
    <3>1. r.task = work[w].task /\ r.seq = frame[c]
      <4>1. work[w] \in Busy
        BY <1>2, <2>1, HolderBusy
      <4>2. QED
        BY <4>1 DEF Busy
    <3>2. work' = [work EXCEPT ![w] = r] /\ lock' = [lock EXCEPT ![c] = w]
      BY <1>10, <2>2 DEF Enter
    <3> HIDE DEF r
    <3>3. work'[w] = r /\ \A v \in Worker \ {w} : work'[v] = work[v]
      BY <1>2, <3>2
    <3>4. c \in Camera /\ lock'[c] = w /\ \A d \in Camera \ {c} : lock'[d] = lock[d]
      BY <1>2, <1>4, <2>1, <3>2
    <3>5. Sound(w)'
      <4>1. frame[c] > last[k][c] /\ seen[k][c] <= last[k][c]
        BY <1>2, <2>2, <3>4 DEF Analysable, HasNewFrame, Compared
      <4>2. frame[c] \in 0..MaxFrame /\ last[k][c] \in 0..MaxFrame /\ seen[k][c] \in 0..MaxFrame
        BY <1>2, <3>4 DEF Types, CameraTypes
      <4>3. frame[c] > seen[k][c]
        BY <4>1, <4>2
      <4>4. seen[k][c] < frame[c]
        BY <4>2, <4>3
      <4>5. work'[w].task.cam = c /\ work'[w].seq = frame[c]
        BY <3>1, <3>3
      <4> HIDE DEF c
      <4>6. QED
        BY <2>1, <3>4, <4>3, <4>4, <4>5 DEF Sound, KindOf
    <3>6. ASSUME NEW v \in Worker, v # w, At(v, "analyse")' PROVE Sound(v)'
      <4>1. work'[v] = work[v] /\ At(v, "analyse")
        BY <3>3, <3>6 DEF At
      <4>2. Sound(v) /\ work[v].task.cam \in Camera
        BY <4>1, SoundWorker
      <4>3. work[v].task.cam # c
        BY <1>3, <2>1, <4>2 DEF Sound
      <4>4. lock'[work[v].task.cam] = lock[work[v].task.cam]
        BY <3>4, <4>2, <4>3
      <4>5. QED
        BY <2>1, <4>1, <4>2, <4>4, AnalysisKept
    <3>7. QED
      BY <3>5, <3>6 DEF InFlight
  <2>3. CASE ~Analysable(k, c)
    <3>1. Go(w, "release") /\ UNCHANGED <<lock, seen, frame>>
      BY <1>10, <2>1, <2>3 DEF Enter
    <3>2. QED
      BY <1>5, <2>1, <3>1 DEF Point
  <2>4. QED
    BY <2>2, <2>3
<1>11. ASSUME Holds(w), Sound(w), Go(w, "release"), frame' = frame,
              lock' = [lock EXCEPT ![c] = Free],
              seen' = seen \/ seen' = Set1(seen, k, c, work[w].seq)
       PROVE  InFlight'
  <2>1. work'[w].pc = "release" /\ \A v \in Worker \ {w} : work'[v] = work[v]
    BY <1>2, <1>11, WorkerMoves DEF Point
  <2>2. ASSUME NEW v \in Worker, At(v, "analyse")' PROVE Sound(v)'
    <3>1. v # w /\ work'[v] = work[v] /\ At(v, "analyse")
      BY <2>1, <2>2 DEF At
    <3>2. Sound(v) /\ work[v].task.cam \in Camera /\ KindOf(v) \in Kind
      BY <3>1, SoundWorker
    <3>3. work[v].task.cam # c
      BY <1>11, <3>1, <3>2 DEF Sound
    <3>4. lock'[work[v].task.cam] = lock[work[v].task.cam]
      BY <1>2, <1>11, <3>2, <3>3
    <3>5. seen'[KindOf(v)][work[v].task.cam] = seen[KindOf(v)][work[v].task.cam]
      <4> DEFINE n == work[w].seq   d == work[v].task.cam   j == KindOf(v)
      <4>1. /\ seen \in [Kind -> [Camera -> 0..MaxFrame]] /\ c \in Camera /\ n \in 0..MaxFrame
            /\ j \in Kind /\ d \in Camera /\ d # c /\ k \in Kind
        BY <1>2, <1>4, <1>11, <3>2, <3>3, HolderBusy DEF Types, CameraTypes
      <4>2. seen' = seen \/ seen' = Set1(seen, k, c, n)
        BY <1>11
      <4> HIDE DEF n, d, j, k, c
      <4>3. Set1(seen, k, c, n)[j][d] = seen[j][d]
        BY <4>1, SetAt
      <4>4. seen'[j][d] = seen[j][d]
        BY <4>2, <4>3
      <4>5. QED
        BY <4>4 DEF j, d
    <3>6. QED
      BY <1>11, <3>1, <3>2, <3>4, <3>5, AnalysisKept
  <2>3. QED
    BY <2>2 DEF InFlight
<1>12. CASE Finish(w) \/ RaiseIn(w)
  <2>1. /\ Holds(w) /\ Sound(w)
    BY <1>12, SoundWorker DEF Finish, RaiseIn
  <2>2. QED
    BY <1>11, <1>12, <2>1 DEF Finish, RaiseIn, cameraVars
<1>13. CASE Ack(w)
  <2>1. UNCHANGED <<lock, seen, frame>> /\ work' = [work EXCEPT ![w] = Idle] /\ Idle.pc # "analyse"
    BY <1>13 DEF Ack, Idle, cameraVars, lockVars
  <2>2. QED
    BY <1>6, <2>1
<1>14. CASE Reclaim(w)
  BY <1>14, SameAnalyses DEF Reclaim, At, cameraVars, lockVars
<1>15. CASE Infer(w)
  <2> DEFINE r == [work[w] EXCEPT !.seq = frame[c]]
  <2>1. /\ UNCHANGED <<lock, seen, frame>> /\ work' = [work EXCEPT ![w] = r]
        /\ frame[c] # 0 /\ At(w, "analyse")
    BY <1>15 DEF Infer, cameraVars, lockVars
  <2>2. /\ Holds(w) /\ Sound(w) /\ seen[k][c] \in Nat /\ frame[c] \in Nat
    BY <2>1, SoundWorker
  <2>3. r.task = work[w].task /\ r.seq = frame[c]
    <3>1. work[w] \in Busy
      BY <1>2, <2>2, HolderBusy
    <3>2. QED
      BY <3>1 DEF Busy
  <2> HIDE DEF r
  <2>4. work'[w] = r /\ \A v \in Worker \ {w} : work'[v] = work[v]
    BY <1>2, <2>1
  <2>5. Sound(w)'
    <3>1. work'[w].task.cam = c /\ work'[w].seq = frame[c]
      BY <2>3, <2>4
    <3>2. frame[c] > seen[k][c]
      BY <2>1, <2>2 DEF Sound
    <3>3. lock[c] = w /\ (seen[k][c] = 0 \/ seen[k][c] < frame[c])
      BY <2>2 DEF Sound
    <3> HIDE DEF c
    <3>4. QED
      BY <2>1, <3>1, <3>2, <3>3 DEF Sound, KindOf
  <2>6. ASSUME NEW v \in Worker, v # w, At(v, "analyse")' PROVE Sound(v)'
    <3>1. work'[v] = work[v] /\ At(v, "analyse")
      BY <2>4, <2>6 DEF At
    <3>2. Sound(v)
      BY <3>1, SoundWorker
    <3>3. QED
      BY <2>1, <3>1, <3>2, AnalysisKept
  <2>7. QED
    BY <2>5, <2>6 DEF InFlight
<1>16. CASE WorkerFails(w)
  <2>1. UNCHANGED <<lock, seen, frame>>
    BY <1>16 DEF WorkerFails, cameraVars, lockVars
  <2>2. CASE At(w, "acquire") /\ Go(w, "ack")
    BY <1>1, <1>5, <2>1, <2>2 DEF Point
  <2>3. CASE work' = [work EXCEPT ![w] = [pc |-> "dead"]]
    BY <1>6, <2>1, <2>3
  <2>4. QED
    BY <1>16, <2>2, <2>3 DEF WorkerFails
<1>17. QED
  BY <1>7, <1>8, <1>9, <1>10, <1>12, <1>13, <1>14, <1>15, <1>16 DEF WorkerStep

LEMMA OutsideAnalyses ==
  ASSUME CameraTasksAssumption, Types, InFlight, Outside
  PROVE  InFlight'
<1>1. {Free, Manual} \cap Worker = {}
  BY DEF Free, Manual, CameraTasksAssumption, Worker
<1>2. lock \in [Camera -> Worker \cup {Free, Manual}]
  BY DEF Types, RunTypes
<1>3. ASSUME UNCHANGED work, UNCHANGED <<lock, seen, frame>>
      PROVE  InFlight'
  BY <1>3, SameAnalyses DEF At
<1>4. ASSUME NEW c \in Camera, Frame(c) PROVE InFlight'
  <2>1. /\ UNCHANGED work /\ lock' = lock /\ seen' = seen
        /\ frame' = [frame EXCEPT ![c] = frame[c] + 1]
    BY <1>4 DEF Frame, lockVars
  <2>2. ASSUME NEW v \in Worker, At(v, "analyse")' PROVE Sound(v)'
    <3> DEFINE k == KindOf(v)   d == work[v].task.cam
    <3>1. At(v, "analyse")
      BY <2>1, <2>2 DEF At
    <3>2. Sound(v) /\ d \in Camera /\ seen[k][d] \in Nat /\ frame[d] \in Nat
      BY <3>1, SoundWorker
    <3>3. frame'[d] \in {frame[d], frame[d] + 1}
      BY <2>1, <3>2 DEF Types, CameraTypes
    <3>4. seen[k][d] = 0 \/ seen[k][d] < frame'[d]
      BY <3>2, <3>3 DEF Sound
    <3>5. lock[d] = v /\ work[v].seq > seen[k][d]
      BY <3>2 DEF Sound
    <3>6. QED
      BY <2>1, <3>4, <3>5 DEF Sound, KindOf
  <2>3. QED
    BY <2>2 DEF InFlight
<1>5. ASSUME NEW c \in Camera, RemoveMedia(c) PROVE InFlight'
  <2>1. /\ UNCHANGED work /\ lock' = lock /\ frame' = [frame EXCEPT ![c] = 0]
        /\ seen' = [k \in Kind |-> [seen[k] EXCEPT ![c] = 0]]
    BY <1>5 DEF RemoveMedia, lockVars
  <2>2. ASSUME NEW v \in Worker, At(v, "analyse")' PROVE Sound(v)'
    <3> DEFINE k == KindOf(v)   d == work[v].task.cam
    <3>1. At(v, "analyse")
      BY <2>1, <2>2 DEF At
    <3>2. /\ Sound(v) /\ d \in Camera /\ seen[k][d] \in Nat /\ work[v].seq \in Nat
          /\ k \in Kind
      BY <3>1, SoundWorker
    <3>3. lock[d] = v /\ work[v].seq > seen[k][d] /\ work[v].seq > 0
          /\ (seen[k][d] = 0 \/ seen[k][d] < frame[d])
      BY <3>2 DEF Sound
    <3>4. /\ seen'[k][d] = IF d = c THEN 0 ELSE seen[k][d]
          /\ frame'[d] = IF d = c THEN 0 ELSE frame[d]
      BY <2>1, <3>2 DEF Types, CameraTypes
    <3>5. work[v].seq > seen'[k][d] /\ (seen'[k][d] = 0 \/ seen'[k][d] < frame'[d])
      BY <3>3, <3>4
    <3>6. QED
      BY <2>1, <3>3, <3>5 DEF Sound, KindOf
  <2>3. QED
    BY <2>2 DEF InFlight
<1>6. CASE Restart
  BY <1>6 DEF Restart, InFlight, At, Idle
<1>7. ASSUME NEW c \in Camera, NEW l, UNCHANGED work, UNCHANGED <<seen, frame>>,
             lock' = [lock EXCEPT ![c] = l], lock[c] \notin Worker
      PROVE  InFlight'
  <2>1. ASSUME NEW v \in Worker, At(v, "analyse")' PROVE Sound(v)'
    <3>1. At(v, "analyse")
      BY <1>7, <2>1 DEF At
    <3>2. Sound(v) /\ work[v].task.cam \in Camera
      BY <3>1, SoundWorker
    <3>3. work[v].task.cam # c
      BY <1>7, <3>2 DEF Sound
    <3>4. lock'[work[v].task.cam] = lock[work[v].task.cam]
      BY <1>2, <1>7, <3>2, <3>3
    <3>5. QED
      BY <1>7, <3>2, <3>4, AnalysisKept
  <2>2. QED
    BY <2>1 DEF InFlight
<1>8. ASSUME NEW c \in Camera, ManualBegins(c) \/ ManualEnds(c) PROVE InFlight'
  <2>1. /\ UNCHANGED work /\ UNCHANGED <<seen, frame>>
        /\ lock' = [lock EXCEPT ![c] = Manual] \/ lock' = [lock EXCEPT ![c] = Free]
        /\ lock[c] \in {Free, Manual}
    BY <1>8 DEF ManualBegins, ManualEnds, cameraVars
  <2>2. QED
    BY <1>1, <1>7, <2>1
<1>9. ASSUME ~Restart,
             ~\E c \in Camera : Frame(c) \/ RemoveMedia(c) \/ ManualBegins(c) \/ ManualEnds(c)
      PROVE  UNCHANGED work /\ UNCHANGED <<lock, seen, frame>>
  BY <1>9 DEF Outside, Elapse, Expire, RemoveRuntime, Create, Outage, OutageEnds,
              SchedulerFails, cameraVars, lockVars
<1>10. QED
  BY <1>3, <1>4, <1>5, <1>6, <1>8, <1>9

LEMMA SchedulingAnalyses ==
  ASSUME InFlight, Scheduling
  PROVE  InFlight'
<1>1. UNCHANGED work /\ UNCHANGED <<lock, seen, frame>>
  BY DEF Scheduling, LookMemory, LookRedis, Ask, Add, Note, cameraVars, lockVars
<1>2. QED
  BY <1>1, SameAnalyses DEF At

-----------------------------------------------------------------------------
(* Without Redis: the marks of the scheduler *)

LEMMA MemoryInit == Init => InMemory
  BY DEF Init, InMemory

\* A mark whose task is still there
LEMMA MarksKept ==
  ASSUME InMemory, NEW k \in Kind, NEW c \in queued[k],
         ToSet(backlog[k]) \subseteq ToSet(backlog'[k]),
         \A v \in Worker : Holds(v) /\ work[v].pc # "ack" /\ work[v].task.cam = c =>
           Holds(v)' /\ work'[v].pc # "ack" /\ work'[v].task.cam = c
  PROVE  Waits(k, c)'
  BY DEF InMemory, Waits, KindOf

\* The scheduler, the lists and the marks stay as they are.
LEMMA QuietMemory ==
  ASSUME InMemory, UNCHANGED <<sched, outage>>, UNCHANGED queueVars, UNCHANGED work
  PROVE  InMemory'
  BY DEF InMemory, queueVars, Waits, Holds, KindOf

LEMMA SchedulingMemory ==
  ASSUME CameraTasksAssumption, Types, Queues, ~UsesRedis, InMemory, Scheduling
  PROVE  InMemory'
<1>1. PICK k \in Kind, c \in Camera : LookMemory(k, c)
  BY DEF Scheduling, LookRedis, Ask, Add, Note, InMemory, Looking
<1>2. UNCHANGED <<sched, outage>> /\ UNCHANGED <<pending, recovered>> /\ UNCHANGED work
  BY <1>1 DEF LookMemory, bounds
<1>3. ASSUME UNCHANGED <<backlog, queued>> PROVE InMemory'
  BY <1>2, <1>3, QuietMemory DEF queueVars
<1>4. ASSUME c \notin queued[k], Len(backlog[k]) < QueueMax, Append1(k, c),
             queued' = [queued EXCEPT ![k] = @ \cup {c}]
      PROVE  InMemory'
  <2> DEFINE e == FreshTask(k, c)
  <2>1. /\ backlog \in [Kind -> Seq(Entry)] /\ backlog[k] \in Seq(Entry)
        /\ queued \in [Kind -> SUBSET Camera]
    BY DEF Types, QueueTypes
  <2>2. e \in Entry /\ e.cam = c
    <3>1. Depth(k) < QueueMax /\ Bounded(k)
      BY <1>4, ShortInMemory DEF Types, Queues
    <3>2. QED
      BY <3>1, FreeId DEF Types
  <2>3. backlog' = [backlog EXCEPT ![k] = Append(backlog[k], e)]
    BY <1>4 DEF Append1
  <2> HIDE DEF e
  <2>4. /\ ToSet(backlog'[k]) = ToSet(backlog[k]) \cup {e}
        /\ \A j \in Kind \ {k} : backlog'[j] = backlog[j]
    BY <2>1, <2>2, <2>3, AppendQueue
  <2>5. \A j \in Kind : ToSet(backlog[j]) \subseteq ToSet(backlog'[j])
    BY <2>4
  <2>6. ASSUME NEW j \in Kind, NEW d \in queued'[j] PROVE Waits(j, d)'
    <3>1. CASE d \in queued[j]
      BY <1>2, <2>5, <3>1, MarksKept DEF Holds
    <3>2. CASE d \notin queued[j]
      <4>1. j = k /\ d = c
        BY <1>4, <2>1, <2>6, <3>2
      <4>2. QED
        BY <2>2, <2>4, <4>1 DEF Waits
    <3>3. QED
      BY <3>1, <3>2
  <2>7. QED
    BY <1>2, <2>6 DEF InMemory
<1>5. QED
  BY <1>1, <1>3, <1>4 DEF LookMemory

\* A worker that reaches its end forgets its camera.
LEMMA ForgetMarks ==
  ASSUME Types, InMemory, NEW w \in Worker, Holds(w), Go(w, "ack"),
         Forgotten(KindOf(w), work[w].task.cam),
         UNCHANGED <<backlog, pending, recovered>>, UNCHANGED <<sched, outage>>
  PROVE  InMemory'
<1> DEFINE k == KindOf(w)   c == work[w].task.cam
<1>1. k \in Kind /\ c \in Camera /\ queued \in [Kind -> SUBSET Camera]
  BY HolderBusy DEF Types, QueueTypes
<1>2. queued' = [queued EXCEPT ![k] = @ \ {c}]
  BY DEF Forgotten
<1>3. \A v \in Worker \ {w} : work'[v] = work[v]
  BY WorkerMoves DEF Types, Point
<1>4. ASSUME NEW j \in Kind, NEW d \in queued'[j] PROVE Waits(j, d)'
  <2>1. d \in queued[j] /\ (j = k => d # c)
    BY <1>1, <1>2, <1>4
  <2>2. Waits(j, d)
    BY <2>1 DEF InMemory
  <2>3. CASE \E e \in ToSet(backlog[j]) : e.cam = d
    BY <2>3 DEF Waits
  <2>4. ASSUME NEW v \in Worker, Holds(v), KindOf(v) = j, work[v].pc # "ack",
               work[v].task.cam = d
        PROVE  Waits(j, d)'
    <3>1. v # w
      BY <2>1, <2>4
    <3>2. work'[v] = work[v]
      BY <1>3, <3>1
    <3>3. QED
      BY <2>4, <3>2 DEF Waits, Holds, KindOf
  <2>5. QED
    BY <2>2, <2>3, <2>4 DEF Waits
<1>5. QED
  BY <1>4 DEF InMemory

\* A worker that is not at its end keeps its task.
LEMMA WorkingMarks ==
  ASSUME Types, InMemory, NEW w \in Worker, Holds(w), NEW r,
         work' = [work EXCEPT ![w] = r], r.task = work[w].task,
         r.pc \notin {"idle", "dead", "ack"},
         UNCHANGED queueVars, UNCHANGED <<sched, outage>>
  PROVE  InMemory'
<1>1. work'[w] = r /\ \A v \in Worker \ {w} : work'[v] = work[v]
  BY DEF Types, RunTypes
<1>2. ASSUME NEW k \in Kind, NEW c \in queued[k] PROVE Waits(k, c)'
  <2>1. \A v \in Worker : Holds(v) /\ work[v].pc # "ack" /\ work[v].task.cam = c =>
           Holds(v)' /\ work'[v].pc # "ack" /\ work'[v].task.cam = c
    BY <1>1 DEF Holds
  <2>2. QED
    BY <1>2, <2>1, MarksKept DEF queueVars
<1>3. QED
  BY <1>2 DEF InMemory, queueVars

LEMMA TakeMemory ==
  ASSUME CameraTasksAssumption, Types, ~UsesRedis, InMemory, NEW w \in Worker, Take(w)
  PROVE  InMemory'
<1> DEFINE k == KindOf(w)   e == Head(backlog[k])   t == Tail(backlog[k])
<1>1. /\ k \in Kind /\ backlog \in [Kind -> Seq(Entry)] /\ backlog[k] \in Seq(Entry)
      /\ work \in [Worker -> {Idle, [pc |-> "dead"]} \cup Busy]
  BY KindType DEF Types, QueueTypes, RunTypes
<1>2. /\ backlog[k] # <<>> /\ work' = [work EXCEPT ![w] = Lent(e)]
      /\ backlog' = [backlog EXCEPT ![k] = t]
      /\ UNCHANGED <<pending, recovered>> /\ UNCHANGED queued
      /\ UNCHANGED <<sched, outage>> /\ ~Holds(w)
  BY <1>1 DEF Take, InMemory, bounds, At, Holds
<1>3. ToSet(backlog[k]) = ToSet(t) \cup {e}
  BY <1>1, <1>2, TailQueue
<1> HIDE DEF e, t
<1>4. /\ work'[w] = Lent(e) /\ \A v \in Worker \ {w} : work'[v] = work[v]
      /\ backlog'[k] = t /\ \A j \in Kind \ {k} : backlog'[j] = backlog[j]
  BY <1>1, <1>2
<1>5. ASSUME NEW j \in Kind, NEW d \in queued[j] PROVE Waits(j, d)'
  <2>1. Waits(j, d)
    BY <1>5 DEF InMemory
  <2>2. ASSUME NEW f \in ToSet(backlog[j]), f.cam = d PROVE Waits(j, d)'
    <3>1. CASE j = k /\ f = e
      <4>1. Holds(w)' /\ work'[w].pc # "ack" /\ work'[w].task.cam = d
        BY <1>4, <2>2, <3>1 DEF Lent, Holds
      <4>2. QED
        BY <3>1, <4>1 DEF Waits, KindOf
    <3>2. CASE ~(j = k /\ f = e)
      <4>1. f \in ToSet(backlog'[j])
        BY <1>3, <1>4, <2>2, <3>2
      <4>2. QED
        BY <2>2, <4>1 DEF Waits
    <3>3. QED
      BY <3>1, <3>2
  <2>3. ASSUME NEW v \in Worker, Holds(v), KindOf(v) = j, work[v].pc # "ack",
               work[v].task.cam = d
        PROVE  Waits(j, d)'
    <3>1. work'[v] = work[v]
      BY <1>2, <1>4, <2>3
    <3>2. QED
      BY <2>3, <3>1 DEF Waits, Holds, KindOf
  <2>4. QED
    BY <2>1, <2>2, <2>3 DEF Waits
<1>6. QED
  BY <1>2, <1>5 DEF InMemory

LEMMA AckMemory ==
  ASSUME Types, InMemory, NEW w \in Worker, Ack(w)
  PROVE  InMemory'
<1>1. /\ work' = [work EXCEPT ![w] = Idle] /\ At(w, "ack")
      /\ UNCHANGED <<backlog, recovered>> /\ UNCHANGED queued /\ UNCHANGED <<sched, outage>>
      /\ pending' = [pending EXCEPT ![KindOf(w)] = @ \ {work[w].task}]
  BY DEF Ack, bounds
<1>2. /\ work \in [Worker -> {Idle, [pc |-> "dead"]} \cup Busy]
      /\ pending \in [Kind -> SUBSET Entry]
  BY DEF Types, RunTypes, QueueTypes
<1>3. \A k \in Kind : pending'[k] = {}
  BY <1>1, <1>2 DEF InMemory
<1>4. \A v \in Worker \ {w} : work'[v] = work[v]
  BY <1>1, <1>2
<1>5. ASSUME NEW k \in Kind, NEW c \in queued[k] PROVE Waits(k, c)'
  <2>1. \A v \in Worker : Holds(v) /\ work[v].pc # "ack" /\ work[v].task.cam = c =>
           Holds(v)' /\ work'[v].pc # "ack" /\ work'[v].task.cam = c
    BY <1>1, <1>4 DEF Holds, At
  <2>2. QED
    BY <1>1, <1>5, <2>1, MarksKept
<1>6. QED
  BY <1>1, <1>3, <1>5 DEF InMemory

LEMMA WorkerMemory ==
  ASSUME CameraTasksAssumption, Types, ~UsesRedis, InMemory, NEW w \in Worker,
         WorkerStep(w) \/ Reclaim(w) \/ Infer(w) \/ RaiseIn(w) \/ WorkerFails(w)
  PROVE  InMemory'
<1> DEFINE k == KindOf(w)   c == work[w].task.cam
<1>1. \A p \in Point : At(w, p) => Holds(w)
  BY DEF At, Point, Holds
<1>2. Holds(w) => work[w] \in Busy
  BY HolderBusy DEF Types
<1>3. ASSUME Holds(w), NEW p \in Point \ {"ack"}, Go(w, p),
             UNCHANGED queueVars, UNCHANGED <<sched, outage>>
      PROVE  InMemory'
  <2> DEFINE r == [work[w] EXCEPT !.pc = p]
  <2>1. r.task = work[w].task /\ r.pc \notin {"idle", "dead", "ack"}
    BY <1>2, <1>3 DEF Busy, Point
  <2>2. work' = [work EXCEPT ![w] = r]
    BY <1>3 DEF Go
  <2> HIDE DEF r
  <2>3. QED
    BY <1>3, <2>1, <2>2, WorkingMarks
<1>4. CASE Take(w)
  BY <1>4, TakeMemory
<1>5. CASE Begin(w)
  <2>1. /\ Holds(w) /\ UNCHANGED <<backlog, pending, recovered>> /\ UNCHANGED <<sched, outage>>
        /\ \/ Go(w, "ack") /\ Forgotten(k, c)
           \/ Go(w, "acquire") /\ UNCHANGED queued
    BY <1>1, <1>5 DEF Begin, Point, bounds
  <2>2. QED
    BY <1>3, <2>1, ForgetMarks DEF Point, queueVars
<1>6. CASE Acquire(w)
  <2>1. /\ Holds(w) /\ Go(w, "wait") /\ UNCHANGED queueVars /\ UNCHANGED <<sched, outage>>
    BY <1>1, <1>6 DEF Acquire, Point, bounds, queueVars
  <2>2. QED
    BY <1>3, <2>1 DEF Point
<1>7. CASE Enter(w)
  <2>1. Holds(w) /\ UNCHANGED queueVars /\ UNCHANGED <<sched, outage>>
    BY <1>1, <1>7 DEF Enter, Point, bounds
  <2>2. CASE Analysable(k, c)
    <3> DEFINE r == [work[w] EXCEPT !.pc = "analyse", !.seq = frame[c]]
    <3>1. r.task = work[w].task /\ r.pc \notin {"idle", "dead", "ack"}
      BY <1>2, <2>1 DEF Busy
    <3>2. work' = [work EXCEPT ![w] = r]
      BY <1>7, <2>2 DEF Enter
    <3> HIDE DEF r
    <3>3. QED
      BY <2>1, <3>1, <3>2, WorkingMarks
  <2>3. CASE ~Analysable(k, c)
    <3>1. Go(w, "release")
      BY <1>7, <2>3 DEF Enter
    <3>2. QED
      BY <1>3, <2>1, <3>1 DEF Point
  <2>4. QED
    BY <2>2, <2>3
<1>8. CASE Finish(w) \/ RaiseIn(w)
  <2>1. /\ Holds(w) /\ Go(w, "release") /\ UNCHANGED queueVars /\ UNCHANGED <<sched, outage>>
    BY <1>1, <1>8 DEF Finish, RaiseIn, Point, bounds
  <2>2. QED
    BY <1>3, <2>1 DEF Point
<1>9. CASE Release(w)
  <2>1. /\ Holds(w) /\ UNCHANGED <<backlog, pending, recovered>> /\ UNCHANGED <<sched, outage>>
        /\ Go(w, "ack") /\ Forgotten(k, c)
    BY <1>1, <1>9 DEF Release, Point, bounds
  <2>2. QED
    BY <2>1, ForgetMarks
<1>10. CASE Delete(w)
  <2>1. /\ Holds(w) /\ UNCHANGED <<backlog, pending, recovered>> /\ UNCHANGED <<sched, outage>>
        /\ Go(w, "ack") /\ Forgotten(k, c)
    BY <1>1, <1>10 DEF Delete, Point, bounds
  <2>2. QED
    BY <2>1, ForgetMarks
<1>11. CASE Ack(w)
  BY <1>11, AckMemory
<1>12. CASE Reclaim(w) \/ WorkerFails(w)
  BY <1>12 DEF Reclaim, WorkerFails, InMemory
<1>13. CASE Infer(w)
  <2> DEFINE r == [work[w] EXCEPT !.seq = frame[c]]
  <2>1. /\ Holds(w) /\ UNCHANGED queueVars /\ UNCHANGED <<sched, outage>> /\ At(w, "analyse")
        /\ work' = [work EXCEPT ![w] = r]
    BY <1>1, <1>13 DEF Infer, Point, bounds
  <2>2. r.task = work[w].task /\ r.pc \notin {"idle", "dead", "ack"}
    BY <1>2, <2>1 DEF Busy, At
  <2> HIDE DEF r
  <2>3. QED
    BY <2>1, <2>2, WorkingMarks
<1>14. QED
  BY <1>4, <1>5, <1>6, <1>7, <1>8, <1>9, <1>10, <1>11, <1>12, <1>13 DEF WorkerStep

LEMMA OutsideMemory ==
  ASSUME Types, ~UsesRedis, InMemory, Outside
  PROVE  InMemory'
<1>1. CASE Restart
  BY <1>1 DEF Restart, InMemory
<1>2. ASSUME NEW c \in Camera, RemoveRuntime(c) PROVE InMemory'
  <2>1. /\ queued' = [k \in Kind |-> queued[k] \ {c}]
        /\ UNCHANGED <<backlog, pending, recovered>> /\ UNCHANGED <<sched, outage>>
        /\ UNCHANGED work
    BY <1>2 DEF RemoveRuntime, bounds
  <2>2. ASSUME NEW k \in Kind, NEW d \in queued[k] PROVE Waits(k, d)'
    BY <2>1, <2>2, MarksKept DEF Holds
  <2>3. QED
    BY <2>1, <2>2 DEF InMemory
<1>3. ASSUME ~Restart, ~\E c \in Camera : RemoveRuntime(c)
      PROVE  UNCHANGED <<sched, outage>> /\ UNCHANGED queueVars /\ UNCHANGED work
  BY <1>3 DEF Outside, Elapse, Frame, Expire, RemoveMedia, Create, ManualBegins, ManualEnds,
              Outage, OutageEnds, SchedulerFails, InMemory, bounds
<1>4. QED
  BY <1>1, <1>2, <1>3, QuietMemory

-----------------------------------------------------------------------------
(* The theorems *)

LEMMA InvariantHolds == Spec => []IInv
<1>1. Init => IInv
  <2>1. Init => Room
    BY DEF Init, Room, Looking
  <2>2. QED
    BY <2>1, CameraTasksAssumption, TypesInit, QueuesInit, AnalysesInit, MemoryInit DEF IInv
<1>2. IInv /\ [Next]_vars => IInv'
  <2> SUFFICES ASSUME IInv, [Next]_vars PROVE IInv'
    OBVIOUS
  <2>1. /\ CameraTasksAssumption /\ Types /\ Queues /\ Room /\ InFlight /\ Compared
        /\ (~UsesRedis => InMemory) /\ \A k \in Kind : Bounded(k)
    BY CameraTasksAssumption DEF IInv, Queues
  <2>2. Compared' /\ Room'
    BY <2>1, ComparedStep, RoomStep
  <2>3. CASE Scheduling
    BY <2>1, <2>2, <2>3, SchedulingTypes, SchedulingQueues, SchedulingAnalyses,
       SchedulingMemory DEF IInv
  <2>4. ASSUME NEW w \in Worker,
               WorkerStep(w) \/ Reclaim(w) \/ Infer(w) \/ RaiseIn(w) \/ WorkerFails(w)
        PROVE  IInv'
    BY <2>1, <2>2, <2>4, WorkerTypes, WorkerQueues, WorkerAnalyses, WorkerMemory DEF IInv
  <2>5. CASE Outside
    BY <2>1, <2>2, <2>5, OutsideTypes, OutsideQueues, OutsideAnalyses, OutsideMemory DEF IInv
  <2>6. CASE UNCHANGED vars
    <3>1. /\ UNCHANGED cameraVars /\ UNCHANGED queueVars /\ UNCHANGED sched /\ UNCHANGED work
          /\ UNCHANGED lockVars /\ UNCHANGED outage
      BY <2>6 DEF vars, bounds
    <3>2. Types'
      BY <2>1, <3>1 DEF Types, CameraTypes, QueueTypes, RunTypes, cameraVars, queueVars,
                        lockVars
    <3>3. Queues'
      <4>1. UNCHANGED <<backlog, pending, recovered>>
        BY <3>1 DEF queueVars
      <4>2. \A k \in Kind : InHands(k)' \subseteq InHands(k)
        BY <3>1 DEF InHands, Holds
      <4>3. QED
        BY <2>1, <4>1, <4>2, SameQueues
    <3>4. InFlight'
      BY <2>1, <3>1, SameAnalyses DEF cameraVars, lockVars, At
    <3>5. ~UsesRedis => InMemory'
      <4>1. UNCHANGED <<sched, outage>>
        BY <3>1
      <4>2. QED
        BY <2>1, <3>1, <4>1, QuietMemory
    <3>6. QED
      BY <2>2, <3>2, <3>3, <3>4, <3>5 DEF IInv
  <2>7. QED
    BY <2>3, <2>4, <2>5, <2>6 DEF Next, Outside
<1>3. QED
  BY <1>1, <1>2, PTL DEF Spec

\* AnalysesSound: however tasks are duplicated by reclaiming and the locks in
\* Redis expire under their holders, two workers never analyse one camera (nor
\* a worker and a user), and a worker never analyses a frame that was analysed
\* before.
THEOREM AnalysesSoundAlways == Spec => []AnalysesSound
<1>1. IInv => AnalysesSound
  <2> SUFFICES ASSUME IInv, NEW w \in Worker, At(w, "analyse")
               PROVE  /\ \A v \in Worker \ {w} :
                           ~(At(v, "analyse") /\ work[v].task.cam = work[w].task.cam)
                      /\ lock[work[w].task.cam] = w
                      /\ work[w].seq > seen[KindOf(w)][work[w].task.cam]
    BY DEF AnalysesSound, OneInFlight, InFlightIsNew
  <2>1. InFlight
    BY DEF IInv
  <2>2. Sound(w)
    BY <2>1 DEF InFlight
  <2>3. QED
    BY <2>1, <2>2, AnalysesApart DEF Sound
<1>2. QED
  BY <1>1, InvariantHolds, PTL

\* DepthBounded: the queue of a line, with what was read and not acknowledged,
\* never holds more than analysis_queue_maxsize tasks, although enqueue appends on
\* an answer of depths() that workers, reclaims and restarts may have overtaken.
THEOREM DepthBoundedAlways == Spec => []DepthBounded
<1>1. IInv => DepthBounded
  BY DEF IInv, Queues, Bounded, DepthBounded
<1>2. QED
  BY <1>1, InvariantHolds, PTL

\* An id names one task: two records of one id are one task that was reclaimed.
LEMMA IdsCounted ==
  ASSUME CameraTasksAssumption, Types, Queues, NEW k \in Kind
  PROVE  Cardinality({e.id : e \in Existing(k)}) = Cardinality(Existing(k))
<1> DEFINE E == Existing(k)   I == {e.id : e \in E}   f == [e \in E |-> e.id]
<1>1. IsFiniteSet(E) /\ \A e, g \in E : e.id = g.id => e = g
  BY TasksFinite DEF Types, Queues, IdsOnce
<1> HIDE DEF E
<1>2. f \in [E -> I] /\ (\A i \in I : \E e \in E : f[e] = i) /\ (\A e, g \in E : f[e] = f[g] => e = g)
  BY <1>1
<1> HIDE DEF I, f
<1>3. f \in Surjection(E, I) /\ f \in Injection(E, I)
  BY <1>2, Fun_IsSurj, Fun_IsInj
<1>4. Cardinality(I) = Cardinality(E)
  BY <1>1, <1>3, FS_Surjection
<1>5. QED
  BY <1>4 DEF E, I

\* The type invariant holds with Redis and without.
LEMMA TypesHold == IInv => TypeOK
<1> SUFFICES ASSUME IInv PROVE TypeOK
  OBVIOUS
<1>1. CameraTasksAssumption /\ Types /\ Queues
  BY CameraTasksAssumption DEF IInv
<1>2. \A k \in Kind : Cardinality({e.id : e \in Existing(k)}) = Cardinality(Existing(k))
  BY <1>1, IdsCounted
<1>3. \A w \in Worker : Holds(w) => work[w].task \in Entry /\ work[w].seq \in 0..MaxFrame
  BY <1>1, HolderBusy DEF Types
<1>4. QED
  BY <1>1, <1>2, <1>3 DEF Types, CameraTypes, QueueTypes, RunTypes, TypeOK

\* Every state is within the types: in particular an id never names two tasks.
THEOREM TypeCorrect == Spec => []TypeOK
  BY TypesHold, InvariantHolds, PTL

\* TasksSound, for a process without Redis: the types, the lock that workers and
\* users share, and no camera is marked as queued without a task.
THEOREM TasksSoundInMemory == ~UsesRedis => (Spec => []TasksSound)
<1>1. ~UsesRedis /\ IInv => QueuedHasTask
  <2> SUFFICES ASSUME ~UsesRedis, IInv, NEW k \in Kind, NEW c \in queued[k]
               PROVE  HasTask(k, c)
    BY DEF QueuedHasTask
  <2>1. Waits(k, c)
    BY DEF IInv, InMemory
  <2>2. QED
    BY <2>1 DEF Waits, HasTask
<1>2. ~UsesRedis /\ IInv /\ AnalysesSound => TasksSound
  BY <1>1, TypesHold DEF TasksSound, AnalysesSound
<1>3. ASSUME ~UsesRedis PROVE Spec => []TasksSound
  <2>1. IInv /\ AnalysesSound => TasksSound
    BY <1>2, <1>3
  <2>2. QED
    BY <2>1, InvariantHolds, AnalysesSoundAlways, PTL
<1>4. QED
  BY <1>3
=============================================================================
