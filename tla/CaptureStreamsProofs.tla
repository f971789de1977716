------------------------- MODULE CaptureStreamsProofs -------------------------
(***************************************************************************)
(* Proofs about CapturePersistence and CaptureStreams and, at the end,     *)
(* about YoloBatch.                                                        *)
(***************************************************************************)
EXTENDS CaptureStreams, SequenceTheorems, FunctionTheorems, FiniteSetTheorems, TLAPS

-----------------------------------------------------------------------------
(* What the operators on sequences return *)

Rank(I, i) == Cardinality({j \in I : j <= i})

\* The places I are ranked 1, 2, ..., one each.
LEMMA Ranks ==
  ASSUME NEW n \in Nat, NEW I \in SUBSET (1..n)
  PROVE  /\ IsFiniteSet(I)
         /\ \A i \in I : Rank(I, i) \in 1..Cardinality(I)
         /\ \A i, k \in I : Rank(I, i) = Rank(I, k) => i = k
         /\ \A m \in 1..Cardinality(I) : \E i \in I : Rank(I, i) = m
<1> DEFINE below(i) == {j \in I : j <= i}
           rank == [i \in I |-> Rank(I, i)]
<1>1. IsFiniteSet(I) /\ Cardinality(I) \in Nat
  <2>1. IsFiniteSet(1..n)
    BY FS_Interval
  <2>2. IsFiniteSet(I)
    BY <2>1, FS_Subset
  <2>3. QED BY <2>2, FS_CardinalityType
<1>2. ASSUME NEW i \in I
      PROVE  Rank(I, i) \in 1..Cardinality(I)
  <2>1. below(i) \in SUBSET I /\ i \in below(i)
    OBVIOUS
  <2>2. IsFiniteSet(below(i)) /\ Cardinality(below(i)) <= Cardinality(I)
    BY <1>1, <2>1, FS_Subset
  <2>3. Cardinality(below(i)) \in Nat /\ Cardinality(below(i)) # 0
    BY <2>1, <2>2, FS_CardinalityType, FS_EmptySet
  <2>4. QED BY <1>1, <2>2, <2>3 DEF Rank
<1>3. ASSUME NEW i \in I, NEW k \in I, i < k
      PROVE  Rank(I, i) < Rank(I, k)
  <2>1. below(k) \in SUBSET I /\ below(i) \in SUBSET below(k) /\ k \in below(k) /\ k \notin below(i)
    <3>1. \A j \in I : j \in Int
      OBVIOUS
    <3>2. \A j \in I : j <= i => j <= k
      BY <1>3, <3>1
    <3>3. k <= k /\ ~(k <= i)
      BY <1>3, <3>1
    <3>4. QED BY <3>2, <3>3
  <2>2. IsFiniteSet(below(k)) /\ IsFiniteSet(below(i))
    BY <1>1, <2>1, FS_Subset
  <2>3. Cardinality(below(i)) <= Cardinality(below(k)) /\ Cardinality(below(i)) # Cardinality(below(k))
    BY <2>1, <2>2, FS_Subset
  <2>4. Cardinality(below(i)) \in Nat /\ Cardinality(below(k)) \in Nat
    BY <2>2, FS_CardinalityType
  <2>5. QED BY <2>3, <2>4 DEF Rank
<1>4. \A i, k \in I : Rank(I, i) = Rank(I, k) => i = k
  <2>1. ASSUME NEW i \in I, NEW k \in I, Rank(I, i) = Rank(I, k), i # k
        PROVE  FALSE
    <3>1. i < k \/ k < i
      BY <2>1
    <3>2. Rank(I, i) \in Nat /\ Rank(I, k) \in Nat
      BY <1>1, <1>2
    <3>3. Rank(I, i) < Rank(I, k) \/ Rank(I, k) < Rank(I, i)
      BY <1>3, <3>1
    <3>4. QED BY <2>1, <3>2, <3>3
  <2>2. QED BY <2>1
<1>5. rank \in Injection(I, 1..Cardinality(I))
  BY <1>2, <1>4 DEF Injection, IsInjective
<1>6. IsFiniteSet(1..Cardinality(I)) /\ Cardinality(1..Cardinality(I)) = Cardinality(I)
  BY <1>1, FS_Interval
<1>7. rank \in Surjection(I, 1..Cardinality(I))
  BY <1>5, <1>6, FS_Injection
<1>8. \A m \in 1..Cardinality(I) : \E i \in I : rank[i] = m
  BY <1>7 DEF Surjection
<1>9. QED BY <1>1, <1>2, <1>4, <1>8

\* What is picked from a sequence: the elements at the places, once each.
LEMMA PickedIs ==
  ASSUME NEW T, NEW s \in Seq(T), NEW I \in SUBSET DOMAIN s
  PROVE  /\ Picked(s, I) \in Seq(T)
         /\ \A k \in DOMAIN Picked(s, I) : \E i \in I : Picked(s, I)[k] = s[i]
         /\ \A i \in I : \E k \in DOMAIN Picked(s, I) : Picked(s, I)[k] = s[i]
         /\ IsInjective(s) => IsInjective(Picked(s, I))
<1> DEFINE n == Cardinality(I)
           place(m) == CHOOSE i \in I : Rank(I, i) = m
<1>1. /\ n \in Nat
      /\ \A i \in I : Rank(I, i) \in 1..n
      /\ \A i, k \in I : Rank(I, i) = Rank(I, k) => i = k
      /\ \A m \in 1..n : \E i \in I : Rank(I, i) = m
  <2>1. Len(s) \in Nat /\ DOMAIN s = 1..Len(s)
    OBVIOUS
  <2>2. I \in SUBSET (1..Len(s))
    BY <2>1
  <2>3. /\ IsFiniteSet(I)
        /\ \A i \in I : Rank(I, i) \in 1..n
        /\ \A i, k \in I : Rank(I, i) = Rank(I, k) => i = k
        /\ \A m \in 1..n : \E i \in I : Rank(I, i) = m
    BY <2>1, <2>2, Ranks, Zenon
  <2>4. n \in Nat
    BY <2>3, FS_CardinalityType
  <2>5. QED BY <2>3, <2>4
<1>2. \A m \in 1..n : place(m) \in I /\ Rank(I, place(m)) = m
  BY <1>1
<1>3. Picked(s, I) = [m \in 1..n |-> s[place(m)]]
  BY DEF Picked, Rank
<1>4. \A i \in I : place(Rank(I, i)) = i
  BY <1>1, <1>2
<1> HIDE DEF n, place
<1>5. \A i \in I : s[i] \in T
  OBVIOUS
<1>6. DOMAIN Picked(s, I) = 1..n /\ \A m \in 1..n : Picked(s, I)[m] = s[place(m)]
  BY <1>3
<1>7. Picked(s, I) \in Seq(T)
  <2>1. Picked(s, I) \in [1..n -> T]
    BY <1>2, <1>3, <1>5
  <2>2. QED BY <1>1, <2>1
<1>8. ASSUME NEW k \in DOMAIN Picked(s, I)
      PROVE  \E i \in I : Picked(s, I)[k] = s[i]
  BY <1>2, <1>6
<1>9. ASSUME NEW i \in I
      PROVE  \E k \in DOMAIN Picked(s, I) : Picked(s, I)[k] = s[i]
  BY <1>1, <1>4, <1>6
<1>10. ASSUME IsInjective(s)
       PROVE  IsInjective(Picked(s, I))
  <2>1. ASSUME NEW k \in 1..n, NEW l \in 1..n, s[place(k)] = s[place(l)]
        PROVE  k = l
    <3>1. place(k) = place(l)
      BY <1>2, <1>10, <2>1 DEF IsInjective
    <3>2. QED BY <1>2, <3>1
  <2>2. QED BY <1>6, <2>1 DEF IsInjective
<1>11. QED BY <1>7, <1>8, <1>9, <1>10

LEMMA KeptIs ==
  ASSUME NEW T, NEW s \in Seq(T), NEW S
  PROVE  /\ Kept(s, S) \in Seq(T)
         /\ \A c : Contains(Kept(s, S), c) <=> Contains(s, c) /\ c \in S
         /\ IsInjective(s) => IsInjective(Kept(s, S))
<1> DEFINE I == {i \in DOMAIN s : s[i] \in S}
<1>1. I \in SUBSET DOMAIN s /\ Kept(s, S) = Picked(s, I)
  BY DEF Kept
<1>2. \A i : i \in I <=> i \in DOMAIN s /\ s[i] \in S
  OBVIOUS
<1> HIDE DEF I
<1>3. /\ Kept(s, S) \in Seq(T)
      /\ \A k \in DOMAIN Kept(s, S) : \E i \in I : Kept(s, S)[k] = s[i]
      /\ \A i \in I : \E k \in DOMAIN Kept(s, S) : Kept(s, S)[k] = s[i]
      /\ IsInjective(s) => IsInjective(Kept(s, S))
  <2> DEFINE P == Picked(s, I)
  <2>1. /\ P \in Seq(T)
        /\ \A k \in DOMAIN P : \E i \in I : P[k] = s[i]
        /\ \A i \in I : \E k \in DOMAIN P : P[k] = s[i]
        /\ IsInjective(s) => IsInjective(P)
    BY <1>1, PickedIs, Zenon
  <2>2. P = Kept(s, S)
    BY <1>1
  <2> HIDE DEF P
  <2>3. QED BY <2>1, <2>2
<1>4. \A c : Contains(Kept(s, S), c) <=> \E k \in DOMAIN Kept(s, S) : Kept(s, S)[k] = c
  BY DEF Contains
<1>5. \A c : Contains(s, c) <=> \E i \in DOMAIN s : s[i] = c
  BY DEF Contains
<1>6. ASSUME NEW c
      PROVE  Contains(Kept(s, S), c) <=> Contains(s, c) /\ c \in S
  BY <1>2, <1>3, <1>4, <1>5, Zenon
<1>7. QED BY <1>3, <1>6

LEMMA PutIs ==
  ASSUME NEW T, NEW s \in Seq(T), IsInjective(s), NEW c \in T
  PROVE  /\ Put(s, c) \in Seq(T) /\ IsInjective(Put(s, c))
         /\ \A d : Contains(Put(s, c), d) <=> Contains(s, d) \/ d = c
<1>1. CASE Contains(s, c)
  BY <1>1 DEF Put
<1>2. CASE ~Contains(s, c)
  <2> DEFINE t == Append(s, c)
  <2>1. Put(s, c) = t
    BY <1>2 DEF Put
  <2>2. /\ t \in Seq(T) /\ Len(s) \in Nat /\ DOMAIN s = 1..Len(s)
        /\ DOMAIN t = 1..(Len(s) + 1)
        /\ t[Len(s) + 1] = c
        /\ \A i \in 1..Len(s) : t[i] = s[i]
    OBVIOUS
  <2> HIDE DEF t
  <2>3. \A i \in 1..(Len(s) + 1) : i \in 1..Len(s) \/ i = Len(s) + 1
    BY <2>2
  <2>4. \A i \in 1..Len(s) : s[i] # c
    BY <1>2, <2>2 DEF Contains
  <2>5. IsInjective(t)
    <3>1. ASSUME NEW i \in 1..(Len(s) + 1), NEW k \in 1..(Len(s) + 1), t[i] = t[k]
          PROVE  i = k
      <4>1. CASE i \in 1..Len(s) /\ k \in 1..Len(s)
        BY <2>2, <3>1, <4>1 DEF IsInjective
      <4>2. CASE ~(i \in 1..Len(s) /\ k \in 1..Len(s))
        BY <2>2, <2>3, <2>4, <3>1, <4>2
      <4>3. QED BY <4>1, <4>2
    <3>2. QED BY <2>2, <3>1 DEF IsInjective
  <2>6. ASSUME NEW d
        PROVE  Contains(t, d) <=> Contains(s, d) \/ d = c
    <3>1. Contains(t, d) <=> \E i \in 1..(Len(s) + 1) : t[i] = d
      BY <2>2 DEF Contains
    <3>2. Contains(s, d) <=> \E i \in 1..Len(s) : s[i] = d
      BY <2>2 DEF Contains
    <3>3. \A i \in 1..Len(s) : i \in 1..(Len(s) + 1)
      BY <2>2
    <3>4. Len(s) + 1 \in 1..(Len(s) + 1)
      BY <2>2
    <3>5. QED BY <2>2, <2>3, <3>1, <3>2, <3>3, <3>4, Zenon
  <2>7. QED BY <2>1, <2>2, <2>5, <2>6
<1>3. QED BY <1>1, <1>2

LEMMA WithoutIs ==
  ASSUME NEW s \in Seq(Camera), IsInjective(s), NEW c
  PROVE  /\ Without(s, c) \in Seq(Camera) /\ IsInjective(Without(s, c))
         /\ \A d : Contains(Without(s, c), d) <=> Contains(s, d) /\ d # c
<1>1. /\ Without(s, c) \in Seq(Camera) /\ IsInjective(Without(s, c))
      /\ \A d : Contains(Without(s, c), d) <=> Contains(s, d) /\ d \in Camera \ {c}
  BY KeptIs, Zenon DEF Without
<1>2. \A d : Contains(s, d) => d \in Camera
  BY DEF Contains
<1>3. QED BY <1>1, <1>2, Zenon

LEMMA MoveToEndIs ==
  ASSUME NEW s \in Seq(Camera), IsInjective(s), NEW c \in Camera
  PROVE  /\ MoveToEnd(s, c) \in Seq(Camera) /\ IsInjective(MoveToEnd(s, c))
         /\ \A d : Contains(MoveToEnd(s, c), d) <=> Contains(s, d)
<1>1. CASE ~Contains(s, c)
  BY <1>1 DEF MoveToEnd
<1>2. CASE Contains(s, c)
  <2> DEFINE w == Without(s, c)
  <2>1. /\ w \in Seq(Camera) /\ IsInjective(w)
        /\ \A d : Contains(w, d) <=> Contains(s, d) /\ d # c
    BY WithoutIs, Zenon
  <2>2. MoveToEnd(s, c) = Append(w, c)
    BY <1>2 DEF MoveToEnd
  <2> HIDE DEF w
  <2>3. Put(w, c) = Append(w, c)
    BY <2>1 DEF Put
  <2>4. /\ Put(w, c) \in Seq(Camera) /\ IsInjective(Put(w, c))
        /\ \A d : Contains(Put(w, c), d) <=> Contains(w, d) \/ d = c
    BY <2>1, PutIs, Zenon
  <2>5. QED BY <1>2, <2>1, <2>2, <2>3, <2>4, Zenon
<1>3. QED BY <1>1, <1>2

-----------------------------------------------------------------------------
(* The inductive invariant of CapturePersistence *)

\* The writers of the statuses: what is in the pool is what was last reported,
\* or a newer report waits.
BatchCurrent ==
  /\ \A i, j \in DOMAIN batch : batch[i].camera = batch[j].camera => i = j
  /\ \A i \in DOMAIN batch :
       \/ latest[batch[i].camera] = "unknown"
       \/ IF batch[i].fresh THEN latest[batch[i].camera] = batch[i].state
          ELSE Contains(pending, batch[i].camera)

StatusTyped ==
  /\ latest \in [Camera -> State] /\ online \in [Camera -> State]
  /\ pending \in Seq(Camera) /\ IsInjective(pending)
  /\ batch \in Seq(Report)

StatusInv ==
  /\ StatusTyped /\ BatchCurrent
  /\ \A c \in Camera : latest[c] \in {"unknown", online[c]} \/ Contains(pending, c)
  /\ \A c \in Camera : <<"status", c>> \in owed => Contains(pending, c)

SnapshotInv ==
  /\ snapshots \in Seq(Camera) /\ IsInjective(snapshots)
  /\ writing \in [camera : Camera \union {Nobody}, fresh : BOOLEAN]
  /\ file \in [Camera -> {"none", "older", "newest"}]
  /\ \A c \in Camera : <<"frame", c>> \in owed => Contains(snapshots, c)

PersistenceInv ==
  allowed \subseteq Camera /\ owed \subseteq Owed /\ StatusInv /\ SnapshotInv

-----------------------------------------------------------------------------
(* The steps of CapturePersistence *)

USE DEF State

\* A status is reported: its camera waits, and a write in the pool is not its last.
LEMMA SubmitKeeps ==
  ASSUME StatusInv, NEW c \in Camera, NEW state \in State, Submit(c, state),
         \A d \in Camera : <<"status", d>> \in owed' => <<"status", d>> \in owed \/ d = c
  PROVE  StatusInv'
<1>1. /\ pending' \in Seq(Camera) /\ IsInjective(pending')
      /\ \A d : Contains(pending', d) <=> Contains(pending, d) \/ d = c
  <2>1. pending' = Put(pending, c)
    BY DEF Submit
  <2>2. pending \in Seq(Camera) /\ IsInjective(pending)
    BY DEF StatusInv, StatusTyped
  <2> DEFINE p == Put(pending, c)
  <2>3. /\ p \in Seq(Camera) /\ IsInjective(p)
        /\ \A d : Contains(p, d) <=> Contains(pending, d) \/ d = c
    BY <2>2, PutIs, Zenon
  <2> HIDE DEF p
  <2>4. pending' = p
    BY <2>1 DEF p
  <2>5. QED BY <2>3, <2>4
<1>2. /\ latest \in [Camera -> State] /\ latest' \in [Camera -> State]
      /\ latest'[c] = state /\ \A d \in Camera : d # c => latest'[d] = latest[d]
  BY DEF StatusInv, StatusTyped, Submit
<1>3. batch \in Seq(Report) /\ \A i \in DOMAIN batch : batch[i] \in Report
  BY DEF StatusInv, StatusTyped
<1>4. /\ batch' \in Seq(Report) /\ DOMAIN batch' = DOMAIN batch
      /\ \A i \in DOMAIN batch :
           /\ batch'[i].camera = batch[i].camera /\ batch'[i].state = batch[i].state
           /\ batch'[i].fresh = (batch[i].fresh /\ batch[i].camera # c)
  <2>1. batch' = [i \in DOMAIN batch |-> [batch[i] EXCEPT !.fresh = @ /\ batch[i].camera # c]]
    BY DEF Submit
  <2>2. \A i \in DOMAIN batch :
          /\ [batch[i] EXCEPT !.fresh = @ /\ batch[i].camera # c] \in Report
          /\ [batch[i] EXCEPT !.fresh = @ /\ batch[i].camera # c].camera = batch[i].camera
          /\ [batch[i] EXCEPT !.fresh = @ /\ batch[i].camera # c].state = batch[i].state
          /\ [batch[i] EXCEPT !.fresh = @ /\ batch[i].camera # c].fresh = (batch[i].fresh /\ batch[i].camera # c)
    BY <1>3 DEF Report
  <2>3. Len(batch) \in Nat /\ DOMAIN batch = 1..Len(batch)
    BY <1>3
  <2>4. batch' \in [1..Len(batch) -> Report]
    BY <2>1, <2>2, <2>3
  <2>5. batch' \in Seq(Report)
    BY <2>3, <2>4
  <2>6. DOMAIN batch' = DOMAIN batch
    BY <2>1
  <2>7. QED BY <2>1, <2>2, <2>5, <2>6
<1>5. online' = online
  BY DEF Submit
<1>6. StatusTyped'
  BY <1>1, <1>2, <1>4, <1>5 DEF StatusInv, StatusTyped
<1>7. BatchCurrent'
  <2>1. ASSUME NEW i \in DOMAIN batch', NEW j \in DOMAIN batch', batch'[i].camera = batch'[j].camera
        PROVE  i = j
    BY <1>4, <2>1 DEF StatusInv, BatchCurrent
  <2>2. ASSUME NEW i \in DOMAIN batch'
        PROVE  \/ latest'[batch'[i].camera] = "unknown"
               \/ IF batch'[i].fresh THEN latest'[batch'[i].camera] = batch'[i].state
                  ELSE Contains(pending', batch'[i].camera)
    <3>1. i \in DOMAIN batch /\ batch[i].camera \in Camera
      BY <1>3, <1>4 DEF Report
    <3>2. \/ latest[batch[i].camera] = "unknown"
          \/ IF batch[i].fresh THEN latest[batch[i].camera] = batch[i].state
             ELSE Contains(pending, batch[i].camera)
      BY <3>1 DEF StatusInv, BatchCurrent
    <3>3. CASE batch[i].camera = c
      BY <1>1, <1>4, <3>1, <3>3
    <3>4. CASE batch[i].camera # c
      <4>1. latest'[batch'[i].camera] = latest[batch[i].camera]
        BY <1>2, <1>4, <3>1, <3>4
      <4>2. Contains(pending', batch'[i].camera) <=> Contains(pending, batch[i].camera)
        BY <1>1, <1>4, <3>1, <3>4, Zenon
      <4>3. batch'[i].fresh <=> batch[i].fresh
        BY <1>4, <3>1, <3>4
      <4>4. batch'[i].state = batch[i].state
        BY <1>4, <3>1
      <4>5. QED BY <3>2, <4>1, <4>2, <4>3, <4>4
    <3>5. QED BY <3>3, <3>4
  <2>3. QED BY <2>1, <2>2 DEF BatchCurrent
<1>8. ASSUME NEW d \in Camera
      PROVE  latest'[d] \in {"unknown", online'[d]} \/ Contains(pending', d)
  BY <1>1, <1>2, <1>5 DEF StatusInv
<1>9. ASSUME NEW d \in Camera, <<"status", d>> \in owed'
      PROVE  Contains(pending', d)
  BY <1>1, <1>9 DEF StatusInv
<1>10. QED BY <1>6, <1>7, <1>8, <1>9 DEF StatusInv

\* The statuses are kept by a step that leaves them alone and owes no new one.
LEMMA StatusUnchanged ==
  ASSUME StatusInv, UNCHANGED statusVars,
         \A d \in Camera : <<"status", d>> \in owed' => <<"status", d>> \in owed
  PROVE  StatusInv'
<1>1. latest' = latest /\ pending' = pending /\ batch' = batch /\ online' = online
  BY DEF statusVars
<1>2. StatusTyped' /\ BatchCurrent'
  BY <1>1 DEF StatusInv, StatusTyped, BatchCurrent
<1>3. QED BY <1>1, <1>2 DEF StatusInv

LEMMA ReportsTyped ==
  ASSUME StatusTyped
  PROVE  \A i \in DOMAIN batch :
           /\ batch[i].camera \in Camera /\ batch[i].state \in State
           /\ batch[i].fresh \in BOOLEAN
<1>1. \A i \in DOMAIN batch : batch[i] \in Report
  BY DEF StatusTyped
<1>2. QED BY <1>1 DEF Report

LEMMA SnapshotUnchanged ==
  ASSUME SnapshotInv, UNCHANGED snapshotVars,
         \A d \in Camera : <<"frame", d>> \in owed' => <<"frame", d>> \in owed
  PROVE  SnapshotInv'
  BY DEF SnapshotInv, snapshotVars

\* What waits of unregistered cameras is dropped together with what is owed.
LEMMA RegisterKeeps ==
  ASSUME PersistenceInv, NEW wanted \in SUBSET Camera, Register(wanted)
  PROVE  PersistenceInv'
<1> DEFINE s == Kept(snapshots, wanted)
           p == Kept(pending, wanted)
<1>1. /\ snapshots \in Seq(Camera) /\ IsInjective(snapshots)
      /\ pending \in Seq(Camera) /\ IsInjective(pending)
  BY DEF PersistenceInv, SnapshotInv, StatusInv, StatusTyped
<1>2. /\ s \in Seq(Camera) /\ IsInjective(s)
      /\ \A d : Contains(s, d) <=> Contains(snapshots, d) /\ d \in wanted
  BY <1>1, KeptIs, Zenon
<1>3. /\ p \in Seq(Camera) /\ IsInjective(p)
      /\ \A d : Contains(p, d) <=> Contains(pending, d) /\ d \in wanted
  BY <1>1, KeptIs, Zenon
<1>4. /\ allowed' = wanted /\ snapshots' = s /\ pending' = p
      /\ latest' = [c \in Camera |-> IF c \in wanted THEN latest[c] ELSE "unknown"]
      /\ owed' = {o \in owed : o[2] \in wanted}
      /\ UNCHANGED <<writing, file, batch, online>>
  BY DEF Register
<1> HIDE DEF s, p
<1>5. \A d \in Camera : \A k \in {"frame", "status"} :
        <<k, d>> \in owed' => <<k, d>> \in owed /\ d \in wanted
  BY <1>4
<1>6. SnapshotInv'
  <2>1. ASSUME NEW d \in Camera, <<"frame", d>> \in owed'
        PROVE  Contains(s, d)
    BY <1>2, <1>5, <2>1 DEF PersistenceInv, SnapshotInv
  <2>2. QED BY <1>2, <1>4, <2>1 DEF PersistenceInv, SnapshotInv
<1>7. latest \in [Camera -> State] /\ latest' \in [Camera -> State]
  BY <1>4 DEF PersistenceInv, StatusInv, StatusTyped
<1>8. \A c \in Camera : latest'[c] = IF c \in wanted THEN latest[c] ELSE "unknown"
  BY <1>4
<1>9. StatusInv'
  <2>1. StatusTyped'
    BY <1>3, <1>4, <1>7 DEF PersistenceInv, StatusInv, StatusTyped
  <2>2. \A i \in DOMAIN batch : batch[i].camera \in Camera
    BY ReportsTyped DEF PersistenceInv, StatusInv
  <2>3. BatchCurrent'
    <3>1. ASSUME NEW i \in DOMAIN batch'
          PROVE  \/ latest'[batch'[i].camera] = "unknown"
                 \/ IF batch'[i].fresh THEN latest'[batch'[i].camera] = batch'[i].state
                    ELSE Contains(pending', batch'[i].camera)
      <4>1. batch' = batch /\ i \in DOMAIN batch
        BY <1>4
      <4>2. \/ latest[batch[i].camera] = "unknown"
            \/ IF batch[i].fresh THEN latest[batch[i].camera] = batch[i].state
               ELSE Contains(pending, batch[i].camera)
        BY <4>1 DEF PersistenceInv, StatusInv, BatchCurrent
      <4>3. CASE batch[i].camera \in wanted
        <5>1. latest'[batch[i].camera] = latest[batch[i].camera]
          BY <1>8, <2>2, <4>1, <4>3
        <5>2. Contains(pending', batch[i].camera) <=> Contains(pending, batch[i].camera)
          BY <1>3, <1>4, <4>3
        <5>3. QED BY <4>1, <4>2, <5>1, <5>2
      <4>4. CASE batch[i].camera \notin wanted
        BY <1>8, <2>2, <4>1, <4>4
      <4>5. QED BY <4>3, <4>4
    <3>2. batch' = batch
      BY <1>4
    <3>3. QED BY <3>1, <3>2 DEF PersistenceInv, StatusInv, BatchCurrent
  <2>4. ASSUME NEW c \in Camera
        PROVE  latest'[c] \in {"unknown", online'[c]} \/ Contains(pending', c)
    <3>1. latest[c] \in {"unknown", online[c]} \/ Contains(pending, c)
      BY DEF PersistenceInv, StatusInv
    <3>2. CASE c \in wanted
      BY <1>3, <1>4, <1>8, <3>1, <3>2
    <3>3. CASE c \notin wanted
      BY <1>8, <3>3
    <3>4. QED BY <3>2, <3>3
  <2>5. ASSUME NEW c \in Camera, <<"status", c>> \in owed'
        PROVE  Contains(pending', c)
    BY <1>3, <1>4, <1>5, <2>5 DEF PersistenceInv, StatusInv
  <2>6. QED BY <2>1, <2>3, <2>4, <2>5 DEF StatusInv
<1>10. allowed' \subseteq Camera /\ owed' \subseteq Owed
  BY <1>4 DEF PersistenceInv
<1>11. QED BY <1>6, <1>9, <1>10 DEF PersistenceInv

LEMMA ReportOfflineKeeps ==
  ASSUME PersistenceInv, NEW c \in Camera, ReportOffline(c)
  PROVE  PersistenceInv'
<1>1. CASE c \in allowed
  <2>1. /\ Submit(c, "offline") /\ owed' = owed \union {<<"status", c>>}
        /\ UNCHANGED snapshotVars /\ allowed' = allowed
    BY <1>1 DEF ReportOffline
  <2>2. \A d \in Camera : <<"status", d>> \in owed' => <<"status", d>> \in owed \/ d = c
    BY <2>1
  <2>3. \A d \in Camera : <<"frame", d>> \in owed' => <<"frame", d>> \in owed
    BY <2>1
  <2>4. StatusInv'
    BY <2>1, <2>2, SubmitKeeps DEF PersistenceInv
  <2>5. SnapshotInv'
    BY <2>1, <2>3, SnapshotUnchanged DEF PersistenceInv
  <2>6. QED BY <2>1, <2>4, <2>5 DEF PersistenceInv, Owed
<1>2. CASE c \notin allowed
  <2>1. UNCHANGED <<statusVars, owed>> /\ UNCHANGED snapshotVars /\ allowed' = allowed
    BY <1>2 DEF ReportOffline
  <2>2. StatusInv' /\ SnapshotInv'
    BY <2>1, StatusUnchanged, SnapshotUnchanged DEF PersistenceInv
  <2>3. QED BY <2>1, <2>2 DEF PersistenceInv
<1>3. QED BY <1>1, <1>2

LEMMA AnalysedKeeps ==
  ASSUME PersistenceInv, NEW c \in Camera, Analysed(c)
  PROVE  PersistenceInv'
<1>1. /\ Submit(c, latest[c]) /\ owed' = owed \union {<<"status", c>>}
      /\ UNCHANGED snapshotVars /\ allowed' = allowed
  BY DEF Analysed
<1>2. latest[c] \in State
  BY DEF PersistenceInv, StatusInv, StatusTyped
<1>3. \A d \in Camera : <<"status", d>> \in owed' => <<"status", d>> \in owed \/ d = c
  BY <1>1
<1>4. \A d \in Camera : <<"frame", d>> \in owed' => <<"frame", d>> \in owed
  BY <1>1
<1>5. StatusInv'
  BY <1>1, <1>2, <1>3, SubmitKeeps DEF PersistenceInv
<1>6. SnapshotInv'
  BY <1>1, <1>4, SnapshotUnchanged DEF PersistenceInv
<1>7. QED BY <1>1, <1>5, <1>6 DEF PersistenceInv, Owed

LEMMA PublishKeeps ==
  ASSUME PersistenceInv, NEW c \in Camera, Publish(c)
  PROVE  PersistenceInv'
<1>1. CASE c \in allowed
  <2>1. /\ snapshots' = Put(snapshots, c)
        /\ writing' = [writing EXCEPT !.fresh = @ /\ writing.camera # c]
        /\ file' = [file EXCEPT ![c] = IF @ = "newest" THEN "older" ELSE @]
        /\ Submit(c, "online") /\ owed' = owed \union {<<"frame", c>>, <<"status", c>>}
        /\ allowed' = allowed
    BY <1>1 DEF Publish
  <2>2. \A d \in Camera : <<"status", d>> \in owed' => <<"status", d>> \in owed \/ d = c
    BY <2>1
  <2>3. \A d \in Camera : <<"frame", d>> \in owed' => <<"frame", d>> \in owed \/ d = c
    BY <2>1
  <2>4. StatusInv'
    BY <2>1, <2>2, SubmitKeeps DEF PersistenceInv
  <2> DEFINE s == Put(snapshots, c)
  <2>5. /\ s \in Seq(Camera) /\ IsInjective(s)
        /\ \A d : Contains(s, d) <=> Contains(snapshots, d) \/ d = c
    BY PutIs, Zenon DEF PersistenceInv, SnapshotInv
  <2> HIDE DEF s
  <2>6. snapshots' = s
    BY <2>1 DEF s
  <2>7. /\ writing' \in [camera : Camera \union {Nobody}, fresh : BOOLEAN]
        /\ file' \in [Camera -> {"none", "older", "newest"}]
    <3>1. writing \in [camera : Camera \union {Nobody}, fresh : BOOLEAN]
      BY DEF PersistenceInv, SnapshotInv
    <3>2. file \in [Camera -> {"none", "older", "newest"}]
      BY DEF PersistenceInv, SnapshotInv
    <3>3. writing' \in [camera : Camera \union {Nobody}, fresh : BOOLEAN]
      BY <2>1, <3>1
    <3>4. file' \in [Camera -> {"none", "older", "newest"}]
      BY <2>1, <3>2
    <3>5. QED BY <3>3, <3>4
  <2>8. SnapshotInv'
    BY <2>3, <2>5, <2>6, <2>7 DEF PersistenceInv, SnapshotInv
  <2>9. QED BY <2>1, <2>4, <2>8 DEF PersistenceInv, Owed
<1>2. CASE c \notin allowed
  <2>1. UNCHANGED <<snapshotVars, statusVars, owed>> /\ allowed' = allowed
    BY <1>2 DEF Publish
  <2>2. StatusInv' /\ SnapshotInv'
    BY <2>1, StatusUnchanged, SnapshotUnchanged DEF PersistenceInv
  <2>3. QED BY <2>1, <2>2 DEF PersistenceInv
<1>3. QED BY <1>1, <1>2

\* A snapshot that was overtaken while it was written leaves its camera waiting.
LEMMA SnapshotWriterKeeps ==
  ASSUME PersistenceInv, SnapshotWriter
  PROVE  PersistenceInv'
<1> DEFINE c == writing.camera
<1>1. /\ snapshots \in Seq(Camera) /\ IsInjective(snapshots)
      /\ writing \in [camera : Camera \union {Nobody}, fresh : BOOLEAN]
      /\ file \in [Camera -> {"none", "older", "newest"}]
      /\ \A d \in Camera : <<"frame", d>> \in owed => Contains(snapshots, d)
  BY DEF PersistenceInv, SnapshotInv
<1>2. [camera |-> Nobody, fresh |-> FALSE] \in [camera : Camera \union {Nobody}, fresh : BOOLEAN]
  OBVIOUS
<1>3. CASE SnapshotBegins
  <2>1. /\ snapshots # <<>> /\ writing' = [camera |-> Head(snapshots), fresh |-> TRUE]
        /\ UNCHANGED <<allowed, snapshots, file, statusVars, owed>>
    BY <1>3 DEF SnapshotBegins
  <2>2. Head(snapshots) \in Camera
    BY <1>1, <2>1
  <2>3. SnapshotInv'
    BY <1>1, <2>1, <2>2 DEF SnapshotInv
  <2>4. StatusInv'
    BY <2>1, StatusUnchanged DEF PersistenceInv
  <2>5. QED BY <2>1, <2>3, <2>4 DEF PersistenceInv
<1>4. CASE SnapshotWritten
  <2>1. /\ c # Nobody
        /\ writing' = [camera |-> Nobody, fresh |-> FALSE]
        /\ file' = [file EXCEPT ![c] = IF writing.fresh THEN "newest" ELSE "older"]
        /\ snapshots' = IF writing.fresh THEN Without(snapshots, c) ELSE MoveToEnd(snapshots, c)
        /\ owed' = IF writing.fresh THEN owed \ {<<"frame", c>>} ELSE owed
        /\ UNCHANGED <<allowed, statusVars>>
    BY <1>4 DEF SnapshotWritten
  <2>2. c \in Camera
    BY <1>1, <2>1
  <2>3. file' \in [Camera -> {"none", "older", "newest"}]
    BY <1>1, <2>1
  <2>4. /\ snapshots' \in Seq(Camera) /\ IsInjective(snapshots')
        /\ \A d \in Camera : <<"frame", d>> \in owed' => Contains(snapshots', d)
    <3>1. CASE writing.fresh
      <4> DEFINE s == Without(snapshots, c)
      <4>1. /\ s \in Seq(Camera) /\ IsInjective(s)
            /\ \A d : Contains(s, d) <=> Contains(snapshots, d) /\ d # c
        BY <1>1, WithoutIs, Zenon
      <4> HIDE DEF s
      <4>2. snapshots' = s /\ owed' = owed \ {<<"frame", c>>}
        BY <2>1, <3>1 DEF s
      <4>3. \A d \in Camera : <<"frame", d>> \in owed' => <<"frame", d>> \in owed /\ d # c
        BY <4>2
      <4>4. QED BY <1>1, <4>1, <4>2, <4>3
    <3>2. CASE ~writing.fresh
      <4> DEFINE s == MoveToEnd(snapshots, c)
      <4>1. /\ s \in Seq(Camera) /\ IsInjective(s)
            /\ \A d : Contains(s, d) <=> Contains(snapshots, d)
        BY <1>1, <2>2, MoveToEndIs, Zenon
      <4> HIDE DEF s
      <4>2. snapshots' = s /\ owed' = owed
        BY <2>1, <3>2 DEF s
      <4>3. QED BY <1>1, <4>1, <4>2
    <3>3. QED BY <3>1, <3>2
  <2>5. SnapshotInv'
    BY <1>2, <2>1, <2>3, <2>4 DEF SnapshotInv
  <2>6. \A d \in Camera : <<"status", d>> \in owed' => <<"status", d>> \in owed
    BY <2>1
  <2>7. StatusInv'
    BY <2>1, <2>6, StatusUnchanged DEF PersistenceInv
  <2>8. owed' \subseteq Owed /\ allowed' \subseteq Camera
    BY <2>1 DEF PersistenceInv
  <2>9. QED BY <2>5, <2>7, <2>8 DEF PersistenceInv
<1>5. CASE SnapshotFails
  <2>1. /\ c # Nobody
        /\ writing' = [camera |-> Nobody, fresh |-> FALSE]
        /\ snapshots' = MoveToEnd(snapshots, c)
        /\ UNCHANGED <<allowed, file, statusVars, owed>>
    BY <1>5 DEF SnapshotFails
  <2>2. c \in Camera
    BY <1>1, <2>1
  <2> DEFINE s == MoveToEnd(snapshots, c)
  <2>3. /\ s \in Seq(Camera) /\ IsInjective(s)
        /\ \A d : Contains(s, d) <=> Contains(snapshots, d)
    BY <1>1, <2>2, MoveToEndIs, Zenon
  <2> HIDE DEF s
  <2>4. snapshots' = s
    BY <2>1 DEF s
  <2>5. SnapshotInv'
    BY <1>1, <1>2, <2>1, <2>3, <2>4 DEF SnapshotInv
  <2>6. StatusInv'
    BY <2>1, StatusUnchanged DEF PersistenceInv
  <2>7. QED BY <2>1, <2>5, <2>6 DEF PersistenceInv
<1>6. QED BY <1>3, <1>4, <1>5 DEF SnapshotWriter

\* The statuses that are taken to the pool are those last reported.
LEMMA FlushBeginsKeeps ==
  ASSUME PersistenceInv, FlushBegins
  PROVE  PersistenceInv'
<1> DEFINE n == IF Len(pending) < StatusBatch THEN Len(pending) ELSE StatusBatch
<1>1. StatusInv /\ latest \in [Camera -> State] /\ pending \in Seq(Camera) /\ IsInjective(pending)
  BY DEF PersistenceInv, StatusInv, StatusTyped
<1>2. /\ batch' = [i \in 1..n |-> [camera |-> pending[i], state |-> latest[pending[i]], fresh |-> TRUE]]
      /\ UNCHANGED <<allowed, snapshotVars, latest, pending, online, owed>>
  BY DEF FlushBegins
<1>3. n \in Nat /\ \A i \in 1..n : i \in DOMAIN pending /\ pending[i] \in Camera
  <2>1. Len(pending) \in Nat /\ DOMAIN pending = 1..Len(pending)
    BY <1>1
  <2>2. StatusBatch \in Nat
    BY PersistenceAssumption
  <2>3. n \in Nat /\ n <= Len(pending)
    BY <2>1, <2>2
  <2>4. \A i \in 1..n : i \in DOMAIN pending
    BY <2>1, <2>3
  <2>5. QED BY <1>1, <2>3, <2>4
<1> HIDE DEF n
<1>4. DOMAIN batch' = 1..n /\ \A i \in 1..n :
        /\ batch'[i] = [camera |-> pending[i], state |-> latest[pending[i]], fresh |-> TRUE]
  BY <1>2
<1>5. \A i \in 1..n : batch'[i] \in Report /\ batch'[i].camera = pending[i]
        /\ batch'[i].state = latest[pending[i]] /\ batch'[i].fresh
  <2>1. ASSUME NEW i \in 1..n
        PROVE  /\ batch'[i] \in Report /\ batch'[i].camera = pending[i]
               /\ batch'[i].state = latest[pending[i]] /\ batch'[i].fresh
    <3>1. pending[i] \in Camera /\ latest[pending[i]] \in State
      BY <1>1, <1>3
    <3>2. batch'[i] = [camera |-> pending[i], state |-> latest[pending[i]], fresh |-> TRUE]
      BY <1>4
    <3>3. QED BY <3>1, <3>2 DEF Report
  <2>2. QED BY <2>1
<1>6. batch' \in Seq(Report)
  <2>1. batch' \in [1..n -> Report]
    BY <1>2, <1>5
  <2>2. QED BY <1>3, <2>1
<1>7. StatusTyped'
  BY <1>2, <1>6 DEF PersistenceInv, StatusInv, StatusTyped
<1>8. BatchCurrent'
  <2>1. \A i, j \in DOMAIN batch' : batch'[i].camera = batch'[j].camera => i = j
    BY <1>1, <1>3, <1>4, <1>5 DEF IsInjective
  <2>2. \A i \in DOMAIN batch' : batch'[i].fresh /\ latest'[batch'[i].camera] = batch'[i].state
    BY <1>2, <1>4, <1>5
  <2>3. QED BY <2>1, <2>2 DEF BatchCurrent
<1>9. StatusInv'
  BY <1>1, <1>2, <1>7, <1>8 DEF StatusInv
<1>10. SnapshotInv'
  BY <1>2, SnapshotUnchanged DEF PersistenceInv
<1>11. QED BY <1>2, <1>9, <1>10 DEF PersistenceInv

\* Two sequences without a common element
LEMMA ConcatIs ==
  ASSUME NEW T, NEW s \in Seq(T), NEW t \in Seq(T), IsInjective(s), IsInjective(t),
         \A c : ~(Contains(s, c) /\ Contains(t, c))
  PROVE  /\ s \o t \in Seq(T) /\ IsInjective(s \o t)
         /\ \A c : Contains(s \o t, c) <=> Contains(s, c) \/ Contains(t, c)
<1> DEFINE u == s \o t
<1>1. /\ u \in Seq(T) /\ Len(s) \in Nat /\ Len(t) \in Nat
      /\ DOMAIN s = 1..Len(s) /\ DOMAIN t = 1..Len(t)
      /\ DOMAIN u = 1..(Len(s) + Len(t)) /\ Len(u) = Len(s) + Len(t)
  OBVIOUS
<1>2. \A i \in 1..Len(s) : i \in DOMAIN u /\ u[i] = s[i]
  OBVIOUS
<1>3. \A i \in 1..Len(t) : i + Len(s) \in DOMAIN u /\ u[i + Len(s)] = t[i]
  OBVIOUS
<1> HIDE DEF u
<1>4. \A i \in DOMAIN u : i \in 1..Len(s) \/ \E k \in 1..Len(t) : i = k + Len(s)
  <2>1. ASSUME NEW i \in DOMAIN u, i \notin 1..Len(s)
        PROVE  \E k \in 1..Len(t) : i = k + Len(s)
    <3>1. i - Len(s) \in 1..Len(t) /\ i = (i - Len(s)) + Len(s)
      BY <1>1, <2>1
    <3>2. QED BY <3>1
  <2>2. QED BY <2>1
<1>5. \A c : Contains(u, c) <=> \E i \in DOMAIN u : u[i] = c
  BY <1>1 DEF Contains
<1>6. \A c : Contains(s, c) <=> \E i \in 1..Len(s) : s[i] = c
  BY DEF Contains
<1>7. \A c : Contains(t, c) <=> \E i \in 1..Len(t) : t[i] = c
  BY DEF Contains
<1>8. ASSUME NEW c
      PROVE  Contains(u, c) <=> Contains(s, c) \/ Contains(t, c)
  BY <1>2, <1>3, <1>4, <1>5, <1>6, <1>7
<1>9. ASSUME NEW i \in DOMAIN u, NEW j \in DOMAIN u, u[i] = u[j]
      PROVE  i = j
  <2>1. CASE i \in 1..Len(s) /\ j \in 1..Len(s)
    BY <1>1, <1>2, <1>9, <2>1 DEF IsInjective
  <2>2. CASE i \notin 1..Len(s) /\ j \notin 1..Len(s)
    <3>1. PICK k \in 1..Len(t) : i = k + Len(s)
      BY <1>4, <2>2
    <3>2. PICK l \in 1..Len(t) : j = l + Len(s)
      BY <1>4, <2>2
    <3>3. t[k] = t[l]
      BY <1>3, <1>9, <3>1, <3>2
    <3>4. k = l
      BY <1>1, <3>3 DEF IsInjective
    <3>5. QED BY <3>1, <3>2, <3>4
  <2>3. CASE i \in 1..Len(s) /\ j \notin 1..Len(s)
    <3>1. PICK l \in 1..Len(t) : j = l + Len(s)
      BY <1>4, <2>3
    <3>2. s[i] = t[l]
      BY <1>2, <1>3, <1>9, <2>3, <3>1
    <3>3. QED BY <1>6, <1>7, <2>3, <3>1, <3>2
  <2>4. CASE i \notin 1..Len(s) /\ j \in 1..Len(s)
    <3>1. PICK l \in 1..Len(t) : i = l + Len(s)
      BY <1>4, <2>4
    <3>2. s[j] = t[l]
      BY <1>2, <1>3, <1>9, <2>4, <3>1
    <3>3. QED BY <1>6, <1>7, <2>4, <3>1, <3>2
  <2>5. QED BY <2>1, <2>2, <2>3, <2>4
<1>10. IsInjective(u)
  BY <1>9 DEF IsInjective
<1>11. QED BY <1>1, <1>8, <1>10 DEF u

\* After a flush those wait that were not in the batch, and those with a newer report.
LEMMA RequeuedIs ==
  ASSUME StatusTyped, BatchCurrent
  PROVE  /\ Requeued \in Seq(Camera) /\ IsInjective(Requeued)
         /\ \A c \in Camera : Contains(Requeued, c) <=>
              /\ Contains(pending, c)
              /\ \/ c \notin InBatch
                 \/ \E i \in DOMAIN batch : batch[i].camera = c /\ ~batch[i].fresh
<1> DEFINE s == Kept(pending, Camera \ InBatch)
           cams == [i \in DOMAIN batch |-> batch[i].camera]
           I == {i \in DOMAIN batch : ~batch[i].fresh /\ Contains(pending, batch[i].camera)}
           t == Picked(cams, I)
<1>1. pending \in Seq(Camera) /\ IsInjective(pending) /\ batch \in Seq(Report)
  BY DEF StatusTyped
<1>2. Len(batch) \in Nat /\ DOMAIN batch = 1..Len(batch)
  BY <1>1
<1>3. \A i \in DOMAIN batch : batch[i].camera \in Camera
  BY ReportsTyped
<1>4. /\ DOMAIN cams = DOMAIN batch
      /\ \A i \in DOMAIN batch : cams[i] = batch[i].camera
  OBVIOUS
<1>5. cams \in Seq(Camera)
  <2>1. cams \in [1..Len(batch) -> Camera]
    BY <1>2, <1>3
  <2>2. QED BY <1>2, <2>1
<1>6. IsInjective(cams)
  BY <1>4 DEF BatchCurrent, IsInjective
<1>7. I \in SUBSET DOMAIN batch
  OBVIOUS
<1>8. \A i : i \in I <=> i \in DOMAIN batch /\ ~batch[i].fresh /\ Contains(pending, batch[i].camera)
  OBVIOUS
<1>9. Requeued = s \o t
  BY DEF Requeued
<1>10. /\ s \in Seq(Camera) /\ (IsInjective(pending) => IsInjective(s))
       /\ \A c : Contains(s, c) <=> Contains(pending, c) /\ c \in Camera \ InBatch
  BY <1>1, KeptIs, Zenon
<1> HIDE DEF s, cams, I
<1>11. I \in SUBSET DOMAIN cams
  BY <1>4, <1>7
<1>12. /\ t \in Seq(Camera)
       /\ \A k \in DOMAIN t : \E i \in I : t[k] = cams[i]
       /\ \A i \in I : \E k \in DOMAIN t : t[k] = cams[i]
       /\ IsInjective(cams) => IsInjective(t)
  BY <1>5, <1>11, PickedIs, Zenon
<1> HIDE DEF t
<1>13. \A c : c \in InBatch <=> \E i \in DOMAIN batch : batch[i].camera = c
  <2>1. \A r : r \in Range(batch) <=> \E i \in DOMAIN batch : batch[i] = r
    BY DEF Range
  <2>2. QED BY <2>1 DEF InBatch
<1>14. \A c : Contains(t, c) <=> \E k \in DOMAIN t : t[k] = c
  BY <1>12 DEF Contains
<1>15. \A c : Contains(t, c) <=> \E i \in I : batch[i].camera = c
  BY <1>4, <1>7, <1>12, <1>14
<1>16. \A c : ~(Contains(s, c) /\ Contains(t, c))
  BY <1>7, <1>10, <1>13, <1>15
<1> DEFINE u == s \o t
<1>17. /\ u \in Seq(Camera) /\ IsInjective(u)
       /\ \A c : Contains(u, c) <=> Contains(s, c) \/ Contains(t, c)
  BY <1>1, <1>6, <1>10, <1>12, <1>16, ConcatIs, Zenon
<1> HIDE DEF u
<1>18. Requeued = u
  BY <1>9 DEF u
<1>19. ASSUME NEW c \in Camera
       PROVE  Contains(u, c) <=>
                /\ Contains(pending, c)
                /\ \/ c \notin InBatch
                   \/ \E i \in DOMAIN batch : batch[i].camera = c /\ ~batch[i].fresh
  BY <1>8, <1>10, <1>13, <1>15, <1>17
<1>20. QED BY <1>17, <1>18, <1>19

LEMMA FlushDoneKeeps ==
  ASSUME PersistenceInv, FlushDone
  PROVE  PersistenceInv'
<1> DEFINE report(c) == CHOOSE r \in Range(batch) : r.camera = c
<1>1. StatusInv /\ StatusTyped /\ BatchCurrent
  BY DEF PersistenceInv, StatusInv
<1>2. /\ Requeued \in Seq(Camera) /\ IsInjective(Requeued)
      /\ \A c \in Camera : Contains(Requeued, c) <=>
              /\ Contains(pending, c)
              /\ \/ c \notin InBatch
                 \/ \E i \in DOMAIN batch : batch[i].camera = c /\ ~batch[i].fresh
  BY <1>1, RequeuedIs
<1>3. /\ online' = [c \in Camera |-> IF c \in InBatch THEN report(c).state ELSE online[c]]
      /\ pending' = Requeued /\ batch' = <<>>
      /\ owed' = owed \ {<<"status", c>> : c \in Fresh}
      /\ UNCHANGED <<allowed, snapshotVars, latest>>
  BY DEF FlushDone
<1>4. \A i \in DOMAIN batch : /\ batch[i].camera \in Camera /\ batch[i].state \in State
                              /\ batch[i].fresh \in BOOLEAN
  BY <1>1, ReportsTyped
<1>5. \A r : r \in Range(batch) <=> \E i \in DOMAIN batch : batch[i] = r
  BY DEF Range
<1>6. \A c : c \in InBatch <=> \E i \in DOMAIN batch : batch[i].camera = c
  BY <1>5 DEF InBatch
<1>7. \A c : c \in Fresh <=> \E i \in DOMAIN batch : batch[i].camera = c /\ batch[i].fresh
  BY <1>5 DEF Fresh
<1>8. ASSUME NEW i \in DOMAIN batch
      PROVE  report(batch[i].camera) = batch[i]
  <2>1. \E r \in Range(batch) : r.camera = batch[i].camera
    BY <1>5
  <2>2. report(batch[i].camera) \in Range(batch) /\ report(batch[i].camera).camera = batch[i].camera
    BY <2>1
  <2> HIDE DEF report
  <2>3. PICK j \in DOMAIN batch : batch[j] = report(batch[i].camera)
    BY <1>5, <2>2
  <2>4. j = i
    BY <1>1, <2>2, <2>3 DEF BatchCurrent
  <2>5. QED BY <2>3, <2>4
<1> HIDE DEF report
<1>9. \A c \in InBatch : report(c).state \in State
  BY <1>4, <1>6, <1>8
<1>10. /\ latest \in [Camera -> State] /\ online \in [Camera -> State]
  BY <1>1 DEF StatusTyped
<1>11. online' \in [Camera -> State] /\ \A c \in Camera :
         online'[c] = IF c \in InBatch THEN report(c).state ELSE online[c]
  BY <1>3, <1>9, <1>10
<1>12. StatusTyped' /\ BatchCurrent'
  BY <1>2, <1>3, <1>10, <1>11 DEF StatusTyped, BatchCurrent
<1>13. ASSUME NEW c \in Camera
       PROVE  latest'[c] \in {"unknown", online'[c]} \/ Contains(pending', c)
  <2>1. latest[c] \in {"unknown", online[c]} \/ Contains(pending, c)
    BY <1>1 DEF StatusInv
  <2>2. CASE c \notin InBatch
    BY <1>2, <1>3, <1>11, <2>1, <2>2
  <2>3. CASE c \in InBatch
    <3>1. PICK i \in DOMAIN batch : batch[i].camera = c
      BY <1>6, <2>3
    <3>2. online'[c] = batch[i].state
      BY <1>8, <1>11, <2>3, <3>1
    <3>3. \/ latest[c] = "unknown"
          \/ IF batch[i].fresh THEN latest[c] = batch[i].state ELSE Contains(pending, c)
      BY <1>1, <3>1 DEF BatchCurrent
    <3>4. CASE batch[i].fresh
      BY <1>3, <3>2, <3>3, <3>4
    <3>5. CASE ~batch[i].fresh
      BY <1>2, <1>3, <3>1, <3>3, <3>5
    <3>6. QED BY <3>4, <3>5
  <2>4. QED BY <2>2, <2>3
<1>14. ASSUME NEW c \in Camera, <<"status", c>> \in owed'
       PROVE  Contains(pending', c)
  <2>1. <<"status", c>> \in owed /\ c \notin Fresh
    BY <1>3, <1>14
  <2>2. Contains(pending, c)
    BY <1>1, <2>1 DEF StatusInv
  <2>3. QED BY <1>2, <1>3, <1>6, <1>7, <2>1, <2>2
<1>15. StatusInv'
  BY <1>12, <1>13, <1>14 DEF StatusInv
<1>16. SnapshotInv'
  BY <1>3, SnapshotUnchanged DEF PersistenceInv
<1>17. QED BY <1>3, <1>15, <1>16 DEF PersistenceInv

LEMMA FlushFailsKeeps ==
  ASSUME PersistenceInv, FlushFails
  PROVE  PersistenceInv'
<1>1. batch' = <<>> /\ UNCHANGED <<allowed, snapshotVars, latest, pending, online, owed>>
  BY DEF FlushFails
<1>2. StatusInv'
  BY <1>1 DEF PersistenceInv, StatusInv, StatusTyped, BatchCurrent
<1>3. SnapshotInv'
  BY <1>1, SnapshotUnchanged DEF PersistenceInv
<1>4. QED BY <1>1, <1>2, <1>3 DEF PersistenceInv

LEMMA PersistenceStutter ==
  ASSUME PersistenceInv, UNCHANGED persistVars
  PROVE  PersistenceInv'
<1>1. UNCHANGED <<allowed, owed>> /\ UNCHANGED snapshotVars /\ UNCHANGED statusVars
  BY DEF persistVars
<1>2. StatusInv' /\ SnapshotInv'
  BY <1>1, StatusUnchanged, SnapshotUnchanged DEF PersistenceInv
<1>3. QED BY <1>1, <1>2 DEF PersistenceInv

LEMMA UnlinkKeepsPersistence ==
  ASSUME PersistenceInv, NEW e \in Editor, Unlink(e)
  PROVE  PersistenceInv'
<1>1. /\ file' = [file EXCEPT ![ed[e].at[1]] = "none"]
      /\ UNCHANGED <<allowed, snapshots, writing, statusVars, owed>>
  BY DEF Unlink
<1>2. file \in [Camera -> {"none", "older", "newest"}]
  BY DEF PersistenceInv, SnapshotInv
<1>3. file' \in [Camera -> {"none", "older", "newest"}]
  BY <1>1, <1>2
<1>4. SnapshotInv'
  BY <1>1, <1>3 DEF PersistenceInv, SnapshotInv
<1>5. StatusInv'
  BY <1>1, StatusUnchanged DEF PersistenceInv
<1>6. QED BY <1>1, <1>4, <1>5 DEF PersistenceInv

LEMMA ReaderKeepsPersistence ==
  ASSUME PersistenceInv, NEW c \in Camera, NEW i \in Slot, ReaderStep(c, i)
  PROVE  PersistenceInv'
<1>1. CASE UNCHANGED persistVars
  BY <1>1, PersistenceStutter
<1>2. CASE Publish(c)
  BY <1>2, PublishKeeps
<1>3. CASE ReportOffline(c)
  BY <1>3, ReportOfflineKeeps
<1>4. QED BY <1>1, <1>2, <1>3 DEF ReaderStep, Starts, Reads, Fails, Ends

LEMMA RequestKeepsPersistence ==
  ASSUME PersistenceInv, NEW e \in Editor, RequestStep(e)
  PROVE  PersistenceInv'
<1>1. CASE UNCHANGED persistVars
  BY <1>1, PersistenceStutter
<1>2. CASE Unlink(e)
  BY <1>2, UnlinkKeepsPersistence
<1>3. CASE Refreshed(e)
  <2>1. Register(Wanted(ed[e].loaded))
    BY <1>3 DEF Refreshed
  <2>2. Wanted(ed[e].loaded) \in SUBSET Camera
    BY DEF Wanted
  <2>3. QED BY <2>1, <2>2, RegisterKeeps
<1>4. QED BY <1>1, <1>2, <1>3 DEF RequestStep, RemoveReader, RenameRow, Load, Stopped

LEMMA PersistenceStep ==
  ASSUME PersistenceInv, [Next]_vars
  PROVE  PersistenceInv'
<1>1. CASE UNCHANGED persistVars
  BY <1>1, PersistenceStutter
<1>2. CASE \E c \in Camera, i \in Slot : ReaderStep(c, i)
  BY <1>2, ReaderKeepsPersistence
<1>3. CASE \E e \in Editor, S \in SUBSET Camera, v \in Row \ {"absent"} : CreateCameras(e, S, v)
  BY <1>1, <1>3 DEF CreateCameras, Changed
<1>4. CASE \E e \in Editor, c \in Camera, v \in Row \ {"absent"} : PatchCamera(e, c, v)
  BY <1>1, <1>4 DEF PatchCamera, Changed
<1>5. CASE \E e \in Editor, S \in SUBSET Camera, v \in Source : ChangeSubstreams(e, S, v)
  BY <1>1, <1>5 DEF ChangeSubstreams, Changed
<1>6. CASE \E e \in Editor : Reconfigure(e)
  BY <1>1, <1>6 DEF Reconfigure, Changed
<1>7. CASE \E e \in Editor, S \in SUBSET Camera : DeleteCameras(e, S)
  BY <1>1, <1>7 DEF DeleteCameras, Changed
<1>8. CASE \E e \in Editor, c, d \in Camera : Rename(e, c, d)
  BY <1>1, <1>8 DEF Rename
<1>9. CASE \E e \in Editor : RequestStep(e)
  BY <1>9, RequestKeepsPersistence
<1>10. CASE Close
  BY <1>1, <1>10 DEF Close
<1>11. CASE SnapshotWriter
  BY <1>11, SnapshotWriterKeeps
<1>12. CASE StatusWriter
  BY <1>12, FlushBeginsKeeps, FlushDoneKeeps, FlushFailsKeeps DEF StatusWriter
<1>13. CASE \E c \in Camera : Analysed(c)
  BY <1>13, AnalysedKeeps
<1>14. CASE \E c \in Camera : Dies(c)
  BY <1>1, <1>14 DEF Dies
<1>15. CASE UNCHANGED vars
  BY <1>1, <1>15 DEF vars
<1>16. QED
  BY <1>2, <1>3, <1>4, <1>5, <1>6, <1>7, <1>8, <1>9, <1>10, <1>11, <1>12, <1>13, <1>14, <1>15,
     Zenon DEF Next

LEMMA PersistenceStarts ==
  ASSUME NEW wanted \in SUBSET Camera, PersistenceInit(wanted)
  PROVE  PersistenceInv
<1>1. /\ allowed = wanted /\ owed = {} /\ snapshots = <<>> /\ pending = <<>> /\ batch = <<>>
      /\ writing = [camera |-> Nobody, fresh |-> FALSE]
      /\ file = [c \in Camera |-> "none"]
      /\ latest = [c \in Camera |-> "unknown"] /\ online = [c \in Camera |-> "unknown"]
  BY DEF PersistenceInit
<1>2. <<>> \in Seq(Camera) /\ IsInjective(<<>>) /\ <<>> \in Seq(Report)
  BY DEF IsInjective
<1>3. SnapshotInv
  BY <1>1, <1>2 DEF SnapshotInv
<1>4. StatusTyped
  BY <1>1, <1>2 DEF StatusTyped
<1>5. BatchCurrent
  BY <1>1 DEF BatchCurrent
<1>6. StatusInv
  BY <1>1, <1>4, <1>5 DEF StatusInv
<1>7. QED BY <1>1, <1>3, <1>6 DEF PersistenceInv

LEMMA PersistenceInvariant == Spec => []PersistenceInv
<1>1. Init => PersistenceInv
  <2>1. ASSUME Init
        PROVE  PersistenceInv
    <3>1. PICK s \in Settings : PersistenceInit(Wanted(s.rows))
      BY <2>1 DEF Init
    <3>2. Wanted(s.rows) \in SUBSET Camera
      BY DEF Wanted
    <3>3. QED BY <3>1, <3>2, PersistenceStarts
  <2>2. QED BY <2>1
<1>2. PersistenceInv /\ [Next]_vars => PersistenceInv'
  BY PersistenceStep
<1>3. QED BY <1>1, <1>2, PTL DEF Spec

\* Whatever the requests, the readers and the writers do, however they overlap:
\* no frame and no status that was accepted is forgotten by its writer because
\* it arrived while an older one was being written.
THEOREM AcceptedIsWritten == Spec => []NothingForgotten
<1>1. PersistenceInv => NothingForgotten
  BY DEF PersistenceInv, StatusInv, SnapshotInv, NothingForgotten
<1>2. QED BY <1>1, PersistenceInvariant, PTL

-----------------------------------------------------------------------------
(* The assignment of streams to devices *)

LEMMA Division ==
  ASSUME NEW D \in Nat \ {0}, NEW a \in Nat
  PROVE  /\ a \div D \in Nat /\ a % D \in 0..(D - 1)
         /\ a = D * (a \div D) + (a % D)
  BY SMT

LEMMA Quotients ==
  ASSUME NEW D \in Nat \ {0}, NEW P \in Nat, NEW a \in Nat, NEW b \in Nat, a < D * P
  PROVE  /\ a \div D \in 0..(P - 1)
         /\ a % D = b % D /\ a \div D = b \div D => a = b
<1>1. /\ a \div D \in Nat /\ a % D \in Nat
      /\ a = D * (a \div D) + (a % D)
      /\ b = D * (b \div D) + (b % D)
  BY Division
<1> DEFINE q == a \div D
<1>2. ASSUME q >= P
      PROVE  FALSE
  <2>1. q \in Nat /\ D * q <= a
    BY <1>1
  <2> HIDE DEF q
  <2>2. D * P <= D * q
    BY <1>2, <2>1
  <2>3. D * P \in Nat /\ D * q \in Nat
    BY <2>1
  <2>4. QED BY <2>1, <2>2, <2>3
<1>3. q \in 0..(P - 1)
  BY <1>1, <1>2
<1>4. QED BY <1>1, <1>3

\* The candidates are numbered: a later one has more before it.
LEMMA BeforeIs ==
  ASSUME NEW S \in SUBSET Camera
  PROVE  /\ \A c \in S : Before(S, c) \in Nat
         /\ \A c, d \in S : Before(S, c) = Before(S, d) => c = d
<1> DEFINE b(c) == {d \in S : d < c}
<1>1. IsFiniteSet(S) /\ \A c \in S : c \in Nat
  BY StreamsAssumption, FS_Subset
<1>2. \A c \in S : IsFiniteSet(b(c))
  <2>1. \A c \in S : b(c) \in SUBSET S
    OBVIOUS
  <2>2. QED BY <1>1, <2>1, FS_Subset
<1>3. \A c \in S : Before(S, c) = Cardinality(b(c)) /\ Before(S, c) \in Nat
  BY <1>2, FS_CardinalityType DEF Before
<1>4. ASSUME NEW c \in S, NEW d \in S, c < d, Before(S, c) = Before(S, d)
      PROVE  FALSE
  <2>1. \A x \in S : x < c => x < d
    BY <1>1, <1>4
  <2>2. ~(c < c)
    BY <1>1
  <2>3. b(c) \in SUBSET b(d) /\ c \in b(d) /\ c \notin b(c)
    BY <1>4, <2>1, <2>2
  <2>4. b(c) = b(d)
    BY <1>2, <1>3, <1>4, <2>3, FS_Subset
  <2>5. QED BY <2>3, <2>4
<1>5. \A c, d \in S : c < d \/ d < c \/ c = d
  BY <1>1
<1>6. QED BY <1>3, <1>4, <1>5

\* decode_assignments: whatever the table of the cameras, no GPU device is given
\* more readers than it may decode.
THEOREM DeviceCapacity ==
  ASSUME NEW T, NEW d \in 1..Devices
  PROVE  LET on == {c \in Camera : Assignment(T, c) = d}
         IN  IsFiniteSet(on) /\ Cardinality(on) <= PerDevice
<1> DEFINE on == {c \in Camera : Assignment(T, c) = d}
           cand == {c \in Wanted(T) \ CpuCamera : T[c] \in Rtsp}
           f == [c \in on |-> Before(cand, c) \div Devices]
<1>1. Devices \in Nat \ {0} /\ PerDevice \in Nat
  BY StreamsAssumption
<1>2. cand \in SUBSET Camera
  BY DEF Wanted
<1>3. \A c : Assignment(T, c) = IF c \in cand /\ Before(cand, c) < Devices * PerDevice
                                THEN 1 + (Before(cand, c) % Devices) ELSE 0
  BY DEF Assignment
<1>4. \A c : c \in on <=> c \in Camera /\ Assignment(T, c) = d
  OBVIOUS
<1> HIDE DEF on, cand
<1>5. \A c \in cand : Before(cand, c) \in Nat
  BY <1>2, BeforeIs
<1>6. \A c \in on : /\ c \in cand /\ Before(cand, c) < Devices * PerDevice
                    /\ Before(cand, c) \in Nat
                    /\ 1 + (Before(cand, c) % Devices) = d
  BY <1>3, <1>4, <1>5
<1>7. ASSUME NEW c \in on
      PROVE  Before(cand, c) \div Devices \in 0..(PerDevice - 1)
  BY <1>1, <1>6, Quotients, Zenon
<1>8. ASSUME NEW c \in on, NEW e \in on,
             Before(cand, c) \div Devices = Before(cand, e) \div Devices
      PROVE  c = e
  <2>1. Before(cand, c) % Devices = Before(cand, e) % Devices
    <3> DEFINE x == Before(cand, c) % Devices
               y == Before(cand, e) % Devices
    <3>1. 1 + x = d /\ 1 + y = d
      BY <1>6
    <3>2. x \in Int /\ y \in Int
      BY <1>1, <1>6, Division
    <3> HIDE DEF x, y
    <3>3. x = y
      BY <3>1, <3>2
    <3>4. QED BY <3>3 DEF x, y
  <2>2. Before(cand, c) = Before(cand, e)
    BY <1>1, <1>6, <1>8, <2>1, Quotients, Zenon
  <2>3. QED BY <1>2, <1>6, <2>2, BeforeIs
<1>9. f \in Injection(on, 0..(PerDevice - 1))
  BY <1>7, <1>8 DEF Injection, IsInjective
<1>10. IsFiniteSet(0..(PerDevice - 1)) /\ Cardinality(0..(PerDevice - 1)) = PerDevice
  <2>1. PerDevice - 1 \in Int
    BY <1>1
  <2>2. IsFiniteSet(0..(PerDevice - 1))
        /\ Cardinality(0..(PerDevice - 1)) = IF 0 > PerDevice - 1 THEN 0 ELSE (PerDevice - 1) - 0 + 1
    BY <2>1, FS_Interval
  <2>3. QED BY <1>1, <2>2
<1> HIDE DEF f
<1>11. IsFiniteSet(on) /\ Cardinality(on) <= PerDevice
  BY <1>9, <1>10, FS_Injection
<1>12. QED BY <1>11 DEF on

LEMMA AssignmentTyped ==
  ASSUME NEW T, NEW c \in Camera
  PROVE  Assignment(T, c) \in 0..Devices
<1> DEFINE cand == {x \in Wanted(T) \ CpuCamera : T[x] \in Rtsp}
<1>1. Devices \in Nat /\ PerDevice \in Nat
  BY StreamsAssumption
<1>2. cand \in SUBSET Camera
  BY DEF Wanted
<1>3. Assignment(T, c) = IF c \in cand /\ Before(cand, c) < Devices * PerDevice
                         THEN 1 + (Before(cand, c) % Devices) ELSE 0
  BY DEF Assignment
<1> HIDE DEF cand
<1>4. ASSUME c \in cand, Before(cand, c) < Devices * PerDevice
      PROVE  1 + (Before(cand, c) % Devices) \in 0..Devices
  <2>1. Before(cand, c) \in Nat
    BY <1>2, <1>4, BeforeIs
  <2>2. Devices # 0
    <3>1. ASSUME Devices = 0
          PROVE  FALSE
      <4>1. Devices * PerDevice = 0
        BY <1>1, <3>1
      <4>2. QED BY <1>4, <2>1, <4>1
    <3>2. QED BY <3>1
  <2>3. Before(cand, c) % Devices \in 0..(Devices - 1)
    BY <1>1, <2>1, <2>2, Division
  <2>4. QED BY <1>1, <2>2, <2>3
<1>5. 0 \in 0..Devices
  BY <1>1
<1>6. QED BY <1>3, <1>4, <1>5

-----------------------------------------------------------------------------
(* The readers on the list, however requests overlap *)

StreamsTyped ==
  /\ rows \in [Camera -> Row] /\ cameras \in [Camera -> Row]
  /\ sources \in [Camera -> Source \union {"none"}]
  /\ capture \in [Camera -> {0} \union Slot]
  /\ stream \in [Camera -> [Slot -> Reader]]
  /\ left \in [Camera -> Nat] /\ stubborn \in Nat
  /\ ed \in [Editor -> Request]
  /\ scope \subseteq Camera /\ edits \in Nat /\ reports \in BOOLEAN /\ closed \in BOOLEAN

\* A request that is about to rename a row knows which.
RenamesKnown == \A e \in Editor : ed[e].pc = "rename" => ed[e].rename # <<>>

StreamsInv == StreamsTyped /\ RenamesKnown /\ ListedRun

LEMMA RequestTyped ==
  ASSUME StreamsTyped, NEW e \in Editor
  PROVE  /\ ed[e] \in Request
         /\ ed[e].pc \in PC /\ ed[e].doomed \subseteq Camera
         /\ ed[e].rename \in {<<>>} \union (Camera \X Camera)
         /\ ed[e].loaded \in [Camera -> Row]
         /\ ed[e].todo \subseteq Camera \X Slot
         /\ ed[e].at \in {<<>>} \union (Camera \X ({0} \union Slot))
<1>1. ed[e] \in Request
  BY DEF StreamsTyped
<1>2. QED BY <1>1 DEF Request

LEMMA ReaderTyped ==
  ASSUME StreamsTyped, NEW c \in Camera, NEW i \in Slot
  PROVE  stream[c][i] \in Reader /\ stream[c][i].phase \in Phase
<1>1. stream[c][i] \in Reader
  BY DEF StreamsTyped
<1>2. QED BY <1>1 DEF Reader

LEMMA HaltedIs ==
  ASSUME NEW r \in Reader
  PROVE  Halted(r) \in Reader
<1>1. r.phase \in Phase
  BY DEF Reader
<1>2. Halted(r) = [r EXCEPT !.phase = IF r.phase = "reading" THEN "ending"
                     ELSE IF r.phase = "ending" THEN r.phase ELSE "ended"]
  BY DEF Halted
<1>3. QED BY <1>1, <1>2 DEF Reader, Phase

SetReader(c, i, r) == stream' = [stream EXCEPT ![c][i] = r]
SetPhase(c, i, p) == stream' = [stream EXCEPT ![c][i].phase = p]

\* One reader is changed, the others are not.
LEMMA OneReader ==
  ASSUME StreamsTyped, NEW c \in Camera, NEW i \in Slot, NEW r \in Reader, SetReader(c, i, r)
  PROVE  /\ stream' \in [Camera -> [Slot -> Reader]]
         /\ stream'[c][i] = r
         /\ \A d \in Camera, j \in Slot : ~(d = c /\ j = i) => stream'[d][j] = stream[d][j]
<1>1. stream \in [Camera -> [Slot -> Reader]]
  BY DEF StreamsTyped
<1>2. stream' = [stream EXCEPT ![c][i] = r]
  BY DEF SetReader
<1>3. QED BY <1>1, <1>2

\* The reader <<c, i>> goes to the phase p.
LEMMA PhaseIs ==
  ASSUME StreamsTyped, NEW c \in Camera, NEW i \in Slot, NEW p \in Phase, SetPhase(c, i, p)
  PROVE  /\ stream' \in [Camera -> [Slot -> Reader]]
         /\ stream'[c][i].phase = p
         /\ \A d \in Camera, j \in Slot : ~(d = c /\ j = i) => stream'[d][j] = stream[d][j]
<1> DEFINE r == [stream[c][i] EXCEPT !.phase = p]
<1>1. r \in Reader /\ r.phase = p
  BY ReaderTyped DEF Reader
<1>2. SetReader(c, i, r)
  BY DEF SetReader, SetPhase
<1> HIDE DEF r
<1>3. /\ stream' \in [Camera -> [Slot -> Reader]]
      /\ stream'[c][i] = r
      /\ \A d \in Camera, j \in Slot : ~(d = c /\ j = i) => stream'[d][j] = stream[d][j]
  BY <1>1, <1>2, OneReader, Zenon
<1>4. QED BY <1>1, <1>3

-----------------------------------------------------------------------------
(* Steps of the readers, of the writers and of the processes that were given up *)

LEMMA SurvivorsTyped ==
  ASSUME StreamsTyped, NEW c \in Camera, Reaped(c)
  PROVE  left' \in [Camera -> Nat] /\ stubborn' \in Nat
<1>1. CASE UNCHANGED survivors
  BY <1>1 DEF survivors, StreamsTyped
<1>2. CASE stubborn > 0 /\ stubborn' = stubborn - 1 /\ left' = [left EXCEPT ![c] = @ + 1]
  BY <1>2 DEF StreamsTyped
<1>3. QED BY <1>1, <1>2 DEF Reaped

\* A step that leaves the requests and the list alone, and after which every
\* reader that ran still runs
LEMMA ListStays ==
  ASSUME StreamsInv, UNCHANGED requestVars,
         left' \in [Camera -> Nat], stubborn' \in Nat,
         stream' \in [Camera -> [Slot -> Reader]],
         \A c \in Camera, i \in Slot : Runs(c, i) => stream'[c][i].phase \in {"starting", "reading", "failed"}
  PROVE  StreamsInv'
<1>1. /\ rows' = rows /\ cameras' = cameras /\ sources' = sources /\ capture' = capture
      /\ ed' = ed /\ scope' = scope /\ edits' = edits /\ reports' = reports /\ closed' = closed
  BY DEF requestVars
<1>2. StreamsTyped /\ RenamesKnown /\ ListedRun
  BY DEF StreamsInv
<1>3. StreamsTyped' /\ RenamesKnown'
  BY <1>1, <1>2 DEF StreamsTyped, RenamesKnown
<1>4. ASSUME NEW c \in Camera, capture[c] # 0
      PROVE  \/ stream'[c][capture[c]].phase \in {"starting", "reading", "failed"}
             \/ \E e \in Editor : ed[e].pc = "stop" /\ ed[e].at = <<c, capture[c]>>
  <2>1. capture[c] \in Slot
    BY <1>2, <1>4 DEF StreamsTyped
  <2>2. QED BY <1>2, <1>4, <2>1 DEF ListedRun
<1>5. ListedRun'
  BY <1>1, <1>4 DEF ListedRun, Runs
<1>6. QED BY <1>3, <1>5 DEF StreamsInv

LEMMA StreamsUnchanged ==
  ASSUME StreamsInv, UNCHANGED streamVars
  PROVE  StreamsInv'
<1>1. UNCHANGED requestVars /\ stream' = stream /\ left' = left /\ stubborn' = stubborn
  BY DEF streamVars, survivors
<1>2. StreamsTyped
  BY DEF StreamsInv
<1>3. QED BY <1>1, <1>2, ListStays DEF StreamsTyped, Runs

LEMMA ReadersKeepList ==
  ASSUME StreamsInv, NEW c \in Camera, NEW i \in Slot, ReaderStep(c, i)
  PROVE  StreamsInv'
<1>1. StreamsTyped
  BY DEF StreamsInv
<1>2. left \in [Camera -> Nat] /\ stubborn \in Nat
  BY <1>1 DEF StreamsTyped
<1>3. CASE Starts(c, i)
  <2>1. SetPhase(c, i, "reading") /\ "reading" \in Phase
    BY <1>3 DEF Starts, SetPhase, Phase
  <2>2. UNCHANGED requestVars /\ left' = left /\ stubborn' = stubborn
    BY <1>3 DEF Starts, survivors
  <2>3. /\ stream' \in [Camera -> [Slot -> Reader]]
        /\ \A d \in Camera, j \in Slot : ~(d = c /\ j = i) => stream'[d][j] = stream[d][j]
        /\ stream'[c][i].phase = "reading"
    BY <1>1, <2>1, PhaseIs, Zenon
  <2>4. \A d \in Camera, j \in Slot :
          Runs(d, j) => stream'[d][j].phase \in {"starting", "reading", "failed"}
    BY <2>3 DEF Runs
  <2>5. QED BY <1>2, <2>2, <2>3, <2>4, ListStays
<1>4. CASE Reads(c, i)
  BY <1>4, StreamsUnchanged DEF Reads
<1>5. CASE Fails(c, i)
  <2>1. SetPhase(c, i, "failed") /\ "failed" \in Phase
    BY <1>5 DEF Fails, SetPhase, Phase
  <2>2. UNCHANGED requestVars /\ left' \in [Camera -> Nat] /\ stubborn' \in Nat
    BY <1>1, <1>5, SurvivorsTyped DEF Fails
  <2>3. /\ stream' \in [Camera -> [Slot -> Reader]]
        /\ \A d \in Camera, j \in Slot : ~(d = c /\ j = i) => stream'[d][j] = stream[d][j]
        /\ stream'[c][i].phase = "failed"
    BY <1>1, <2>1, PhaseIs, Zenon
  <2>4. \A d \in Camera, j \in Slot :
          Runs(d, j) => stream'[d][j].phase \in {"starting", "reading", "failed"}
    BY <2>3 DEF Runs
  <2>5. QED BY <2>2, <2>3, <2>4, ListStays
<1>6. CASE Ends(c, i)
  <2>1. /\ stream[c][i].phase = "ending"
        /\ SetPhase(c, i, "ended") /\ "ended" \in Phase
    BY <1>6 DEF Ends, SetPhase, Phase
  <2>2. UNCHANGED requestVars /\ left' \in [Camera -> Nat] /\ stubborn' \in Nat
    BY <1>1, <1>6, SurvivorsTyped DEF Ends
  <2>3. /\ stream' \in [Camera -> [Slot -> Reader]]
        /\ \A d \in Camera, j \in Slot : ~(d = c /\ j = i) => stream'[d][j] = stream[d][j]
        /\ stream'[c][i].phase = "ended"
    BY <1>1, <2>1, PhaseIs, Zenon
  <2>4. \A d \in Camera, j \in Slot :
          Runs(d, j) => stream'[d][j].phase \in {"starting", "reading", "failed"}
    BY <2>1, <2>3 DEF Runs
  <2>5. QED BY <2>2, <2>3, <2>4, ListStays
<1>7. QED BY <1>3, <1>4, <1>5, <1>6 DEF ReaderStep

LEMMA DiesKeepsList ==
  ASSUME StreamsInv, NEW c \in Camera, Dies(c)
  PROVE  StreamsInv'
<1>1. StreamsTyped
  BY DEF StreamsInv
<1>2. /\ left[c] > 0 /\ left' = [left EXCEPT ![c] = left[c] - 1]
      /\ UNCHANGED requestVars /\ stream' = stream /\ stubborn' = stubborn
  BY DEF Dies
<1>3. left' \in [Camera -> Nat]
  BY <1>1, <1>2 DEF StreamsTyped
<1>4. QED BY <1>1, <1>2, <1>3, ListStays DEF StreamsTyped, Runs

-----------------------------------------------------------------------------
(* Steps of the requests *)

\* The request e goes on in the state r.
GoesOn(e, r) == ed' = [ed EXCEPT ![e] = r]

\* What the request e does with the list: a reader stays listed as it is, and e
\* does not wait for it; or it runs; or e waits for it from now on.
LEMMA ListChanges ==
  ASSUME StreamsInv, NEW e \in Editor, NEW r \in Request, GoesOn(e, r),
         r.pc = "rename" => r.rename # <<>>,
         \A c \in Camera : capture'[c] # 0 =>
           \/ /\ capture'[c] = capture[c]
              /\ ~(ed[e].pc = "stop" /\ ed[e].at = <<c, capture[c]>>)
              /\ stream'[c][capture[c]] = stream[c][capture[c]]
           \/ stream'[c][capture'[c]].phase \in {"starting", "reading", "failed"}
           \/ r.pc = "stop" /\ r.at = <<c, capture'[c]>>
  PROVE  ed' \in [Editor -> Request] /\ RenamesKnown' /\ ListedRun'
<1>1. ed \in [Editor -> Request] /\ RenamesKnown /\ ListedRun
  BY DEF StreamsInv, StreamsTyped
<1>2. /\ ed' \in [Editor -> Request] /\ ed'[e] = r
      /\ \A x \in Editor : x # e => ed'[x] = ed[x]
  BY <1>1 DEF GoesOn
<1>3. RenamesKnown'
  BY <1>1, <1>2 DEF RenamesKnown
<1>4. ASSUME NEW c \in Camera, capture'[c] # 0
      PROVE  \/ stream'[c][capture'[c]].phase \in {"starting", "reading", "failed"}
             \/ \E x \in Editor : ed'[x].pc = "stop" /\ ed'[x].at = <<c, capture'[c]>>
  <2>1. CASE /\ capture'[c] = capture[c]
             /\ ~(ed[e].pc = "stop" /\ ed[e].at = <<c, capture[c]>>)
             /\ stream'[c][capture[c]] = stream[c][capture[c]]
    <3>1. CASE Runs(c, capture[c])
      BY <2>1, <3>1 DEF Runs
    <3>2. CASE \E x \in Editor : ed[x].pc = "stop" /\ ed[x].at = <<c, capture[c]>>
      <4>1. PICK x \in Editor : ed[x].pc = "stop" /\ ed[x].at = <<c, capture[c]>>
        BY <3>2
      <4>2. x # e
        BY <2>1, <4>1
      <4>3. QED BY <1>2, <2>1, <4>1, <4>2
    <3>3. QED BY <1>1, <1>4, <2>1, <3>1, <3>2 DEF ListedRun
  <2>2. CASE stream'[c][capture'[c]].phase \in {"starting", "reading", "failed"}
    BY <2>2
  <2>3. CASE r.pc = "stop" /\ r.at = <<c, capture'[c]>>
    BY <1>2, <2>3
  <2>4. QED BY <1>4, <2>1, <2>2, <2>3
<1>5. ListedRun'
  BY <1>4 DEF ListedRun, Runs
<1>6. QED BY <1>2, <1>3, <1>5

\* A request that stops and starts no reader
LEMMA Unnoticed ==
  ASSUME StreamsInv, NEW e \in Editor, NEW r \in Request, GoesOn(e, r),
         ed[e].pc # "stop", r.pc = "rename" => r.rename # <<>>,
         rows' \in [Camera -> Row], edits' \in Nat,
         UNCHANGED <<cameras, sources, capture, stream, survivors, scope, reports, closed>>
  PROVE  StreamsInv'
<1>1. StreamsTyped
  BY DEF StreamsInv
<1>2. ed' \in [Editor -> Request] /\ RenamesKnown' /\ ListedRun'
  BY ListChanges
<1>3. StreamsTyped'
  BY <1>1, <1>2 DEF StreamsTyped, survivors
<1>4. QED BY <1>2, <1>3 DEF StreamsInv

LEMMA ChangedKeeps ==
  ASSUME StreamsInv, NEW e \in Editor, NEW S, May(e, S),
         NEW pc \in {"sync", "remove"}, NEW doomed \in SUBSET Camera,
         Changed(e, pc, doomed), rows' \in [Camera -> Row]
  PROVE  StreamsInv'
<1> DEFINE r == [ed[e] EXCEPT !.pc = pc, !.doomed = doomed]
<1>1. StreamsTyped /\ ed[e] \in Request
  BY RequestTyped DEF StreamsInv
<1>2. r \in Request /\ r.pc = pc
  BY <1>1 DEF Request, PC
<1>3. GoesOn(e, r) /\ UNCHANGED <<cameras, sources, capture, stream, survivors, scope, reports, closed>>
  BY DEF Changed, GoesOn
<1> HIDE DEF r
<1>4. ed[e].pc # "stop" /\ edits' \in Nat
  BY <1>1 DEF May, Changed, StreamsTyped
<1>5. QED BY <1>2, <1>3, <1>4, Unnoticed

LEMMA WriteTyped ==
  ASSUME StreamsTyped, NEW S, NEW value \in Row, Write(S, value)
  PROVE  rows' \in [Camera -> Row]
  BY DEF StreamsTyped, Write

LEMMA EditsKeep ==
  ASSUME StreamsInv, NEW e \in Editor,
         \/ \E S \in SUBSET Camera, v \in Row \ {"absent"} : CreateCameras(e, S, v)
         \/ \E c \in Camera, v \in Row \ {"absent"} : PatchCamera(e, c, v)
         \/ \E S \in SUBSET Camera, v \in Source : ChangeSubstreams(e, S, v)
         \/ Reconfigure(e)
         \/ \E S \in SUBSET Camera : DeleteCameras(e, S)
  PROVE  StreamsInv'
<1>1. StreamsTyped
  BY DEF StreamsInv
<1>2. "absent" \in Row /\ \A v \in Source : v \in Row
  BY DEF Row
<1>3. {} \in SUBSET Camera
  OBVIOUS
<1>4. ASSUME NEW S \in SUBSET Camera, NEW v \in Row \ {"absent"}, CreateCameras(e, S, v)
      PROVE  StreamsInv'
  BY <1>1, <1>3, <1>4, WriteTyped, ChangedKeeps DEF CreateCameras
<1>5. ASSUME NEW c \in Camera, NEW v \in Row \ {"absent"}, PatchCamera(e, c, v)
      PROVE  StreamsInv'
  BY <1>1, <1>3, <1>5, WriteTyped, ChangedKeeps DEF PatchCamera
<1>6. ASSUME NEW S \in SUBSET Camera, NEW v \in Source, ChangeSubstreams(e, S, v)
      PROVE  StreamsInv'
  BY <1>1, <1>2, <1>3, <1>6, WriteTyped, ChangedKeeps DEF ChangeSubstreams
<1>7. ASSUME Reconfigure(e)
      PROVE  StreamsInv'
  <2>1. rows' \in [Camera -> Row]
    BY <1>1, <1>7 DEF Reconfigure, StreamsTyped
  <2>2. QED BY <1>3, <1>7, <2>1, ChangedKeeps DEF Reconfigure
<1>8. ASSUME NEW S \in SUBSET Camera, DeleteCameras(e, S)
      PROVE  StreamsInv'
  BY <1>1, <1>2, <1>8, WriteTyped, ChangedKeeps DEF DeleteCameras, DeleteRows
<1>9. QED BY <1>4, <1>5, <1>6, <1>7, <1>8

LEMMA RenameKeeps ==
  ASSUME StreamsInv, NEW e \in Editor, NEW old \in Camera, NEW new \in Camera, Rename(e, old, new)
  PROVE  StreamsInv'
<1> DEFINE r == [ed[e] EXCEPT !.pc = "remove", !.doomed = {old}, !.rename = <<old, new>>]
<1>1. StreamsTyped /\ ed[e] \in Request
  BY RequestTyped DEF StreamsInv
<1>2. r \in Request /\ r.pc = "remove"
  BY <1>1 DEF Request, PC
<1>3. /\ GoesOn(e, r) /\ rows' = rows
      /\ UNCHANGED <<cameras, sources, capture, stream, survivors, scope, reports, closed>>
  BY DEF Rename, GoesOn
<1> HIDE DEF r
<1>4. ed[e].pc # "stop" /\ edits' \in Nat /\ rows' \in [Camera -> Row]
  BY <1>1, <1>3 DEF Rename, May, StreamsTyped
<1>5. QED BY <1>2, <1>3, <1>4, Unnoticed

LEMMA LoadKeeps ==
  ASSUME StreamsInv, NEW e \in Editor, Load(e)
  PROVE  StreamsInv'
<1> DEFINE r == [ed[e] EXCEPT !.pc = "refresh", !.loaded = rows]
<1>1. StreamsTyped /\ ed[e] \in Request /\ rows \in [Camera -> Row] /\ edits \in Nat
  BY RequestTyped DEF StreamsInv, StreamsTyped
<1>2. r \in Request /\ r.pc = "refresh"
  BY <1>1 DEF Request, PC
<1>3. /\ ed[e].pc = "sync" /\ GoesOn(e, r) /\ rows' = rows /\ edits' = edits
      /\ UNCHANGED <<cameras, sources, capture, stream, survivors, scope, reports, closed>>
  BY DEF Load, GoesOn
<1> HIDE DEF r
<1>4. QED BY <1>1, <1>2, <1>3, Unnoticed

LEMMA RenameRowKeeps ==
  ASSUME StreamsInv, NEW e \in Editor, RenameRow(e)
  PROVE  StreamsInv'
<1> DEFINE r == [ed[e] EXCEPT !.pc = "sync", !.rename = <<>>]
           old == ed[e].rename[1]
           new == ed[e].rename[2]
<1>1. StreamsTyped /\ ed[e] \in Request /\ rows \in [Camera -> Row] /\ edits \in Nat
  BY RequestTyped DEF StreamsInv, StreamsTyped
<1>2. r \in Request /\ r.pc = "sync"
  BY <1>1 DEF Request, PC
<1>3. /\ ed[e].pc = "rename" /\ GoesOn(e, r) /\ edits' = edits
      /\ rows' = IF Exists(old) THEN [rows EXCEPT ![new] = rows[old], ![old] = "absent"] ELSE rows
      /\ UNCHANGED <<cameras, sources, capture, stream, survivors, scope, reports, closed>>
  BY DEF RenameRow, GoesOn
<1>4. old \in Camera /\ new \in Camera /\ "absent" \in Row
  BY <1>1, <1>3, RequestTyped DEF StreamsInv, RenamesKnown, Row
<1> HIDE DEF r, old, new
<1>5. [rows EXCEPT ![new] = rows[old], ![old] = "absent"] \in [Camera -> Row]
  BY <1>1, <1>4
<1>6. rows' \in [Camera -> Row]
  BY <1>1, <1>3, <1>5
<1>7. QED BY <1>1, <1>2, <1>3, <1>6, Unnoticed

LEMMA UnlinkKeepsList ==
  ASSUME StreamsInv, NEW e \in Editor, Unlink(e)
  PROVE  StreamsInv'
<1> DEFINE pc == IF ed[e].rename = <<>> THEN "sync" ELSE "rename"
           r == [ed[e] EXCEPT !.pc = pc, !.at = <<>>]
<1>1. StreamsTyped /\ ed[e] \in Request /\ rows \in [Camera -> Row] /\ edits \in Nat
  BY RequestTyped DEF StreamsInv, StreamsTyped
<1>2. r \in Request /\ r.pc = pc /\ r.rename = ed[e].rename
  BY <1>1 DEF Request, PC
<1>3. /\ ed[e].pc = "unlink" /\ GoesOn(e, r) /\ rows' = rows /\ edits' = edits
      /\ UNCHANGED <<cameras, sources, capture, stream, survivors, scope, reports, closed>>
  BY DEF Unlink, GoesOn
<1> HIDE DEF r
<1>4. QED BY <1>1, <1>2, <1>3, Unnoticed

LEMMA RemoveReaderKeeps ==
  ASSUME StreamsInv, NEW e \in Editor, RemoveReader(e)
  PROVE  StreamsInv'
<1>1. StreamsTyped /\ ed[e] \in Request /\ ed[e].pc = "remove"
  BY RequestTyped DEF StreamsInv, RemoveReader
<1>2. PICK c \in ed[e].doomed :
        /\ sources' = [sources EXCEPT ![c] = "none"]
        /\ capture' = [capture EXCEPT ![c] = 0]
        /\ stream' = IF capture[c] = 0 THEN stream
                     ELSE [stream EXCEPT ![c][capture[c]] = Halted(@)]
        /\ ed' = [ed EXCEPT ![e].pc = "unlink", ![e].doomed = @ \ {c},
                            ![e].at = <<c, capture[c]>>]
  BY Zenon DEF RemoveReader
<1>3. UNCHANGED <<rows, cameras, survivors, scope, edits, reports, closed>>
  BY DEF RemoveReader
<1> DEFINE r == [ed[e] EXCEPT !.pc = "unlink", !.doomed = ed[e].doomed \ {c},
                              !.at = <<c, capture[c]>>]
<1>4. c \in Camera /\ capture \in [Camera -> {0} \union Slot]
  BY <1>1, <1>2, RequestTyped DEF StreamsTyped
<1>5. r \in Request /\ r.pc = "unlink"
  BY <1>1, <1>4 DEF Request, PC
<1>6. GoesOn(e, r)
  BY <1>2 DEF GoesOn
<1> HIDE DEF r
<1>7. /\ stream' \in [Camera -> [Slot -> Reader]]
      /\ \A d \in Camera, j \in Slot : d # c => stream'[d][j] = stream[d][j]
  <2>1. CASE capture[c] = 0
    BY <1>1, <1>2, <2>1 DEF StreamsTyped
  <2>2. CASE capture[c] # 0
    <3>1. capture[c] \in Slot
      BY <1>4, <2>2
    <3>2. Halted(stream[c][capture[c]]) \in Reader
      BY <1>1, <1>4, <3>1, ReaderTyped, HaltedIs
    <3>3. SetReader(c, capture[c], Halted(stream[c][capture[c]]))
      BY <1>2, <2>2 DEF SetReader
    <3>4. QED BY <1>1, <1>4, <3>1, <3>2, <3>3, OneReader
  <2>3. QED BY <2>1, <2>2
<1>8. capture' \in [Camera -> {0} \union Slot] /\ sources' \in [Camera -> Source \union {"none"}]
  BY <1>1, <1>2, <1>4 DEF StreamsTyped
<1>9. ASSUME NEW d \in Camera, capture'[d] # 0
      PROVE  /\ capture'[d] = capture[d]
             /\ ~(ed[e].pc = "stop" /\ ed[e].at = <<d, capture[d]>>)
             /\ stream'[d][capture[d]] = stream[d][capture[d]]
  <2>1. d # c /\ capture'[d] = capture[d]
    BY <1>2, <1>4, <1>9
  <2>2. capture[d] \in Slot
    BY <1>4, <1>9, <2>1
  <2>3. QED BY <1>1, <1>7, <2>1, <2>2
<1>10. ed' \in [Editor -> Request] /\ RenamesKnown' /\ ListedRun'
  BY <1>5, <1>6, <1>9, ListChanges
<1>11. StreamsTyped'
  BY <1>1, <1>3, <1>7, <1>8, <1>10 DEF StreamsTyped, survivors
<1>12. QED BY <1>10, <1>11 DEF StreamsInv

LEMMA CloseKeeps ==
  ASSUME StreamsInv, Close
  PROVE  StreamsInv'
<1>1. /\ closed' = TRUE /\ capture' = [c \in Camera |-> 0]
      /\ stream' = [c \in Camera |-> [i \in Slot |->
           IF capture[c] = i THEN Halted(stream[c][i]) ELSE stream[c][i]]]
      /\ UNCHANGED <<rows, cameras, sources, ed, survivors, scope, edits, reports>>
  BY DEF Close
<1>2. StreamsTyped /\ RenamesKnown
  BY DEF StreamsInv
<1>3. \A c \in Camera, i \in Slot : stream[c][i] \in Reader /\ Halted(stream[c][i]) \in Reader
  BY <1>2, ReaderTyped, HaltedIs
<1>4. stream' \in [Camera -> [Slot -> Reader]]
  BY <1>1, <1>3
<1>5. StreamsTyped' /\ RenamesKnown'
  BY <1>1, <1>2, <1>4 DEF StreamsTyped, RenamesKnown, survivors
<1>6. ListedRun'
  BY <1>1 DEF ListedRun
<1>7. QED BY <1>5, <1>6 DEF StreamsInv

-----------------------------------------------------------------------------
(* The end of sync: the next reader is stopped, or the missing ones are made *)

\* What sync leaves of the list: e waits for none of these readers any more.
Listed(e, own) ==
  /\ own \in [Camera -> {0} \union Slot]
  /\ \A c \in Camera : own[c] # 0 =>
       own[c] = capture[c] /\ ~(ed[e].pc = "stop" /\ ed[e].at = <<c, capture[c]>>)

LEMMA CreateKeeps ==
  ASSUME StreamsInv, SlotsLeft, NEW e \in Editor, NEW table \in [Camera -> Row], NEW own,
         Listed(e, own), Create(e, table, own), cameras' \in [Camera -> Row],
         UNCHANGED <<rows, survivors, scope, edits, reports, closed>>
  PROVE  StreamsInv'
<1> DEFINE missing == {c \in Wanted(table) : own[c] = 0}
           new(c) == [phase |-> "starting", source |-> table[c], device |-> Assignment(table, c)]
           r == [Idle EXCEPT !.pc = IF ed[e].doomed = {} THEN "idle" ELSE "remove",
                             !.doomed = ed[e].doomed]
<1>1. StreamsTyped /\ stream \in [Camera -> [Slot -> Reader]]
  BY DEF StreamsInv, StreamsTyped
<1>2. /\ sources' = [c \in Camera |-> IF c \in Wanted(table) THEN table[c] ELSE "none"]
      /\ capture' = [c \in Camera |-> IF c \in missing THEN FreeSlot(c) ELSE own[c]]
      /\ stream' = [c \in Camera |->
           IF c \notin missing THEN stream[c] ELSE [stream[c] EXCEPT ![FreeSlot(c)] = new(c)]]
      /\ GoesOn(e, r)
  BY DEF Create, GoesOn
<1>3. \A c : c \in missing <=> c \in Camera /\ table[c] \in Source /\ own[c] = 0
  BY DEF Wanted
<1>4. \A c \in Camera : FreeSlot(c) \in Slot
  BY DEF SlotsLeft, FreeSlot
<1>5. ASSUME NEW c \in missing
      PROVE  new(c) \in Reader /\ new(c).phase = "starting"
  BY <1>3, AssignmentTyped DEF Reader, Phase
<1>6. r \in Request /\ r.pc \in {"idle", "remove"}
  <2>1. ed[e].doomed \in SUBSET Camera
    BY <1>1, RequestTyped
  <2>2. NoRows \in [Camera -> Row]
    BY DEF NoRows, Row
  <2>3. Idle \in Request
    BY <2>2 DEF Idle, Request, PC
  <2>4. "idle" \in PC /\ "remove" \in PC
    BY DEF PC
  <2>5. PICK pc \in {"idle", "remove"} : r = [Idle EXCEPT !.pc = pc, !.doomed = ed[e].doomed]
    OBVIOUS
  <2> HIDE DEF r
  <2>6. QED BY <2>1, <2>3, <2>4, <2>5 DEF Request
<1> HIDE DEF missing, new, r
<1>7. /\ capture' \in [Camera -> {0} \union Slot]
      /\ sources' \in [Camera -> Source \union {"none"}]
  BY <1>2, <1>4 DEF Listed, Wanted
<1>8. stream' \in [Camera -> [Slot -> Reader]]
  <2>1. \A c \in missing : [stream[c] EXCEPT ![FreeSlot(c)] = new(c)] \in [Slot -> Reader]
    BY <1>1, <1>3, <1>5
  <2>2. QED BY <1>1, <1>2, <2>1
<1>9. ASSUME NEW c \in Camera, capture'[c] # 0
      PROVE  \/ /\ capture'[c] = capture[c]
                /\ ~(ed[e].pc = "stop" /\ ed[e].at = <<c, capture[c]>>)
                /\ stream'[c][capture[c]] = stream[c][capture[c]]
             \/ stream'[c][capture'[c]].phase \in {"starting", "reading", "failed"}
  <2>1. CASE c \in missing
    <3>1. capture'[c] = FreeSlot(c) /\ stream'[c] = [stream[c] EXCEPT ![FreeSlot(c)] = new(c)]
      BY <1>2, <2>1
    <3>2. stream'[c][capture'[c]] = new(c)
      BY <1>1, <1>4, <3>1
    <3>3. QED BY <1>5, <2>1, <3>2
  <2>2. CASE c \notin missing
    <3>1. capture'[c] = own[c] /\ stream'[c] = stream[c]
      BY <1>2, <2>2
    <3>2. QED BY <1>9, <3>1 DEF Listed
  <2>3. QED BY <2>1, <2>2
<1>10. ed' \in [Editor -> Request] /\ RenamesKnown' /\ ListedRun'
  BY <1>2, <1>6, <1>9, ListChanges
<1>11. StreamsTyped'
  BY <1>1, <1>7, <1>8, <1>10 DEF StreamsTyped, survivors
<1>12. QED BY <1>10, <1>11 DEF StreamsInv

LEMMA StopNextKeeps ==
  ASSUME StreamsInv, NEW e \in Editor, NEW table \in [Camera -> Row], NEW own,
         NEW todo \in SUBSET (Camera \X Slot),
         Listed(e, own), StopNext(e, table, own, todo), cameras' \in [Camera -> Row],
         UNCHANGED <<rows, survivors, scope, edits, reports, closed>>
  PROVE  StreamsInv'
<1>1. StreamsTyped /\ ed[e] \in Request
  BY RequestTyped DEF StreamsInv
<1>2. PICK x \in todo :
        /\ capture' = own
        /\ stream' = [stream EXCEPT ![x[1]][x[2]] = Halted(@)]
        /\ ed' = [ed EXCEPT ![e].pc = "stop", ![e].loaded = table,
                            ![e].todo = todo \ {x}, ![e].at = x]
        /\ sources' = sources
  BY Zenon DEF StopNext
<1>3. PICK k \in Camera, l \in Slot : x = <<k, l>>
  BY <1>2
<1> DEFINE r == [ed[e] EXCEPT !.pc = "stop", !.loaded = table, !.todo = todo \ {x}, !.at = x]
<1>4. r \in Request /\ r.pc = "stop" /\ r.at = <<k, l>>
  BY <1>1, <1>2, <1>3 DEF Request, PC
<1>5. GoesOn(e, r)
  BY <1>2 DEF GoesOn
<1> HIDE DEF r
<1>6. SetReader(k, l, Halted(stream[k][l])) /\ Halted(stream[k][l]) \in Reader
  BY <1>1, <1>2, <1>3, ReaderTyped, HaltedIs DEF SetReader
<1>7. /\ stream' \in [Camera -> [Slot -> Reader]]
      /\ \A d \in Camera, j \in Slot : ~(d = k /\ j = l) => stream'[d][j] = stream[d][j]
  BY <1>1, <1>6, OneReader
<1>8. capture' \in [Camera -> {0} \union Slot]
  BY <1>2 DEF Listed
<1>9. ASSUME NEW c \in Camera, capture'[c] # 0
      PROVE  \/ /\ capture'[c] = capture[c]
                /\ ~(ed[e].pc = "stop" /\ ed[e].at = <<c, capture[c]>>)
                /\ stream'[c][capture[c]] = stream[c][capture[c]]
             \/ r.pc = "stop" /\ r.at = <<c, capture'[c]>>
  <2>1. capture'[c] = capture[c] /\ ~(ed[e].pc = "stop" /\ ed[e].at = <<c, capture[c]>>)
    BY <1>2, <1>9 DEF Listed
  <2>2. capture[c] \in Slot
    BY <1>8, <1>9, <2>1
  <2>3. CASE c = k /\ capture[c] = l
    BY <1>4, <2>1, <2>3
  <2>4. CASE ~(c = k /\ capture[c] = l)
    BY <1>7, <2>1, <2>2, <2>4
  <2>5. QED BY <2>3, <2>4
<1>10. ed' \in [Editor -> Request] /\ RenamesKnown' /\ ListedRun'
  BY <1>4, <1>5, <1>9, ListChanges
<1>11. StreamsTyped'
  BY <1>1, <1>2, <1>7, <1>8, <1>10 DEF StreamsTyped, survivors
<1>12. QED BY <1>10, <1>11 DEF StreamsInv

LEMMA ContinueKeeps ==
  ASSUME StreamsInv, SlotsLeft, NEW e \in Editor, NEW table \in [Camera -> Row], NEW own,
         NEW todo \in SUBSET (Camera \X Slot),
         Listed(e, own), Continue(e, table, own, todo), cameras' \in [Camera -> Row],
         UNCHANGED <<rows, survivors, scope, edits, reports, closed>>
  PROVE  StreamsInv'
<1>1. CASE todo = {}
  BY <1>1, CreateKeeps DEF Continue
<1>2. CASE todo # {}
  BY <1>2, StopNextKeeps DEF Continue
<1>3. QED BY <1>1, <1>2

LEMMA RefreshedKeeps ==
  ASSUME StreamsInv, SlotsLeft, NEW e \in Editor, Refreshed(e)
  PROVE  StreamsInv'
<1> DEFINE table == ed[e].loaded
           todo == {<<c, capture[c]>> : c \in {d \in Camera : capture[d] # 0 /\ Mismatched(table, d)}}
<1>1. /\ ed[e].pc = "refresh" /\ cameras' = table /\ Continue(e, table, capture, todo)
      /\ UNCHANGED <<rows, survivors, scope, edits, reports, closed>>
  BY DEF Refreshed
<1>2. table \in [Camera -> Row] /\ capture \in [Camera -> {0} \union Slot]
  BY RequestTyped DEF StreamsInv, StreamsTyped
<1>3. Listed(e, capture)
  BY <1>1, <1>2 DEF Listed
<1>4. todo \in SUBSET (Camera \X Slot)
  BY <1>2
<1> HIDE DEF table, todo
<1>5. cameras' \in [Camera -> Row]
  BY <1>1, <1>2
<1>6. QED BY <1>1, <1>2, <1>3, <1>4, <1>5, ContinueKeeps

LEMMA StoppedKeeps ==
  ASSUME StreamsInv, SlotsLeft, NEW e \in Editor, Stopped(e)
  PROVE  StreamsInv'
<1> DEFINE own == [capture EXCEPT ![ed[e].at[1]] = 0]
<1>1. /\ Continue(e, ed[e].loaded, own, ed[e].todo)
      /\ UNCHANGED <<rows, cameras, survivors, scope, edits, reports, closed>>
  BY DEF Stopped
<1>2. /\ ed[e].loaded \in [Camera -> Row] /\ ed[e].todo \in SUBSET (Camera \X Slot)
      /\ capture \in [Camera -> {0} \union Slot] /\ cameras \in [Camera -> Row]
  BY RequestTyped DEF StreamsInv, StreamsTyped
<1>3. own \in [Camera -> {0} \union Slot]
  BY <1>2
<1>4. ASSUME NEW c \in Camera, own[c] # 0
      PROVE  own[c] = capture[c] /\ ed[e].at # <<c, capture[c]>>
  <2>1. c # ed[e].at[1]
    BY <1>2, <1>4
  <2>2. QED BY <1>2, <2>1
<1> HIDE DEF own
<1>5. Listed(e, own)
  BY <1>3, <1>4 DEF Listed
<1>6. cameras' \in [Camera -> Row]
  BY <1>1, <1>2
<1>7. UNCHANGED <<rows, survivors, scope, edits, reports, closed>>
  BY <1>1
<1>8. QED BY <1>1, <1>2, <1>5, <1>6, <1>7, ContinueKeeps

-----------------------------------------------------------------------------
(* The invariant of the streams *)

LEMMA StreamsStep ==
  ASSUME StreamsInv, SlotsLeft, [Next]_vars
  PROVE  StreamsInv'
<1>1. CASE \E c \in Camera, i \in Slot : ReaderStep(c, i)
  BY <1>1, ReadersKeepList
<1>2. CASE \E c \in Camera : Dies(c)
  BY <1>2, DiesKeepsList
<1>3. CASE \E e \in Editor, S \in SUBSET Camera, v \in Row \ {"absent"} : CreateCameras(e, S, v)
  BY <1>3, EditsKeep
<1>4. CASE \E e \in Editor, c \in Camera, v \in Row \ {"absent"} : PatchCamera(e, c, v)
  BY <1>4, EditsKeep
<1>5. CASE \E e \in Editor, S \in SUBSET Camera, v \in Source : ChangeSubstreams(e, S, v)
  BY <1>5, EditsKeep
<1>6. CASE \E e \in Editor : Reconfigure(e)
  BY <1>6, EditsKeep
<1>7. CASE \E e \in Editor, S \in SUBSET Camera : DeleteCameras(e, S)
  BY <1>7, EditsKeep
<1>8. CASE \E e \in Editor, c, d \in Camera : Rename(e, c, d)
  BY <1>8, RenameKeeps
<1>9. CASE \E e \in Editor : RequestStep(e)
  BY <1>9, RemoveReaderKeeps, UnlinkKeepsList, RenameRowKeeps, LoadKeeps, RefreshedKeeps,
     StoppedKeeps DEF RequestStep
<1>10. CASE Close
  BY <1>10, CloseKeeps
<1>11. CASE UNCHANGED streamVars
  BY <1>11, StreamsUnchanged
<1>12. CASE UNCHANGED vars
  BY <1>12, StreamsUnchanged DEF vars
<1>13. QED
  BY <1>1, <1>2, <1>3, <1>4, <1>5, <1>6, <1>7, <1>8, <1>9, <1>10, <1>11, <1>12, Zenon DEF Next

LEMMA StreamsStart ==
  ASSUME Init
  PROVE  StreamsInv
<1>1. PICK s \in Settings :
        /\ rows = s.rows /\ cameras = s.rows /\ scope = s.scope /\ edits = s.edits /\ reports = s.reports
        /\ left = [c \in Camera |-> 0] /\ stubborn = s.stubborn
        /\ sources = [c \in Camera |-> IF c \in Wanted(s.rows) THEN s.rows[c] ELSE "none"]
        /\ capture = [c \in Camera |-> IF c \in Wanted(s.rows) THEN 1 ELSE 0]
        /\ stream = [c \in Camera |-> [i \in Slot |->
             IF i = 1 /\ c \in Wanted(s.rows)
             THEN [phase |-> "starting", source |-> s.rows[c], device |-> Assignment(s.rows, c)]
             ELSE NoReader]]
        /\ ed = [e \in Editor |-> Idle]
        /\ closed = FALSE
  BY DEF Init
<1>2. /\ s.rows \in [Camera -> Row] /\ s.scope \subseteq Camera /\ s.edits \in Nat
      /\ s.reports \in BOOLEAN /\ s.stubborn \in Nat /\ 1 \in Slot
  BY StreamsAssumption
<1> DEFINE new(c) == [phase |-> "starting", source |-> rows[c], device |-> Assignment(rows, c)]
<1>3. ASSUME NEW c \in Wanted(rows)
      PROVE  new(c) \in Reader /\ new(c).phase = "starting"
  <2>1. c \in Camera /\ rows[c] \in Source
    BY DEF Wanted
  <2>2. Assignment(rows, c) \in 0..Devices
    BY <2>1, AssignmentTyped
  <2>3. QED BY <2>1, <2>2 DEF Reader, Phase
<1>4. NoReader \in Reader
  BY StreamsAssumption DEF NoReader, Reader, Phase
<1>5. \A c \in Camera, i \in Slot :
        stream[c][i] = IF i = 1 /\ c \in Wanted(rows) THEN new(c) ELSE NoReader
  BY <1>1
<1> HIDE DEF new
<1>6. StreamsTyped
  <2>1. NoRows \in [Camera -> Row]
    BY DEF NoRows, Row
  <2>2. Idle \in Request
    BY <2>1 DEF Idle, Request, PC
  <2>3. capture \in [Camera -> {0} \union Slot]
    BY <1>1, <1>2
  <2>4. sources \in [Camera -> Source \union {"none"}]
    BY <1>1 DEF Wanted
  <2>5. stream \in [Camera -> [Slot -> Reader]]
    <3>1. stream = [c \in Camera |-> [i \in Slot |-> stream[c][i]]]
      BY <1>1
    <3>2. \A c \in Camera, i \in Slot : stream[c][i] \in Reader
      BY <1>3, <1>4, <1>5
    <3>3. QED BY <3>1, <3>2
  <2>6. ed \in [Editor -> Request]
    BY <1>1, <2>2
  <2>7. /\ rows \in [Camera -> Row] /\ cameras \in [Camera -> Row] /\ scope \subseteq Camera
        /\ edits \in Nat /\ reports \in BOOLEAN /\ closed \in BOOLEAN
        /\ left \in [Camera -> Nat] /\ stubborn \in Nat
    BY <1>1, <1>2
  <2>8. QED BY <2>3, <2>4, <2>5, <2>6, <2>7 DEF StreamsTyped
<1>7. RenamesKnown
  BY <1>1 DEF RenamesKnown, Idle
<1>8. ASSUME NEW c \in Camera, capture[c] # 0
      PROVE  Runs(c, capture[c])
  <2>1. c \in Wanted(rows) /\ capture[c] = 1
    BY <1>1, <1>8
  <2>2. stream[c][1].phase = "starting"
    BY <1>2, <1>3, <1>5, <2>1
  <2>3. QED BY <2>1, <2>2 DEF Runs
<1>9. ListedRun
  BY <1>8 DEF ListedRun
<1>10. QED BY <1>6, <1>7, <1>9 DEF StreamsInv

\* However many requests overlap, and whatever processes outlive their kill: a
\* reader on the list runs, or is awaited by the request that stops it, as long
\* as there are names for the readers.
THEOREM ListedReadersRun == Spec /\ []SlotsLeft => []ListedRun
<1>1. Init => StreamsInv
  BY StreamsStart
<1>2. StreamsInv /\ SlotsLeft /\ [Next]_vars => StreamsInv'
  BY StreamsStep
<1>3. StreamsInv => ListedRun
  BY DEF StreamsInv
<1>4. QED BY <1>1, <1>2, <1>3, PTL DEF Spec

-----------------------------------------------------------------------------
(***************************************************************************)
(* Proofs about YoloBatch, the general detector that gets the frames of    *)
(* the captures and previews: for every set of cameras, previews and       *)
(* devices, every size of the pool, and any number of reloads, time-outs   *)
(* and failures.  The inductive invariant YoloInv has the types, where a   *)
(* request is, what is known of a call, whom a loop waits for, and the     *)
(* order of the pictures of a key.                                         *)
(***************************************************************************)
CONSTANTS Watched, Preview, Device, Workers, Threads, Sizes, MaxFrame, MaxUpset

VARIABLES batchSize, deviceOf, fixed, yolo, open, closing, running, workers, previewing, queue,
          batcher, thread, work, loop, frame, analyzed, tracker, late, upsets

Yolo == INSTANCE YoloBatch WITH Camera <- Watched

LoopType == [state : {"idle", "waiting", "ok", "failed", "cancelled"},
             start : 0 .. MaxFrame, seen : 0 .. MaxFrame]

YoloTyped ==
  /\ batchSize \in Nat \ {0} /\ deviceOf \in [Yolo!Key -> Device]
  /\ closing \in BOOLEAN /\ running \in BOOLEAN /\ upsets \in 0 .. MaxUpset
  /\ yolo \in Nat \ {0} /\ open \subseteq {yolo}
  /\ yolo + (IF closing /\ running THEN 1 ELSE 0) <= upsets + 1
  /\ queue \in [Yolo!Detector -> [Device -> Seq({Yolo!Sentinel} \cup Yolo!Thread)]]
  /\ batcher \in [Yolo!Detector -> [Device ->
       [phase : {"getting", "collecting", "collected", "asking", "ended"},
        batch : Seq(Yolo!Thread)]]]
  /\ thread \in [Yolo!Thread -> Yolo!Calls \cup {Yolo!Free}]
  /\ work \in Seq(Yolo!Calls)
  /\ loop \in [Yolo!Key -> LoopType]
  /\ frame \in [Yolo!Key -> 0 .. MaxFrame] /\ analyzed \in [Yolo!Key -> 0 .. MaxFrame]
  /\ tracker \in [Yolo!Detector -> [Yolo!Key -> 0 .. MaxFrame]]
  /\ late \subseteq Yolo!Key

\* A batch thread has in its batch or its queue exactly who waits for it, once
\* each, and the sentinel of the close of its detector once, until it has ended.
Waits(t, g, d) ==
  t \in Yolo!Busy /\ thread[t].stage = "queued" /\ thread[t].yolo = g /\ Yolo!DeviceFor(t) = d

PlaceInv(g, d) ==
  LET q == queue[g][d]
      b == batcher[g][d].batch
      phase == batcher[g][d].phase
  IN /\ \A t \in Yolo!Thread : Yolo!Contains(q, t) \/ Yolo!Contains(b, t) <=> Waits(t, g, d)
     /\ Yolo!IsInjective(q) /\ Yolo!IsInjective(b) /\ Len(b) <= batchSize
     /\ \A t \in Yolo!Thread : ~(Yolo!Contains(q, t) /\ Yolo!Contains(b, t))
     /\ Yolo!Contains(q, Yolo!Sentinel) \/ phase = "ended" => g \notin open \/ closing
     /\ Yolo!Contains(q, Yolo!Sentinel) => phase # "ended"
     /\ phase \in {"getting", "ended"} => b = <<>>
     /\ g > yolo => q = <<>> /\ phase = "getting"

PlacesInv == \A g \in Yolo!Detector, d \in Device : PlaceInv(g, d)

CallsInv ==
  /\ \A t \in Yolo!Busy : LET c == thread[t] IN
       /\ c.yolo <= yolo /\ c.answers = c.key /\ c.picture <= frame[c.key]
       /\ c.stage = "ok" => c.result = c.picture
  /\ \A i \in DOMAIN work : LET c == work[i] IN
       /\ c.yolo <= yolo /\ c.answers = c.key /\ c.picture <= frame[c.key]
       /\ c.stage = "entered" /\ c.awaited

\* The loop of a key waits for one call: of a thread, or before it has one.
Heard(t) == t \in Yolo!Busy /\ thread[t].awaited

HeardInv ==
  /\ \A t \in Yolo!Thread : Heard(t) => loop[thread[t].key].state = "waiting"
  /\ \A i \in DOMAIN work : loop[work[i].key].state = "waiting"
  /\ \A t, u \in Yolo!Thread : Heard(t) /\ Heard(u) /\ thread[t].key = thread[u].key => t = u
  /\ \A i, j \in DOMAIN work : work[i].key = work[j].key => i = j
  /\ \A t \in Yolo!Thread, i \in DOMAIN work : Heard(t) => thread[t].key # work[i].key
  /\ \A k \in Yolo!Key : loop[k].state = "waiting" =>
       \/ \E t \in Yolo!Thread : Heard(t) /\ thread[t].key = k
       \/ \E i \in DOMAIN work : work[i].key = k

\* The keys of which a call is given its picture when it starts.
Given == IF fixed THEN Yolo!Key ELSE Preview

\* The call has the picture that its tracker will be shown.
Pictured(t) ==
  \/ thread[t].key \in Given \/ thread[t].stage \in {"asking", "ok"}
  \/ \E g \in Yolo!Detector, d \in Device :
       batcher[g][d].phase = "asking" /\ Yolo!Contains(batcher[g][d].batch, t)

\* A key of which no call was given up has one call at a time, whose picture no
\* tracker is ahead of.
OrderInv ==
  /\ \A g \in Yolo!Detector, k \in Yolo!Key : tracker[g][k] <= frame[k]
  /\ running => \A t \in Yolo!Busy : thread[t].awaited \/ thread[t].key \in late
  /\ \A t, u \in Yolo!Busy : thread[t].key = thread[u].key /\ t # u => thread[t].key \in late
  /\ \A t \in Yolo!Busy, i \in DOMAIN work :
       thread[t].key = work[i].key => thread[t].key \in late
  /\ \A t \in Yolo!Busy : Pictured(t) /\ thread[t].key \notin late =>
       \A g \in Yolo!Detector : tracker[g][thread[t].key] <= thread[t].picture
  /\ \A i \in DOMAIN work : work[i].key \in Given \ late =>
       \A g \in Yolo!Detector : tracker[g][work[i].key] <= work[i].picture

\* The cameras that are being analysed have a worker each.
Passing == {c \in Watched : loop[c] # Yolo!Idle}

WorkersInv ==
  /\ workers \in Nat /\ workers <= Workers
  /\ IsFiniteSet(Passing) /\ Cardinality(Passing) <= workers

YoloInv == YoloTyped /\ PlacesInv /\ CallsInv /\ HeardInv /\ OrderInv /\ WorkersInv

-----------------------------------------------------------------------------
(* Queues, and the operators of YoloBatch *)

\* The operators of the instance are those of the libraries.
LEMMA YoloOperators ==
  ASSUME NEW S, NEW s, NEW e
  PROVE  /\ Yolo!Cardinality(S) = Cardinality(S)
         /\ Yolo!Picked(s, S) = Picked(s, S)
         /\ Yolo!Contains(s, e) <=> \E i \in 1 .. Len(s) : s[i] = e
         /\ Yolo!IsInjective(s) <=> IsInjective(s)
<1>1. Yolo!Cardinality(S) = Cardinality(S)
  BY Zenon DEF Yolo!Cardinality, Cardinality
<1>2. Yolo!Picked(s, S) = Picked(s, S)
  BY Zenon DEF Yolo!Picked, Picked, Yolo!Cardinality, Cardinality
<1>3. Yolo!Contains(s, e) <=> \E i \in 1 .. Len(s) : s[i] = e
  BY DEF Yolo!Contains
<1>4. Yolo!IsInjective(s) <=> IsInjective(s)
  BY DEF Yolo!IsInjective, IsInjective
<1>5. QED BY <1>1, <1>2, <1>3, <1>4

\* Who joins a queue at its end
LEMMA Joining ==
  ASSUME NEW T, NEW s \in Seq(T), NEW e \in T
  PROVE  /\ Append(s, e) \in Seq(T) /\ Append(s, e) # <<>>
         /\ Len(Append(s, e)) = Len(s) + 1 /\ Len(s) \in Nat
         /\ \A x : Yolo!Contains(Append(s, e), x) <=> Yolo!Contains(s, x) \/ x = e
         /\ Yolo!IsInjective(s) /\ ~Yolo!Contains(s, e) => Yolo!IsInjective(Append(s, e))
<1> DEFINE t == Append(s, e)
<1>1. /\ t \in Seq(T) /\ Len(s) \in Nat /\ DOMAIN s = 1 .. Len(s)
      /\ Len(t) = Len(s) + 1 /\ DOMAIN t = 1 .. Len(s) + 1
      /\ t[Len(s) + 1] = e /\ \A i \in 1 .. Len(s) : t[i] = s[i]
  OBVIOUS
<1>2. t # <<>>
  BY <1>1
<1> HIDE DEF t
<1>3. \A i \in 1 .. Len(s) + 1 : i \in 1 .. Len(s) \/ i = Len(s) + 1
  BY <1>1
<1>4. \A i \in 1 .. Len(s) : i \in 1 .. Len(s) + 1 /\ i # Len(s) + 1
  BY <1>1
<1>5. Len(s) + 1 \in 1 .. Len(s) + 1
  BY <1>1
<1>6. ASSUME NEW x PROVE Yolo!Contains(t, x) <=> Yolo!Contains(s, x) \/ x = e
  BY <1>1, <1>3, <1>4, <1>5, Zenon DEF Yolo!Contains
<1>7. ASSUME Yolo!IsInjective(s), ~Yolo!Contains(s, e) PROVE Yolo!IsInjective(t)
  BY <1>1, <1>3, <1>4, <1>7 DEF Yolo!IsInjective, Yolo!Contains
<1>8. QED BY <1>1, <1>2, <1>6, <1>7 DEF t

\* Who leaves it at its head
LEMMA Leave ==
  ASSUME NEW T, NEW s \in Seq(T), s # <<>>
  PROVE  /\ Tail(s) \in Seq(T) /\ Head(s) \in T
         /\ \A x : Yolo!Contains(s, x) <=> x = Head(s) \/ Yolo!Contains(Tail(s), x)
         /\ Yolo!IsInjective(s) =>
              Yolo!IsInjective(Tail(s)) /\ ~Yolo!Contains(Tail(s), Head(s))
<1> DEFINE t == Tail(s)
           h == Head(s)
<1>1. /\ t \in Seq(T) /\ h \in T /\ Len(s) \in Nat /\ Len(s) > 0 /\ DOMAIN s = 1 .. Len(s)
      /\ Len(t) = Len(s) - 1 /\ DOMAIN t = 1 .. Len(s) - 1
      /\ h = s[1] /\ \A i \in 1 .. Len(s) - 1 : t[i] = s[i + 1]
  OBVIOUS
<1> HIDE DEF t, h
<1>2. \A i \in 1 .. Len(s) - 1 : i + 1 \in 1 .. Len(s) /\ i + 1 # 1
  BY <1>1
<1>3. \A i \in 1 .. Len(s) : i = 1 \/ \E j \in 1 .. Len(s) - 1 : i = j + 1
  <2>1. ASSUME NEW i \in 1 .. Len(s), i # 1 PROVE \E j \in 1 .. Len(s) - 1 : i = j + 1
    <3>1. i - 1 \in 1 .. Len(s) - 1 /\ i = (i - 1) + 1
      BY <1>1, <2>1
    <3>2. QED BY <3>1
  <2>2. QED BY <2>1
<1>4. 1 \in 1 .. Len(s)
  BY <1>1
<1>5. ASSUME NEW x PROVE Yolo!Contains(s, x) <=> x = h \/ Yolo!Contains(t, x)
  <2>1. Yolo!Contains(t, x) <=> \E j \in 1 .. Len(s) - 1 : t[j] = x
    BY <1>1 DEF Yolo!Contains
  <2>2. Yolo!Contains(s, x) <=> \E i \in 1 .. Len(s) : s[i] = x
    BY DEF Yolo!Contains
  <2>3. ASSUME NEW i \in 1 .. Len(s), s[i] = x
         PROVE x = h \/ \E j \in 1 .. Len(s) - 1 : t[j] = x
    BY <1>1, <1>3, <2>3
  <2>4. ASSUME NEW j \in 1 .. Len(s) - 1, t[j] = x PROVE \E i \in 1 .. Len(s) : s[i] = x
    BY <1>1, <1>2, <2>4
  <2>5. x = h => \E i \in 1 .. Len(s) : s[i] = x
    BY <1>1, <1>4
  <2>6. QED BY <2>1, <2>2, <2>3, <2>4, <2>5
<1>6. ASSUME Yolo!IsInjective(s) PROVE Yolo!IsInjective(t) /\ ~Yolo!Contains(t, h)
  <2>1. ASSUME NEW i \in 1 .. Len(s) - 1, NEW j \in 1 .. Len(s) - 1, t[i] = t[j] PROVE i = j
    <3>1. i + 1 = j + 1
      BY <1>1, <1>2, <1>6, <2>1 DEF Yolo!IsInjective
    <3>2. QED BY <3>1
  <2>2. ~Yolo!Contains(t, h)
    BY <1>1, <1>2, <1>4, <1>6 DEF Yolo!IsInjective, Yolo!Contains
  <2>3. QED BY <1>1, <2>1, <2>2 DEF Yolo!IsInjective
<1>7. QED BY <1>1, <1>5, <1>6 DEF t, h

\* A batch and the queue behind it are a queue without repetition.
LEMMA InLine ==
  ASSUME NEW T, NEW b \in Seq(T), NEW q \in Seq(T), Yolo!IsInjective(b), Yolo!IsInjective(q),
         \A x \in T : ~(Yolo!Contains(b, x) /\ Yolo!Contains(q, x))
  PROVE  Yolo!IsInjective(b \o q)
<1> DEFINE m == Len(b)
           n == Len(q)
           line == b \o q
<1>1. /\ m \in Nat /\ n \in Nat /\ DOMAIN b = 1 .. m /\ DOMAIN q = 1 .. n
      /\ DOMAIN line = 1 .. m + n
      /\ \A i \in 1 .. m + n : line[i] = (IF i <= m THEN b[i] ELSE q[i - m])
      /\ \A i \in 1 .. m : b[i] \in T
  OBVIOUS
<1> HIDE DEF line, m, n
<1>2. \A i \in 1 .. m + n : i <= m \/ i - m \in 1 .. n
  BY <1>1
<1>3. \A i \in 1 .. m + n : i <= m => i \in 1 .. m
  BY <1>1
<1>4. \A i \in 1 .. m, j \in 1 .. n : b[i] # q[j]
  BY <1>1 DEF Yolo!Contains, m, n
<1>5. ASSUME NEW i \in 1 .. m + n, NEW j \in 1 .. m + n, line[i] = line[j]
      PROVE  i = j
  <2>1. CASE i <= m /\ j <= m
    BY <1>1, <1>3, <1>5, <2>1 DEF Yolo!IsInjective
  <2>2. CASE ~(i <= m) /\ ~(j <= m)
    <3>1. i - m = j - m
      BY <1>1, <1>2, <1>5, <2>2 DEF Yolo!IsInjective
    <3>2. QED BY <1>1, <3>1
  <2>3. CASE i <= m /\ ~(j <= m)
    BY <1>1, <1>2, <1>3, <1>4, <1>5, <2>3
  <2>4. CASE ~(i <= m) /\ j <= m
    BY <1>1, <1>2, <1>3, <1>4, <1>5, <2>4
  <2>5. QED BY <2>1, <2>2, <2>3, <2>4
<1>6. QED BY <1>1, <1>5 DEF Yolo!IsInjective, line

-----------------------------------------------------------------------------
(* The types *)

\* A thread that does something has a call.
LEMMA Working ==
  ASSUME YoloTyped, NEW t \in Yolo!Thread
  PROVE  /\ t \in Yolo!Busy <=> thread[t].stage # "free"
         /\ t \in Yolo!Busy <=> thread[t] # Yolo!Free
         /\ t \in Yolo!Busy => /\ thread[t] \in Yolo!Calls /\ Yolo!DeviceFor(t) \in Device
                               /\ thread[t].key \in Yolo!Key /\ thread[t].yolo \in Yolo!Detector
                               /\ thread[t].picture \in 0 .. MaxFrame
                               /\ thread[t].result \in 0 .. MaxFrame
                               /\ thread[t].awaited \in BOOLEAN
<1>1. t \in Yolo!Busy <=> thread[t] # Yolo!Free
  BY DEF Yolo!Busy
<1>2. thread[t] \in Yolo!Calls \/ thread[t] = Yolo!Free
  BY DEF YoloTyped
<1>3. Yolo!Free.stage = "free" /\ \A c \in Yolo!Calls : c.stage # "free"
  BY DEF Yolo!Free, Yolo!Calls
<1>4. ASSUME thread[t] \in Yolo!Calls
      PROVE  /\ thread[t].key \in Yolo!Key /\ thread[t].yolo \in Yolo!Detector
             /\ thread[t].picture \in 0 .. MaxFrame /\ thread[t].result \in 0 .. MaxFrame
             /\ thread[t].awaited \in BOOLEAN
  BY <1>4 DEF Yolo!Calls
<1>5. thread[t] \in Yolo!Calls => Yolo!DeviceFor(t) \in Device
  BY <1>4 DEF YoloTyped, Yolo!DeviceFor
<1>6. QED BY <1>1, <1>2, <1>3, <1>4, <1>5

\* The batch of a thread for batches, and what is queued for it
LEMMA Waiting ==
  ASSUME YoloTyped, NEW g \in Yolo!Detector, NEW d \in Device
  PROVE  /\ queue[g][d] \in Seq({Yolo!Sentinel} \cup Yolo!Thread)
         /\ batcher[g][d].batch \in Seq(Yolo!Thread) /\ Len(batcher[g][d].batch) \in Nat
         /\ batcher[g][d].phase \in {"getting", "collecting", "collected", "asking", "ended"}
         /\ Yolo!Sentinel \notin Yolo!Thread /\ g \in Nat
         /\ \A t : Yolo!Contains(batcher[g][d].batch, t) => t \in Yolo!Thread
<1>1. /\ queue[g][d] \in Seq({Yolo!Sentinel} \cup Yolo!Thread)
      /\ batcher[g][d].batch \in Seq(Yolo!Thread)
      /\ batcher[g][d].phase \in {"getting", "collecting", "collected", "asking", "ended"}
  BY DEF YoloTyped
<1>2. Yolo!Sentinel \notin Yolo!Thread
  BY DEF Yolo!Sentinel, Yolo!Thread
<1>3. g \in Nat
  BY DEF Yolo!Detector, YoloTyped
<1>4. QED BY <1>1, <1>2, <1>3 DEF Yolo!Contains

\* The calls of a batch get what F gives them.
LEMMA Answers ==
  ASSUME NEW b \in Seq(Yolo!Thread), NEW calls, NEW F,
         \A i \in 1 .. Len(b) : calls[i] = F[b[i]]
  PROVE  Yolo!Answered(b, calls) =
           [t \in Yolo!Thread |-> IF Yolo!Contains(b, t) THEN F[t] ELSE thread[t]]
<1>1. DOMAIN b = 1 .. Len(b)
  OBVIOUS
<1>2. ASSUME NEW t \in Yolo!Thread, Yolo!Contains(b, t)
      PROVE  calls[CHOOSE i \in DOMAIN b : b[i] = t] = F[t]
  <2>1. \E i \in DOMAIN b : b[i] = t
    BY <1>1, <1>2 DEF Yolo!Contains
  <2>2. (CHOOSE i \in DOMAIN b : b[i] = t) \in DOMAIN b
        /\ b[CHOOSE i \in DOMAIN b : b[i] = t] = t
    BY <2>1
  <2>3. QED BY <1>1, <2>2
<1>3. QED BY <1>2 DEF Yolo!Answered

Broken == {"failed", "cancelled"}
Failed(c, stage) == [c EXCEPT !.stage = stage]
Asked(c, picture) == [c EXCEPT !.picture = picture]
Zipped(c) == [c EXCEPT !.stage = "ok", !.answers = c.key, !.result = c.picture]

\* What a batch thread does to the calls of its batch: they fail together, ...
LEMMA FailIs ==
  ASSUME YoloTyped, NEW g \in Yolo!Detector, NEW d \in Device, NEW stage,
         Yolo!Fail(g, d, stage)
  PROVE  /\ batcher' = [batcher EXCEPT ![g][d] = Yolo!Resting]
         /\ thread' = [t \in Yolo!Thread |->
              IF Yolo!Contains(batcher[g][d].batch, t) THEN Failed(thread[t], stage) ELSE thread[t]]
<1> DEFINE b == batcher[g][d].batch
           F == [t \in Yolo!Thread |-> Failed(thread[t], stage)]
           calls == [i \in DOMAIN b |-> [thread[b[i]] EXCEPT !.stage = stage]]
<1>1. b \in Seq(Yolo!Thread) /\ DOMAIN b = 1 .. Len(b) /\ \A i \in 1 .. Len(b) : b[i] \in Yolo!Thread
  BY Waiting
<1>2. \A i \in 1 .. Len(b) : calls[i] = F[b[i]]
  BY <1>1 DEF Failed
<1>3. thread' = Yolo!Answered(b, calls) /\ batcher' = [batcher EXCEPT ![g][d] = Yolo!Resting]
  BY DEF Yolo!Fail
<1>4. Yolo!Answered(b, calls) =
        [t \in Yolo!Thread |-> IF Yolo!Contains(b, t) THEN F[t] ELSE thread[t]]
  <2> HIDE DEF calls, F, b
  <2>1. QED BY <1>1, <1>2, Answers
<1>5. QED BY <1>3, <1>4

\* ... have their pictures taken, or fail, ...
LEMMA DispatchIs ==
  ASSUME YoloTyped, NEW g \in Yolo!Detector, NEW d \in Device, Yolo!Dispatch(g, d)
  PROVE  \/ \E stage \in Broken : Yolo!Fail(g, d, stage)
         \/ /\ batcher' = [batcher EXCEPT ![g][d].phase = "asking"]
            /\ thread' = [t \in Yolo!Thread |->
                 IF Yolo!Contains(batcher[g][d].batch, t)
                 THEN Asked(thread[t], Yolo!Picture(t)) ELSE thread[t]]
<1> DEFINE b == batcher[g][d].batch
           F == [t \in Yolo!Thread |-> Asked(thread[t], Yolo!Picture(t))]
           calls == [i \in DOMAIN b |-> [thread[b[i]] EXCEPT !.picture = Yolo!Picture(b[i])]]
<1>1. b \in Seq(Yolo!Thread) /\ DOMAIN b = 1 .. Len(b) /\ \A i \in 1 .. Len(b) : b[i] \in Yolo!Thread
  BY Waiting
<1>2. \A i \in 1 .. Len(b) : calls[i] = F[b[i]]
  BY <1>1 DEF Asked
<1>3. \/ \E stage \in Broken : Yolo!Fail(g, d, stage)
      \/ thread' = Yolo!Answered(b, calls) /\ batcher' = [batcher EXCEPT ![g][d].phase = "asking"]
  BY Zenon DEF Yolo!Dispatch, Broken
<1>4. Yolo!Answered(b, calls) =
        [t \in Yolo!Thread |-> IF Yolo!Contains(b, t) THEN F[t] ELSE thread[t]]
  <2> HIDE DEF calls, F, b
  <2>1. QED BY <1>1, <1>2, Answers
<1>5. QED BY <1>3, <1>4

\* ... or are answered, each for its own picture.
LEMMA AnswerIs ==
  ASSUME YoloTyped, NEW g \in Yolo!Detector, NEW d \in Device, Yolo!Answer(g, d)
  PROVE  \/ \E stage \in Broken : Yolo!Fail(g, d, stage)
         \/ /\ batcher' = [batcher EXCEPT ![g][d] = Yolo!Resting]
            /\ thread' = [t \in Yolo!Thread |->
                 IF Yolo!Contains(batcher[g][d].batch, t) THEN Zipped(thread[t]) ELSE thread[t]]
<1> DEFINE b == batcher[g][d].batch
           F == [t \in Yolo!Thread |-> Zipped(thread[t])]
           calls == [i \in DOMAIN b |->
                      [thread[b[i]] EXCEPT !.stage = "ok", !.answers = Yolo!Results(g, d)[i].key,
                                           !.result = Yolo!Results(g, d)[i].picture]]
<1>1. b \in Seq(Yolo!Thread) /\ DOMAIN b = 1 .. Len(b) /\ \A i \in 1 .. Len(b) : b[i] \in Yolo!Thread
  BY Waiting
<1>2. \A i \in 1 .. Len(b) : Yolo!Results(g, d)[i] = thread[b[i]]
  BY <1>1 DEF Yolo!Results
<1>3. \A i \in 1 .. Len(b) : calls[i] = F[b[i]]
  BY <1>1, <1>2 DEF Zipped
<1>4. \/ \E stage \in Broken : Yolo!Fail(g, d, stage)
      \/ thread' = Yolo!Answered(b, calls) /\ batcher' = [batcher EXCEPT ![g][d] = Yolo!Resting]
  BY Zenon DEF Yolo!Answer, Yolo!Succeed, Broken
<1>5. Yolo!Answered(b, calls) =
        [t \in Yolo!Thread |-> IF Yolo!Contains(b, t) THEN F[t] ELSE thread[t]]
  <2> HIDE DEF calls, F, b
  <2>1. QED BY <1>1, <1>3, Answers
<1>6. QED BY <1>4, <1>5

-----------------------------------------------------------------------------
(* Types and steps *)

\* An assignment to an element of an element
LEMMA Assigned ==
  ASSUME NEW A, NEW B, NEW S, NEW f \in [A -> [B -> S]], NEW a \in A, NEW b \in B, NEW v \in S
  PROVE  /\ [f EXCEPT ![a][b] = v] \in [A -> [B -> S]]
         /\ \A x \in A, y \in B :
              [f EXCEPT ![a][b] = v][x][y] = (IF x = a /\ y = b THEN v ELSE f[x][y])
<1>1. [f[a] EXCEPT ![b] = v] \in [B -> S]
  OBVIOUS
<1>2. [f EXCEPT ![a][b] = v] = [f EXCEPT ![a] = [f[a] EXCEPT ![b] = v]]
  OBVIOUS
<1>3. [f EXCEPT ![a] = [f[a] EXCEPT ![b] = v]] \in [A -> [B -> S]]
  BY <1>1
<1>4. QED BY <1>1, <1>2, <1>3

BatcherType ==
  [phase : {"getting", "collecting", "collected", "asking", "ended"}, batch : Seq(Yolo!Thread)]

\* Calls that are given up leave the list of work, or go on unheard.
LEMMA AbandonIs ==
  ASSUME YoloTyped, NEW K, Yolo!Abandon(K)
  PROVE  /\ work' \in Seq(Yolo!Calls)
         /\ \A i \in DOMAIN work' :
              \E j \in DOMAIN work : work'[i] = work[j] /\ work[j].key \notin K
         /\ \A j \in DOMAIN work : work[j].key \notin K =>
              \E i \in DOMAIN work' : work'[i] = work[j]
         /\ IsInjective(work) => IsInjective(work')
         /\ thread' = [t \in Yolo!Thread |->
              IF t \in Yolo!Busy /\ thread[t].key \in K
              THEN [thread[t] EXCEPT !.awaited = FALSE] ELSE thread[t]]
<1> DEFINE I == {i \in DOMAIN work : work[i].key \notin K}
<1>1. work \in Seq(Yolo!Calls) /\ I \in SUBSET DOMAIN work
  BY DEF YoloTyped
<1>2. work' = Picked(work, I)
  BY YoloOperators DEF Yolo!Abandon
<1>3. \A i : i \in I <=> i \in DOMAIN work /\ work[i].key \notin K
  OBVIOUS
<1> HIDE DEF I
<1>4. /\ Picked(work, I) \in Seq(Yolo!Calls)
      /\ \A k \in DOMAIN Picked(work, I) : \E i \in I : Picked(work, I)[k] = work[i]
      /\ \A i \in I : \E k \in DOMAIN Picked(work, I) : Picked(work, I)[k] = work[i]
      /\ IsInjective(work) => IsInjective(Picked(work, I))
  BY <1>1, PickedIs, Zenon
<1>5. thread' = [t \in Yolo!Thread |->
              IF t \in Yolo!Busy /\ thread[t].key \in K
              THEN [thread[t] EXCEPT !.awaited = FALSE] ELSE thread[t]]
  BY DEF Yolo!Abandon
<1>6. /\ \A i \in DOMAIN work' :
           \E j \in DOMAIN work : work'[i] = work[j] /\ work[j].key \notin K
      /\ \A j \in DOMAIN work : work[j].key \notin K =>
           \E i \in DOMAIN work' : work'[i] = work[j]
  BY <1>2, <1>3, <1>4, Zenon
<1>7. QED BY <1>2, <1>4, <1>5, <1>6

LoopStep(k) == Yolo!Start(k) \/ Yolo!TimeOut(k) \/ Yolo!Receive(k) \/ Yolo!ResetTracker(k)
ServiceStep == Yolo!CloseDetector \/ Yolo!Closed \/ Yolo!Stop
ThreadStep(t) ==
  \/ Yolo!Enter(t) \/ Yolo!Put(t) \/ Yolo!Ask(t) \/ Yolo!Reply(t) \/ Yolo!Track(t) \/ Yolo!Raise(t)
BatchStep(g, d) ==
  Yolo!GetFirst(g, d) \/ Yolo!Collect(g, d) \/ Yolo!Dispatch(g, d) \/ Yolo!Answer(g, d)

\* The steps of the model, grouped by who takes them
LEMMA YoloSteps ==
  Yolo!Next <=>
    \/ \E k \in Yolo!Key : Yolo!NewFrame(k) \/ LoopStep(k)
    \/ ServiceStep
    \/ \E t \in Yolo!Thread : ThreadStep(t)
    \/ \E g \in Yolo!Detector, d \in Device : BatchStep(g, d)
BY Zenon DEF Yolo!Next, Yolo!Looping, Yolo!Pool, Yolo!Batching, LoopStep, ServiceStep,
   ThreadStep,
             BatchStep

\* Every step keeps the types.
LEMMA YoloTypedStep ==
  ASSUME Yolo!YoloAssumption, YoloTyped, PlacesInv, [Yolo!Next]_(Yolo!vars)
  PROVE  YoloTyped'
<1> USE DEF Yolo!settings, Yolo!service, Yolo!ends, Yolo!batching, Yolo!loops, LoopType
<1>1. MaxFrame \in Nat /\ MaxUpset \in Nat
  BY DEF Yolo!YoloAssumption
<1>2. ASSUME NEW k \in Yolo!Key, Yolo!NewFrame(k) PROVE YoloTyped'
  BY <1>1, <1>2 DEF YoloTyped, Yolo!NewFrame
<1>3. ASSUME NEW k \in Yolo!Key, Yolo!Start(k) PROVE YoloTyped'
  <2>1. yolo \in Yolo!Detector /\ frame[k] \in 0 .. MaxFrame
    BY <1>1 DEF YoloTyped, Yolo!Detector
  <2>2. Yolo!Call(k) \in Yolo!Calls
    BY <1>1, <2>1 DEF Yolo!Call, Yolo!Calls
  <2>3. work' = Append(work, Yolo!Call(k))
    BY <1>3 DEF Yolo!Start
  <2>4. work' \in Seq(Yolo!Calls)
    BY <2>2, <2>3 DEF YoloTyped
  <2>5. analyzed' \in [Yolo!Key -> 0 .. MaxFrame]
    BY <1>3, <2>1 DEF YoloTyped, Yolo!Start
  <2>6. loop' \in [Yolo!Key -> LoopType]
    <3>1. [state |-> "waiting", start |-> frame[k], seen |-> 0] \in LoopType
      BY <1>1, <2>1
    <3>2. loop' = [loop EXCEPT ![k] = [state |-> "waiting", start |-> frame[k], seen |-> 0]]
      BY <1>3 DEF Yolo!Start
    <3>3. QED BY <3>1, <3>2 DEF YoloTyped
  <2>7. QED BY <1>3, <2>4, <2>5, <2>6 DEF YoloTyped, Yolo!Start
<1>4. ASSUME NEW K, Yolo!Abandon(K)
      PROVE  thread' \in [Yolo!Thread -> Yolo!Calls \cup {Yolo!Free}] /\ work' \in Seq(Yolo!Calls)
  <2>1. ASSUME NEW c \in Yolo!Calls PROVE [c EXCEPT !.awaited = FALSE] \in Yolo!Calls
    BY DEF Yolo!Calls
  <2>2. \A t \in Yolo!Thread : thread[t] \in Yolo!Calls \cup {Yolo!Free}
                             /\ (t \in Yolo!Busy => thread[t] \in Yolo!Calls)
    BY Working DEF YoloTyped
  <2>3. QED BY <1>4, <2>1, <2>2, AbandonIs
<1>5. ASSUME NEW k \in Yolo!Key, Yolo!TimeOut(k) PROVE YoloTyped'
  <2>1. Yolo!Abandon({k})
    BY <1>5 DEF Yolo!TimeOut
  <2>2. upsets' = upsets \/ (upsets < MaxUpset /\ upsets' = upsets + 1)
    BY <1>5 DEF Yolo!TimeOut, Yolo!Upset
  <2>3. loop' \in [Yolo!Key -> LoopType]
    BY <1>1, <1>5 DEF YoloTyped, Yolo!TimeOut, Yolo!Idle
  <2>4. upsets' \in 0 .. MaxUpset /\ upsets' >= upsets
    BY <1>1, <2>2 DEF YoloTyped
  <2>5. /\ UNCHANGED <<batchSize, deviceOf, yolo, open, closing, running>>
        /\ UNCHANGED <<queue, batcher, frame, tracker>>
        /\ late' = late \cup {k}
        /\ analyzed' = [analyzed EXCEPT ![k] = loop[k].start]
    BY <1>5 DEF Yolo!TimeOut
  <2>6. yolo' + (IF closing' /\ running' THEN 1 ELSE 0) <= upsets' + 1
    <3>1. PICK n \in Nat : n = IF closing /\ running THEN 1 ELSE 0
      OBVIOUS
    <3>2. yolo + n <= upsets + 1 /\ yolo \in Nat /\ upsets \in Nat /\ upsets' \in Nat
      BY <1>1, <2>4, <3>1 DEF YoloTyped
    <3>3. \A y, m, u, v \in Nat : y + m <= u + 1 /\ v >= u => y + m <= v + 1
      OBVIOUS
    <3>4. yolo + n <= upsets' + 1
      BY <2>4, <3>1, <3>2, <3>3
    <3>5. QED BY <2>5, <3>1, <3>4
  <2>7. thread' \in [Yolo!Thread -> Yolo!Calls \cup {Yolo!Free}] /\ work' \in Seq(Yolo!Calls)
    BY <1>4, <2>1
  <2>8. late' \subseteq Yolo!Key
    BY <1>5, <2>5 DEF YoloTyped
  <2>9. analyzed' \in [Yolo!Key -> 0 .. MaxFrame]
    BY <2>5 DEF YoloTyped
  <2>10. QED BY <2>3, <2>4, <2>5, <2>6, <2>7, <2>8, <2>9 DEF YoloTyped
<1>6. ASSUME NEW k \in Yolo!Key, Yolo!Receive(k) \/ Yolo!ResetTracker(k) PROVE YoloTyped'
  <2>1. CASE Yolo!Receive(k)
    <3>1. /\ loop' = [loop EXCEPT ![k] = Yolo!Idle] /\ Yolo!Idle \in LoopType
          /\ analyzed' = analyzed \/ \E n \in {loop[k].start, loop[k].seen} :
                                      analyzed' = [analyzed EXCEPT ![k] = n]
      BY <1>1, <2>1 DEF Yolo!Receive, Yolo!Consume, Yolo!LoopEnds, Yolo!Idle
    <3>2. loop[k].start \in 0 .. MaxFrame /\ loop[k].seen \in 0 .. MaxFrame
      BY DEF YoloTyped
    <3>3. loop' \in [Yolo!Key -> LoopType] /\ analyzed' \in [Yolo!Key -> 0 .. MaxFrame]
      <4> HIDE DEF LoopType
      <4>1. QED BY <3>1, <3>2 DEF YoloTyped
    <3>4. QED BY <2>1, <3>3 DEF YoloTyped, Yolo!Receive
  <2>2. CASE Yolo!ResetTracker(k)
    <3>1. yolo \in Yolo!Detector /\ 0 \in 0 .. MaxFrame
      BY <1>1 DEF YoloTyped, Yolo!Detector
    <3>2. tracker' = [tracker EXCEPT ![yolo][k] = 0]
      BY <2>2 DEF Yolo!ResetTracker
    <3>3. tracker' \in [Yolo!Detector -> [Yolo!Key -> 0 .. MaxFrame]]
      BY <3>1, <3>2, Assigned DEF YoloTyped
    <3>4. QED BY <2>2, <3>3 DEF YoloTyped, Yolo!ResetTracker
  <2>3. QED BY <1>6, <2>1, <2>2
<1>7. ASSUME Yolo!CloseDetector PROVE YoloTyped'
  <2>1. \A d \in Device : queue[yolo][d] \in Seq({Yolo!Sentinel} \cup Yolo!Thread)
    <3>1. yolo \in Yolo!Detector
      BY <1>1 DEF YoloTyped, Yolo!Detector
    <3>2. QED BY <3>1 DEF YoloTyped
  <2>2. \A d \in Device : Append(queue[yolo][d], Yolo!Sentinel) \in Seq({Yolo!Sentinel} \cup Yolo!Thread)
    BY <2>1
  <2>3. queue' \in [Yolo!Detector -> [Device -> Seq({Yolo!Sentinel} \cup Yolo!Thread)]]
    BY <1>7, <2>2 DEF YoloTyped, Yolo!CloseDetector
  <2>4. /\ upsets' \in 0 .. MaxUpset
        /\ yolo' + (IF closing' /\ running' THEN 1 ELSE 0) <= upsets' + 1
    BY <1>1, <1>7 DEF YoloTyped, Yolo!CloseDetector, Yolo!Upset
  <2>5. QED BY <1>7, <2>3, <2>4 DEF YoloTyped, Yolo!CloseDetector
<1>8. ASSUME Yolo!Closed PROVE YoloTyped'
  <2>1. CASE running
    <3>1. yolo' = yolo + 1 /\ open' = {yolo + 1} /\ closing' = FALSE /\ yolo + 1 <= upsets + 1
      BY <1>8, <2>1 DEF YoloTyped, Yolo!Closed
    <3>2. running' = running /\ upsets' = upsets
      BY <1>8 DEF Yolo!Closed
    <3>3. /\ yolo' \in Nat \ {0} /\ open' \subseteq {yolo'}
          /\ yolo' + (IF closing' /\ running' THEN 1 ELSE 0) <= upsets' + 1
      BY <3>1, <3>2 DEF YoloTyped
    <3>4. UNCHANGED <<batchSize, deviceOf, running, queue, batcher, thread, work, loop, analyzed,
                      late, frame, tracker, upsets>> /\ closing' \in BOOLEAN
      BY <1>8, <3>1 DEF Yolo!Closed
    <3>5. QED BY <3>3, <3>4 DEF YoloTyped
  <2>2. CASE ~running
    <3>1. yolo' = yolo /\ open' = {} /\ closing' = FALSE
      BY <1>8, <2>2 DEF YoloTyped, Yolo!Closed
    <3>2. QED BY <1>1, <1>8, <2>2, <3>1 DEF YoloTyped, Yolo!Closed
  <2>3. QED BY <2>1, <2>2
<1>9. ASSUME Yolo!Stop PROVE YoloTyped'
  <2>1. Yolo!Abandon(Yolo!Key)
    BY <1>9 DEF Yolo!Stop
  <2>2. loop' \in [Yolo!Key -> LoopType]
    BY <1>1, <1>9 DEF Yolo!Stop, Yolo!Idle
  <2>3. QED BY <1>1, <1>4, <1>9, <2>1, <2>2 DEF YoloTyped, Yolo!Stop
<1>10. ASSUME NEW c \in Yolo!Calls, NEW state \in {"ok", "failed", "cancelled"}, Yolo!Ends(c, state)
       PROVE  loop' \in [Yolo!Key -> LoopType]
  <2>1. c.key \in Yolo!Key /\ c.picture \in 0 .. MaxFrame
    BY DEF Yolo!Calls
  <2>2. [loop[c.key] EXCEPT !.state = state, !.seen = c.picture] \in LoopType
    BY <2>1 DEF YoloTyped
  <2>3. \/ loop' = loop
        \/ loop' = [loop EXCEPT ![c.key] =
                      [loop[c.key] EXCEPT !.state = state, !.seen = c.picture]]
    BY <1>10 DEF Yolo!Ends
  <2> HIDE DEF LoopType
  <2>4. QED BY <2>1, <2>2, <2>3 DEF YoloTyped
<1>11. ASSUME NEW t \in Yolo!Thread, Yolo!Enter(t) PROVE YoloTyped'
  <2>1. Head(work) \in Yolo!Calls /\ Tail(work) \in Seq(Yolo!Calls)
    BY <1>11 DEF Yolo!Enter, YoloTyped
  <2>2. loop' \in [Yolo!Key -> LoopType]
    BY <1>10, <1>11, <2>1 DEF Yolo!Enter, YoloTyped
  <2>3. thread' \in [Yolo!Thread -> Yolo!Calls \cup {Yolo!Free}] /\ work' \in Seq(Yolo!Calls)
    BY <1>11, <2>1 DEF Yolo!Enter, YoloTyped
  <2>4. QED BY <1>11, <2>2, <2>3 DEF Yolo!Enter, YoloTyped
<1>12. ASSUME NEW t \in Yolo!Thread, Yolo!Put(t) PROVE YoloTyped'
  <2>1. t \in Yolo!Busy /\ thread[t] \in Yolo!Calls /\ thread[t].yolo \in Yolo!Detector
        /\ Yolo!DeviceFor(t) \in Device
    BY <1>12, Working DEF Yolo!Put
  <2>2. [thread[t] EXCEPT !.stage = "queued"] \in Yolo!Calls
    BY <2>1 DEF Yolo!Calls
  <2>3. thread' \in [Yolo!Thread -> Yolo!Calls \cup {Yolo!Free}]
    BY <1>12, <2>2 DEF YoloTyped, Yolo!Put
  <2>4. Append(queue[thread[t].yolo][Yolo!DeviceFor(t)], t) \in Seq({Yolo!Sentinel} \cup Yolo!Thread)
    BY <2>1 DEF YoloTyped
  <2>5. queue' \in [Yolo!Detector -> [Device -> Seq({Yolo!Sentinel} \cup Yolo!Thread)]]
    BY <1>12, <2>1, <2>4 DEF YoloTyped, Yolo!Put
  <2>6. QED BY <1>12, <2>3, <2>5 DEF YoloTyped, Yolo!Put
<1>13. ASSUME NEW t \in Yolo!Thread, Yolo!Ask(t) \/ Yolo!Reply(t) PROVE YoloTyped'
  <2>1. t \in Yolo!Busy /\ thread[t] \in Yolo!Calls /\ thread[t].key \in Yolo!Key
    BY <1>13, Working DEF Yolo!Ask, Yolo!Reply
  <2>2. Yolo!Picture(t) \in 0 .. MaxFrame /\ thread[t].picture \in 0 .. MaxFrame
    BY <2>1, Working DEF Yolo!Picture, Yolo!HasSource, YoloTyped
  <2>3. /\ [thread[t] EXCEPT !.stage = "asking", !.picture = Yolo!Picture(t)] \in Yolo!Calls
        /\ \A stage \in Broken : [thread[t] EXCEPT !.stage = stage] \in Yolo!Calls
        /\ [thread[t] EXCEPT !.stage = "ok", !.result = thread[t].picture] \in Yolo!Calls
    BY <2>1, <2>2 DEF Yolo!Calls, Broken
  <2>4. /\ upsets' = upsets \/ (upsets < MaxUpset /\ upsets' = upsets + 1)
        /\ UNCHANGED <<Yolo!settings, Yolo!service, Yolo!batching, Yolo!loops, frame, tracker>>
    BY <1>13 DEF Yolo!Ask, Yolo!Reply, Yolo!Works, Yolo!Breaks, Yolo!Upset
  <2>5. \E c \in Yolo!Calls : thread' = [thread EXCEPT ![t] = c]
    <3>1. \/ thread' = [thread EXCEPT ![t] =
                [thread[t] EXCEPT !.stage = "asking", !.picture = Yolo!Picture(t)]]
          \/ \E stage \in Broken :
                thread' = [thread EXCEPT ![t] = [thread[t] EXCEPT !.stage = stage]]
          \/ thread' = [thread EXCEPT ![t] =
                [thread[t] EXCEPT !.stage = "ok", !.result = thread[t].picture]]
      BY <1>13 DEF YoloTyped, Yolo!Ask, Yolo!Reply, Broken
    <3>2. QED BY <2>3, <3>1
  <2>6. thread' \in [Yolo!Thread -> Yolo!Calls \cup {Yolo!Free}]
    BY <2>5 DEF YoloTyped
  <2>7. QED BY <1>1, <2>4, <2>6 DEF YoloTyped
<1>14. ASSUME NEW t \in Yolo!Thread, Yolo!Track(t) \/ Yolo!Raise(t) PROVE YoloTyped'
  <2>1. t \in Yolo!Busy /\ thread[t] \in Yolo!Calls /\ thread[t].yolo \in Yolo!Detector
        /\ thread[t].key \in Yolo!Key /\ thread[t].result \in 0 .. MaxFrame
    BY <1>14, Working DEF Yolo!Track, Yolo!Raise
  <2>2. loop' \in [Yolo!Key -> LoopType]
    BY <1>10, <1>14, <2>1 DEF Yolo!Track, Yolo!Raise
  <2>3. tracker' \in [Yolo!Detector -> [Yolo!Key -> 0 .. MaxFrame]]
    <3>1. tracker' = tracker
          \/ tracker' = [tracker EXCEPT ![thread[t].yolo][thread[t].key] = thread[t].result]
      BY <1>14 DEF Yolo!Track, Yolo!Raise
    <3>2. tracker \in [Yolo!Detector -> [Yolo!Key -> 0 .. MaxFrame]]
      BY DEF YoloTyped
    <3>3. [tracker EXCEPT ![thread[t].yolo][thread[t].key] = thread[t].result]
            \in [Yolo!Detector -> [Yolo!Key -> 0 .. MaxFrame]]
      BY <2>1, <3>2, Assigned
    <3>4. QED BY <3>1, <3>2, <3>3
  <2>4. thread' \in [Yolo!Thread -> Yolo!Calls \cup {Yolo!Free}]
    BY <1>14 DEF YoloTyped, Yolo!Track, Yolo!Raise
  <2>5. UNCHANGED <<batchSize, deviceOf, yolo, open, closing, running, queue, batcher, work, frame,
                    analyzed, late, upsets>>
    BY <1>14 DEF Yolo!Track, Yolo!Raise
  <2>6. QED BY <2>2, <2>3, <2>4, <2>5 DEF YoloTyped
<1>15. ASSUME NEW g \in Yolo!Detector, NEW d \in Device, Yolo!GetFirst(g, d) \/ Yolo!Collect(g,
       d)
       PROVE  YoloTyped'
  <2> DEFINE q == queue[g][d]
  <2>1. q \in Seq({Yolo!Sentinel} \cup Yolo!Thread) /\ q # <<>>
    BY <1>15, Waiting DEF Yolo!GetFirst, Yolo!Collect
  <2>2. Head(q) \in {Yolo!Sentinel} \cup Yolo!Thread /\ Tail(q) \in Seq({Yolo!Sentinel} \cup Yolo!Thread)
        /\ Append(Tail(q), Yolo!Sentinel) \in Seq({Yolo!Sentinel} \cup Yolo!Thread)
    BY <2>1
  <2>3. Head(q) # Yolo!Sentinel =>
          <<Head(q)>> \in Seq(Yolo!Thread) /\ Append(batcher[g][d].batch, Head(q)) \in Seq(Yolo!Thread)
    BY <2>2, Waiting
  <2>4. queue' = [queue EXCEPT ![g][d] = Tail(q)]
        \/ queue' = [queue EXCEPT ![g][d] = Append(Tail(q), Yolo!Sentinel)]
    BY <1>15 DEF Yolo!GetFirst, Yolo!Collect
  <2>5. \/ batcher' = [batcher EXCEPT ![g][d] = [phase |-> "ended", batch |-> <<>>]]
        \/ Head(q) # Yolo!Sentinel
           /\ batcher' = [batcher EXCEPT ![g][d] = [phase |-> "collecting", batch |-> <<Head(q)>>]]
        \/ batcher' = [batcher EXCEPT ![g][d].phase = "collected"]
        \/ Head(q) # Yolo!Sentinel
           /\ batcher' = [batcher EXCEPT ![g][d].batch = Append(@, Head(q))]
    BY <1>15 DEF Yolo!GetFirst, Yolo!Collect
  <2> HIDE DEF q
  <2>6. queue' \in [Yolo!Detector -> [Device -> Seq({Yolo!Sentinel} \cup Yolo!Thread)]]
    <3>1. queue \in [Yolo!Detector -> [Device -> Seq({Yolo!Sentinel} \cup Yolo!Thread)]]
      BY DEF YoloTyped
    <3>2. \E v \in Seq({Yolo!Sentinel} \cup Yolo!Thread) : queue' = [queue EXCEPT ![g][d] = v]
      BY <2>2, <2>4
    <3>3. QED
      <4> HIDE DEF Yolo!Detector, Yolo!Thread, Yolo!Sentinel
      <4>1. PICK v \in Seq({Yolo!Sentinel} \cup Yolo!Thread) : queue' = [queue EXCEPT ![g][d] = v]
        BY <3>2
      <4>2. QED BY <3>1, <4>1, Assigned
  <2>7. <<>> \in Seq(Yolo!Thread)
    OBVIOUS
  <2>8. \E v \in BatcherType : batcher' = [batcher EXCEPT ![g][d] = v]
    <3>1. /\ batcher[g][d] \in BatcherType
          /\ batcher[g][d].batch \in Seq(Yolo!Thread)
      BY DEF YoloTyped, BatcherType
    <3>2. /\ [phase |-> "ended", batch |-> <<>>] \in BatcherType
          /\ [batcher[g][d] EXCEPT !.phase = "collected"] \in BatcherType
          /\ Head(q) # Yolo!Sentinel =>
               /\ [phase |-> "collecting", batch |-> <<Head(q)>>] \in BatcherType
               /\ [batcher[g][d] EXCEPT !.batch = Append(batcher[g][d].batch, Head(q))] \in BatcherType
      BY <2>3, <2>7, <3>1 DEF BatcherType
    <3>3. /\ [batcher EXCEPT ![g][d].phase = "collected"] =
                [batcher EXCEPT ![g][d] = [batcher[g][d] EXCEPT !.phase = "collected"]]
          /\ [batcher EXCEPT ![g][d].batch = Append(@, Head(q))] =
                [batcher EXCEPT ![g][d] =
                   [batcher[g][d] EXCEPT !.batch = Append(batcher[g][d].batch, Head(q))]]
      BY DEF YoloTyped
    <3>4. QED BY <2>5, <3>2, <3>3
  <2>9. batcher' \in [Yolo!Detector -> [Device -> BatcherType]]
    BY <2>8, Assigned DEF YoloTyped, BatcherType
  <2>10. UNCHANGED <<batchSize, deviceOf, yolo, open, closing, running, thread, work, loop, analyzed,
                     late, frame, tracker, upsets>>
    BY <1>15 DEF Yolo!GetFirst, Yolo!Collect
  <2>11. QED BY <2>6, <2>9, <2>10 DEF YoloTyped, BatcherType
<1>16. ASSUME NEW g \in Yolo!Detector, NEW d \in Device, Yolo!Dispatch(g, d) \/ Yolo!Answer(g,
       d)
       PROVE  YoloTyped'
  <2>1. /\ upsets' = upsets \/ (upsets < MaxUpset /\ upsets' = upsets + 1)
        /\ UNCHANGED <<batchSize, deviceOf, yolo, open, closing, running, queue, work, loop, analyzed,
                       late, frame, tracker>>
    BY <1>16 DEF Yolo!Dispatch, Yolo!Answer, Yolo!Works, Yolo!Breaks, Yolo!Upset
  <2>2. \/ batcher' = [batcher EXCEPT ![g][d] = Yolo!Resting]
        \/ batcher' = [batcher EXCEPT ![g][d].phase = "asking"]
    BY <1>16, DispatchIs, AnswerIs, FailIs
  <2>3. batcher' \in [Yolo!Detector -> [Device -> BatcherType]]
    <3>1. Yolo!Resting \in BatcherType
      BY DEF BatcherType, Yolo!Resting
    <3>2. batcher[g][d] \in BatcherType
      BY DEF YoloTyped, BatcherType
    <3>3. [batcher[g][d] EXCEPT !.phase = "asking"] \in BatcherType
      BY <3>2 DEF BatcherType
    <3>4. [batcher EXCEPT ![g][d].phase = "asking"] =
            [batcher EXCEPT ![g][d] = [batcher[g][d] EXCEPT !.phase = "asking"]]
      BY DEF YoloTyped
    <3>5. \E v \in BatcherType : batcher' = [batcher EXCEPT ![g][d] = v]
      BY <2>2, <3>1, <3>3, <3>4
    <3>6. QED BY <3>5, Assigned DEF YoloTyped, BatcherType
  <2>4. ASSUME NEW t \in Yolo!Thread PROVE thread'[t] \in Yolo!Calls \cup {Yolo!Free}
    <3>1. thread[t] \in Yolo!Calls \cup {Yolo!Free}
      BY DEF YoloTyped
    <3>2. Yolo!Contains(batcher[g][d].batch, t) => thread[t] \in Yolo!Calls /\ Yolo!Picture(t) \in 0 .. MaxFrame
      <4>1. Yolo!Contains(batcher[g][d].batch, t) => t \in Yolo!Busy
        BY DEF PlacesInv, PlaceInv, Waits
      <4>2. t \in Yolo!Busy => thread[t] \in Yolo!Calls /\ Yolo!Picture(t) \in 0 .. MaxFrame
        BY Working DEF Yolo!Picture, Yolo!HasSource, YoloTyped
      <4>3. QED BY <4>1, <4>2
    <3>3. ASSUME NEW c \in Yolo!Calls, NEW p \in 0 .. MaxFrame
          PROVE  /\ \A stage \in Broken : Failed(c, stage) \in Yolo!Calls
                 /\ Asked(c, p) \in Yolo!Calls /\ Zipped(c) \in Yolo!Calls
      BY DEF Failed, Asked, Zipped, Yolo!Calls, Broken
    <3>4. /\ \/ thread'[t] \in {thread[t], Asked(thread[t], Yolo!Picture(t)), Zipped(thread[t])}
             \/ \E stage \in Broken : thread'[t] = Failed(thread[t], stage)
          /\ (thread'[t] # thread[t] => Yolo!Contains(batcher[g][d].batch, t))
      BY <1>16, DispatchIs, AnswerIs, FailIs
    <3>5. QED BY <3>1, <3>2, <3>3, <3>4
  <2>5. thread' = [t \in Yolo!Thread |-> thread'[t]]
    BY <1>16, DispatchIs, AnswerIs, FailIs
  <2>6. thread' \in [Yolo!Thread -> Yolo!Calls \cup {Yolo!Free}]
    BY <2>4, <2>5
  <2>7. /\ upsets' \in 0 .. MaxUpset
        /\ yolo' + (IF closing' /\ running' THEN 1 ELSE 0) <= upsets' + 1
    BY <1>1, <2>1 DEF YoloTyped
  <2>8. /\ batchSize' \in Nat \ {0} /\ deviceOf' \in [Yolo!Key -> Device]
        /\ closing' \in BOOLEAN /\ running' \in BOOLEAN
        /\ yolo' \in Nat \ {0} /\ open' \subseteq {yolo'}
        /\ queue' \in [Yolo!Detector -> [Device -> Seq({Yolo!Sentinel} \cup Yolo!Thread)]]
        /\ work' \in Seq(Yolo!Calls) /\ loop' \in [Yolo!Key -> LoopType]
        /\ frame' \in [Yolo!Key -> 0 .. MaxFrame] /\ analyzed' \in [Yolo!Key -> 0 .. MaxFrame]
        /\ tracker' \in [Yolo!Detector -> [Yolo!Key -> 0 .. MaxFrame]]
        /\ late' \subseteq Yolo!Key
    BY <2>1, Zenon DEF YoloTyped
  <2>9. QED BY <2>3, <2>6, <2>7, <2>8, Zenon DEF YoloTyped, BatcherType
<1>17. CASE UNCHANGED Yolo!vars
  BY <1>17 DEF Yolo!vars, YoloTyped
<1>18. QED
  BY <1>2, <1>3, <1>5, <1>6, <1>7, <1>8, <1>9, <1>11, <1>12, <1>13, <1>14, <1>15, <1>16, <1>17,
     YoloSteps DEF LoopStep, ServiceStep, ThreadStep, BatchStep

-----------------------------------------------------------------------------
(* The calls *)

\* The same of the state that a step leads to
LEMMA WorkingNext ==
  ASSUME YoloTyped', NEW t \in Yolo!Thread
  PROVE  /\ t \in Yolo!Busy' <=> thread'[t].stage # "free"
         /\ t \in Yolo!Busy' <=> thread'[t] # Yolo!Free
         /\ t \in Yolo!Busy' => /\ thread'[t] \in Yolo!Calls /\ thread'[t].key \in Yolo!Key
                                /\ thread'[t].picture \in 0 .. MaxFrame
<1>1. t \in Yolo!Busy' <=> thread'[t] # Yolo!Free
  BY DEF Yolo!Busy
<1>2. thread'[t] \in Yolo!Calls \/ thread'[t] = Yolo!Free
  BY DEF YoloTyped
<1>3. Yolo!Free.stage = "free" /\ \A c \in Yolo!Calls : c.stage # "free"
  BY DEF Yolo!Free, Yolo!Calls
<1>4. \A c \in Yolo!Calls : c.key \in Yolo!Key /\ c.picture \in 0 .. MaxFrame
  BY DEF Yolo!Calls
<1>5. QED BY <1>1, <1>2, <1>3, <1>4

\* A call that goes on has its key; a picture is taken once, before the answer.
Continues(t) ==
  LET c == thread[t]
      e == thread'[t]
  IN /\ t \in Yolo!Busy /\ e.stage # "free" /\ e.key = c.key /\ e.yolo = c.yolo
     /\ e.answers \in {c.answers, c.key} /\ e.picture \in {c.picture, Yolo!Picture(t)}
     /\ e.stage = "ok" => \/ c.stage = "ok" /\ e.picture = c.picture /\ e.result = c.result
                          \/ e.result = e.picture

\* What giving up the calls of keys K does to a thread
LEMMA Abandoned ==
  ASSUME YoloTyped, NEW K, Yolo!Abandon(K), NEW t \in Yolo!Thread
  PROVE  /\ thread'[t].stage = thread[t].stage
         /\ t \in Yolo!Busy => /\ Continues(t) /\ thread'[t].picture = thread[t].picture
                               /\ thread'[t].awaited = (thread[t].awaited /\ thread[t].key \notin K)
         /\ t \notin Yolo!Busy => thread'[t] = thread[t]
<1>1. thread'[t] = IF t \in Yolo!Busy /\ thread[t].key \in K
                   THEN [thread[t] EXCEPT !.awaited = FALSE] ELSE thread[t]
  BY DEF Yolo!Abandon
<1>2. t \in Yolo!Busy => thread[t] \in Yolo!Calls /\ thread[t].stage # "free"
                         /\ thread[t].awaited \in BOOLEAN
  BY Working
<1>3. ASSUME NEW c \in Yolo!Calls, NEW e, e = [c EXCEPT !.awaited = FALSE]
      PROVE  /\ e.stage = c.stage /\ e.key = c.key /\ e.yolo = c.yolo /\ e.answers = c.answers
             /\ e.picture = c.picture /\ e.result = c.result /\ e.awaited = FALSE
  BY <1>3 DEF Yolo!Calls
<1>4. CASE t \in Yolo!Busy /\ thread[t].key \in K
  BY <1>1, <1>2, <1>3, <1>4 DEF Continues
<1>5. CASE ~(t \in Yolo!Busy /\ thread[t].key \in K)
  BY <1>1, <1>2, <1>5 DEF Continues
<1>6. QED BY <1>4, <1>5

\* What a thread of a batch does to its calls, field by field
LEMMA Handled ==
  ASSUME NEW c \in Yolo!Calls, NEW p
  PROVE  /\ \A stage \in Broken : LET e == Failed(c, stage) IN
              /\ e.stage = stage /\ e.key = c.key /\ e.yolo = c.yolo /\ e.answers = c.answers
              /\ e.picture = c.picture /\ e.result = c.result /\ e.awaited = c.awaited
         /\ LET e == Asked(c, p) IN
              /\ e.stage = c.stage /\ e.key = c.key /\ e.yolo = c.yolo /\ e.answers = c.answers
              /\ e.picture = p /\ e.result = c.result /\ e.awaited = c.awaited
         /\ LET e == Zipped(c) IN
              /\ e.stage = "ok" /\ e.key = c.key /\ e.yolo = c.yolo /\ e.answers = c.key
              /\ e.picture = c.picture /\ e.result = c.picture /\ e.awaited = c.awaited
BY DEF Yolo!Calls, Failed, Asked, Zipped

\* A batch thread changes the calls of its batch and no others.
LEMMA BatchHandled ==
  ASSUME YoloTyped, PlacesInv, NEW g \in Yolo!Detector, NEW d \in Device,
         Yolo!Dispatch(g, d) \/ Yolo!Answer(g, d), NEW t \in Yolo!Thread
  PROVE  /\ thread'[t] # thread[t] => Yolo!Contains(batcher[g][d].batch, t)
         /\ Yolo!Contains(batcher[g][d].batch, t) =>
              /\ t \in Yolo!Busy /\ thread[t].stage = "queued" /\ Continues(t)
              /\ thread'[t].awaited = thread[t].awaited
              /\ \/ thread'[t].stage = "queued" /\ thread'[t].picture = Yolo!Picture(t)
                 \/ thread'[t].stage \in Broken /\ thread'[t].picture = thread[t].picture
                 \/ /\ batcher[g][d].phase = "asking"
                    /\ thread'[t].stage = "ok" /\ thread'[t].picture = thread[t].picture
<1>1. Yolo!Contains(batcher[g][d].batch, t) =>
        t \in Yolo!Busy /\ thread[t].stage = "queued" /\ thread[t] \in Yolo!Calls
  BY Working DEF PlacesInv, PlaceInv, Waits
<1>2. /\ thread'[t] # thread[t] => Yolo!Contains(batcher[g][d].batch, t)
      /\ Yolo!Contains(batcher[g][d].batch, t) =>
            \/ \E stage \in Broken : thread'[t] = Failed(thread[t], stage)
            \/ thread'[t] = Asked(thread[t], Yolo!Picture(t))
            \/ thread'[t] = Zipped(thread[t]) /\ batcher[g][d].phase = "asking"
  <2>1. CASE Yolo!Dispatch(g, d)
    BY <2>1, DispatchIs, FailIs
  <2>2. CASE Yolo!Answer(g, d)
    <3>1. batcher[g][d].phase = "asking"
      BY <2>2 DEF Yolo!Answer
    <3>2. QED BY <2>2, <3>1, AnswerIs, FailIs
  <2>3. QED BY <2>1, <2>2
<1>3. ASSUME Yolo!Contains(batcher[g][d].batch, t),
             NEW stage \in Broken, thread'[t] = Failed(thread[t], stage)
      PROVE  Continues(t) /\ thread'[t].awaited = thread[t].awaited /\ thread'[t].stage \in Broken
             /\ thread'[t].picture = thread[t].picture
  BY <1>1, <1>3, Handled DEF Continues, Broken
<1>4. ASSUME Yolo!Contains(batcher[g][d].batch, t), thread'[t] = Asked(thread[t],
       Yolo!Picture(t))
      PROVE  Continues(t) /\ thread'[t].awaited = thread[t].awaited /\ thread'[t].stage = "queued"
             /\ thread'[t].picture = Yolo!Picture(t)
  BY <1>1, <1>4, Handled DEF Continues
<1>5. ASSUME Yolo!Contains(batcher[g][d].batch, t), thread'[t] = Zipped(thread[t])
      PROVE  Continues(t) /\ thread'[t].awaited = thread[t].awaited /\ thread'[t].stage = "ok"
             /\ thread'[t].picture = thread[t].picture
  BY <1>1, <1>5, Handled DEF Continues
<1>6. QED BY <1>1, <1>2, <1>3, <1>4, <1>5

\* What a thread of the pool does to its own call, but begin and end it
LEMMA PoolHandled ==
  ASSUME YoloTyped, NEW t \in Yolo!Thread, Yolo!Put(t) \/ Yolo!Ask(t) \/ Yolo!Reply(t)
  PROVE  /\ \A u \in Yolo!Thread : u # t => thread'[u] = thread[u]
         /\ Continues(t) /\ thread'[t].awaited = thread[t].awaited
         /\ thread[t].stage \in {"entered", "asking"}
         /\ \/ Yolo!Put(t) /\ thread'[t].stage = "queued" /\ thread'[t].picture = thread[t].picture
            \/ thread'[t].stage = "asking" /\ thread'[t].picture = Yolo!Picture(t)
            \/ thread'[t].stage \in Broken /\ thread'[t].picture = thread[t].picture
            \/ /\ thread[t].stage = "asking" /\ thread'[t].stage = "ok"
               /\ thread'[t].picture = thread[t].picture
         /\ ~Yolo!Put(t) => thread'[t].stage # "queued"
<1> DEFINE c == thread[t]
           e == thread'[t]
<1>1. t \in Yolo!Busy /\ c \in Yolo!Calls /\ c.stage \in {"entered", "asking"}
  BY Working DEF Yolo!Put, Yolo!Ask, Yolo!Reply
<1>2. thread \in [Yolo!Thread -> Yolo!Calls \cup {Yolo!Free}]
  BY DEF YoloTyped
<1>3. \/ Yolo!Put(t) /\ thread' = [thread EXCEPT ![t] = [c EXCEPT !.stage = "queued"]]
      \/ ~Yolo!Put(t) /\ thread' = [thread EXCEPT ![t] =
                                     [c EXCEPT !.stage = "asking", !.picture = Yolo!Picture(t)]]
      \/ ~Yolo!Put(t) /\ \E stage \in Broken :
                            thread' = [thread EXCEPT ![t] = [c EXCEPT !.stage = stage]]
      \/ ~Yolo!Put(t) /\ c.stage = "asking"
         /\ thread' = [thread EXCEPT ![t] = [c EXCEPT !.stage = "ok", !.result = c.picture]]
  <2>1. CASE Yolo!Put(t)
    BY <1>2, <2>1 DEF Yolo!Put
  <2>2. CASE Yolo!Ask(t) /\ ~Yolo!Put(t)
    BY <1>2, <2>2 DEF Yolo!Ask, Broken
  <2>3. CASE Yolo!Reply(t) /\ ~Yolo!Put(t)
    BY <1>2, <2>3 DEF Yolo!Reply, Broken
  <2>4. QED BY <2>1, <2>2, <2>3
<1>4. \A u \in Yolo!Thread : u # t => thread'[u] = thread[u]
  BY <1>2, <1>3
<1>5. \/ Yolo!Put(t) /\ e = [c EXCEPT !.stage = "queued"]
      \/ ~Yolo!Put(t) /\ e = [c EXCEPT !.stage = "asking", !.picture = Yolo!Picture(t)]
      \/ ~Yolo!Put(t) /\ \E stage \in Broken : e = [c EXCEPT !.stage = stage]
      \/ ~Yolo!Put(t) /\ c.stage = "asking" /\ e = [c EXCEPT !.stage = "ok", !.result = c.picture]
  BY <1>2, <1>3
<1>6. e.key = c.key /\ e.yolo = c.yolo /\ e.answers = c.answers /\ e.awaited = c.awaited
  BY <1>1, <1>5 DEF Yolo!Calls, Broken
<1>7. /\ \/ Yolo!Put(t) /\ e.stage = "queued" /\ e.picture = c.picture
         \/ ~Yolo!Put(t) /\ e.stage = "asking" /\ e.picture = Yolo!Picture(t)
         \/ ~Yolo!Put(t) /\ e.stage \in Broken /\ e.picture = c.picture
         \/ ~Yolo!Put(t) /\ c.stage = "asking" /\ e.stage = "ok" /\ e.picture = c.picture
                         /\ e.result = e.picture
  BY <1>1, <1>5 DEF Yolo!Calls, Broken
<1> HIDE DEF c, e
<1>8. Continues(t)
  BY <1>1, <1>6, <1>7 DEF Continues, c, e, Broken
<1>9. QED BY <1>1, <1>4, <1>6, <1>7, <1>8 DEF c, e, Broken

\* What becomes of a thread's call in a step
LEMMA CallMoves ==
  ASSUME YoloTyped, PlacesInv, Yolo!Next, NEW t \in Yolo!Thread
  PROVE  \/ thread'[t] = thread[t]
         \/ thread'[t] = Yolo!Free
         \/ t \notin Yolo!Busy /\ Yolo!Enter(t) /\ work # <<>> /\ thread'[t] = Head(work)
         \/ Continues(t)
<1> USE DEF Yolo!settings, Yolo!service, Yolo!ends, Yolo!batching, Yolo!loops
<1>1. ASSUME NEW K, Yolo!Abandon(K) PROVE thread'[t] = thread[t] \/ Continues(t)
  BY <1>1, Abandoned
<1>2. ASSUME NEW k \in Yolo!Key, Yolo!NewFrame(k) \/ LoopStep(k)
      PROVE  thread'[t] = thread[t] \/ Continues(t)
  BY <1>1, <1>2 DEF Yolo!NewFrame, LoopStep, Yolo!Start, Yolo!TimeOut, Yolo!Receive,
     Yolo!ResetTracker
<1>3. ASSUME ServiceStep PROVE thread'[t] = thread[t] \/ Continues(t)
  BY <1>1, <1>3 DEF ServiceStep, Yolo!CloseDetector, Yolo!Closed, Yolo!Stop
<1>4. ASSUME NEW u \in Yolo!Thread, ThreadStep(u)
      PROVE  \/ thread'[t] = thread[t]
             \/ thread'[t] = Yolo!Free
             \/ t \notin Yolo!Busy /\ Yolo!Enter(t) /\ work # <<>> /\ thread'[t] = Head(work)
             \/ Continues(t)
  <2>1. thread \in [Yolo!Thread -> Yolo!Calls \cup {Yolo!Free}]
    BY DEF YoloTyped
  <2>2. CASE Yolo!Enter(u)
    BY <2>1, <2>2 DEF Yolo!Enter
  <2>3. CASE Yolo!Put(u) \/ Yolo!Ask(u) \/ Yolo!Reply(u)
    BY <2>3, PoolHandled
  <2>4. CASE Yolo!Track(u) \/ Yolo!Raise(u)
    BY <2>1, <2>4 DEF Yolo!Track, Yolo!Raise
  <2>5. QED BY <1>4, <2>2, <2>3, <2>4 DEF ThreadStep
<1>5. ASSUME NEW g \in Yolo!Detector, NEW d \in Device, BatchStep(g, d)
      PROVE  thread'[t] = thread[t] \/ Continues(t)
  <2>1. CASE Yolo!GetFirst(g, d) \/ Yolo!Collect(g, d)
    BY <2>1 DEF Yolo!GetFirst, Yolo!Collect
  <2>2. CASE Yolo!Dispatch(g, d) \/ Yolo!Answer(g, d)
    BY <2>2, BatchHandled
  <2>3. QED BY <1>5, <2>1, <2>2 DEF BatchStep
<1>6. QED BY <1>2, <1>3, <1>4, <1>5, YoloSteps

\* Frames only come, and detectors are only replaced.
LEMMA Forward ==
  ASSUME Yolo!YoloAssumption, YoloTyped, [Yolo!Next]_(Yolo!vars)
  PROVE  /\ yolo' \in Nat /\ yolo <= yolo'
         /\ \A k \in Yolo!Key : frame'[k] \in Nat /\ frame[k] \in Nat /\ frame[k] <= frame'[k]
         /\ UNCHANGED <<batchSize, deviceOf, fixed>>
<1> USE DEF Yolo!settings, Yolo!service, Yolo!ends, Yolo!batching, Yolo!loops
<1>1. MaxFrame \in Nat /\ yolo \in Nat /\ frame \in [Yolo!Key -> 0 .. MaxFrame]
  BY DEF Yolo!YoloAssumption, YoloTyped
<1>2. /\ UNCHANGED <<batchSize, deviceOf, fixed>>
      /\ frame' = frame \/ \E k \in Yolo!Key : Yolo!NewFrame(k)
      /\ yolo' = yolo \/ Yolo!Closed
  <2>1. ASSUME NEW k \in Yolo!Key, Yolo!NewFrame(k)
        PROVE  UNCHANGED <<batchSize, deviceOf, fixed, yolo>>
    BY <2>1 DEF Yolo!NewFrame
  <2>2. ASSUME NEW k \in Yolo!Key, LoopStep(k)
        PROVE  UNCHANGED <<batchSize, deviceOf, fixed, yolo, frame>>
    BY <2>2 DEF LoopStep, Yolo!Start, Yolo!TimeOut, Yolo!Receive, Yolo!ResetTracker
  <2>3. ASSUME ServiceStep
        PROVE  UNCHANGED <<batchSize, deviceOf, fixed, frame>> /\ (yolo' = yolo \/ Yolo!Closed)
    BY <2>3 DEF ServiceStep, Yolo!CloseDetector, Yolo!Closed, Yolo!Stop
  <2>4. ASSUME NEW t \in Yolo!Thread, ThreadStep(t)
        PROVE  UNCHANGED <<batchSize, deviceOf, fixed, yolo, frame>>
    BY <2>4 DEF ThreadStep, Yolo!Enter, Yolo!Put, Yolo!Ask, Yolo!Reply, Yolo!Track, Yolo!Raise
  <2>5. ASSUME NEW g \in Yolo!Detector, NEW d \in Device, BatchStep(g, d)
        PROVE  UNCHANGED <<batchSize, deviceOf, fixed, yolo, frame>>
    BY <2>5 DEF BatchStep, Yolo!GetFirst, Yolo!Collect, Yolo!Dispatch, Yolo!Answer
  <2>6. CASE UNCHANGED Yolo!vars
    BY <2>6 DEF Yolo!vars
  <2>7. QED BY <2>1, <2>2, <2>3, <2>4, <2>5, <2>6, YoloSteps
<1>3. yolo' \in Nat /\ yolo <= yolo'
  BY <1>1, <1>2 DEF Yolo!Closed
<1>4. \A k \in Yolo!Key : frame'[k] \in Nat /\ frame[k] \in Nat /\ frame[k] <= frame'[k]
  <2>1. ASSUME NEW k \in Yolo!Key, Yolo!NewFrame(k), NEW m \in Yolo!Key
        PROVE  frame'[m] \in Nat /\ frame[m] \in Nat /\ frame[m] <= frame'[m]
    <3>1. frame' = [frame EXCEPT ![k] = frame[k] + 1]
      BY <1>1, <2>1 DEF Yolo!NewFrame
    <3>2. frame[m] \in Nat /\ frame'[m] = IF m = k THEN frame[m] + 1 ELSE frame[m]
      BY <1>1, <3>1
    <3>3. QED BY <3>2
  <2>2. CASE frame' = frame
    BY <1>1, <2>2
  <2>3. QED BY <1>2, <2>1, <2>2
<1>5. QED BY <1>2, <1>3, <1>4

\* Every step keeps what is known of a call.
LEMMA CallsStep ==
  ASSUME Yolo!YoloAssumption, YoloTyped, YoloTyped', PlacesInv, CallsInv,
         [Yolo!Next]_(Yolo!vars)
  PROVE  CallsInv'
<1> USE DEF Yolo!settings, Yolo!service, Yolo!ends, Yolo!batching, Yolo!loops
<1> DEFINE Sound(c, y, f) == c.yolo <= y /\ c.answers = c.key /\ c.picture <= f[c.key]
<1>1. ASSUME NEW c \in Yolo!Calls, Sound(c, yolo, frame) PROVE Sound(c, yolo', frame')
  <2>1. c.yolo \in Nat /\ c.picture \in Nat /\ c.key \in Yolo!Key /\ yolo \in Nat
    BY DEF Yolo!Calls, Yolo!Detector, Yolo!YoloAssumption, YoloTyped
  <2>2. QED BY <1>1, <2>1, Forward
<1>2. \A i \in DOMAIN work : work[i] \in Yolo!Calls
  BY DEF YoloTyped
<1>3. ASSUME NEW t \in Yolo!Thread, t \in Yolo!Busy'
      PROVE  Sound(thread'[t], yolo', frame') /\ (thread'[t].stage = "ok" => thread'[t].result = thread'[t].picture)
  <2>1. CASE thread'[t] = thread[t]
    <3>1. t \in Yolo!Busy /\ thread[t] \in Yolo!Calls
      BY <1>3, <2>1, Working, WorkingNext
    <3>2. QED BY <1>1, <2>1, <3>1 DEF CallsInv
  <2>2. CASE Yolo!Enter(t) /\ work # <<>> /\ thread'[t] = Head(work)
    <3>1. 1 \in DOMAIN work /\ Head(work) = work[1]
      BY <2>2 DEF YoloTyped
    <3>2. QED BY <1>1, <1>2, <2>2, <3>1 DEF CallsInv
  <2>3. CASE Continues(t)
    <3>1. /\ t \in Yolo!Busy /\ thread[t] \in Yolo!Calls /\ thread'[t] \in Yolo!Calls
          /\ thread[t].key \in Yolo!Key
      BY <1>3, <2>3, Working, WorkingNext DEF Continues
    <3>2. /\ Sound(thread[t], yolo, frame)
          /\ thread[t].stage = "ok" => thread[t].result = thread[t].picture
      BY <3>1 DEF CallsInv
    <3>3. Yolo!Picture(t) <= frame[thread[t].key]
      <4>1. frame[thread[t].key] \in Nat
        BY <3>1, Forward
      <4>2. QED BY <3>2, <4>1 DEF Yolo!Picture, Yolo!HasSource
    <3>4. /\ thread'[t].key = thread[t].key /\ thread'[t].yolo = thread[t].yolo
          /\ thread'[t].answers \in {thread[t].answers, thread[t].key}
          /\ thread'[t].picture \in {thread[t].picture, Yolo!Picture(t)}
      BY <2>3 DEF Continues
    <3>5. Sound(thread'[t], yolo, frame)
      BY <3>2, <3>3, <3>4
    <3>6. thread'[t].stage = "ok" => thread'[t].result = thread'[t].picture
      BY <2>3, <3>2 DEF Continues
    <3>7. Sound(thread'[t], yolo', frame')
      <4> HIDE DEF Sound
      <4>1. QED BY <1>1, <3>1, <3>5
    <3>8. QED BY <3>6, <3>7
  <2>4. QED
    <3>1. CASE Yolo!Next
      BY <1>3, <2>1, <2>2, <2>3, <3>1, CallMoves, WorkingNext
    <3>2. CASE UNCHANGED Yolo!vars
      BY <2>1, <3>2 DEF Yolo!vars
    <3>3. QED BY <3>1, <3>2
<1>4. ASSUME NEW i \in DOMAIN work'
      PROVE  Sound(work'[i], yolo', frame') /\ work'[i].stage = "entered" /\ work'[i].awaited
  <2> DEFINE Early(c) == Sound(c, yolo, frame) /\ c.stage = "entered" /\ c.awaited
  <2>1. work'[i] \in Yolo!Calls
    BY DEF YoloTyped
  <2>2. \A j \in DOMAIN work : Early(work[j])
    BY DEF CallsInv
  <2> DEFINE Old == \E j \in DOMAIN work : work'[i] = work[j]
  <2>3. ASSUME NEW K, Yolo!Abandon(K) PROVE Old
    BY <2>3, AbandonIs
  <2>4. ASSUME NEW k \in Yolo!Key, Yolo!Start(k) PROVE Old \/ Early(work'[i])
    <3>1. frame[k] \in Nat /\ yolo \in Nat
      BY Forward DEF YoloTyped
    <3>2. Early(Yolo!Call(k))
      BY <3>1 DEF Yolo!Call
    <3>3. work' = Append(work, Yolo!Call(k)) /\ work \in Seq(Yolo!Calls)
      BY <2>4 DEF Yolo!Start, YoloTyped
    <3>4. (i \in DOMAIN work /\ work'[i] = work[i]) \/ work'[i] = Yolo!Call(k)
      BY <3>3
    <3>5. work'[i] = Yolo!Call(k) => Early(work'[i])
      <4> HIDE DEF Early
      <4>1. QED BY <3>2
    <3>6. QED BY <3>4, <3>5
  <2>5. ASSUME NEW t \in Yolo!Thread, Yolo!Enter(t) PROVE Old
    <3>1. work' = Tail(work) /\ work # <<>> /\ work \in Seq(Yolo!Calls)
      BY <2>5 DEF Yolo!Enter, YoloTyped
    <3>2. i + 1 \in DOMAIN work /\ work'[i] = work[i + 1]
      BY <3>1
    <3>3. QED BY <3>2
  <2>6. ASSUME work' = work PROVE Old
    BY <2>6
  <2>7. Early(work'[i])
    <3>1. ASSUME Old PROVE Early(work'[i])
      <4>1. PICK j \in DOMAIN work : work'[i] = work[j]
        BY <3>1
      <4>2. Early(work[j])
        BY <2>2
      <4> HIDE DEF Early
      <4>3. QED BY <4>1, <4>2
    <3> HIDE DEF Early, Old
    <3>2. ASSUME NEW k \in Yolo!Key, Yolo!NewFrame(k) \/ LoopStep(k) PROVE Early(work'[i])
      <4>1. \/ work' = work \/ Yolo!Abandon({k}) \/ Yolo!Start(k)
        BY <3>2 DEF Yolo!NewFrame, LoopStep, Yolo!TimeOut, Yolo!Receive, Yolo!ResetTracker
      <4>2. QED BY <2>3, <2>4, <2>6, <3>1, <4>1
    <3>3. ASSUME ServiceStep PROVE Early(work'[i])
      <4>1. work' = work \/ Yolo!Abandon(Yolo!Key)
        BY <3>3 DEF ServiceStep, Yolo!CloseDetector, Yolo!Closed, Yolo!Stop
      <4>2. QED BY <2>3, <2>6, <3>1, <4>1
    <3>4. ASSUME NEW t \in Yolo!Thread, ThreadStep(t) PROVE Early(work'[i])
      <4>1. work' = work \/ Yolo!Enter(t)
        BY <3>4 DEF ThreadStep, Yolo!Put, Yolo!Ask, Yolo!Reply, Yolo!Track, Yolo!Raise
      <4>2. QED BY <2>5, <2>6, <3>1, <4>1
    <3>5. ASSUME NEW g \in Yolo!Detector, NEW d \in Device, BatchStep(g, d)
           PROVE Early(work'[i])
      <4>1. work' = work
        BY <3>5 DEF BatchStep, Yolo!GetFirst, Yolo!Collect, Yolo!Dispatch, Yolo!Answer
      <4>2. QED BY <2>6, <3>1, <4>1
    <3>6. CASE UNCHANGED Yolo!vars
      <4>1. work' = work
        BY <3>6 DEF Yolo!vars
      <4>2. QED BY <2>6, <3>1, <4>1
    <3>7. QED BY <3>2, <3>3, <3>4, <3>5, <3>6, YoloSteps
  <2>8. Sound(work'[i], yolo', frame')
    <3> HIDE DEF Sound
    <3>1. QED BY <1>1, <2>1, <2>7
  <2>9. QED BY <2>7, <2>8
<1>5. QED BY <1>3, <1>4 DEF CallsInv, Yolo!Busy

-----------------------------------------------------------------------------
(* Whom a loop waits for *)

\* A call that waits for a thread is a call.
LEMMA Entered ==
  ASSUME YoloTyped, NEW i \in DOMAIN work
  PROVE  work[i] \in Yolo!Calls /\ work[i].key \in Yolo!Key
<1>1. work[i] \in Yolo!Calls
  BY DEF YoloTyped
<1>2. QED BY <1>1 DEF Yolo!Calls

\* A step that starts and ends no call leaves everyone the call he waits for.
LEMMA HeardKept ==
  ASSUME YoloTyped, YoloTyped', HeardInv, work' = work,
         \A t \in Yolo!Thread : \/ thread'[t] = thread[t]
                                \/ Continues(t) /\ thread'[t].awaited = thread[t].awaited,
         \A k \in Yolo!Key : loop'[k].state = "waiting" <=> loop[k].state = "waiting"
  PROVE  HeardInv'
<1>1. \A t \in Yolo!Thread : /\ Heard(t)' <=> Heard(t)
                             /\ Heard(t) => thread'[t].key = thread[t].key /\ thread[t].key \in Yolo!Key
  BY Working, WorkingNext DEF Heard, Continues
<1>2. \A i \in DOMAIN work : work[i].key \in Yolo!Key
  BY Entered
<1> DEFINE H(t) == Heard(t)
           N(t) == Heard(t)'
<1>3. \A t \in Yolo!Thread : /\ N(t) <=> H(t)
                             /\ H(t) => thread'[t].key = thread[t].key /\ thread[t].key \in Yolo!Key
  BY <1>1
<1>4. /\ \A t \in Yolo!Thread : H(t) => loop[thread[t].key].state = "waiting"
      /\ \A i \in DOMAIN work : loop[work[i].key].state = "waiting"
      /\ \A t, u \in Yolo!Thread : H(t) /\ H(u) /\ thread[t].key = thread[u].key => t = u
      /\ \A i, j \in DOMAIN work : work[i].key = work[j].key => i = j
      /\ \A t \in Yolo!Thread, i \in DOMAIN work : H(t) => thread[t].key # work[i].key
      /\ \A k \in Yolo!Key : loop[k].state = "waiting" =>
           \/ \E t \in Yolo!Thread : H(t) /\ thread[t].key = k
           \/ \E i \in DOMAIN work : work[i].key = k
  BY Zenon DEF HeardInv
<1> HIDE DEF H, N
<1>5. /\ \A t \in Yolo!Thread : N(t) => loop'[thread'[t].key].state = "waiting"
      /\ \A i \in DOMAIN work : loop'[work[i].key].state = "waiting"
      /\ \A t, u \in Yolo!Thread : N(t) /\ N(u) /\ thread'[t].key = thread'[u].key => t = u
      /\ \A t \in Yolo!Thread, i \in DOMAIN work : N(t) => thread'[t].key # work[i].key
  BY <1>2, <1>3, <1>4
<1>6. ASSUME NEW k \in Yolo!Key, loop'[k].state = "waiting"
      PROVE  \/ \E t \in Yolo!Thread : N(t) /\ thread'[t].key = k
             \/ \E i \in DOMAIN work : work[i].key = k
  BY <1>3, <1>4, <1>6
<1>7. QED BY <1>4, <1>5, <1>6 DEF HeardInv, N

\* Nobody waits for a call that is given up.
LEMMA HeardAbandoned ==
  ASSUME YoloTyped, YoloTyped', HeardInv, NEW K, Yolo!Abandon(K),
         \A k \in Yolo!Key : loop'[k].state = "waiting" <=> loop[k].state = "waiting" /\ k \notin K
  PROVE  HeardInv'
<1>1. \A t \in Yolo!Thread :
        /\ Heard(t)' <=> Heard(t) /\ thread[t].key \notin K
        /\ Heard(t) => thread'[t].key = thread[t].key /\ thread[t].key \in Yolo!Key
  <2>1. ASSUME NEW t \in Yolo!Thread
        PROVE  /\ t \in Yolo!Busy' <=> t \in Yolo!Busy
               /\ t \in Yolo!Busy => /\ thread'[t].awaited = (thread[t].awaited /\ thread[t].key \notin K)
                                     /\ thread'[t].key = thread[t].key /\ thread[t].key \in Yolo!Key
    BY Abandoned, Working, WorkingNext DEF Continues
  <2>2. QED BY <2>1 DEF Heard
<1>2. \A i \in DOMAIN work : work[i].key \in Yolo!Key
  BY Entered
<1>3. /\ \A i \in DOMAIN work' : \E j \in DOMAIN work : work'[i] = work[j] /\ work[j].key \notin K
      /\ \A j \in DOMAIN work : work[j].key \notin K => \E i \in DOMAIN work' : work'[i] = work[j]
      /\ IsInjective(work) => IsInjective(work')
  BY AbandonIs
<1> DEFINE H(t) == Heard(t)
           N(t) == Heard(t)'
<1>4. \A t \in Yolo!Thread : /\ N(t) <=> H(t) /\ thread[t].key \notin K
                             /\ H(t) => thread'[t].key = thread[t].key /\ thread[t].key \in Yolo!Key
  BY <1>1
<1>5. /\ \A t \in Yolo!Thread : H(t) => loop[thread[t].key].state = "waiting"
      /\ \A i \in DOMAIN work : loop[work[i].key].state = "waiting"
      /\ \A t, u \in Yolo!Thread : H(t) /\ H(u) /\ thread[t].key = thread[u].key => t = u
      /\ \A i, j \in DOMAIN work : work[i].key = work[j].key => i = j
      /\ \A t \in Yolo!Thread, i \in DOMAIN work : H(t) => thread[t].key # work[i].key
      /\ \A k \in Yolo!Key : loop[k].state = "waiting" =>
           \/ \E t \in Yolo!Thread : H(t) /\ thread[t].key = k
           \/ \E i \in DOMAIN work : work[i].key = k
  BY Zenon DEF HeardInv
<1>6. IsInjective(work')
  BY <1>3, <1>5 DEF IsInjective
<1> HIDE DEF H, N
<1>7. ASSUME NEW i \in DOMAIN work', NEW j \in DOMAIN work', work'[i].key = work'[j].key
       PROVE i = j
  <2>1. work'[i] = work'[j]
    BY <1>3, <1>5, <1>7
  <2>2. QED BY <1>6, <2>1 DEF IsInjective
<1>8. /\ \A t \in Yolo!Thread : N(t) => loop'[thread'[t].key].state = "waiting"
      /\ \A t, u \in Yolo!Thread : N(t) /\ N(u) /\ thread'[t].key = thread'[u].key => t = u
  BY <1>4, <1>5
<1>9. ASSUME NEW i \in DOMAIN work'
      PROVE  /\ loop'[work'[i].key].state = "waiting"
             /\ \A t \in Yolo!Thread : N(t) => thread'[t].key # work'[i].key
  <2>1. PICK j \in DOMAIN work : work'[i] = work[j] /\ work[j].key \notin K
    BY <1>3
  <2>2. QED BY <1>2, <1>4, <1>5, <2>1
<1>10. ASSUME NEW k \in Yolo!Key, loop'[k].state = "waiting"
       PROVE  \/ \E t \in Yolo!Thread : N(t) /\ thread'[t].key = k
              \/ \E i \in DOMAIN work' : work'[i].key = k
  <2>1. loop[k].state = "waiting" /\ k \notin K
    BY <1>10
  <2>2. \/ \E t \in Yolo!Thread : H(t) /\ thread[t].key = k
        \/ \E j \in DOMAIN work : work[j].key = k
    BY <1>5, <2>1
  <2>3. ASSUME NEW j \in DOMAIN work, work[j].key = k
         PROVE \E i \in DOMAIN work' : work'[i].key = k
    BY <1>3, <2>1, <2>3
  <2>4. ASSUME NEW t \in Yolo!Thread, H(t), thread[t].key = k
        PROVE  \E u \in Yolo!Thread : N(u) /\ thread'[u].key = k
    BY <1>4, <2>1, <2>4
  <2>5. QED BY <2>2, <2>3, <2>4
<1>11. QED BY <1>7, <1>8, <1>9, <1>10 DEF HeardInv, N

\* Who starts to wait has a call before all threads, ...
LEMMA HeardStart ==
  ASSUME YoloTyped, YoloTyped', HeardInv, NEW k \in Yolo!Key, Yolo!Start(k)
  PROVE  HeardInv'
<1> DEFINE H(t) == Heard(t)
           N(t) == Heard(t)'
           n == Len(work) + 1
<1>1. \A t \in Yolo!Thread : N(t) <=> H(t)
  BY <1>1 DEF Heard, Yolo!Start, Yolo!Busy
<1>2. /\ thread' = thread /\ loop[k].state = "idle"
      /\ \A m \in Yolo!Key : loop'[m].state = IF m = k THEN "waiting" ELSE loop[m].state
  BY DEF Yolo!Start, Yolo!Idle, YoloTyped
<1>3. /\ DOMAIN work' = 1 .. n /\ DOMAIN work = 1 .. n - 1 /\ n \in Nat \ {0}
      /\ work'[n].key = k /\ \A i \in DOMAIN work : work'[i] = work[i]
  <2>1. work' = Append(work, Yolo!Call(k)) /\ work \in Seq(Yolo!Calls) /\ Yolo!Call(k).key = k
    BY DEF Yolo!Start, YoloTyped, Yolo!Call
  <2>2. QED BY <2>1
<1>4. /\ \A t \in Yolo!Thread : H(t) => loop[thread[t].key].state = "waiting"
      /\ \A i \in DOMAIN work : loop[work[i].key].state = "waiting"
      /\ \A t, u \in Yolo!Thread : H(t) /\ H(u) /\ thread[t].key = thread[u].key => t = u
      /\ \A i, j \in DOMAIN work : work[i].key = work[j].key => i = j
      /\ \A t \in Yolo!Thread, i \in DOMAIN work : H(t) => thread[t].key # work[i].key
      /\ \A m \in Yolo!Key : loop[m].state = "waiting" =>
           \/ \E t \in Yolo!Thread : H(t) /\ thread[t].key = m
           \/ \E i \in DOMAIN work : work[i].key = m
  BY Zenon DEF HeardInv
<1>5. \A t \in Yolo!Thread : H(t) => thread[t].key \in Yolo!Key
  BY Working DEF Heard
<1>6. \A i \in DOMAIN work : work[i].key \in Yolo!Key
  BY Entered
<1> HIDE DEF H, N, n
<1>7. \A i \in DOMAIN work' : i \in DOMAIN work \/ i = n
  BY <1>3
<1>8. /\ \A i \in DOMAIN work : work[i].key # k /\ i # n
      /\ \A t \in Yolo!Thread : H(t) => thread[t].key # k
  BY <1>2, <1>3, <1>4
<1>9. \A t \in Yolo!Thread : N(t) => loop'[thread'[t].key].state = "waiting"
  BY <1>1, <1>2, <1>4, <1>5
<1>10. \A i \in DOMAIN work' : loop'[work'[i].key].state = "waiting"
  BY <1>2, <1>3, <1>4, <1>6, <1>7
<1>11. \A t, u \in Yolo!Thread : N(t) /\ N(u) /\ thread'[t].key = thread'[u].key => t = u
  BY <1>1, <1>2, <1>4
<1>12. \A i, j \in DOMAIN work' : work'[i].key = work'[j].key => i = j
  BY <1>3, <1>4, <1>7, <1>8
<1>13. \A t \in Yolo!Thread, i \in DOMAIN work' : N(t) => thread'[t].key # work'[i].key
  BY <1>1, <1>2, <1>3, <1>4, <1>7, <1>8
<1>14. ASSUME NEW m \in Yolo!Key, loop'[m].state = "waiting"
       PROVE  \/ \E t \in Yolo!Thread : N(t) /\ thread'[t].key = m
              \/ \E i \in DOMAIN work' : work'[i].key = m
  <2>1. CASE m = k
    <3>1. n \in DOMAIN work'
      BY <1>3
    <3>2. QED BY <1>3, <2>1, <3>1
  <2>2. CASE m # k
    <3>1. \A i \in DOMAIN work : i \in DOMAIN work'
      BY <1>3
    <3>2. QED BY <1>1, <1>2, <1>3, <1>4, <1>14, <2>2, <3>1
  <2>3. QED BY <2>1, <2>2
<1>15. QED
  BY <1>9, <1>10, <1>11, <1>12, <1>13, <1>14, Zenon DEF HeardInv, N

\* ... which a thread takes over, ...
LEMMA HeardEnter ==
  ASSUME YoloTyped, YoloTyped', CallsInv, HeardInv, NEW t \in Yolo!Thread, Yolo!Enter(t)
  PROVE  HeardInv'
<1> DEFINE H(u) == Heard(u)
           N(u) == Heard(u)'
           first == Head(work)
           taken == thread'[t] = first
<1>1. /\ DOMAIN work' = 1 .. Len(work) - 1 /\ DOMAIN work = 1 .. Len(work)
      /\ Len(work) \in Nat \ {0} /\ first = work[1]
      /\ \A i \in DOMAIN work' : work'[i] = work[i + 1]
  <2>1. work' = Tail(work) /\ work # <<>> /\ work \in Seq(Yolo!Calls)
    BY DEF Yolo!Enter, YoloTyped
  <2>2. QED BY <2>1
<1>2. /\ 1 \in DOMAIN work
      /\ \A i \in DOMAIN work' : i + 1 \in DOMAIN work /\ i + 1 # 1
      /\ \A i, j \in DOMAIN work' : i + 1 = j + 1 => i = j
      /\ \A i \in DOMAIN work : i = 1 \/ \E j \in DOMAIN work' : i = j + 1
  <2>1. ASSUME NEW i \in DOMAIN work, i # 1 PROVE \E j \in DOMAIN work' : i = j + 1
    <3>1. i - 1 \in DOMAIN work' /\ i = (i - 1) + 1
      BY <1>1, <2>1
    <3>2. QED BY <3>1
  <2>2. /\ 1 \in DOMAIN work
        /\ \A i \in DOMAIN work' : i + 1 \in DOMAIN work /\ i + 1 # 1
        /\ \A i, j \in DOMAIN work' : i + 1 = j + 1 => i = j
    BY <1>1
  <2>3. QED BY <2>1, <2>2
<1>3. first \in Yolo!Calls /\ first.key \in Yolo!Key /\ first.awaited
  BY <1>1, <1>2, Entered DEF CallsInv
<1>4. /\ \A u \in Yolo!Thread : u # t => thread'[u] = thread[u] /\ (N(u) <=> H(u))
      /\ ~H(t)
      /\ \/ N(t) /\ thread'[t] = first /\ loop' = loop
         \/ /\ ~N(t)
            /\ \A m \in Yolo!Key : loop'[m].state = IF m = first.key THEN "failed" ELSE loop[m].state
  <2>1. thread \in [Yolo!Thread -> Yolo!Calls \cup {Yolo!Free}] /\ ~H(t)
    BY DEF Yolo!Enter, Heard, YoloTyped
  <2>2. CASE thread' = [thread EXCEPT ![t] = first] /\ loop' = loop
    <3>1. thread'[t] = first /\ \A u \in Yolo!Thread : u # t => thread'[u] = thread[u]
      BY <2>1, <2>2
    <3>2. N(t)
      <4>1. first.stage # "free"
        BY <1>3 DEF Yolo!Calls
      <4>2. QED BY <1>3, <3>1, <4>1, WorkingNext DEF Heard
    <3>3. \A u \in Yolo!Thread : u # t => (N(u) <=> H(u))
      BY <3>1 DEF Heard, Yolo!Busy
    <3>4. QED BY <2>1, <2>2, <3>1, <3>2, <3>3
  <2>3. CASE thread' = thread /\ Yolo!Ends(first, "failed")
    <3>1. \A u \in Yolo!Thread : N(u) <=> H(u)
      BY <2>3 DEF Heard, Yolo!Busy
    <3>2. \A m \in Yolo!Key : loop'[m].state = IF m = first.key THEN "failed" ELSE loop[m].state
      BY <1>3, <2>3 DEF Yolo!Ends, YoloTyped, LoopType
    <3>3. QED BY <2>1, <2>3, <3>1, <3>2
  <2>4. QED BY <2>2, <2>3 DEF Yolo!Enter
<1>5. /\ \A u \in Yolo!Thread : H(u) => loop[thread[u].key].state = "waiting"
      /\ \A i \in DOMAIN work : loop[work[i].key].state = "waiting"
      /\ \A u, v \in Yolo!Thread : H(u) /\ H(v) /\ thread[u].key = thread[v].key => u = v
      /\ \A i, j \in DOMAIN work : work[i].key = work[j].key => i = j
      /\ \A u \in Yolo!Thread, i \in DOMAIN work : H(u) => thread[u].key # work[i].key
      /\ \A m \in Yolo!Key : loop[m].state = "waiting" =>
           \/ \E u \in Yolo!Thread : H(u) /\ thread[u].key = m
           \/ \E i \in DOMAIN work : work[i].key = m
  BY Zenon DEF HeardInv
<1>6. \A u \in Yolo!Thread : H(u) => thread[u].key \in Yolo!Key
  BY Working DEF Heard
<1>7. \A i \in DOMAIN work : work[i].key \in Yolo!Key
  BY Entered
<1> HIDE DEF H, N, first
<1>8. /\ \A u \in Yolo!Thread : H(u) => thread[u].key # first.key
      /\ \A i \in DOMAIN work' : work'[i].key # first.key /\ work'[i].key \in Yolo!Key
      /\ loop[first.key].state = "waiting"
  BY <1>1, <1>2, <1>5, <1>7
<1>9. \A u \in Yolo!Thread : N(u) => loop'[thread'[u].key].state = "waiting"
  BY <1>4, <1>5, <1>6, <1>8
<1>10. \A i \in DOMAIN work' : loop'[work'[i].key].state = "waiting"
  BY <1>1, <1>2, <1>4, <1>5, <1>8
<1>11. \A u, v \in Yolo!Thread : N(u) /\ N(v) /\ thread'[u].key = thread'[v].key => u = v
  BY <1>4, <1>5, <1>8
<1>12. \A i, j \in DOMAIN work' : work'[i].key = work'[j].key => i = j
  BY <1>1, <1>2, <1>5
<1>13. \A u \in Yolo!Thread, i \in DOMAIN work' : N(u) => thread'[u].key # work'[i].key
  <2>1. ASSUME NEW u \in Yolo!Thread, NEW i \in DOMAIN work', N(u)
        PROVE  thread'[u].key # work'[i].key
    <3>1. CASE u = t
      BY <1>4, <1>8, <2>1, <3>1
    <3>2. CASE u # t
      BY <1>1, <1>2, <1>4, <1>5, <2>1, <3>2
    <3>3. QED BY <3>1, <3>2
  <2>2. QED BY <2>1
<1>14. ASSUME NEW m \in Yolo!Key, loop'[m].state = "waiting"
       PROVE  \/ \E u \in Yolo!Thread : N(u) /\ thread'[u].key = m
              \/ \E i \in DOMAIN work' : work'[i].key = m
  <2>1. loop[m].state = "waiting" /\ (m = first.key => N(t) /\ thread'[t] = first)
    BY <1>4, <1>14
  <2>2. CASE m = first.key
    BY <2>1, <2>2
  <2>3. ASSUME NEW u \in Yolo!Thread, H(u), thread[u].key = m
        PROVE  \E v \in Yolo!Thread : N(v) /\ thread'[v].key = m
    BY <1>4, <2>3
  <2>4. ASSUME NEW i \in DOMAIN work, work[i].key = m, m # first.key
        PROVE  \E j \in DOMAIN work' : work'[j].key = m
    BY <1>1, <1>2, <2>4
  <2>5. QED BY <1>5, <2>1, <2>2, <2>3, <2>4
<1>15. QED
  BY <1>9, <1>10, <1>11, <1>12, <1>13, <1>14, Zenon DEF HeardInv, N

\* ... until it ends and the loop has what it waits for.
LEMMA HeardEnd ==
  ASSUME YoloTyped, YoloTyped', HeardInv, NEW t \in Yolo!Thread, Yolo!Track(t) \/ Yolo!Raise(t)
  PROVE  HeardInv'
<1> DEFINE H(u) == Heard(u)
           N(u) == Heard(u)'
           k == thread[t].key
<1>1. t \in Yolo!Busy /\ thread[t] \in Yolo!Calls /\ k \in Yolo!Key
  BY Working DEF Yolo!Track, Yolo!Raise
<1>2. /\ thread' = [thread EXCEPT ![t] = Yolo!Free] /\ work' = work
      /\ \E state \in {"ok", "failed", "cancelled"} : Yolo!Ends(thread[t], state)
  BY DEF Yolo!Track, Yolo!Raise
<1>3. /\ \A u \in Yolo!Thread : u # t => thread'[u] = thread[u] /\ (N(u) <=> H(u))
      /\ ~N(t)
  <2>1. thread'[t] = Yolo!Free /\ \A u \in Yolo!Thread : u # t => thread'[u] = thread[u]
    BY <1>2 DEF YoloTyped
  <2>2. QED BY <2>1 DEF Heard, Yolo!Busy
<1>4. \A m \in Yolo!Key : \/ loop'[m].state = loop[m].state /\ (m = k => ~H(t))
                          \/ m = k /\ H(t) /\ loop'[m].state # "waiting"
  <2>1. PICK state \in {"ok", "failed", "cancelled"} : Yolo!Ends(thread[t], state)
    BY <1>2
  <2>2. H(t) <=> thread[t].awaited
    BY <1>1 DEF Heard
  <2>3. \E v : v.state = state /\ loop' = IF thread[t].awaited THEN [loop EXCEPT ![k] = v]
                                                              ELSE loop
    <3>1. [[loop[k] EXCEPT !.state = state] EXCEPT !.seen = thread[t].picture].state = state
      BY <1>1, <2>1 DEF YoloTyped, LoopType
    <3>2. QED BY <2>1, <3>1 DEF Yolo!Ends
  <2>4. QED BY <1>1, <2>1, <2>2, <2>3 DEF YoloTyped
<1>5. /\ \A u \in Yolo!Thread : H(u) => loop[thread[u].key].state = "waiting"
      /\ \A i \in DOMAIN work : loop[work[i].key].state = "waiting"
      /\ \A u, v \in Yolo!Thread : H(u) /\ H(v) /\ thread[u].key = thread[v].key => u = v
      /\ \A i, j \in DOMAIN work : work[i].key = work[j].key => i = j
      /\ \A u \in Yolo!Thread, i \in DOMAIN work : H(u) => thread[u].key # work[i].key
      /\ \A m \in Yolo!Key : loop[m].state = "waiting" =>
           \/ \E u \in Yolo!Thread : H(u) /\ thread[u].key = m
           \/ \E i \in DOMAIN work : work[i].key = m
  BY Zenon DEF HeardInv
<1>6. \A u \in Yolo!Thread : H(u) => thread[u].key \in Yolo!Key
  BY Working DEF Heard
<1>7. \A i \in DOMAIN work : work[i].key \in Yolo!Key
  BY Entered
<1> HIDE DEF H, N
<1>8. \A u \in Yolo!Thread : N(u) => loop'[thread'[u].key].state = "waiting"
  BY <1>3, <1>4, <1>5, <1>6
<1>9. /\ \A i \in DOMAIN work' : loop'[work'[i].key].state = "waiting"
      /\ \A i, j \in DOMAIN work' : work'[i].key = work'[j].key => i = j
  BY <1>2, <1>4, <1>5, <1>7
<1>10. \A u, v \in Yolo!Thread : N(u) /\ N(v) /\ thread'[u].key = thread'[v].key => u = v
  BY <1>3, <1>5
<1>11. \A u \in Yolo!Thread, i \in DOMAIN work' : N(u) => thread'[u].key # work'[i].key
  BY <1>2, <1>3, <1>5
<1>12. ASSUME NEW m \in Yolo!Key, loop'[m].state = "waiting"
       PROVE  \/ \E u \in Yolo!Thread : N(u) /\ thread'[u].key = m
              \/ \E i \in DOMAIN work' : work'[i].key = m
  <2>1. loop[m].state = "waiting" /\ (m = k => ~H(t))
    BY <1>4, <1>12
  <2>2. ASSUME NEW u \in Yolo!Thread, H(u), thread[u].key = m
        PROVE  \E v \in Yolo!Thread : N(v) /\ thread'[v].key = m
    BY <1>3, <2>1, <2>2
  <2>3. QED BY <1>2, <1>5, <2>1, <2>2
<1>13. QED
  BY <1>8, <1>9, <1>10, <1>11, <1>12, Zenon DEF HeardInv, N

\* Every step keeps one heard call for each loop that waits.
LEMMA HeardStep ==
  ASSUME YoloTyped, YoloTyped', PlacesInv, CallsInv, HeardInv, [Yolo!Next]_(Yolo!vars)
  PROVE  HeardInv'
<1> USE DEF Yolo!settings, Yolo!service, Yolo!ends, Yolo!batching, Yolo!loops
<1>1. ASSUME thread' = thread, work' = work, loop' = loop PROVE HeardInv'
  BY <1>1, HeardKept
<1>2. ASSUME NEW k \in Yolo!Key, Yolo!NewFrame(k) \/ LoopStep(k) PROVE HeardInv'
  <2>1. CASE Yolo!NewFrame(k) \/ Yolo!ResetTracker(k)
    BY <1>1, <2>1 DEF Yolo!NewFrame, Yolo!ResetTracker
  <2>2. CASE Yolo!Start(k)
    BY <2>2, HeardStart
  <2>3. CASE Yolo!Receive(k)
    <3>1. /\ loop' = [loop EXCEPT ![k] = Yolo!Idle] /\ loop[k].state \in {"ok", "failed", "cancelled"}
          /\ thread' = thread /\ work' = work
      BY <2>3 DEF Yolo!Receive
    <3>2. \A m \in Yolo!Key : loop'[m].state = "waiting" <=> loop[m].state = "waiting"
      BY <3>1 DEF Yolo!Idle, YoloTyped
    <3>3. QED BY <3>1, <3>2, HeardKept
  <2>4. CASE Yolo!TimeOut(k)
    <3>1. Yolo!Abandon({k}) /\ loop' = [loop EXCEPT ![k] = Yolo!Idle]
      BY <2>4 DEF Yolo!TimeOut
    <3>2. \A m \in Yolo!Key : loop'[m].state = "waiting" <=> loop[m].state = "waiting" /\ m \notin {k}
      BY <3>1 DEF Yolo!Idle, YoloTyped
    <3>3. QED BY <3>1, <3>2, HeardAbandoned
  <2>5. QED BY <1>2, <2>1, <2>2, <2>3, <2>4 DEF LoopStep
<1>3. ASSUME ServiceStep PROVE HeardInv'
  <2>1. CASE Yolo!CloseDetector \/ Yolo!Closed
    BY <1>1, <2>1 DEF Yolo!CloseDetector, Yolo!Closed
  <2>2. CASE Yolo!Stop
    <3>1. Yolo!Abandon(Yolo!Key) /\ loop' = [m \in Yolo!Key |-> Yolo!Idle]
      BY <2>2 DEF Yolo!Stop
    <3>2. \A m \in Yolo!Key :
            loop'[m].state = "waiting" <=> loop[m].state = "waiting" /\ m \notin Yolo!Key
      BY <3>1 DEF Yolo!Idle
    <3>3. QED BY <3>1, <3>2, HeardAbandoned
  <2>3. QED BY <1>3, <2>1, <2>2 DEF ServiceStep
<1>4. ASSUME NEW t \in Yolo!Thread, ThreadStep(t) PROVE HeardInv'
  <2>1. CASE Yolo!Put(t) \/ Yolo!Ask(t) \/ Yolo!Reply(t)
    <3>1. work' = work /\ loop' = loop
      BY <2>1 DEF Yolo!Put, Yolo!Ask, Yolo!Reply
    <3>2. \A u \in Yolo!Thread : \/ thread'[u] = thread[u]
                                 \/ Continues(u) /\ thread'[u].awaited = thread[u].awaited
      BY <2>1, PoolHandled
    <3>3. QED BY <3>1, <3>2, HeardKept
  <2>2. QED BY <1>4, <2>1, HeardEnter, HeardEnd DEF ThreadStep
<1>5. ASSUME NEW g \in Yolo!Detector, NEW d \in Device, BatchStep(g, d) PROVE HeardInv'
  <2>1. CASE Yolo!GetFirst(g, d) \/ Yolo!Collect(g, d)
    BY <1>1, <2>1 DEF Yolo!GetFirst, Yolo!Collect
  <2>2. CASE Yolo!Dispatch(g, d) \/ Yolo!Answer(g, d)
    <3>1. work' = work /\ loop' = loop
      BY <2>2 DEF Yolo!Dispatch, Yolo!Answer
    <3>2. \A u \in Yolo!Thread : \/ thread'[u] = thread[u]
                                 \/ Continues(u) /\ thread'[u].awaited = thread[u].awaited
      BY <2>2, BatchHandled
    <3>3. QED BY <3>1, <3>2, HeardKept
  <2>3. QED BY <1>5, <2>1, <2>2 DEF BatchStep
<1>6. CASE UNCHANGED Yolo!vars
  BY <1>1, <1>6 DEF Yolo!vars
<1>7. QED BY <1>2, <1>3, <1>4, <1>5, <1>6, YoloSteps

-----------------------------------------------------------------------------
(* Who waits for a batch *)

\* Who waited for a batch still does when its stage stays.
LEMMA WaitsKept ==
  ASSUME YoloTyped, YoloTyped', NEW t \in Yolo!Thread, deviceOf' = deviceOf,
         \/ thread'[t] = thread[t]
         \/ thread[t].stage # "queued" /\ thread'[t].stage # "queued"
         \/ Continues(t) /\ thread'[t].stage = thread[t].stage,
         NEW g, NEW d
  PROVE  Waits(t, g, d)' <=> Waits(t, g, d)
<1>1. /\ t \in Yolo!Busy' <=> thread'[t].stage # "free"
      /\ t \in Yolo!Busy <=> thread[t].stage # "free"
  BY Working, WorkingNext
<1>2. CASE thread'[t] = thread[t]
  BY <1>1, <1>2 DEF Waits, Yolo!DeviceFor
<1>3. CASE thread[t].stage # "queued" /\ thread'[t].stage # "queued"
  BY <1>3 DEF Waits
<1>4. CASE Continues(t) /\ thread'[t].stage = thread[t].stage
  BY <1>1, <1>4 DEF Waits, Yolo!DeviceFor, Continues
<1>5. QED BY <1>2, <1>3, <1>4

\* A queue and a batch that nobody touched keep their invariant.
LEMMA PlaceKept ==
  ASSUME YoloTyped, YoloTyped', NEW g \in Yolo!Detector, NEW d \in Device, PlaceInv(g, d),
         batchSize' = batchSize, yolo <= yolo',
         queue'[g][d] = queue[g][d], batcher'[g][d] = batcher[g][d],
         \A t \in Yolo!Thread : Waits(t, g, d)' <=> Waits(t, g, d),
         g \in open' /\ ~closing' => (g \in open /\ ~closing) \/ g > yolo
  PROVE  PlaceInv(g, d)'
<1> DEFINE q == queue[g][d]
           b == batcher[g][d].batch
           phase == batcher[g][d].phase
           W(t) == Waits(t, g, d)
           V(t) == Waits(t, g, d)'
<1>1. /\ \A t \in Yolo!Thread : Yolo!Contains(q, t) \/ Yolo!Contains(b, t) <=> W(t)
      /\ Yolo!IsInjective(q) /\ Yolo!IsInjective(b) /\ Len(b) <= batchSize
      /\ \A t \in Yolo!Thread : ~(Yolo!Contains(q, t) /\ Yolo!Contains(b, t))
      /\ Yolo!Contains(q, Yolo!Sentinel) \/ phase = "ended" => g \notin open \/ closing
      /\ Yolo!Contains(q, Yolo!Sentinel) => phase # "ended"
      /\ phase \in {"getting", "ended"} => b = <<>>
      /\ g > yolo => q = <<>> /\ phase = "getting"
  BY Zenon DEF PlaceInv
<1>2. \A t \in Yolo!Thread : V(t) <=> W(t)
  OBVIOUS
<1>3. q = <<>> => ~Yolo!Contains(q, Yolo!Sentinel)
  BY DEF Yolo!Contains
<1>4. g > yolo' => g > yolo
  <2>1. g \in Nat
    BY Waiting
  <2>2. yolo \in Nat /\ yolo' \in Nat
    BY DEF YoloTyped
  <2>3. QED BY <2>1, <2>2
<1> HIDE DEF W, V
<1>5. /\ \A t \in Yolo!Thread : Yolo!Contains(q, t) \/ Yolo!Contains(b, t) <=> V(t)
      /\ Len(b) <= batchSize'
      /\ Yolo!Contains(q, Yolo!Sentinel) \/ phase = "ended" => g \notin open' \/ closing'
      /\ g > yolo' => q = <<>> /\ phase = "getting"
  <2> HIDE DEF q, b, phase
  <2>1. QED BY <1>1, <1>2, <1>3, <1>4
<1>6. QED BY <1>1, <1>5 DEF PlaceInv, V

\* A request is put behind the others.
LEMMA PlacesPut ==
  ASSUME YoloTyped, YoloTyped', PlacesInv, CallsInv, NEW t \in Yolo!Thread, Yolo!Put(t)
  PROVE  PlacesInv'
<1> USE DEF Yolo!settings, Yolo!service
<1>1. /\ t \in Yolo!Busy /\ thread[t].yolo \in Yolo!Detector /\ Yolo!DeviceFor(t) \in Device
      /\ thread[t].stage = "entered" /\ t \in {Yolo!Sentinel} \cup Yolo!Thread
  BY Working DEF Yolo!Put
<1>2. PICK G \in Yolo!Detector, D \in Device : G = thread[t].yolo /\ D = Yolo!DeviceFor(t)
  BY <1>1
<1>3. /\ queue \in [Yolo!Detector -> [Device -> Seq({Yolo!Sentinel} \cup Yolo!Thread)]]
      /\ queue[G][D] \in Seq({Yolo!Sentinel} \cup Yolo!Thread)
  BY <1>2 DEF YoloTyped
<1>4. Append(queue[G][D], t) \in Seq({Yolo!Sentinel} \cup Yolo!Thread)
  BY <1>1, <1>3
<1>5. /\ queue' = [queue EXCEPT ![G][D] = Append(queue[G][D], t)] /\ batcher' = batcher
      /\ UNCHANGED <<batchSize, deviceOf, yolo, open, closing>>
  BY <1>1, <1>2, <1>3 DEF Yolo!Put
<1>6. /\ queue'[G][D] = Append(queue[G][D], t)
      /\ \A g \in Yolo!Detector, d \in Device : ~(g = G /\ d = D) => queue'[g][d] = queue[g][d]
  BY <1>4, <1>5, <1>3, Assigned
<1>7. /\ \A u \in Yolo!Thread : u # t => thread'[u] = thread[u]
      /\ Continues(t) /\ thread'[t].stage = "queued"
  <2>1. thread' = [thread EXCEPT ![t] = [thread[t] EXCEPT !.stage = "queued"]]
    BY DEF Yolo!Put
  <2>2. thread'[t].stage = "queued"
    BY <1>1, <2>1, Working DEF YoloTyped, Yolo!Calls
  <2>3. QED BY <2>2, PoolHandled
<1>8. /\ ~Waits(t, G, D)
      /\ \A g \in Yolo!Detector, d \in Device : Waits(t, g, d)' <=> g = G /\ d = D
  <2>1. t \in Yolo!Busy' /\ thread'[t].yolo = G /\ thread'[t].key = thread[t].key
    BY <1>2, <1>7, WorkingNext DEF Continues
  <2>2. Yolo!DeviceFor(t)' = D
    BY <1>2, <1>5, <2>1 DEF Yolo!DeviceFor
  <2>3. QED BY <1>1, <1>7, <2>1, <2>2 DEF Waits
<1>9. \A u \in Yolo!Thread, g \in Yolo!Detector, d \in Device :
        u # t => (Waits(u, g, d)' <=> Waits(u, g, d))
  BY <1>5, <1>7, WaitsKept
<1>10. ASSUME NEW g \in Yolo!Detector, NEW d \in Device, ~(g = G /\ d = D) PROVE PlaceInv(g, d)'
  <2>1. PlaceInv(g, d)
    BY DEF PlacesInv
  <2>2. ~Waits(t, g, d) /\ ~Waits(t, g, d)'
    BY <1>1, <1>8, <1>10 DEF Waits
  <2>3. \A u \in Yolo!Thread : Waits(u, g, d)' <=> Waits(u, g, d)
    BY <1>9, <2>2
  <2>4. yolo <= yolo'
    BY <1>5 DEF YoloTyped
  <2>5. queue'[g][d] = queue[g][d] /\ batcher'[g][d] = batcher[g][d]
    BY <1>5, <1>6, <1>10
  <2>6. QED BY <1>5, <2>1, <2>3, <2>4, <2>5, PlaceKept
<1>11. PlaceInv(G, D)'
  <2> DEFINE q == queue[G][D]
             b == batcher[G][D].batch
             phase == batcher[G][D].phase
             p == queue'[G][D]
             W(u) == Waits(u, G, D)
             V(u) == Waits(u, G, D)'
  <2>1. /\ \A u \in Yolo!Thread : Yolo!Contains(q, u) \/ Yolo!Contains(b, u) <=> W(u)
        /\ Yolo!IsInjective(q) /\ Yolo!IsInjective(b) /\ Len(b) <= batchSize
        /\ \A u \in Yolo!Thread : ~(Yolo!Contains(q, u) /\ Yolo!Contains(b, u))
        /\ Yolo!Contains(q, Yolo!Sentinel) \/ phase = "ended" => G \notin open \/ closing
        /\ Yolo!Contains(q, Yolo!Sentinel) => phase # "ended"
        /\ phase \in {"getting", "ended"} => b = <<>>
        /\ G > yolo => q = <<>> /\ phase = "getting"
    BY <1>1, Zenon DEF PlacesInv, PlaceInv
  <2>2. ~Yolo!Contains(q, t) /\ ~Yolo!Contains(b, t)
    BY <1>8, <2>1
  <2>3. /\ \A x : Yolo!Contains(p, x) <=> Yolo!Contains(q, x) \/ x = t
        /\ Yolo!IsInjective(p)
    BY <1>1, <1>6, <1>3, <2>1, <2>2, Joining
  <2>4. Yolo!Sentinel # t
    BY <1>1, Waiting
  <2>5. ~(G > yolo)
    <3>1. G \in Nat /\ yolo \in Nat
      BY Waiting DEF YoloTyped
    <3>2. G <= yolo
      BY <1>1, <1>2 DEF CallsInv
    <3>3. QED BY <3>1, <3>2
  <2>6. \A u \in Yolo!Thread : V(u) <=> W(u) \/ u = t
    <3>1. ~W(t) /\ V(t)
      BY <1>8
    <3>2. ASSUME NEW u \in Yolo!Thread, u # t PROVE V(u) <=> W(u)
      BY <1>9, <3>2
    <3>3. QED BY <3>1, <3>2
  <2> HIDE DEF W, V, q, b, phase, p
  <2>7. /\ \A u \in Yolo!Thread : Yolo!Contains(p, u) \/ Yolo!Contains(b, u) <=> V(u)
        /\ \A u \in Yolo!Thread : ~(Yolo!Contains(p, u) /\ Yolo!Contains(b, u))
        /\ Yolo!Contains(p, Yolo!Sentinel) \/ phase = "ended" => G \notin open \/ closing
        /\ Yolo!Contains(p, Yolo!Sentinel) => phase # "ended"
        /\ ~(G > yolo)
    BY <2>1, <2>2, <2>3, <2>4, <2>5, <2>6
  <2>8. /\ batcher'[G][D] = batcher[G][D] /\ batchSize' = batchSize /\ open' = open
        /\ closing' = closing /\ yolo' = yolo
    BY <1>5
  <2>9. p = queue'[G][D] /\ b = batcher[G][D].batch /\ phase = batcher[G][D].phase
        /\ \A u \in Yolo!Thread : V(u) <=> Waits(u, G, D)'
    BY DEF p, b, phase, V
  <2>10. QED BY <2>1, <2>3, <2>7, <2>8, <2>9 DEF PlaceInv
<1>12. QED
  <2>1. ASSUME NEW g \in Yolo!Detector, NEW d \in Device PROVE PlaceInv(g, d)'
    <3>1. CASE g = G /\ d = D
      BY <1>11, <3>1
    <3>2. CASE ~(g = G /\ d = D)
      BY <1>10, <3>2
    <3>3. QED BY <3>1, <3>2
  <2>2. QED BY <2>1 DEF PlacesInv

\* A thread for batches only changes its own queue and batch.
LEMMA PlacesOf ==
  ASSUME YoloTyped, YoloTyped', PlacesInv, NEW g \in Yolo!Detector, NEW d \in Device,
         UNCHANGED <<batchSize, deviceOf, yolo, open, closing>>,
         \A x \in Yolo!Detector, y \in Device : ~(x = g /\ y = d) =>
           /\ queue'[x][y] = queue[x][y] /\ batcher'[x][y] = batcher[x][y]
           /\ \A t \in Yolo!Thread : Waits(t, x, y)' <=> Waits(t, x, y),
         PlaceInv(g, d)'
  PROVE  PlacesInv'
<1>1. ASSUME NEW x \in Yolo!Detector, NEW y \in Device, ~(x = g /\ y = d) PROVE PlaceInv(x, y)'
  <2>1. PlaceInv(x, y)
    BY DEF PlacesInv
  <2>2. yolo <= yolo'
    BY DEF YoloTyped
  <2>3. QED BY <1>1, <2>1, <2>2, PlaceKept
<1>2. ASSUME NEW x \in Yolo!Detector, NEW y \in Device PROVE PlaceInv(x, y)'
  <2>1. CASE x = g /\ y = d
    BY <2>1
  <2>2. CASE ~(x = g /\ y = d)
    BY <1>1, <2>2
  <2>3. QED BY <2>1, <2>2
<1>3. QED BY <1>2 DEF PlacesInv

\* It takes what is queued, and leaves the sentinel while it has a batch.
LEMMA TakeIs ==
  ASSUME YoloTyped, NEW g \in Yolo!Detector, NEW d \in Device,
         Yolo!GetFirst(g, d) \/ Yolo!Collect(g, d)
  PROVE  LET q == queue[g][d]
             b == batcher[g][d].batch
             phase == batcher[g][d].phase
             p == queue'[g][d]
             a == batcher'[g][d].batch
             next == batcher'[g][d].phase
         IN /\ \/ /\ phase = "getting" /\ p = Tail(q) /\ Head(q) = Yolo!Sentinel
                  /\ next = "ended" /\ a = <<>>
               \/ /\ phase = "getting" /\ p = Tail(q) /\ Head(q) # Yolo!Sentinel
                  /\ next = "collecting" /\ a = <<Head(q)>>
               \/ /\ phase = "collecting" /\ p = Append(Tail(q), Yolo!Sentinel) /\ Head(q) = Yolo!Sentinel
                  /\ next = "collected" /\ a = b
               \/ /\ phase = "collecting" /\ p = Tail(q) /\ Head(q) # Yolo!Sentinel /\ Len(b) < batchSize
                  /\ next = "collecting" /\ a = Append(b, Head(q))
            /\ \A x \in Yolo!Detector, y \in Device : ~(x = g /\ y = d) =>
                 queue'[x][y] = queue[x][y] /\ batcher'[x][y] = batcher[x][y]
<1> DEFINE q == queue[g][d]
           b == batcher[g][d].batch
           phase == batcher[g][d].phase
           p == queue'[g][d]
           a == batcher'[g][d].batch
           next == batcher'[g][d].phase
           S == {Yolo!Sentinel} \cup Yolo!Thread
<1>1. /\ q \in Seq(S) /\ q # <<>> /\ Head(q) \in S /\ Tail(q) \in Seq(S)
      /\ b \in Seq(Yolo!Thread) /\ Len(b) \in Nat /\ Yolo!Sentinel \notin Yolo!Thread
  BY Waiting, Leave DEF Yolo!GetFirst, Yolo!Collect
<1>2. /\ queue \in [Yolo!Detector -> [Device -> Seq(S)]]
      /\ batcher \in [Yolo!Detector -> [Device -> BatcherType]]
      /\ batcher[g][d] \in BatcherType
  <2>1. queue \in [Yolo!Detector -> [Device -> Seq(S)]]
    BY DEF YoloTyped
  <2>2. batcher \in [Yolo!Detector -> [Device -> BatcherType]]
    BY DEF YoloTyped, BatcherType
  <2>3. QED BY <2>1, <2>2
<1>3. \/ /\ Yolo!GetFirst(g, d) /\ phase = "getting"
         /\ queue' = [queue EXCEPT ![g][d] = Tail(q)]
         /\ batcher' = [batcher EXCEPT ![g][d] =
              IF Head(q) = Yolo!Sentinel THEN [phase |-> "ended", batch |-> <<>>]
              ELSE [phase |-> "collecting", batch |-> <<Head(q)>>]]
      \/ /\ phase = "collecting" /\ Head(q) = Yolo!Sentinel
         /\ queue' = [queue EXCEPT ![g][d] = Append(Tail(q), Yolo!Sentinel)]
         /\ batcher' = [batcher EXCEPT ![g][d].phase = "collected"]
      \/ /\ phase = "collecting" /\ Head(q) # Yolo!Sentinel /\ Len(b) < batchSize
         /\ queue' = [queue EXCEPT ![g][d] = Tail(q)]
         /\ batcher' = [batcher EXCEPT ![g][d].batch = Append(@, Head(q))]
  BY DEF Yolo!GetFirst, Yolo!Collect
<1> DEFINE e == batcher'[g][d]
           c == batcher[g][d]
<1> HIDE DEF q, S
<1>4. \E v \in Seq(S) : queue' = [queue EXCEPT ![g][d] = v]
  BY <1>1, <1>3, Joining DEF S
<1>5. /\ [phase |-> "ended", batch |-> <<>>] \in BatcherType
      /\ [c EXCEPT !.phase = "collected"] \in BatcherType
      /\ Head(q) # Yolo!Sentinel =>
           /\ [phase |-> "collecting", batch |-> <<Head(q)>>] \in BatcherType
           /\ [c EXCEPT !.batch = Append(b, Head(q))] \in BatcherType
  <2>1. Head(q) # Yolo!Sentinel =>
          <<Head(q)>> \in Seq(Yolo!Thread) /\ Append(b, Head(q)) \in Seq(Yolo!Thread)
    BY <1>1 DEF S
  <2>2. <<>> \in Seq(Yolo!Thread)
    OBVIOUS
  <2> HIDE DEF b
  <2>3. QED BY <1>2, <2>1, <2>2 DEF BatcherType
<1>6. /\ [batcher EXCEPT ![g][d].phase = "collected"] =
            [batcher EXCEPT ![g][d] = [c EXCEPT !.phase = "collected"]]
      /\ [batcher EXCEPT ![g][d].batch = Append(@, Head(q))] =
            [batcher EXCEPT ![g][d] = [c EXCEPT !.batch = Append(b, Head(q))]]
  BY <1>2
<1>7. \E v \in BatcherType :
        /\ batcher' = [batcher EXCEPT ![g][d] = v]
        /\ \/ /\ phase = "getting" /\ queue' = [queue EXCEPT ![g][d] = Tail(q)]
              /\ Head(q) = Yolo!Sentinel /\ v = [phase |-> "ended", batch |-> <<>>]
           \/ /\ phase = "getting" /\ queue' = [queue EXCEPT ![g][d] = Tail(q)]
              /\ Head(q) # Yolo!Sentinel /\ v = [phase |-> "collecting", batch |-> <<Head(q)>>]
           \/ /\ phase = "collecting" /\ Head(q) = Yolo!Sentinel
              /\ queue' = [queue EXCEPT ![g][d] = Append(Tail(q), Yolo!Sentinel)]
              /\ v = [c EXCEPT !.phase = "collected"]
           \/ /\ phase = "collecting" /\ Head(q) # Yolo!Sentinel /\ Len(b) < batchSize
              /\ queue' = [queue EXCEPT ![g][d] = Tail(q)]
              /\ v = [c EXCEPT !.batch = Append(b, Head(q))]
  <2> HIDE DEF b, c, phase
  <2>1. QED BY <1>3, <1>5, <1>6
<1>8. \A x \in Yolo!Detector, y \in Device : ~(x = g /\ y = d) =>
        queue'[x][y] = queue[x][y] /\ batcher'[x][y] = batcher[x][y]
  <2>1. ASSUME NEW x \in Yolo!Detector, NEW y \in Device, ~(x = g /\ y = d)
        PROVE  queue'[x][y] = queue[x][y] /\ batcher'[x][y] = batcher[x][y]
    <3>1. PICK v \in BatcherType : batcher' = [batcher EXCEPT ![g][d] = v]
      BY <1>7
    <3>2. PICK r \in Seq(S) : queue' = [queue EXCEPT ![g][d] = r]
      BY <1>4
    <3>3. QED BY <1>2, <2>1, <3>1, <3>2, Assigned
  <2>2. QED BY <2>1
<1>9. \A v \in BatcherType : [batcher EXCEPT ![g][d] = v][g][d] = v
  BY <1>2, Assigned
<1>10. \A r \in Seq(S) : [queue EXCEPT ![g][d] = r][g][d] = r
  BY <1>2, Assigned
<1>11. /\ Tail(q) \in Seq(S) /\ Append(Tail(q), Yolo!Sentinel) \in Seq(S)
  BY <1>1, Joining DEF S
<1>12. \/ /\ phase = "getting" /\ p = Tail(q) /\ Head(q) = Yolo!Sentinel
         /\ e = [phase |-> "ended", batch |-> <<>>]
      \/ /\ phase = "getting" /\ p = Tail(q) /\ Head(q) # Yolo!Sentinel
         /\ e = [phase |-> "collecting", batch |-> <<Head(q)>>]
      \/ /\ phase = "collecting" /\ p = Append(Tail(q), Yolo!Sentinel) /\ Head(q) = Yolo!Sentinel
         /\ e = [c EXCEPT !.phase = "collected"]
      \/ /\ phase = "collecting" /\ p = Tail(q) /\ Head(q) # Yolo!Sentinel /\ Len(b) < batchSize
         /\ e = [c EXCEPT !.batch = Append(b, Head(q))]
  <2>1. e = batcher'[g][d] /\ p = queue'[g][d]
    OBVIOUS
  <2> HIDE DEF b, c, e, p, phase
  <2>2. QED BY <1>7, <1>9, <1>10, <1>11, <2>1
<1> DEFINE met == [c EXCEPT !.phase = "collected"]
           joined == [c EXCEPT !.batch = Append(b, Head(q))]
<1>13. /\ met.phase = "collected" /\ met.batch = b
       /\ joined.phase = phase /\ joined.batch = Append(b, Head(q))
  BY <1>2 DEF BatcherType
<1>14. next = e.phase /\ a = e.batch
  OBVIOUS
<1> HIDE DEF b, c, e, p, phase, next, a, met, joined
<1>15. /\ e = [phase |-> "ended", batch |-> <<>>] => next = "ended" /\ a = <<>>
       /\ e = [phase |-> "collecting", batch |-> <<Head(q)>>] =>
            next = "collecting" /\ a = <<Head(q)>>
       /\ e = met => next = "collected" /\ a = b
       /\ e = joined => next = phase /\ a = Append(b, Head(q))
  BY <1>13, <1>14
<1>16. QED BY <1>8, <1>12, <1>15, Zenon DEF met, joined, q, b, phase, p, a, next

\* Whom a batch takes waits as before.
LEMMA PlacesTake ==
  ASSUME Yolo!YoloAssumption, YoloTyped, YoloTyped', PlacesInv, NEW g \in Yolo!Detector,
         NEW d \in Device, Yolo!GetFirst(g, d) \/ Yolo!Collect(g, d)
  PROVE  PlacesInv'
<1> USE DEF Yolo!settings, Yolo!service
<1> DEFINE q == queue[g][d]
           b == batcher[g][d].batch
           phase == batcher[g][d].phase
           p == queue'[g][d]
           a == batcher'[g][d].batch
           next == batcher'[g][d].phase
           S == {Yolo!Sentinel} \cup Yolo!Thread
           W(t) == Waits(t, g, d)
           V(t) == Waits(t, g, d)'
<1>1. /\ q \in Seq(S) /\ q # <<>> /\ Head(q) \in S /\ Tail(q) \in Seq(S)
      /\ b \in Seq(Yolo!Thread) /\ Len(b) \in Nat /\ Yolo!Sentinel \notin Yolo!Thread
  BY Waiting, Leave DEF Yolo!GetFirst, Yolo!Collect
<1>2. /\ UNCHANGED <<batchSize, deviceOf, yolo, open, closing>> /\ thread' = thread
      /\ batchSize \in Nat \ {0}
  BY DEF Yolo!GetFirst, Yolo!Collect, YoloTyped
<1>4. \A t \in Yolo!Thread, x \in Yolo!Detector, y \in Device : Waits(t, x, y)' <=> Waits(t, x, y)
  BY <1>2, WaitsKept
<1>5. /\ \A t \in Yolo!Thread : Yolo!Contains(q, t) \/ Yolo!Contains(b, t) <=> W(t)
      /\ Yolo!IsInjective(q) /\ Yolo!IsInjective(b) /\ Len(b) <= batchSize
      /\ \A t \in Yolo!Thread : ~(Yolo!Contains(q, t) /\ Yolo!Contains(b, t))
      /\ Yolo!Contains(q, Yolo!Sentinel) \/ phase = "ended" => g \notin open \/ closing
      /\ Yolo!Contains(q, Yolo!Sentinel) => phase # "ended"
      /\ phase \in {"getting", "ended"} => b = <<>>
      /\ g > yolo => q = <<>> /\ phase = "getting"
  BY Zenon DEF PlacesInv, PlaceInv
<1>6. /\ \A x : Yolo!Contains(q, x) <=> x = Head(q) \/ Yolo!Contains(Tail(q), x)
      /\ Yolo!IsInjective(Tail(q)) /\ ~Yolo!Contains(Tail(q), Head(q))
  BY <1>1, <1>5, Leave
<1>7. /\ \/ /\ phase = "getting" /\ p = Tail(q) /\ Head(q) = Yolo!Sentinel
            /\ next = "ended" /\ a = <<>>
         \/ /\ phase = "getting" /\ p = Tail(q) /\ Head(q) # Yolo!Sentinel
            /\ next = "collecting" /\ a = <<Head(q)>>
         \/ /\ phase = "collecting" /\ p = Append(Tail(q), Yolo!Sentinel) /\ Head(q) = Yolo!Sentinel
            /\ next = "collected" /\ a = b
         \/ /\ phase = "collecting" /\ p = Tail(q) /\ Head(q) # Yolo!Sentinel /\ Len(b) < batchSize
            /\ next = "collecting" /\ a = Append(b, Head(q))
      /\ \A x \in Yolo!Detector, y \in Device : ~(x = g /\ y = d) =>
           queue'[x][y] = queue[x][y] /\ batcher'[x][y] = batcher[x][y]
  BY Zenon, TakeIs
<1>9. PlaceInv(g, d)'
  <2>1. \A t \in Yolo!Thread : V(t) <=> W(t)
    BY <1>4
  <2>2. PICK h \in S : h = Head(q)
    BY <1>1
  <2>3. PICK r \in Seq(S) : r = Tail(q)
    BY <1>1
  <2>4. /\ \A x : Yolo!Contains(q, x) <=> x = h \/ Yolo!Contains(r, x)
        /\ Yolo!IsInjective(r) /\ ~Yolo!Contains(r, h)
    BY <1>6, <2>2, <2>3
  <2>5. \A x : ~Yolo!Contains(<<>>, x) /\ (Yolo!Contains(<<h>>, x) <=> x = h)
    BY DEF Yolo!Contains
  <2>6. Yolo!IsInjective(<<>>) /\ Yolo!IsInjective(<<h>>) /\ Len(<<h>>) = 1 /\ Len(<<>>) = 0
    BY DEF Yolo!IsInjective
  <2> DEFINE Place == /\ \A t \in Yolo!Thread : Yolo!Contains(p, t) \/ Yolo!Contains(a, t) <=> V(t)
                      /\ Yolo!IsInjective(p) /\ Yolo!IsInjective(a) /\ Len(a) <= batchSize
                      /\ \A t \in Yolo!Thread : ~(Yolo!Contains(p, t) /\ Yolo!Contains(a, t))
                      /\ Yolo!Contains(p, Yolo!Sentinel) \/ next = "ended" => g \notin open \/ closing
                      /\ Yolo!Contains(p, Yolo!Sentinel) => next # "ended"
                      /\ next \in {"getting", "ended"} => a = <<>>
                      /\ g > yolo => p = <<>> /\ next = "getting"
  <2> HIDE DEF V, W, q, b, phase, p, a, next
  <2>7. ASSUME phase = "getting" /\ p = r /\ h = Yolo!Sentinel /\ next = "ended" /\ a = <<>>
       PROVE  Place
    BY <1>1, <1>2, <1>5, <2>1, <2>4, <2>5, <2>6, <2>7
  <2>8. ASSUME phase = "getting" /\ p = r /\ h # Yolo!Sentinel /\ next = "collecting" /\ a = <<h>>
       PROVE  Place
    <3>1. h \in Yolo!Thread /\ b = <<>>
      BY <1>5, <2>2, <2>8
    <3>2. Len(a) <= batchSize
      BY <1>2, <2>6, <2>8
    <3>3. \A t \in Yolo!Thread : Yolo!Contains(p, t) \/ Yolo!Contains(a, t) <=> V(t)
      BY <1>5, <2>1, <2>4, <2>5, <2>8, <3>1
    <3>4. \A t \in Yolo!Thread : ~(Yolo!Contains(p, t) /\ Yolo!Contains(a, t))
      BY <2>4, <2>5, <2>8
    <3>5. /\ Yolo!Contains(p, Yolo!Sentinel) => Yolo!Contains(q, Yolo!Sentinel)
          /\ Yolo!IsInjective(p) /\ Yolo!IsInjective(a)
      BY <2>4, <2>6, <2>8
    <3>6. QED BY <1>1, <1>5, <2>8, <3>2, <3>3, <3>4, <3>5
  <2>9. ASSUME /\ phase = "collecting" /\ p = Append(r, Yolo!Sentinel) /\ h = Yolo!Sentinel
             /\ next = "collected" /\ a = b
        PROVE  Place
    <3>1. /\ \A x : Yolo!Contains(p, x) <=> Yolo!Contains(r, x) \/ x = Yolo!Sentinel
          /\ Yolo!IsInjective(p)
      BY <2>2, <2>4, <2>9, Joining
    <3>2. \A x : Yolo!Contains(p, x) <=> Yolo!Contains(q, x)
      BY <2>4, <2>9, <3>1
    <3>3. QED BY <1>1, <1>5, <2>1, <2>9, <3>1, <3>2
  <2>10. ASSUME /\ phase = "collecting" /\ p = r /\ h # Yolo!Sentinel /\ Len(b) < batchSize
              /\ next = "collecting" /\ a = Append(b, h)
        PROVE  Place
    <3>1. h \in Yolo!Thread /\ Yolo!Contains(q, h)
      BY <2>2, <2>4, <2>10
    <3>2. ~Yolo!Contains(b, h)
      BY <1>5, <3>1
    <3>3. /\ \A x : Yolo!Contains(a, x) <=> Yolo!Contains(b, x) \/ x = h
          /\ Yolo!IsInjective(a) /\ Len(a) = Len(b) + 1
      BY <1>1, <1>5, <2>10, <3>1, <3>2, Joining
    <3>4. Len(a) <= batchSize
      BY <1>1, <1>2, <2>10, <3>3
    <3>5. \A t \in Yolo!Thread : Yolo!Contains(p, t) \/ Yolo!Contains(a, t) <=> V(t)
      BY <1>5, <2>1, <2>4, <2>10, <3>3
    <3>6. \A t \in Yolo!Thread : ~(Yolo!Contains(p, t) /\ Yolo!Contains(a, t))
      BY <1>5, <2>4, <2>10, <3>3
    <3>7. /\ Yolo!Contains(p, Yolo!Sentinel) => Yolo!Contains(q, Yolo!Sentinel)
          /\ Yolo!IsInjective(p)
      BY <2>4, <2>10
    <3>8. QED BY <1>1, <1>5, <2>10, <3>3, <3>4, <3>5, <3>6, <3>7
  <2>11. Place
    <3>1. \/ phase = "getting" /\ p = r /\ h = Yolo!Sentinel /\ next = "ended" /\ a = <<>>
          \/ phase = "getting" /\ p = r /\ h # Yolo!Sentinel /\ next = "collecting" /\ a = <<h>>
          \/ /\ phase = "collecting" /\ p = Append(r, Yolo!Sentinel) /\ h = Yolo!Sentinel
             /\ next = "collected" /\ a = b
          \/ /\ phase = "collecting" /\ p = r /\ h # Yolo!Sentinel /\ Len(b) < batchSize
             /\ next = "collecting" /\ a = Append(b, h)
      BY <1>7, <2>2, <2>3
    <3> HIDE DEF Place
    <3>2. QED BY <2>7, <2>8, <2>9, <2>10, <3>1
  <2>12. QED BY <1>2, <2>11, Zenon DEF PlaceInv, p, a, next, V
<1>10. QED
  BY <1>2, <1>4, <1>7, <1>9, PlacesOf

\* What it does to its batch
LEMMA HandledIs ==
  ASSUME YoloTyped, PlacesInv, NEW g \in Yolo!Detector, NEW d \in Device,
         Yolo!Dispatch(g, d) \/ Yolo!Answer(g, d)
  PROVE  LET b == batcher[g][d].batch
             a == batcher'[g][d].batch
             next == batcher'[g][d].phase
         IN /\ \A x \in Yolo!Detector, y \in Device : ~(x = g /\ y = d) => batcher'[x][y] = batcher[x][y]
            /\ \/ /\ next = "getting" /\ a = <<>>
                  /\ \A t \in Yolo!Thread : Yolo!Contains(b, t) => thread'[t].stage # "queued"
               \/ /\ next = "asking" /\ a = b
                  /\ \A t \in Yolo!Thread : Yolo!Contains(b, t) => thread'[t].stage = thread[t].stage
<1> DEFINE b == batcher[g][d].batch
           a == batcher'[g][d].batch
           next == batcher'[g][d].phase
<1>1. batcher \in [Yolo!Detector -> [Device -> BatcherType]] /\ batcher[g][d] \in BatcherType
  BY DEF YoloTyped, BatcherType
<1>2. \/ /\ batcher' = [batcher EXCEPT ![g][d] = Yolo!Resting]
         /\ \A t \in Yolo!Thread : Yolo!Contains(b, t) =>
              (\E stage \in Broken : thread'[t] = Failed(thread[t], stage)) \/ thread'[t] = Zipped(thread[t])
      \/ /\ batcher' = [batcher EXCEPT ![g][d].phase = "asking"]
         /\ \A t \in Yolo!Thread : Yolo!Contains(b, t) =>
              thread'[t] = Asked(thread[t], Yolo!Picture(t))
  BY DispatchIs, AnswerIs, FailIs
<1>3. \A t \in Yolo!Thread : Yolo!Contains(b, t) =>
        t \in Yolo!Busy /\ thread[t] \in Yolo!Calls /\ Continues(t)
  BY BatchHandled, Working
<1>4. CASE /\ batcher' = [batcher EXCEPT ![g][d] = Yolo!Resting]
           /\ \A t \in Yolo!Thread : Yolo!Contains(b, t) =>
                (\E stage \in Broken : thread'[t] = Failed(thread[t], stage)) \/ thread'[t] = Zipped(thread[t])
  <2>1. Yolo!Resting \in BatcherType /\ Yolo!Resting.phase = "getting" /\ Yolo!Resting.batch = <<>>
    BY DEF BatcherType, Yolo!Resting
  <2>2. \A x \in Yolo!Detector, y \in Device :
          batcher'[x][y] = IF x = g /\ y = d THEN Yolo!Resting ELSE batcher[x][y]
    BY <1>1, <1>4, <2>1, Assigned
  <2>3. \A t \in Yolo!Thread : Yolo!Contains(b, t) => thread'[t].stage # "queued"
    BY <1>3, <1>4, Handled DEF Broken
  <2>4. QED BY <2>1, <2>2, <2>3
<1>5. CASE /\ batcher' = [batcher EXCEPT ![g][d].phase = "asking"]
           /\ \A t \in Yolo!Thread : Yolo!Contains(b, t) =>
                thread'[t] = Asked(thread[t], Yolo!Picture(t))
  <2> DEFINE v == [batcher[g][d] EXCEPT !.phase = "asking"]
  <2>1. v \in BatcherType /\ v.phase = "asking" /\ v.batch = b
    BY <1>1 DEF BatcherType
  <2>2. batcher' = [batcher EXCEPT ![g][d] = v]
    BY <1>1, <1>5
  <2> HIDE DEF v
  <2>3. \A x \in Yolo!Detector, y \in Device :
          batcher'[x][y] = IF x = g /\ y = d THEN v ELSE batcher[x][y]
    BY <1>1, <2>1, <2>2, Assigned
  <2>4. \A t \in Yolo!Thread : Yolo!Contains(b, t) => thread'[t].stage = thread[t].stage
    BY <1>3, <1>5, Handled
  <2>5. QED BY <2>1, <2>3, <2>4
<1>6. QED BY <1>2, <1>4, <1>5

\* The calls of a batch are no longer waited for when they have an answer.
LEMMA PlacesHandled ==
  ASSUME YoloTyped, YoloTyped', PlacesInv, NEW g \in Yolo!Detector, NEW d \in Device,
         Yolo!Dispatch(g, d) \/ Yolo!Answer(g, d)
  PROVE  PlacesInv'
<1> USE DEF Yolo!settings, Yolo!service
<1> DEFINE q == queue[g][d]
           b == batcher[g][d].batch
           phase == batcher[g][d].phase
           a == batcher'[g][d].batch
           next == batcher'[g][d].phase
           W(t) == Waits(t, g, d)
           V(t) == Waits(t, g, d)'
<1>1. /\ queue' = queue /\ UNCHANGED <<batchSize, deviceOf, yolo, open, closing>>
      /\ phase \notin {"getting", "ended"}
  BY DEF Yolo!Dispatch, Yolo!Answer
<1>4. \A t \in Yolo!Thread : ~Yolo!Contains(b, t) => thread'[t] = thread[t]
  BY BatchHandled
<1>5. \A t \in Yolo!Thread : Yolo!Contains(b, t) =>
        t \in Yolo!Busy /\ thread[t] \in Yolo!Calls /\ Continues(t) /\ W(t)
  BY BatchHandled, Working DEF PlacesInv, PlaceInv
<1>6. /\ \A x \in Yolo!Detector, y \in Device : ~(x = g /\ y = d) => batcher'[x][y] = batcher[x][y]
      /\ \/ /\ next = "getting" /\ a = <<>>
            /\ \A t \in Yolo!Thread : Yolo!Contains(b, t) => thread'[t].stage # "queued"
         \/ /\ next = "asking" /\ a = b
            /\ \A t \in Yolo!Thread : Yolo!Contains(b, t) => thread'[t].stage = thread[t].stage
  BY Zenon, HandledIs
<1>7. ASSUME NEW x \in Yolo!Detector, NEW y \in Device, ~(x = g /\ y = d), NEW t \in Yolo!Thread
      PROVE  Waits(t, x, y)' <=> Waits(t, x, y)
  <2>1. CASE Yolo!Contains(b, t)
    <3>1. thread'[t].yolo = thread[t].yolo /\ thread'[t].key = thread[t].key
      BY <1>5, <2>1 DEF Continues
    <3>2. thread[t].yolo = g /\ Yolo!DeviceFor(t) = d
      BY <1>5, <2>1 DEF Waits
    <3>3. thread'[t].yolo = g /\ Yolo!DeviceFor(t)' = d
      BY <1>1, <3>1, <3>2 DEF Yolo!DeviceFor
    <3>4. QED BY <1>7, <3>2, <3>3 DEF Waits
  <2>2. CASE ~Yolo!Contains(b, t)
    BY <1>1, <1>4, <2>2, WaitsKept
  <2>3. QED BY <2>1, <2>2
<1>8. PlaceInv(g, d)'
  <2>1. /\ \A t \in Yolo!Thread : Yolo!Contains(q, t) \/ Yolo!Contains(b, t) <=> W(t)
        /\ Yolo!IsInjective(q) /\ Yolo!IsInjective(b) /\ Len(b) <= batchSize
        /\ \A t \in Yolo!Thread : ~(Yolo!Contains(q, t) /\ Yolo!Contains(b, t))
        /\ Yolo!Contains(q, Yolo!Sentinel) \/ phase = "ended" => g \notin open \/ closing
        /\ g > yolo => q = <<>> /\ phase = "getting"
    BY Zenon DEF PlacesInv, PlaceInv
  <2>2. \A t \in Yolo!Thread : ~Yolo!Contains(b, t) => (V(t) <=> W(t))
    BY <1>1, <1>4, WaitsKept
  <2>3. \A t \in Yolo!Thread : ~Yolo!Contains(<<>>, t)
    BY DEF Yolo!Contains
  <2>4. Yolo!IsInjective(<<>>) /\ Len(<<>>) = 0 /\ 0 <= batchSize
    BY DEF Yolo!IsInjective, YoloTyped
  <2>5. CASE /\ next = "getting" /\ a = <<>>
             /\ \A t \in Yolo!Thread : Yolo!Contains(b, t) => thread'[t].stage # "queued"
    <3>1. \A t \in Yolo!Thread : Yolo!Contains(b, t) => ~V(t)
      BY <2>5 DEF Waits
    <3> HIDE DEF V, W, q, b, phase, a, next
    <3>2. /\ \A t \in Yolo!Thread : Yolo!Contains(q, t) \/ Yolo!Contains(a, t) <=> V(t)
          /\ Yolo!IsInjective(q) /\ Yolo!IsInjective(a) /\ Len(a) <= batchSize
          /\ \A t \in Yolo!Thread : ~(Yolo!Contains(q, t) /\ Yolo!Contains(a, t))
          /\ Yolo!Contains(q, Yolo!Sentinel) \/ next = "ended" => g \notin open \/ closing
          /\ Yolo!Contains(q, Yolo!Sentinel) => next # "ended"
          /\ next \in {"getting", "ended"} => a = <<>>
          /\ g > yolo => q = <<>> /\ next = "getting"
      BY <1>1, <2>1, <2>2, <2>3, <2>4, <2>5, <3>1
    <3>3. QED BY <1>1, <3>2, Zenon DEF PlaceInv, q, a, next, V
  <2>6. CASE /\ next = "asking" /\ a = b
             /\ \A t \in Yolo!Thread : Yolo!Contains(b, t) => thread'[t].stage = thread[t].stage
    <3>1. \A t \in Yolo!Thread : V(t) <=> W(t)
      BY <1>1, <1>4, <1>5, <2>6, WaitsKept
    <3> HIDE DEF V, W, q, b, phase, a, next
    <3>2. /\ \A t \in Yolo!Thread : Yolo!Contains(q, t) \/ Yolo!Contains(a, t) <=> V(t)
          /\ Yolo!IsInjective(q) /\ Yolo!IsInjective(a) /\ Len(a) <= batchSize
          /\ \A t \in Yolo!Thread : ~(Yolo!Contains(q, t) /\ Yolo!Contains(a, t))
          /\ Yolo!Contains(q, Yolo!Sentinel) \/ next = "ended" => g \notin open \/ closing
          /\ Yolo!Contains(q, Yolo!Sentinel) => next # "ended"
          /\ next \in {"getting", "ended"} => a = <<>>
          /\ g > yolo => q = <<>> /\ next = "getting"
      <4>1. next # "ended" /\ next # "getting" /\ phase # "getting"
        BY <1>1, <2>6 DEF phase
      <4>2. QED BY <2>1, <2>6, <3>1, <4>1
    <3>3. QED BY <1>1, <3>2, Zenon DEF PlaceInv, q, a, next, V
  <2>7. QED BY <1>6, <2>5, <2>6
<1>9. QED
  BY <1>1, <1>6, <1>7, <1>8, PlacesOf

\* The sentinel is put once: a detector that is closed never opens again.
LEMMA PlacesClose ==
  ASSUME Yolo!YoloAssumption, YoloTyped, YoloTyped', PlacesInv, Yolo!CloseDetector
  PROVE  PlacesInv'
<1> USE DEF Yolo!settings, Yolo!service
<1>1. /\ yolo \in open /\ ~closing /\ closing' = TRUE /\ batcher' = batcher /\ thread' = thread
      /\ UNCHANGED <<batchSize, deviceOf, yolo, open>>
      /\ queue' = [queue EXCEPT ![yolo] = [d \in Device |-> Append(queue[yolo][d], Yolo!Sentinel)]]
  BY DEF Yolo!CloseDetector, YoloTyped
<1>2. PICK G \in Yolo!Detector : G = yolo
  BY DEF YoloTyped, Yolo!Detector, Yolo!YoloAssumption
<1>3. \A g \in Yolo!Detector, d \in Device :
        queue'[g][d] = IF g = G THEN Append(queue[g][d], Yolo!Sentinel) ELSE queue[g][d]
  BY <1>1, <1>2 DEF YoloTyped
<1>4. \A t \in Yolo!Thread, g \in Yolo!Detector, d \in Device : Waits(t, g, d)' <=> Waits(t, g, d)
  BY <1>1, WaitsKept
<1>5. ASSUME NEW g \in Yolo!Detector, NEW d \in Device, g # G PROVE PlaceInv(g, d)'
  <2>1. PlaceInv(g, d)
    BY DEF PlacesInv
  <2>2. yolo <= yolo'
    BY <1>1 DEF YoloTyped
  <2>3. QED BY <1>1, <1>3, <1>4, <1>5, <2>1, <2>2, PlaceKept
<1>6. ASSUME NEW d \in Device PROVE PlaceInv(G, d)'
  <2> DEFINE q == queue[G][d]
             b == batcher[G][d].batch
             phase == batcher[G][d].phase
             p == queue'[G][d]
             W(t) == Waits(t, G, d)
             V(t) == Waits(t, G, d)'
  <2>1. /\ \A t \in Yolo!Thread : Yolo!Contains(q, t) \/ Yolo!Contains(b, t) <=> W(t)
        /\ Yolo!IsInjective(q) /\ Yolo!IsInjective(b) /\ Len(b) <= batchSize
        /\ \A t \in Yolo!Thread : ~(Yolo!Contains(q, t) /\ Yolo!Contains(b, t))
        /\ Yolo!Contains(q, Yolo!Sentinel) \/ phase = "ended" => G \notin open \/ closing
        /\ phase \in {"getting", "ended"} => b = <<>>
    BY <1>2, Zenon DEF PlacesInv, PlaceInv
  <2>2. ~Yolo!Contains(q, Yolo!Sentinel) /\ phase # "ended"
    BY <1>1, <1>2, <2>1
  <2>3. q \in Seq({Yolo!Sentinel} \cup Yolo!Thread) /\ p = Append(q, Yolo!Sentinel)
    BY <1>2, <1>3, Waiting
  <2>4. /\ \A x : Yolo!Contains(p, x) <=> Yolo!Contains(q, x) \/ x = Yolo!Sentinel
        /\ Yolo!IsInjective(p)
    <3> HIDE DEF q, p
    <3>1. QED BY <2>1, <2>2, <2>3, Joining
  <2>5. \A t \in Yolo!Thread : t # Yolo!Sentinel
    BY <1>2, Waiting
  <2>6. \A t \in Yolo!Thread : V(t) <=> W(t)
    BY <1>2, <1>4
  <2>7. ~(G > yolo)
    BY <1>2 DEF YoloTyped
  <2> HIDE DEF V, W, q, b, phase, p
  <2>8. /\ \A t \in Yolo!Thread : Yolo!Contains(p, t) \/ Yolo!Contains(b, t) <=> V(t)
        /\ Yolo!IsInjective(p) /\ Yolo!IsInjective(b) /\ Len(b) <= batchSize
        /\ \A t \in Yolo!Thread : ~(Yolo!Contains(p, t) /\ Yolo!Contains(b, t))
        /\ Yolo!Contains(p, Yolo!Sentinel) \/ phase = "ended" => G \notin open' \/ closing'
        /\ Yolo!Contains(p, Yolo!Sentinel) => phase # "ended"
        /\ phase \in {"getting", "ended"} => b = <<>>
        /\ G > yolo => p = <<>> /\ phase = "getting"
    BY <1>1, <2>1, <2>2, <2>4, <2>5, <2>6, <2>7
  <2>9. p = queue'[G][d] /\ b = batcher'[G][d].batch /\ phase = batcher'[G][d].phase
        /\ (\A t \in Yolo!Thread : V(t) <=> Waits(t, G, d)') /\ batchSize' = batchSize /\ yolo' = yolo
    BY <1>1 DEF p, b, phase, V
  <2>10. QED BY <2>8, <2>9 DEF PlaceInv
<1>7. QED
  <2>1. ASSUME NEW g \in Yolo!Detector, NEW d \in Device PROVE PlaceInv(g, d)'
    BY <1>5, <1>6
  <2>2. QED BY <2>1 DEF PlacesInv

\* Every step keeps the requests in their places.
LEMMA PlacesStep ==
  ASSUME Yolo!YoloAssumption, YoloTyped, YoloTyped', PlacesInv, CallsInv,
         [Yolo!Next]_(Yolo!vars)
  PROVE  PlacesInv'
<1> USE DEF Yolo!settings, Yolo!service, Yolo!ends, Yolo!batching, Yolo!loops
<1>1. ASSUME UNCHANGED <<queue, batcher>>, open' = open \/ open' \subseteq {yolo + 1},
             closing' = closing \/ open' \subseteq {yolo + 1},
             \A t \in Yolo!Thread :
                \/ thread'[t] = thread[t]
                \/ thread[t].stage # "queued" /\ thread'[t].stage # "queued"
                \/ Continues(t) /\ thread'[t].stage = thread[t].stage
      PROVE  PlacesInv'
  <2>1. ASSUME NEW g \in Yolo!Detector, NEW d \in Device PROVE PlaceInv(g, d)'
    <3>1. PlaceInv(g, d)
      BY DEF PlacesInv
    <3>2. yolo <= yolo' /\ batchSize' = batchSize /\ deviceOf' = deviceOf
      BY Forward
    <3>3. \A t \in Yolo!Thread : Waits(t, g, d)' <=> Waits(t, g, d)
      BY <1>1, <3>2, WaitsKept
    <3>4. g \in open' /\ ~closing' => (g \in open /\ ~closing) \/ g > yolo
      <4>1. yolo \in Nat
        BY DEF YoloTyped
      <4>2. QED BY <1>1, <4>1
    <3>5. QED BY <1>1, <3>1, <3>2, <3>3, <3>4, PlaceKept
  <2>2. QED BY <2>1 DEF PlacesInv
<1>2. ASSUME NEW k \in Yolo!Key, Yolo!NewFrame(k) \/ LoopStep(k) PROVE PlacesInv'
  <2>1. CASE Yolo!TimeOut(k)
    <3>1. Yolo!Abandon({k}) /\ UNCHANGED <<queue, batcher, open, closing>>
      BY <2>1 DEF Yolo!TimeOut
    <3>2. QED BY <1>1, <3>1, Abandoned
  <2>2. CASE ~Yolo!TimeOut(k)
    <3>1. UNCHANGED <<queue, batcher, open, closing, thread>>
      BY <1>2, <2>2 DEF Yolo!NewFrame, LoopStep, Yolo!Start, Yolo!Receive, Yolo!ResetTracker
    <3>2. QED BY <1>1, <3>1
  <2>3. QED BY <2>1, <2>2
<1>3. ASSUME ServiceStep PROVE PlacesInv'
  <2>1. CASE Yolo!CloseDetector
    BY <2>1, PlacesClose
  <2>2. CASE Yolo!Closed
    <3>1. UNCHANGED <<queue, batcher, thread>> /\ open' \subseteq {yolo + 1}
      BY <2>2 DEF Yolo!Closed
    <3>2. QED BY <1>1, <3>1
  <2>3. CASE Yolo!Stop
    <3>1. Yolo!Abandon(Yolo!Key) /\ UNCHANGED <<queue, batcher, open, closing>>
      BY <2>3 DEF Yolo!Stop
    <3>2. QED BY <1>1, <3>1, Abandoned
  <2>4. QED BY <1>3, <2>1, <2>2, <2>3 DEF ServiceStep
<1>4. ASSUME NEW t \in Yolo!Thread, ThreadStep(t) PROVE PlacesInv'
  <2>1. CASE Yolo!Put(t)
    BY <2>1, PlacesPut
  <2>2. CASE ~Yolo!Put(t)
    <3>1. UNCHANGED <<queue, batcher, open, closing>>
      BY <1>4, <2>2 DEF ThreadStep, Yolo!Enter, Yolo!Ask, Yolo!Reply, Yolo!Track, Yolo!Raise
    <3>2. CASE Yolo!Enter(t)
      <4>1. thread' = [thread EXCEPT ![t] = Head(work)] \/ thread' = thread
        BY <3>2 DEF Yolo!Enter
      <4>2. Head(work).stage = "entered" /\ thread[t].stage = "free"
        <5>1. work # <<>> /\ t \notin Yolo!Busy /\ work \in Seq(Yolo!Calls)
          BY <3>2 DEF Yolo!Enter, YoloTyped
        <5>2. 1 \in DOMAIN work /\ Head(work) = work[1]
          BY <5>1
        <5>3. QED BY <5>1, <5>2, Working DEF CallsInv
      <4>3. ASSUME NEW u \in Yolo!Thread
            PROVE  \/ thread'[u] = thread[u]
                   \/ thread[u].stage # "queued" /\ thread'[u].stage # "queued"
        <5>1. thread \in [Yolo!Thread -> Yolo!Calls \cup {Yolo!Free}]
          BY DEF YoloTyped
        <5>2. thread'[u] = thread[u] \/ (u = t /\ thread'[u] = Head(work))
          BY <4>1, <5>1
        <5>3. QED BY <4>2, <5>2
      <4>4. QED BY <1>1, <3>1, <4>3
    <3>3. CASE Yolo!Ask(t) \/ Yolo!Reply(t)
      BY <1>1, <2>2, <3>1, <3>3, PoolHandled
    <3>4. CASE Yolo!Track(t) \/ Yolo!Raise(t)
      <4>1. thread' = [thread EXCEPT ![t] = Yolo!Free] /\ thread[t].stage # "queued"
        BY <3>4 DEF Yolo!Track, Yolo!Raise
      <4>2. ASSUME NEW u \in Yolo!Thread
            PROVE  \/ thread'[u] = thread[u]
                   \/ thread[u].stage # "queued" /\ thread'[u].stage # "queued"
        <5>1. thread \in [Yolo!Thread -> Yolo!Calls \cup {Yolo!Free}] /\ Yolo!Free.stage = "free"
          BY DEF YoloTyped, Yolo!Free
        <5>2. thread'[u] = thread[u] \/ (u = t /\ thread'[u] = Yolo!Free)
          BY <4>1, <5>1
        <5>3. QED BY <4>1, <5>1, <5>2
      <4>3. QED BY <1>1, <3>1, <4>2
    <3>5. QED BY <1>4, <2>2, <3>2, <3>3, <3>4 DEF ThreadStep
  <2>3. QED BY <2>1, <2>2
<1>5. ASSUME NEW g \in Yolo!Detector, NEW d \in Device, BatchStep(g, d) PROVE PlacesInv'
  BY <1>5, PlacesTake, PlacesHandled DEF BatchStep
<1>6. CASE UNCHANGED Yolo!vars
  <2>1. UNCHANGED <<queue, batcher, open, closing, thread>>
    BY <1>6 DEF Yolo!vars
  <2>2. QED BY <1>1, <2>1
<1>7. QED BY <1>2, <1>3, <1>4, <1>5, <1>6, YoloSteps

-----------------------------------------------------------------------------
(* The order of the pictures *)

\* What a call gets when its picture is taken
LEMMA Pictures ==
  ASSUME Yolo!YoloAssumption, YoloTyped, NEW t \in Yolo!Busy
  PROVE  Yolo!Picture(t) = IF thread[t].key \in Given THEN thread[t].picture
                                                     ELSE frame[thread[t].key]
<1>1. thread[t].key \in Yolo!Key
  BY Working DEF Yolo!Busy
<1>2. QED BY <1>1 DEF Yolo!Picture, Yolo!HasSource, Given, Yolo!Key, Yolo!YoloAssumption

\* No call begins, and what a tracker is shown is not ahead of anyone.
LEMMA OrderKept ==
  ASSUME Yolo!YoloAssumption, YoloTyped, YoloTyped', OrderInv, late \subseteq late',
         running' => running, Given' = Given,
         \A k \in Yolo!Key : frame[k] <= frame'[k],
         \A i \in DOMAIN work' : \E j \in DOMAIN work : work'[i] = work[j],
         \A t \in Yolo!Thread : t \in Yolo!Busy' =>
           /\ t \in Yolo!Busy /\ thread'[t].key = thread[t].key
           /\ running' /\ thread[t].awaited => thread'[t].awaited \/ thread[t].key \in late'
           /\ Pictured(t)' => \/ Pictured(t) /\ thread'[t].picture = thread[t].picture
                              \/ thread'[t].picture = frame[thread[t].key],
         \A g \in Yolo!Detector, k \in Yolo!Key : tracker'[g][k] # tracker[g][k] =>
           /\ tracker'[g][k] <= frame[k]
           /\ \/ tracker'[g][k] = 0
              \/ k \in late
              \/ /\ \A t \in Yolo!Thread : t \in Yolo!Busy' => thread[t].key # k
                 /\ \A i \in DOMAIN work : work[i].key # k
  PROVE  OrderInv'
<1> DEFINE B(t) == t \in Yolo!Busy
           C(t) == t \in Yolo!Busy'
           P(t) == Pictured(t)
           N(t) == Pictured(t)'
<1>1. /\ \A g \in Yolo!Detector, k \in Yolo!Key : tracker[g][k] <= frame[k]
      /\ running => \A t \in Yolo!Thread : B(t) => thread[t].awaited \/ thread[t].key \in late
      /\ \A t, u \in Yolo!Thread :
           B(t) /\ B(u) /\ thread[t].key = thread[u].key /\ t # u => thread[t].key \in late
      /\ \A t \in Yolo!Thread, i \in DOMAIN work :
           B(t) /\ thread[t].key = work[i].key => thread[t].key \in late
      /\ \A t \in Yolo!Thread : B(t) /\ P(t) /\ thread[t].key \notin late =>
           \A g \in Yolo!Detector : tracker[g][thread[t].key] <= thread[t].picture
      /\ \A i \in DOMAIN work : work[i].key \in Given \ late =>
           \A g \in Yolo!Detector : tracker[g][work[i].key] <= work[i].picture
  BY DEF OrderInv
<1>2. /\ \A t \in Yolo!Thread : C(t) =>
           /\ B(t) /\ thread'[t].key = thread[t].key /\ thread[t].key \in Yolo!Key
           /\ running' /\ thread[t].awaited => thread'[t].awaited \/ thread[t].key \in late'
           /\ N(t) => \/ P(t) /\ thread'[t].picture = thread[t].picture
                      \/ thread'[t].picture = frame[thread[t].key]
           /\ thread'[t].picture \in Nat
      /\ \A g \in Yolo!Detector, k \in Yolo!Key : tracker'[g][k] # tracker[g][k] =>
           /\ tracker'[g][k] <= frame[k]
           /\ \/ tracker'[g][k] = 0
              \/ k \in late
              \/ /\ \A t \in Yolo!Thread : C(t) => thread[t].key # k
                 /\ \A i \in DOMAIN work : work[i].key # k
      /\ \A k \in Yolo!Key : frame[k] \in Nat /\ frame'[k] \in Nat
      /\ \A g \in Yolo!Detector, k \in Yolo!Key : tracker[g][k] \in Nat /\ tracker'[g][k] \in Nat
  <2>1. /\ \A k \in Yolo!Key : frame[k] \in Nat /\ frame'[k] \in Nat
        /\ \A g \in Yolo!Detector, k \in Yolo!Key : tracker[g][k] \in Nat /\ tracker'[g][k] \in Nat
    BY DEF YoloTyped, Yolo!YoloAssumption
  <2>2. \A t \in Yolo!Thread : C(t) => thread'[t].picture \in Nat /\ thread'[t].key \in Yolo!Key
    <3>1. MaxFrame \in Nat
      BY DEF Yolo!YoloAssumption
    <3>2. QED BY <3>1, WorkingNext
  <2> HIDE DEF N, C, P, B
  <2>3. \A t \in Yolo!Thread : C(t) =>
          /\ B(t) /\ thread'[t].key = thread[t].key
          /\ running' /\ thread[t].awaited => thread'[t].awaited \/ thread[t].key \in late'
          /\ N(t) => \/ P(t) /\ thread'[t].picture = thread[t].picture
                     \/ thread'[t].picture = frame[thread[t].key]
    BY DEF N, C, P, B
  <2>4. \A g \in Yolo!Detector, k \in Yolo!Key : tracker'[g][k] # tracker[g][k] =>
           /\ tracker'[g][k] <= frame[k]
           /\ \/ tracker'[g][k] = 0
              \/ k \in late
              \/ /\ \A t \in Yolo!Thread : C(t) => thread[t].key # k
                 /\ \A i \in DOMAIN work : work[i].key # k
    BY DEF C
  <2>5. QED BY <2>1, <2>2, <2>3, <2>4
<1>3. \A i \in DOMAIN work : work[i].key \in Yolo!Key /\ work[i].picture \in Nat
  <2>1. \A c \in Yolo!Calls : c.picture \in Nat
    BY DEF Yolo!Calls, Yolo!YoloAssumption
  <2>2. QED BY <2>1, Entered
<1> HIDE DEF B, C, P, N
<1>4. ASSUME NEW g \in Yolo!Detector, NEW k \in Yolo!Key PROVE tracker'[g][k] <= frame'[k]
  <2>1. tracker'[g][k] <= frame[k]
    BY <1>1, <1>2
  <2>2. QED BY <1>2, <2>1
<1>5. running' => \A t \in Yolo!Thread : C(t) => thread'[t].awaited \/ thread'[t].key \in late'
  BY <1>1, <1>2
<1>6. \A t, u \in Yolo!Thread :
        C(t) /\ C(u) /\ thread'[t].key = thread'[u].key /\ t # u => thread'[t].key \in late'
  BY <1>1, <1>2
<1>7. ASSUME NEW t \in Yolo!Thread, NEW i \in DOMAIN work', C(t), thread'[t].key = work'[i].key
      PROVE  thread'[t].key \in late'
  <2>1. PICK j \in DOMAIN work : work'[i] = work[j]
    OBVIOUS
  <2>2. QED BY <1>1, <1>2, <1>7, <2>1
<1>8. ASSUME NEW t \in Yolo!Thread, C(t), N(t), thread'[t].key \notin late',
       NEW g \in Yolo!Detector
      PROVE  tracker'[g][thread'[t].key] <= thread'[t].picture
  <2>1. /\ B(t) /\ thread'[t].key = thread[t].key /\ thread[t].key \in Yolo!Key
        /\ thread[t].key \notin late /\ thread'[t].picture \in Nat
    BY <1>2, <1>8
  <2>2. PICK k \in Yolo!Key : k = thread[t].key
    BY <2>1
  <2>3. tracker[g][k] <= thread'[t].picture
    <3>1. CASE P(t) /\ thread'[t].picture = thread[t].picture
      BY <1>1, <2>1, <2>2, <3>1
    <3>2. CASE thread'[t].picture = frame[thread[t].key]
      BY <1>1, <2>2, <3>2
    <3>3. QED BY <1>2, <1>8, <3>1, <3>2
  <2>4. tracker'[g][k] = tracker[g][k] \/ tracker'[g][k] = 0
    BY <1>2, <1>8, <2>1, <2>2
  <2>5. QED BY <2>1, <2>2, <2>3, <2>4
<1>9. ASSUME NEW i \in DOMAIN work', work'[i].key \in Given \ late', NEW g \in Yolo!Detector
      PROVE  tracker'[g][work'[i].key] <= work'[i].picture
  <2>1. PICK j \in DOMAIN work : work'[i] = work[j]
    OBVIOUS
  <2>2. PICK k \in Yolo!Key : k = work[j].key
    BY <1>3, <2>1
  <2>3. tracker[g][k] <= work[j].picture /\ work[j].picture \in Nat /\ k \notin late
    BY <1>1, <1>3, <1>9, <2>1, <2>2
  <2>4. tracker'[g][k] = tracker[g][k] \/ tracker'[g][k] = 0
    BY <1>2, <2>1, <2>2, <2>3
  <2>5. QED BY <2>1, <2>2, <2>3, <2>4
<1>10. QED
  <2>1. \A t : t \in Yolo!Busy' => t \in Yolo!Thread
    BY DEF Yolo!Busy
  <2>2. \A t \in Yolo!Busy' : C(t)
    BY DEF C
  <2>3. /\ \A g \in Yolo!Detector, k \in Yolo!Key : tracker'[g][k] <= frame'[k]
        /\ running' => \A t \in Yolo!Busy' : thread'[t].awaited \/ thread'[t].key \in late'
        /\ \A t, u \in Yolo!Busy' :
             thread'[t].key = thread'[u].key /\ t # u => thread'[t].key \in late'
        /\ \A t \in Yolo!Busy', i \in DOMAIN work' :
             thread'[t].key = work'[i].key => thread'[t].key \in late'
        /\ \A t \in Yolo!Busy' : N(t) /\ thread'[t].key \notin late' =>
             \A g \in Yolo!Detector : tracker'[g][thread'[t].key] <= thread'[t].picture
        /\ \A i \in DOMAIN work' : work'[i].key \in Given \ late' =>
             \A g \in Yolo!Detector : tracker'[g][work'[i].key] <= work'[i].picture
    BY <1>4, <1>5, <1>6, <1>7, <1>8, <1>9, <2>1, <2>2
  <2>4. QED BY <2>3, Zenon DEF OrderInv, N

\* A new call has the newest frame, and its key no other call that is heard.
LEMMA OrderStart ==
  ASSUME Yolo!YoloAssumption, YoloTyped, YoloTyped', HeardInv, OrderInv,
         NEW k \in Yolo!Key, Yolo!Start(k), Given' = Given
  PROVE  OrderInv'
<1> USE DEF Yolo!settings, Yolo!service, Yolo!ends, Yolo!batching, Yolo!loops
<1> DEFINE n == Len(work) + 1
           P(t) == Pictured(t)
<1>1. /\ UNCHANGED <<thread, batcher, tracker, frame, late, running>> /\ running
      /\ loop[k].state # "waiting"
  BY DEF Yolo!Start, Yolo!Idle
<1>2. Yolo!Busy' = Yolo!Busy /\ \A t : Pictured(t)' <=> P(t)
  BY <1>1 DEF Yolo!Busy, Pictured
<1>3. /\ DOMAIN work' = 1 .. n /\ DOMAIN work = 1 .. n - 1 /\ n \in Nat \ {0}
      /\ work'[n].key = k /\ work'[n].picture = (IF k \in Given THEN frame[k] ELSE 0)
      /\ \A i \in DOMAIN work : work'[i] = work[i]
  <2>1. /\ work' = Append(work, Yolo!Call(k)) /\ work \in Seq(Yolo!Calls) /\ Yolo!Call(k).key = k
        /\ Yolo!Call(k).picture = IF k \in Given THEN frame[k] ELSE 0
    BY DEF Yolo!Start, YoloTyped, Yolo!Call, Given
  <2> HIDE DEF Yolo!Call
  <2>2. QED BY <2>1
<1>4. \A i \in DOMAIN work' : i \in DOMAIN work \/ i = n
  BY <1>3
<1>5. \A t \in Yolo!Busy : thread[t].key = k => k \in late
  <2>1. ASSUME NEW t \in Yolo!Busy, thread[t].key = k PROVE k \in late
    <3>1. t \in Yolo!Thread
      BY DEF Yolo!Busy
    <3>2. ~thread[t].awaited
      BY <1>1, <2>1, <3>1 DEF HeardInv, Heard
    <3>3. QED BY <1>1, <2>1, <3>2 DEF OrderInv
  <2>2. QED BY <2>1
<1>6. /\ \A g \in Yolo!Detector, m \in Yolo!Key : tracker[g][m] <= frame[m]
      /\ \A t \in Yolo!Busy : thread[t].awaited \/ thread[t].key \in late
      /\ \A t, u \in Yolo!Busy : thread[t].key = thread[u].key /\ t # u => thread[t].key \in late
      /\ \A t \in Yolo!Busy, i \in DOMAIN work :
           thread[t].key = work[i].key => thread[t].key \in late
      /\ \A t \in Yolo!Busy : P(t) /\ thread[t].key \notin late =>
           \A g \in Yolo!Detector : tracker[g][thread[t].key] <= thread[t].picture
      /\ \A i \in DOMAIN work : work[i].key \in Given \ late =>
           \A g \in Yolo!Detector : tracker[g][work[i].key] <= work[i].picture
  BY <1>1, Zenon DEF OrderInv
<1> HIDE DEF n, P
<1>7. \A t \in Yolo!Busy, i \in DOMAIN work' :
        thread[t].key = work'[i].key => thread[t].key \in late
  BY <1>3, <1>4, <1>5, <1>6
<1>8. \A i \in DOMAIN work' : work'[i].key \in Given \ late =>
        \A g \in Yolo!Detector : tracker[g][work'[i].key] <= work'[i].picture
  BY <1>3, <1>4, <1>6
<1>9. QED BY <1>1, <1>2, <1>6, <1>7, <1>8 DEF OrderInv

\* A thread takes over what the call has.
LEMMA OrderEnter ==
  ASSUME Yolo!YoloAssumption, YoloTyped, YoloTyped', PlacesInv, CallsInv, HeardInv, OrderInv,
         NEW t \in Yolo!Thread, Yolo!Enter(t), thread'[t] = Head(work), thread[t].stage = "free",
         Given' = Given
  PROVE  OrderInv'
<1> USE DEF Yolo!settings, Yolo!service, Yolo!ends, Yolo!batching, Yolo!loops
<1> DEFINE B(u) == u \in Yolo!Busy
           C(u) == u \in Yolo!Busy'
           P(u) == Pictured(u)
           N(u) == Pictured(u)'
           first == Head(work)
<1>1. /\ UNCHANGED <<batcher, tracker, frame, late, running>>
      /\ \A u \in Yolo!Thread : u # t => thread'[u] = thread[u]
  <2>1. UNCHANGED <<batcher, tracker, frame, late, running>>
    BY DEF Yolo!Enter
  <2>2. thread \in [Yolo!Thread -> Yolo!Calls \cup {Yolo!Free}]
    BY DEF YoloTyped
  <2>3. QED BY <2>1, <2>2 DEF Yolo!Enter
<1>2. /\ DOMAIN work' = 1 .. Len(work) - 1 /\ DOMAIN work = 1 .. Len(work)
      /\ Len(work) \in Nat \ {0} /\ first = work[1]
      /\ \A i \in DOMAIN work' : work'[i] = work[i + 1]
  <2>1. work' = Tail(work) /\ work # <<>> /\ work \in Seq(Yolo!Calls)
    BY DEF Yolo!Enter, YoloTyped
  <2>2. QED BY <2>1
<1>3. /\ 1 \in DOMAIN work
      /\ \A i \in DOMAIN work' : i + 1 \in DOMAIN work /\ i + 1 # 1
  BY <1>2
<1>4. first.stage = "entered" /\ first.awaited /\ first \in Yolo!Calls
  BY <1>2, <1>3, Entered DEF CallsInv
<1>5. /\ ~B(t) /\ C(t) /\ \A u \in Yolo!Thread : u # t => (C(u) <=> B(u))
      /\ \A u : C(u) \/ B(u) => u \in Yolo!Thread
  <2>1. ~B(t)
    BY Working
  <2>2. first.stage # "free"
    BY <1>4
  <2>3. C(t)
    BY <2>2, WorkingNext
  <2>4. QED BY <1>1, <2>1, <2>3 DEF Yolo!Busy
<1>6. /\ \A u \in Yolo!Thread : u # t => (N(u) <=> P(u))
      /\ N(t) => first.key \in Given
  <2>1. \A u \in Yolo!Thread : u # t => (N(u) <=> P(u))
    BY <1>1 DEF Pictured
  <2>2. \A g \in Yolo!Detector, d \in Device : ~Yolo!Contains(batcher[g][d].batch, t)
    BY <1>5 DEF PlacesInv, PlaceInv, Waits
  <2>3. N(t) => first.key \in Given
    BY <1>1, <1>4, <2>2 DEF Pictured
  <2>4. QED BY <2>1, <2>3
<1>7. /\ running => \A u \in Yolo!Thread : B(u) => thread[u].awaited \/ thread[u].key \in late
      /\ \A u, v \in Yolo!Thread :
           B(u) /\ B(v) /\ thread[u].key = thread[v].key /\ u # v => thread[u].key \in late
      /\ \A u \in Yolo!Thread, i \in DOMAIN work :
           B(u) /\ thread[u].key = work[i].key => thread[u].key \in late
      /\ \A u \in Yolo!Thread : B(u) /\ P(u) /\ thread[u].key \notin late =>
           \A g \in Yolo!Detector : tracker[g][thread[u].key] <= thread[u].picture
      /\ \A i \in DOMAIN work : work[i].key \in Given \ late =>
           \A g \in Yolo!Detector : tracker[g][work[i].key] <= work[i].picture
      /\ \A i, j \in DOMAIN work : work[i].key = work[j].key => i = j
  BY DEF OrderInv, HeardInv
<1>8. \A g \in Yolo!Detector, m \in Yolo!Key : tracker[g][m] <= frame[m]
  BY DEF OrderInv
<1> HIDE DEF B, C, P, N, first
<1>9. running => \A u \in Yolo!Thread : C(u) => thread'[u].awaited \/ thread'[u].key \in late
  <2>1. ASSUME running, NEW u \in Yolo!Thread, C(u)
        PROVE  thread'[u].awaited \/ thread'[u].key \in late
    <3>1. CASE u = t
      BY <1>4, <3>1 DEF first
    <3>2. CASE u # t
      BY <1>1, <1>5, <1>7, <2>1, <3>2
    <3>3. QED BY <3>1, <3>2
  <2>2. QED BY <2>1
<1>10. ASSUME NEW u \in Yolo!Thread, NEW v \in Yolo!Thread, C(u), C(v),
              thread'[u].key = thread'[v].key, u # v
       PROVE  thread'[u].key \in late
  <2>1. thread'[t] = first
    BY DEF first
  <2>2. CASE u = t
    BY <1>1, <1>2, <1>3, <1>5, <1>7, <1>10, <2>1, <2>2
  <2>3. CASE v = t
    BY <1>1, <1>2, <1>3, <1>5, <1>7, <1>10, <2>1, <2>3
  <2>4. CASE u # t /\ v # t
    BY <1>1, <1>5, <1>7, <1>10, <2>4
  <2>5. QED BY <2>2, <2>3, <2>4
<1>11. ASSUME NEW u \in Yolo!Thread, NEW i \in DOMAIN work', C(u), thread'[u].key = work'[i].key
       PROVE  thread'[u].key \in late
  <2>1. i + 1 \in DOMAIN work /\ i + 1 # 1 /\ work'[i] = work[i + 1]
    BY <1>2, <1>3
  <2>2. CASE u = t
    <3>1. work[1].key = work[i + 1].key
      BY <1>2, <1>11, <2>1, <2>2 DEF first
    <3>2. QED BY <1>3, <1>7, <2>1, <3>1
  <2>3. CASE u # t
    BY <1>1, <1>5, <1>7, <1>11, <2>1, <2>3
  <2>4. QED BY <2>2, <2>3
<1>12. ASSUME NEW u \in Yolo!Thread, C(u), N(u), thread'[u].key \notin late,
       NEW g \in Yolo!Detector
       PROVE  tracker[g][thread'[u].key] <= thread'[u].picture
  <2>1. CASE u = t
    <3>1. thread'[u] = work[1] /\ work[1].key \in Given \ late
      BY <1>2, <1>6, <1>12, <2>1 DEF first
    <3>2. QED BY <1>3, <1>7, <3>1
  <2>2. CASE u # t
    BY <1>1, <1>5, <1>6, <1>7, <1>12, <2>2
  <2>3. QED BY <2>1, <2>2
<1>13. \A i \in DOMAIN work' : work'[i].key \in Given \ late =>
           \A g \in Yolo!Detector : tracker[g][work'[i].key] <= work'[i].picture
  BY <1>2, <1>3, <1>7
<1>14. QED
  <2>1. \A u \in Yolo!Busy' : C(u) /\ u \in Yolo!Thread
    BY DEF C, Yolo!Busy
  <2>2. /\ \A g \in Yolo!Detector, m \in Yolo!Key : tracker'[g][m] <= frame'[m]
        /\ running' => \A u \in Yolo!Busy' : thread'[u].awaited \/ thread'[u].key \in late'
        /\ \A u, v \in Yolo!Busy' :
             thread'[u].key = thread'[v].key /\ u # v => thread'[u].key \in late'
        /\ \A u \in Yolo!Busy', i \in DOMAIN work' :
             thread'[u].key = work'[i].key => thread'[u].key \in late'
        /\ \A u \in Yolo!Busy' : N(u) /\ thread'[u].key \notin late' =>
             \A g \in Yolo!Detector : tracker'[g][thread'[u].key] <= thread'[u].picture
        /\ \A i \in DOMAIN work' : work'[i].key \in Given \ late' =>
             \A g \in Yolo!Detector : tracker'[g][work'[i].key] <= work'[i].picture
    BY <1>1, <1>8, <1>9, <1>10, <1>11, <1>12, <1>13, <2>1
  <2>3. QED BY <2>2, Zenon DEF OrderInv, N

\* What OrderKept asks of a thread
Follows(t) == t \in Yolo!Busy' =>
  /\ t \in Yolo!Busy /\ thread'[t].key = thread[t].key
  /\ running' /\ thread[t].awaited => thread'[t].awaited \/ thread[t].key \in late'
  /\ Pictured(t)' => \/ Pictured(t) /\ thread'[t].picture = thread[t].picture
                     \/ thread'[t].picture = frame[thread[t].key]

\* A thread whose call is the same follows.
LEMMA FollowsSame ==
  ASSUME YoloTyped, YoloTyped', NEW t \in Yolo!Thread, thread'[t] = thread[t],
         Pictured(t)' => Pictured(t)
  PROVE  Follows(t)
BY Working, WorkingNext DEF Follows

\* A call that goes on, in batches that are the same
LEMMA FollowsCall ==
  ASSUME Yolo!YoloAssumption, YoloTyped, YoloTyped', Given' = Given,
         NEW t \in Yolo!Thread, batcher' = batcher, Continues(t),
         running' /\ thread[t].awaited => thread'[t].awaited \/ thread[t].key \in late',
         \/ /\ thread'[t].picture = thread[t].picture
            /\ thread'[t].stage \in {"asking", "ok"} => thread[t].stage \in {"asking", "ok"}
         \/ thread'[t].picture = Yolo!Picture(t)
  PROVE  Follows(t)
<1>1. /\ t \in Yolo!Busy /\ thread'[t].key = thread[t].key
  BY DEF Continues
<1>2. CASE /\ thread'[t].picture = thread[t].picture
           /\ thread'[t].stage \in {"asking", "ok"} => thread[t].stage \in {"asking", "ok"}
  <2>1. Pictured(t)' => Pictured(t)
    BY <1>1, <1>2 DEF Pictured
  <2>2. QED BY <1>1, <1>2, <2>1 DEF Follows
<1>3. CASE thread'[t].picture = Yolo!Picture(t)
  <2>1. CASE thread[t].key \in Given
    BY <1>1, <1>3, <2>1, Pictures DEF Follows, Pictured
  <2>2. CASE thread[t].key \notin Given
    BY <1>1, <1>3, <2>2, Pictures DEF Follows
  <2>3. QED BY <2>1, <2>2
<1>4. QED BY <1>2, <1>3

\* The thread for batches takes pictures when it has the whole batch.
LEMMA FollowsBatch ==
  ASSUME Yolo!YoloAssumption, YoloTyped, YoloTyped', PlacesInv, Given' = Given,
         NEW g \in Yolo!Detector, NEW d \in Device, BatchStep(g, d), NEW t \in Yolo!Thread
  PROVE  Follows(t)
<1> USE DEF Yolo!settings, Yolo!service, Yolo!ends, Yolo!batching, Yolo!loops
<1>1. CASE Yolo!GetFirst(g, d) \/ Yolo!Collect(g, d)
  <2>1. thread' = thread
    BY <1>1 DEF Yolo!GetFirst, Yolo!Collect
  <2>2. /\ batcher'[g][d].phase # "asking"
        /\ \A x \in Yolo!Detector, y \in Device : ~(x = g /\ y = d) => batcher'[x][y] = batcher[x][y]
    BY <1>1, TakeIs
  <2>3. Pictured(t)' => Pictured(t)
    BY <2>1, <2>2 DEF Pictured
  <2>4. QED BY <2>1, <2>3, FollowsSame
<1>2. CASE Yolo!Dispatch(g, d) \/ Yolo!Answer(g, d)
  <2> DEFINE b == batcher[g][d].batch
             a == batcher'[g][d].batch
             next == batcher'[g][d].phase
  <2>1. /\ \A x \in Yolo!Detector, y \in Device : ~(x = g /\ y = d) => batcher'[x][y] = batcher[x][y]
        /\ \/ next = "getting" /\ a = <<>>
           \/ /\ next = "asking" /\ a = b
              /\ Yolo!Contains(b, t) => thread'[t].stage = thread[t].stage
    BY <1>2, HandledIs, Zenon
  <2>2. /\ thread'[t] # thread[t] => Yolo!Contains(b, t)
        /\ Yolo!Contains(b, t) =>
              /\ t \in Yolo!Busy /\ thread[t].stage = "queued" /\ Continues(t)
              /\ thread'[t].awaited = thread[t].awaited
              /\ \/ thread'[t].stage = "queued" /\ thread'[t].picture = Yolo!Picture(t)
                 \/ thread'[t].stage \in Broken /\ thread'[t].picture = thread[t].picture
                 \/ /\ batcher[g][d].phase = "asking"
                    /\ thread'[t].stage = "ok" /\ thread'[t].picture = thread[t].picture
    BY <1>2, BatchHandled
  <2>3. ASSUME NEW x \in Yolo!Detector, NEW y \in Device, batcher'[x][y].phase = "asking",
               Yolo!Contains(batcher'[x][y].batch, t)
        PROVE  Pictured(t) \/ (x = g /\ y = d /\ next = "asking" /\ a = b /\ Yolo!Contains(b, t))
    <3>1. CASE x = g /\ y = d
      BY <2>1, <2>3, <3>1
    <3>2. CASE ~(x = g /\ y = d)
      BY <2>1, <2>3, <3>2 DEF Pictured
    <3>3. QED BY <3>1, <3>2
  <2>4. CASE ~Yolo!Contains(b, t)
    <3>1. thread'[t] = thread[t]
      BY <2>2, <2>4
    <3>2. Pictured(t)' => Pictured(t)
      <4> HIDE DEF a, b, next
      <4>1. SUFFICES ASSUME Pictured(t)' PROVE Pictured(t)
        OBVIOUS
      <4>2. \/ thread'[t].key \in Given \/ thread'[t].stage \in {"asking", "ok"}
            \/ \E x \in Yolo!Detector, y \in Device :
                 batcher'[x][y].phase = "asking" /\ Yolo!Contains(batcher'[x][y].batch, t)
        BY <4>1 DEF Pictured
      <4>3. CASE thread'[t].key \in Given \/ thread'[t].stage \in {"asking", "ok"}
        BY <3>1, <4>3 DEF Pictured
      <4>4. QED BY <2>3, <2>4, <4>2, <4>3
    <3>3. QED BY <3>1, <3>2, FollowsSame
  <2>5. CASE Yolo!Contains(b, t)
    <3>1. t \in Yolo!Busy /\ thread'[t].key = thread[t].key /\ thread'[t].awaited = thread[t].awaited
      BY <2>2, <2>5 DEF Continues
    <3>2. CASE thread'[t].picture = Yolo!Picture(t)
      <4>1. CASE thread[t].key \in Given
        BY <3>1, <3>2, <4>1, Pictures DEF Follows, Pictured
      <4>2. CASE thread[t].key \notin Given
        BY <3>1, <3>2, <4>2, Pictures DEF Follows
      <4>3. QED BY <4>1, <4>2
    <3>3. CASE thread'[t].stage \in Broken /\ thread'[t].picture = thread[t].picture
      <4>1. ~(next = "asking" /\ a = b)
        <5>1. thread[t].stage = "queued"
          BY <2>2, <2>5
        <5>2. next = "getting" \/ thread'[t].stage = thread[t].stage
          BY <2>1, <2>5
        <5>3. QED BY <3>3, <5>1, <5>2 DEF Broken
      <4>2. Pictured(t)' => Pictured(t)
        <5> HIDE DEF a, b, next
        <5>1. SUFFICES ASSUME Pictured(t)' PROVE Pictured(t)
          OBVIOUS
        <5>2. \/ thread'[t].key \in Given
              \/ \E x \in Yolo!Detector, y \in Device :
                   batcher'[x][y].phase = "asking" /\ Yolo!Contains(batcher'[x][y].batch, t)
          BY <3>3, <5>1 DEF Pictured, Broken
        <5>3. CASE thread'[t].key \in Given
          BY <3>1, <5>3 DEF Pictured
        <5>4. QED BY <2>3, <4>1, <5>2, <5>3
      <4>3. QED BY <3>1, <3>3, <4>2 DEF Follows
    <3>4. CASE batcher[g][d].phase = "asking" /\ thread'[t].picture = thread[t].picture
      <4>1. Pictured(t)
        BY <2>5, <3>4 DEF Pictured
      <4>2. QED BY <3>1, <3>4, <4>1 DEF Follows
    <3>5. QED BY <2>2, <2>5, <3>2, <3>3, <3>4
  <2>6. QED BY <2>4, <2>5
<1>3. QED BY <1>1, <1>2 DEF BatchStep

\* Every step keeps the pictures in order.
LEMMA OrderStep ==
  ASSUME Yolo!YoloAssumption, YoloTyped, YoloTyped', PlacesInv, CallsInv, HeardInv, OrderInv,
         [Yolo!Next]_(Yolo!vars)
  PROVE  OrderInv'
<1> USE DEF Yolo!settings, Yolo!service, Yolo!ends, Yolo!batching, Yolo!loops
<1>1. Given' = Given /\ \A k \in Yolo!Key : frame[k] <= frame'[k]
  BY Forward DEF Given, Yolo!Key
<1>2. ASSUME late \subseteq late', running' => running,
             \A i \in DOMAIN work' : \E j \in DOMAIN work : work'[i] = work[j],
             \A t \in Yolo!Thread : Follows(t),
             \A g \in Yolo!Detector, k \in Yolo!Key : tracker'[g][k] # tracker[g][k] =>
               /\ tracker'[g][k] <= frame[k]
               /\ \/ tracker'[g][k] = 0
                  \/ k \in late
                  \/ /\ \A t \in Yolo!Thread : t \in Yolo!Busy' => thread[t].key # k
                     /\ \A i \in DOMAIN work : work[i].key # k
      PROVE  OrderInv'
  BY <1>1, <1>2, OrderKept DEF Follows
<1>3. ASSUME thread' = thread, batcher' = batcher, NEW t \in Yolo!Thread PROVE Follows(t)
  <2>1. Pictured(t)' => Pictured(t)
    BY <1>1, <1>3 DEF Pictured
  <2>2. QED BY <1>3, <2>1, FollowsSame
<1>4. ASSUME NEW K, Yolo!Abandon(K), batcher' = batcher, running' => K \subseteq late',
             late \subseteq late', running' => running, tracker' = tracker
      PROVE  OrderInv'
  <2>1. ASSUME NEW t \in Yolo!Thread PROVE Follows(t)
    <3>1. CASE t \in Yolo!Busy
      BY <1>1, <1>4, <3>1, Abandoned, FollowsCall
    <3>2. CASE t \notin Yolo!Busy
      BY <1>4, <3>2, Abandoned, Working, WorkingNext DEF Follows
    <3>3. QED BY <3>1, <3>2
  <2>2. \A i \in DOMAIN work' : \E j \in DOMAIN work : work'[i] = work[j]
    BY <1>4, AbandonIs
  <2>3. QED BY <1>2, <1>4, <2>1, <2>2
<1>5. ASSUME NEW k \in Yolo!Key, Yolo!NewFrame(k) \/ LoopStep(k) PROVE OrderInv'
  <2>1. CASE Yolo!NewFrame(k) \/ Yolo!Receive(k)
    BY <1>2, <1>3, <2>1 DEF Yolo!NewFrame, Yolo!Receive
  <2>2. CASE Yolo!Start(k)
    BY <1>1, <2>2, OrderStart
  <2>3. CASE Yolo!TimeOut(k)
    <3>1. /\ Yolo!Abandon({k}) /\ UNCHANGED <<batcher, running, tracker>>
          /\ late' = late \cup {k}
      BY <2>3 DEF Yolo!TimeOut
    <3>2. {k} \subseteq late' /\ late \subseteq late'
      BY <3>1
    <3>3. QED BY <1>4, <3>1, <3>2
  <2>4. CASE Yolo!ResetTracker(k)
    <3>1. /\ UNCHANGED <<batcher, running, thread, work, late>>
          /\ tracker' = [tracker EXCEPT ![yolo][k] = 0]
      BY <2>4 DEF Yolo!ResetTracker
    <3>2. PICK G \in Yolo!Detector : G = yolo
      BY DEF YoloTyped, Yolo!Detector, Yolo!YoloAssumption
    <3>3. 0 \in 0 .. MaxFrame /\ \A m \in Yolo!Key : frame[m] \in Nat
      BY DEF YoloTyped, Yolo!YoloAssumption
    <3>4. \A g \in Yolo!Detector, m \in Yolo!Key :
            tracker'[g][m] = IF g = G /\ m = k THEN 0 ELSE tracker[g][m]
      <4>1. tracker \in [Yolo!Detector -> [Yolo!Key -> 0 .. MaxFrame]]
        BY DEF YoloTyped
      <4>2. tracker' = [tracker EXCEPT ![G][k] = 0]
        BY <3>1, <3>2
      <4>3. \A g \in Yolo!Detector, m \in Yolo!Key :
              [tracker EXCEPT ![G][k] = 0][g][m] = IF g = G /\ m = k THEN 0 ELSE tracker[g][m]
        BY <1>5, <3>2, <3>3, <4>1, Assigned
      <4>4. QED BY <4>2, <4>3
    <3>5. \A g \in Yolo!Detector, m \in Yolo!Key : tracker'[g][m] # tracker[g][m] =>
            tracker'[g][m] <= frame[m] /\ tracker'[g][m] = 0
      BY <3>3, <3>4
    <3>6. QED BY <1>2, <1>3, <3>1, <3>5
  <2>5. QED BY <1>5, <2>1, <2>2, <2>3, <2>4 DEF LoopStep
<1>6. ASSUME ServiceStep PROVE OrderInv'
  <2>1. CASE Yolo!CloseDetector \/ Yolo!Closed
    BY <1>2, <1>3, <2>1 DEF Yolo!CloseDetector, Yolo!Closed
  <2>2. CASE Yolo!Stop
    <3>1. /\ Yolo!Abandon(Yolo!Key) /\ UNCHANGED <<batcher, late, tracker>>
          /\ running' = FALSE
      BY <2>2 DEF Yolo!Stop
    <3>2. QED BY <1>4, <3>1
  <2>3. QED BY <1>6, <2>1, <2>2 DEF ServiceStep
<1>7. ASSUME NEW t \in Yolo!Thread, ThreadStep(t) PROVE OrderInv'
  <2>1. CASE Yolo!Enter(t)
    <3>1. thread[t].stage = "free" /\ UNCHANGED <<batcher, late, tracker, running>>
      BY <2>1, Working DEF Yolo!Enter
    <3>2. thread' = thread \/ thread'[t] = Head(work)
      BY <2>1 DEF Yolo!Enter, YoloTyped
    <3>3. \A i \in DOMAIN work' : \E j \in DOMAIN work : work'[i] = work[j]
      <4>1. work' = Tail(work) /\ work # <<>> /\ work \in Seq(Yolo!Calls)
        BY <2>1 DEF Yolo!Enter, YoloTyped
      <4>2. \A i \in DOMAIN work' : i + 1 \in DOMAIN work /\ work'[i] = work[i + 1]
        BY <4>1
      <4>3. QED BY <4>2
    <3>4. CASE thread' = thread
      BY <1>2, <1>3, <3>1, <3>3, <3>4
    <3>5. CASE thread'[t] = Head(work)
      BY <1>1, <2>1, <3>1, <3>5, OrderEnter
    <3>6. QED BY <3>2, <3>4, <3>5
  <2>2. CASE Yolo!Put(t) \/ Yolo!Ask(t) \/ Yolo!Reply(t)
    <3>1. UNCHANGED <<batcher, late, tracker, running, work>>
      BY <2>2 DEF Yolo!Put, Yolo!Ask, Yolo!Reply
    <3>2. Follows(t)
      BY <1>1, <2>2, <3>1, PoolHandled, FollowsCall DEF Broken
    <3>3. ASSUME NEW u \in Yolo!Thread, u # t PROVE Follows(u)
      <4>1. thread'[u] = thread[u]
        BY <2>2, <3>3, PoolHandled
      <4>2. Pictured(u)' => Pictured(u)
        BY <1>1, <3>1, <4>1 DEF Pictured
      <4>3. QED BY <4>1, <4>2, FollowsSame
    <3>4. QED BY <1>2, <3>1, <3>2, <3>3
  <2>3. CASE Yolo!Track(t) \/ Yolo!Raise(t)
    <3> DEFINE c == thread[t]
    <3>1. /\ UNCHANGED <<batcher, late, running, work>>
          /\ thread' = [thread EXCEPT ![t] = Yolo!Free]
          /\ \/ tracker' = tracker
             \/ c.stage = "ok" /\ tracker' = [tracker EXCEPT ![c.yolo][c.key] = c.result]
      BY <2>3 DEF Yolo!Track, Yolo!Raise
    <3>2. t \in Yolo!Busy /\ c.yolo \in Yolo!Detector /\ c.key \in Yolo!Key /\ c.result \in 0 .. MaxFrame
      BY <2>3, Working DEF Yolo!Track, Yolo!Raise
    <3>3. thread'[t] = Yolo!Free /\ \A u \in Yolo!Thread : u # t => thread'[u] = thread[u]
      BY <3>1 DEF YoloTyped
    <3>4. t \notin Yolo!Busy'
      BY <3>3, WorkingNext
    <3>5. ASSUME NEW u \in Yolo!Thread PROVE Follows(u)
      <4>1. CASE u = t
        BY <3>4, <4>1 DEF Follows
      <4>2. CASE u # t
        <5>1. thread'[u] = thread[u]
          BY <3>3, <4>2
        <5>2. Pictured(u)' => Pictured(u)
          BY <1>1, <3>1, <5>1 DEF Pictured
        <5>3. QED BY <5>1, <5>2, FollowsSame
      <4>3. QED BY <4>1, <4>2
    <3>6. PICK G \in Yolo!Detector, k \in Yolo!Key : G = c.yolo /\ k = c.key
      BY <3>2
    <3>7. \A g \in Yolo!Detector, m \in Yolo!Key :
            tracker'[g][m] # tracker[g][m] => c.stage = "ok" /\ m = k /\ tracker'[g][m] = c.result
      <4>1. CASE tracker' = tracker
        BY <4>1
      <4>2. CASE c.stage = "ok" /\ tracker' = [tracker EXCEPT ![G][k] = c.result]
        <5>1. tracker \in [Yolo!Detector -> [Yolo!Key -> 0 .. MaxFrame]]
          BY DEF YoloTyped
        <5> HIDE DEF c
        <5>2. \A g \in Yolo!Detector, m \in Yolo!Key :
                tracker'[g][m] = IF g = G /\ m = k THEN c.result ELSE tracker[g][m]
          BY <3>2, <3>6, <4>2, <5>1, Assigned
        <5>3. QED BY <4>2, <5>2
      <4>3. QED BY <3>1, <3>6, <4>1, <4>2
    <3>8. c.stage = "ok" => c.result <= frame[k]
      BY <3>2, <3>6 DEF CallsInv
    <3>9. \/ k \in late
          \/ /\ \A u \in Yolo!Thread : u \in Yolo!Busy' => thread[u].key # k
             /\ \A i \in DOMAIN work : work[i].key # k
      <4>1. ASSUME k \notin late, NEW u \in Yolo!Thread, u \in Yolo!Busy'
             PROVE thread[u].key # k
        <5>1. u # t /\ u \in Yolo!Busy
          BY <3>4, <3>5, <4>1 DEF Follows
        <5>2. QED BY <3>2, <3>6, <4>1, <5>1 DEF OrderInv
      <4>2. ASSUME k \notin late, NEW i \in DOMAIN work PROVE work[i].key # k
        BY <3>2, <3>6, <4>2 DEF OrderInv
      <4>3. QED BY <4>1, <4>2
    <3> HIDE DEF c
    <3>10. \A g \in Yolo!Detector, m \in Yolo!Key : tracker'[g][m] # tracker[g][m] =>
             /\ tracker'[g][m] <= frame[m]
             /\ \/ tracker'[g][m] = 0
                \/ m \in late
                \/ /\ \A u \in Yolo!Thread : u \in Yolo!Busy' => thread[u].key # m
                   /\ \A i \in DOMAIN work : work[i].key # m
      BY <3>7, <3>8, <3>9
    <3>11. QED BY <1>2, <3>1, <3>5, <3>10
  <2>4. QED BY <1>7, <2>1, <2>2, <2>3 DEF ThreadStep
<1>8. ASSUME NEW g \in Yolo!Detector, NEW d \in Device, BatchStep(g, d) PROVE OrderInv'
  <2>1. UNCHANGED <<late, tracker, running, work>>
    BY <1>8 DEF BatchStep, Yolo!GetFirst, Yolo!Collect, Yolo!Dispatch, Yolo!Answer
  <2>2. \A t \in Yolo!Thread : Follows(t)
    BY <1>1, <1>8, FollowsBatch
  <2>3. QED BY <1>2, <2>1, <2>2
<1>9. CASE UNCHANGED Yolo!vars
  BY <1>2, <1>3, <1>9 DEF Yolo!vars
<1>10. QED BY <1>5, <1>6, <1>7, <1>8, <1>9, YoloSteps

-----------------------------------------------------------------------------
(* The workers *)

\* A step that begins and ends no pass of a camera, and no worker
LEMMA WorkersKept ==
  ASSUME WorkersInv, workers' = workers, Passing' = Passing
  PROVE  WorkersInv'
BY DEF WorkersInv

\* The answer to a pass ends the call that the loop waits for, not the pass.
LEMMA PassGoesOn ==
  ASSUME YoloTyped, NEW c \in Yolo!Calls, c.awaited => loop[c.key].state = "waiting",
         NEW state \in {"ok", "failed", "cancelled"}, Yolo!Ends(c, state)
  PROVE  Passing' = Passing
<1>1. c.key \in Yolo!Key
  BY DEF Yolo!Calls
<1>2. \A k \in Yolo!Key : loop'[k] = loop[k] \/ (loop[k].state = "waiting" /\ loop'[k].state = state)
  BY <1>1 DEF Yolo!Ends, YoloTyped, LoopType
<1>3. \A k \in Yolo!Key : loop'[k] # Yolo!Idle <=> loop[k] # Yolo!Idle
  BY <1>2 DEF Yolo!Idle
<1>4. QED BY <1>3 DEF Passing, Yolo!Key

\* Every step keeps a worker for each camera that is being analysed.
LEMMA WorkersStep ==
  ASSUME Yolo!YoloAssumption, YoloTyped, YoloTyped', CallsInv, HeardInv, WorkersInv,
         [Yolo!Next]_(Yolo!vars)
  PROVE  WorkersInv'
<1> USE DEF Yolo!settings, Yolo!service, Yolo!ends, Yolo!batching, Yolo!loops
<1>1. ASSUME loop' = loop, workers' = workers PROVE WorkersInv'
  BY <1>1, WorkersKept DEF Passing
<1>2. /\ workers \in Nat /\ workers <= Workers /\ Workers \in Nat
      /\ IsFiniteSet(Passing) /\ Cardinality(Passing) <= workers /\ Cardinality(Passing) \in Nat
  BY FS_CardinalityType DEF WorkersInv, Yolo!YoloAssumption
<1>3. ASSUME NEW k \in Yolo!Key, loop' = [loop EXCEPT ![k] = Yolo!Idle], loop[k] # Yolo!Idle
      PROVE  /\ Passing' = Passing \ {k} /\ IsFiniteSet(Passing')
             /\ Cardinality(Passing') = IF k \in Watched THEN Cardinality(Passing) - 1
                                                         ELSE Cardinality(Passing)
  <2>1. Passing' = Passing \ {k} /\ (k \in Passing <=> k \in Watched)
    BY <1>3 DEF Passing, YoloTyped, Yolo!Key
  <2>2. QED BY <1>2, <2>1, FS_RemoveElement
<1>4. ASSUME NEW k \in Yolo!Key, Yolo!NewFrame(k) \/ LoopStep(k) PROVE WorkersInv'
  <2>1. CASE Yolo!NewFrame(k) \/ Yolo!ResetTracker(k)
    BY <1>1, <2>1 DEF Yolo!NewFrame, Yolo!ResetTracker
  <2>2. CASE Yolo!Start(k)
    <3> DEFINE pass == [state |-> "waiting", start |-> frame[k], seen |-> 0]
    <3>1. loop' = [loop EXCEPT ![k] = pass] /\ pass # Yolo!Idle /\ workers' = workers
      BY <2>2 DEF Yolo!Start, Yolo!Idle
    <3> HIDE DEF pass
    <3>2. CASE k \in Preview
      <4>1. k \notin Watched
        BY <3>2 DEF Yolo!YoloAssumption
      <4>2. Passing' = Passing
        BY <3>1, <4>1 DEF Passing, YoloTyped, Yolo!Key
      <4>3. QED BY <3>1, <4>2, WorkersKept
    <3>3. CASE k \notin Preview
      <4>1. Yolo!Cardinality({c \in Watched : loop[c] # Yolo!Idle}) < workers /\ loop[k] = Yolo!Idle
        BY <2>2, <3>3 DEF Yolo!Start
      <4>2. Cardinality(Passing) < workers
        BY <4>1, YoloOperators DEF Passing
      <4>3. k \in Watched /\ k \notin Passing /\ Passing' = Passing \cup {k}
        BY <3>1, <3>3, <4>1 DEF Passing, YoloTyped, Yolo!Key
      <4>4. IsFiniteSet(Passing') /\ Cardinality(Passing') = Cardinality(Passing) + 1
        BY <1>2, <4>3, FS_AddElement
      <4>5. QED BY <1>2, <3>1, <4>2, <4>4 DEF WorkersInv
    <3>4. QED BY <3>2, <3>3
  <2>3. CASE Yolo!TimeOut(k)
    <3>1. /\ loop' = [loop EXCEPT ![k] = Yolo!Idle] /\ loop[k].state = "waiting"
          /\ workers' = workers
      BY <2>3 DEF Yolo!TimeOut
    <3>2. loop[k] # Yolo!Idle
      BY <3>1 DEF Yolo!Idle
    <3>3. /\ IsFiniteSet(Passing')
          /\ Cardinality(Passing') = IF k \in Watched THEN Cardinality(Passing) - 1
                                                      ELSE Cardinality(Passing)
      BY <1>3, <3>1, <3>2
    <3>4. Cardinality(Passing') \in Nat /\ Cardinality(Passing) \in Nat
      BY <1>2, <3>3, FS_CardinalityType
    <3>5. Cardinality(Passing') <= Cardinality(Passing)
      BY <3>3, <3>4
    <3>6. QED BY <1>2, <3>1, <3>3, <3>4, <3>5 DEF WorkersInv
  <2>4. CASE Yolo!Receive(k)
    <3>1. /\ loop' = [loop EXCEPT ![k] = Yolo!Idle]
          /\ loop[k].state \in {"ok", "failed", "cancelled"}
          /\ workers' = workers \/ (k \notin Preview /\ workers' = workers - 1)
      BY <2>4 DEF Yolo!Receive, Yolo!Consume, Yolo!LoopEnds
    <3>2. loop[k] # Yolo!Idle
      BY <3>1 DEF Yolo!Idle
    <3>3. /\ IsFiniteSet(Passing') /\ Cardinality(Passing') \in Nat
          /\ Cardinality(Passing') = IF k \in Watched THEN Cardinality(Passing) - 1
                                                      ELSE Cardinality(Passing)
      BY <1>3, <3>1, <3>2, FS_CardinalityType
    <3>4. k \notin Preview => k \in Watched
      BY DEF Yolo!Key
    <3>5. /\ workers' \in Nat /\ workers' <= Workers
          /\ Cardinality(Passing') <= workers'
      BY <1>2, <3>1, <3>3, <3>4
    <3>6. QED BY <3>3, <3>5 DEF WorkersInv
  <2>5. QED BY <1>4, <2>1, <2>2, <2>3, <2>4 DEF LoopStep
<1>5. ASSUME ServiceStep PROVE WorkersInv'
  <2>1. CASE Yolo!CloseDetector \/ Yolo!Closed
    BY <1>1, <2>1 DEF Yolo!CloseDetector, Yolo!Closed
  <2>2. CASE Yolo!Stop
    <3>1. Passing' = {} /\ workers' = workers
      BY <2>2 DEF Yolo!Stop, Passing, Yolo!Key
    <3>2. QED BY <1>2, <3>1, FS_EmptySet DEF WorkersInv
  <2>3. QED BY <1>5, <2>1, <2>2 DEF ServiceStep
<1>6. ASSUME NEW t \in Yolo!Thread, ThreadStep(t) PROVE WorkersInv'
  <2>1. CASE Yolo!Put(t) \/ Yolo!Ask(t) \/ Yolo!Reply(t)
    BY <1>1, <2>1 DEF Yolo!Put, Yolo!Ask, Yolo!Reply
  <2>2. CASE Yolo!Enter(t)
    <3>1. /\ work # <<>> /\ workers' = workers
          /\ loop' = loop \/ Yolo!Ends(Head(work), "failed")
      BY <2>2 DEF Yolo!Enter
    <3>2. 1 \in DOMAIN work /\ Head(work) = work[1]
      BY <3>1 DEF YoloTyped
    <3>3. Head(work) \in Yolo!Calls /\ loop[Head(work).key].state = "waiting"
      BY <3>2, Entered DEF HeardInv
    <3>4. QED BY <1>1, <3>1, <3>3, PassGoesOn, WorkersKept
  <2>3. CASE Yolo!Track(t) \/ Yolo!Raise(t)
    <3>1. /\ workers' = workers
          /\ \E state \in {"ok", "failed", "cancelled"} : Yolo!Ends(thread[t], state)
      BY <2>3 DEF Yolo!Track, Yolo!Raise
    <3>2. t \in Yolo!Busy /\ thread[t] \in Yolo!Calls
      BY <2>3, Working DEF Yolo!Track, Yolo!Raise
    <3>3. thread[t].awaited => loop[thread[t].key].state = "waiting"
      BY <3>2 DEF HeardInv, Heard
    <3>4. QED BY <3>1, <3>2, <3>3, PassGoesOn, WorkersKept
  <2>4. QED BY <1>6, <2>1, <2>2, <2>3 DEF ThreadStep
<1>7. ASSUME NEW g \in Yolo!Detector, NEW d \in Device, BatchStep(g, d) PROVE WorkersInv'
  BY <1>1, <1>7 DEF BatchStep, Yolo!GetFirst, Yolo!Collect, Yolo!Dispatch, Yolo!Answer
<1>8. CASE UNCHANGED Yolo!vars
  BY <1>1, <1>8 DEF Yolo!vars
<1>9. QED BY <1>4, <1>5, <1>6, <1>7, <1>8, YoloSteps

-----------------------------------------------------------------------------
(* The invariant of the general detector *)

\* The invariant holds at the start.
LEMMA YoloInit ==
  ASSUME Yolo!YoloAssumption, Yolo!Init
  PROVE  YoloInv
<1>1. MaxFrame \in Nat /\ MaxUpset \in Nat /\ Sizes \subseteq Nat \ {0}
  BY DEF Yolo!YoloAssumption
<1>2. Yolo!Free.stage = "free" /\ \A t \in Yolo!Thread : thread[t] = Yolo!Free
  BY DEF Yolo!Init, Yolo!Free
<1>3. \A t \in Yolo!Thread : t \notin Yolo!Busy
  BY <1>2 DEF Yolo!Busy
<1>4. \A k \in Yolo!Key : loop[k].state # "waiting"
  BY DEF Yolo!Init, Yolo!Idle
<1>5. \A g \in Yolo!Detector, d \in Device :
        queue[g][d] = <<>> /\ batcher[g][d] = [phase |-> "getting", batch |-> <<>>]
  BY DEF Yolo!Init, Yolo!Resting
<1>6. work = <<>> /\ DOMAIN work = {}
  BY DEF Yolo!Init
<1>7. YoloTyped
  <2>1. /\ batchSize \in Nat \ {0} /\ deviceOf \in [Yolo!Key -> Device]
        /\ closing = FALSE /\ running = TRUE /\ upsets \in 0 .. MaxUpset
        /\ yolo = 1 /\ open = {yolo}
    BY <1>1 DEF Yolo!Init
  <2>2. /\ yolo \in Nat \ {0} /\ open \subseteq {yolo}
        /\ yolo + (IF closing /\ running THEN 1 ELSE 0) <= upsets + 1
        /\ closing \in BOOLEAN /\ running \in BOOLEAN
    <3>1. (IF closing /\ running THEN 1 ELSE 0) = 0 /\ closing \in BOOLEAN /\ running \in BOOLEAN
      BY <2>1
    <3>2. upsets \in Nat /\ 1 + 0 <= upsets + 1
      BY <1>1, <2>1
    <3>3. yolo \in Nat \ {0} /\ open \subseteq {yolo}
      BY <2>1
    <3>4. QED BY <2>1, <3>1, <3>2, <3>3
  <2>3. /\ queue \in [Yolo!Detector -> [Device -> Seq({Yolo!Sentinel} \cup Yolo!Thread)]]
        /\ batcher \in [Yolo!Detector -> [Device ->
             [phase : {"getting", "collecting", "collected", "asking", "ended"},
              batch : Seq(Yolo!Thread)]]]
    BY DEF Yolo!Init, Yolo!Resting
  <2>4. /\ thread \in [Yolo!Thread -> Yolo!Calls \cup {Yolo!Free}]
        /\ work \in Seq(Yolo!Calls)
    BY DEF Yolo!Init
  <2>5. 0 \in 0 .. MaxFrame
    BY <1>1
  <2>6. /\ loop \in [Yolo!Key -> LoopType]
        /\ frame \in [Yolo!Key -> 0 .. MaxFrame] /\ analyzed \in [Yolo!Key -> 0 .. MaxFrame]
        /\ tracker \in [Yolo!Detector -> [Yolo!Key -> 0 .. MaxFrame]]
        /\ late \subseteq Yolo!Key
    BY <2>5 DEF Yolo!Init, Yolo!Idle, LoopType
  <2>7. QED BY <2>1, <2>2, <2>3, <2>4, <2>6 DEF YoloTyped
<1>8. ASSUME NEW g \in Yolo!Detector, NEW d \in Device PROVE PlaceInv(g, d)
  <2>1. queue[g][d] = <<>> /\ batcher[g][d].batch = <<>> /\ batcher[g][d].phase = "getting"
    BY <1>5
  <2>2. /\ \A x : ~Yolo!Contains(<<>>, x)
        /\ Yolo!IsInjective(<<>>) /\ Len(<<>>) = 0
    BY DEF Yolo!Contains, Yolo!IsInjective
  <2>3. \A t \in Yolo!Thread : ~Waits(t, g, d)
    BY <1>3 DEF Waits
  <2>4. Len(batcher[g][d].batch) <= batchSize
    BY <1>7, <2>1, <2>2 DEF YoloTyped
  <2>5. QED BY <2>1, <2>2, <2>3, <2>4 DEF PlaceInv
<1>9. CallsInv
  BY <1>3, <1>6 DEF CallsInv, Yolo!Busy
<1>10. HeardInv
  BY <1>3, <1>4, <1>6 DEF HeardInv, Heard
<1>11. OrderInv
  <2>1. \A g \in Yolo!Detector, k \in Yolo!Key : tracker[g][k] <= frame[k]
    <3>1. \A g \in Yolo!Detector, k \in Yolo!Key : tracker[g][k] = 0 /\ frame[k] \in 0 .. MaxFrame
      BY DEF Yolo!Init
    <3>2. QED BY <1>1, <3>1
  <2>2. \A t \in Yolo!Busy : FALSE
    BY <1>3 DEF Yolo!Busy
  <2>3. QED BY <1>6, <2>1, <2>2 DEF OrderInv
<1>12. WorkersInv
  <2>1. workers = Workers /\ Workers \in Nat /\ Passing = {}
    BY DEF Yolo!Init, Yolo!YoloAssumption, Passing, Yolo!Key
  <2>2. QED BY <2>1, FS_EmptySet DEF WorkersInv
<1>13. QED BY <1>7, <1>8, <1>9, <1>10, <1>11, <1>12 DEF YoloInv, PlacesInv

\* The invariant holds always.
LEMMA YoloInvariant ==
  ASSUME Yolo!YoloAssumption
  PROVE  Yolo!Spec => []YoloInv
<1>1. Yolo!Init => YoloInv
  BY YoloInit
<1>2. ASSUME YoloInv, [Yolo!Next]_(Yolo!vars) PROVE YoloInv'
  <2>1. YoloTyped /\ PlacesInv /\ CallsInv /\ HeardInv /\ OrderInv /\ WorkersInv
    BY <1>2 DEF YoloInv
  <2>2. YoloTyped'
    BY <1>2, <2>1, YoloTypedStep
  <2>3. CallsInv'
    BY <1>2, <2>1, <2>2, CallsStep
  <2>4. HeardInv'
    BY <1>2, <2>1, <2>2, HeardStep
  <2>5. PlacesInv'
    BY <1>2, <2>1, <2>2, PlacesStep
  <2>6. OrderInv'
    BY <1>2, <2>1, <2>2, OrderStep
  <2>7. WorkersInv'
    BY <1>2, <2>1, <2>2, WorkersStep
  <2>8. QED BY <2>2, <2>3, <2>4, <2>5, <2>6, <2>7 DEF YoloInv
<1>3. QED BY <1>1, <1>2, PTL DEF Yolo!Spec

\* One of two finite sets has one element, and the other has none.
LEMMA OneOf ==
  ASSUME NEW A, NEW B, IsFiniteSet(A), IsFiniteSet(B),
         \A x, y \in A : x = y, \A x, y \in B : x = y, A = {} \/ B = {}
  PROVE  /\ Cardinality(A) + Cardinality(B) = 1 <=> A # {} \/ B # {}
<1>1. ASSUME NEW S, \A x, y \in S : x = y
      PROVE  Cardinality(S) = IF S = {} THEN 0 ELSE 1
  <2>1. CASE S = {}
    BY <2>1, FS_EmptySet
  <2>2. CASE S # {}
    <3>1. PICK x \in S : TRUE
      BY <2>2
    <3>2. S = {x}
      BY <1>1, <3>1
    <3>3. QED BY <2>2, <3>2, FS_Singleton
  <2>3. QED BY <2>1, <2>2
<1>2. Cardinality(A) = IF A = {} THEN 0 ELSE 1
  BY <1>1
<1>3. Cardinality(B) = IF B = {} THEN 0 ELSE 1
  BY <1>1
<1>4. QED BY <1>2, <1>3

\* What a thread or a loop waits for, in the words of YoloBatch
LEMMA YoloPromises ==
  ASSUME Yolo!YoloAssumption, YoloInv
  PROVE  Yolo!Consistent
<1>1. YoloTyped /\ PlacesInv /\ CallsInv /\ HeardInv
  BY DEF YoloInv
<1>2. \A t \in Yolo!Busy : thread[t] \in Yolo!Calls
  BY <1>1, Working DEF Yolo!Busy
<1>3. \A i \in DOMAIN work : work[i] \in Yolo!Calls
  BY <1>1, Entered
<1>4. ASSUME NEW g \in Yolo!Detector, NEW d \in Device
      PROVE  /\ Yolo!Queued(g, d) \cup Yolo!Batched(g, d) =
                  {t \in Yolo!Busy : thread[t].stage = "queued" /\ thread[t].yolo = g
                                     /\ Yolo!DeviceFor(t) = d}
             /\ Yolo!IsInjective(batcher[g][d].batch \o queue[g][d])
             /\ Len(batcher[g][d].batch) <= batchSize
             /\ Yolo!Contains(queue[g][d], Yolo!Sentinel) =>
                  batcher[g][d].phase # "ended" /\ (g \notin open \/ closing)
  <2> DEFINE q == queue[g][d]
             b == batcher[g][d].batch
             T == {Yolo!Sentinel} \cup Yolo!Thread
  <2>1. PlaceInv(g, d)
    BY <1>1 DEF PlacesInv
  <2>2. /\ \A t \in Yolo!Thread : Yolo!Contains(q, t) \/ Yolo!Contains(b, t) <=> Waits(t, g, d)
        /\ Yolo!IsInjective(q) /\ Yolo!IsInjective(b) /\ Len(b) <= batchSize
        /\ \A t \in Yolo!Thread : ~(Yolo!Contains(q, t) /\ Yolo!Contains(b, t))
        /\ Yolo!Contains(q, Yolo!Sentinel) =>
             batcher[g][d].phase # "ended" /\ (g \notin open \/ closing)
    BY <2>1 DEF PlaceInv
  <2>3. /\ q \in Seq(T) /\ b \in Seq(Yolo!Thread) /\ Yolo!Sentinel \notin Yolo!Thread
        /\ \A t : Yolo!Contains(b, t) => t \in Yolo!Thread
    BY <1>1, Waiting
  <2>4. Yolo!Queued(g, d) \cup Yolo!Batched(g, d) =
          {t \in Yolo!Busy : thread[t].stage = "queued" /\ thread[t].yolo = g
                             /\ Yolo!DeviceFor(t) = d}
    BY <2>2 DEF Yolo!Queued, Yolo!Batched, Waits, Yolo!Busy
  <2>5. b \in Seq(T)
    BY <2>3
  <2> HIDE DEF q, b
  <2>6. \A x \in T : ~(Yolo!Contains(b, x) /\ Yolo!Contains(q, x))
    BY <2>2, <2>3
  <2>7. Yolo!IsInjective(b \o q)
    BY <2>2, <2>3, <2>5, <2>6, InLine
  <2>8. QED BY <2>2, <2>4, <2>7 DEF q, b
<1>5. ASSUME NEW k \in Yolo!Key
      PROVE  loop[k].state = "waiting" <=>
               Yolo!Cardinality({t \in Yolo!Busy : thread[t].key = k /\ thread[t].awaited})
                 + Yolo!Cardinality({i \in DOMAIN work : work[i].key = k}) = 1
  <2> DEFINE A == {t \in Yolo!Busy : thread[t].key = k /\ thread[t].awaited}
             B == {i \in DOMAIN work : work[i].key = k}
  <2>1. \A t : t \in A <=> t \in Yolo!Thread /\ Heard(t) /\ thread[t].key = k
    BY DEF Heard, Yolo!Busy
  <2>2. \A i : i \in B <=> i \in DOMAIN work /\ work[i].key = k
    OBVIOUS
  <2>3. IsFiniteSet(A)
    <3>1. A \subseteq 1 .. Threads /\ Threads \in Nat
      BY DEF Yolo!Busy, Yolo!Thread, Yolo!YoloAssumption
    <3>2. IsFiniteSet(1 .. Threads)
      BY <3>1, FS_Interval
    <3>3. QED BY <3>1, <3>2, FS_Subset
  <2>4. IsFiniteSet(B)
    <3>1. B \subseteq 1 .. Len(work) /\ Len(work) \in Nat
      BY <1>1 DEF YoloTyped
    <3>2. IsFiniteSet(1 .. Len(work))
      BY <3>1, FS_Interval
    <3>3. QED BY <3>1, <3>2, FS_Subset
  <2> HIDE DEF A, B
  <2>5. \A t, u \in A : t = u
    BY <1>1, <2>1 DEF HeardInv
  <2>6. \A i, j \in B : i = j
    BY <1>1, <2>2 DEF HeardInv
  <2>7. A = {} \/ B = {}
    BY <1>1, <2>1, <2>2 DEF HeardInv
  <2>8. loop[k].state = "waiting" <=> A # {} \/ B # {}
    BY <1>1, <2>1, <2>2 DEF HeardInv
  <2>9. Cardinality(A) + Cardinality(B) = 1 <=> A # {} \/ B # {}
    BY <2>3, <2>4, <2>5, <2>6, <2>7, OneOf
  <2>10. Yolo!Cardinality(A) = Cardinality(A) /\ Yolo!Cardinality(B) = Cardinality(B)
    BY YoloOperators
  <2>11. loop[k].state = "waiting" <=> Yolo!Cardinality(A) + Yolo!Cardinality(B) = 1
    BY <2>8, <2>9, <2>10
  <2>12. QED BY <2>11 DEF A, B
<1>6. Yolo!AnswersMatch
  BY <1>1 DEF CallsInv, Yolo!AnswersMatch
<1>7. workers \in 0 .. Workers
  BY DEF YoloInv, WorkersInv, Yolo!YoloAssumption
<1>8. Yolo!TypeOK
  BY <1>2, <1>3, <1>4, <1>5, <1>7 DEF Yolo!TypeOK
<1>9. QED BY <1>6, <1>8 DEF Yolo!Consistent

(* The threads of detect(), _batch_loop and close() keep each other's promises:
   every request is in one place of the right queue or batch, every loop that
   waits has one call that is heard, a closed queue has one sentinel, and an
   answer is about the picture that the call's own source gave
   (Yolo!Consistent of YoloBatch).                                           *)
THEOREM DetectorKeepsCalls ==
  ASSUME Yolo!YoloAssumption
  PROVE  Yolo!Spec => []Yolo!Consistent
<1>1. YoloInv => Yolo!Consistent
  BY YoloPromises
<1>2. QED BY <1>1, YoloInvariant, PTL

\* One step takes the tracker of a key without a late call forward, or drops it.
LEMMA TrackedStep ==
  ASSUME Yolo!YoloAssumption, YoloInv, [Yolo!Next]_(Yolo!vars),
         NEW g \in Yolo!Detector, NEW k \in Yolo!Key \ late
  PROVE  tracker'[g][k] # 0 => tracker'[g][k] >= tracker[g][k]
<1> USE DEF Yolo!settings, Yolo!service, Yolo!ends, Yolo!batching, Yolo!loops
<1>1. YoloTyped /\ CallsInv /\ OrderInv
  BY DEF YoloInv
<1>2. tracker \in [Yolo!Detector -> [Yolo!Key -> 0 .. MaxFrame]] /\ tracker[g][k] \in Nat
  BY <1>1 DEF YoloTyped, Yolo!YoloAssumption
<1>3. ASSUME tracker' = tracker PROVE tracker'[g][k] >= tracker[g][k]
  BY <1>2, <1>3
<1>4. ASSUME NEW m \in Yolo!Key, Yolo!NewFrame(m) \/ LoopStep(m)
      PROVE  tracker'[g][k] # 0 => tracker'[g][k] >= tracker[g][k]
  <2>1. CASE Yolo!ResetTracker(m)
    <3>1. PICK G \in Yolo!Detector : G = yolo
      BY <1>1 DEF YoloTyped, Yolo!Detector, Yolo!YoloAssumption
    <3>2. 0 \in 0 .. MaxFrame /\ tracker' = [tracker EXCEPT ![G][m] = 0]
      BY <2>1, <3>1 DEF Yolo!ResetTracker, Yolo!YoloAssumption
    <3>3. tracker'[g][k] = IF g = G /\ k = m THEN 0 ELSE tracker[g][k]
      BY <1>2, <1>4, <3>1, <3>2, Assigned
    <3>4. QED BY <1>2, <3>3
  <2>2. CASE Yolo!NewFrame(m) \/ Yolo!Start(m) \/ Yolo!TimeOut(m) \/ Yolo!Receive(m)
    <3>1. tracker' = tracker
      BY <2>2 DEF Yolo!NewFrame, Yolo!Start, Yolo!TimeOut, Yolo!Receive
    <3>2. QED BY <1>3, <3>1
  <2>3. QED BY <1>4, <2>1, <2>2 DEF LoopStep
<1>5. CASE ServiceStep
  <2>1. tracker' = tracker
    BY <1>5 DEF ServiceStep, Yolo!CloseDetector, Yolo!Closed, Yolo!Stop
  <2>2. QED BY <1>3, <2>1
<1>6. ASSUME NEW t \in Yolo!Thread, ThreadStep(t)
      PROVE  tracker'[g][k] # 0 => tracker'[g][k] >= tracker[g][k]
  <2>1. CASE Yolo!Track(t)
    <3> DEFINE c == thread[t]
    <3>1. /\ c.stage = "ok"
          /\ tracker' = tracker \/ tracker' = [tracker EXCEPT ![c.yolo][c.key] = c.result]
      BY <2>1 DEF Yolo!Track
    <3>2. t \in Yolo!Busy /\ c.yolo \in Yolo!Detector /\ c.key \in Yolo!Key /\ c.result \in 0 .. MaxFrame
      BY <1>1, <3>1, Working
    <3>3. c.result = c.picture /\ Pictured(t)
      BY <1>1, <3>1, <3>2 DEF CallsInv, Pictured
    <3>4. c.key = k => tracker[g][k] <= c.picture
      BY <1>1, <3>2, <3>3 DEF OrderInv
    <3> HIDE DEF c
    <3>5. ASSUME tracker' = [tracker EXCEPT ![c.yolo][c.key] = c.result]
          PROVE  tracker'[g][k] >= tracker[g][k]
      <4>1. PICK G \in Yolo!Detector, m \in Yolo!Key : G = c.yolo /\ m = c.key
        BY <3>2
      <4>2. tracker'[g][k] = IF g = G /\ k = m THEN c.result ELSE tracker[g][k]
        BY <1>2, <3>2, <3>5, <4>1, Assigned
      <4>3. c.result \in Nat
        BY <3>2 DEF Yolo!YoloAssumption
      <4>4. QED BY <1>2, <3>3, <3>4, <4>1, <4>2, <4>3
    <3>6. QED BY <1>3, <3>1, <3>5
  <2>2. CASE \/ Yolo!Enter(t) \/ Yolo!Put(t) \/ Yolo!Ask(t) \/ Yolo!Reply(t) \/ Yolo!Raise(t)
    <3>1. tracker' = tracker
      BY <2>2 DEF Yolo!Enter, Yolo!Put, Yolo!Ask, Yolo!Reply, Yolo!Raise
    <3>2. QED BY <1>3, <3>1
  <2>3. QED BY <1>6, <2>1, <2>2 DEF ThreadStep
<1>7. ASSUME NEW h \in Yolo!Detector, NEW d \in Device, BatchStep(h, d)
      PROVE  tracker'[g][k] >= tracker[g][k]
  <2>1. tracker' = tracker
    BY <1>7 DEF BatchStep, Yolo!GetFirst, Yolo!Collect, Yolo!Dispatch, Yolo!Answer
  <2>2. QED BY <1>3, <2>1
<1>8. CASE UNCHANGED Yolo!vars
  BY <1>3, <1>8 DEF Yolo!vars
<1>9. QED BY <1>4, <1>5, <1>6, <1>7, <1>8, YoloSteps

(* A tracker follows its key forward in time through batches, failures and
   reloads, as long as no call of the key was given up (Yolo!TrackedInOrder of
   YoloBatch).                                                               *)
THEOREM TrackersGoForward ==
  ASSUME Yolo!YoloAssumption
  PROVE  Yolo!Spec => Yolo!TrackedInOrder
<1>1. ASSUME YoloInv, [Yolo!Next]_(Yolo!vars)
      PROVE  [\A g \in Yolo!Detector, k \in Yolo!Key \ late :
               tracker'[g][k] # 0 => tracker'[g][k] >= tracker[g][k]]_(Yolo!vars)
  BY <1>1, TrackedStep
<1>2. QED BY <1>1, YoloInvariant, PTL DEF Yolo!Spec, Yolo!TrackedInOrder
=============================================================================
