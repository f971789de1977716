--------------------------- MODULE TaskStoreProofs ---------------------------
(***************************************************************************)
(* Proofs about TaskStore, for every number of keys, workers and tokens,   *)
(* every batch size, lease and attempt limit.                              *)
(***************************************************************************)
EXTENDS TaskStore, TLAPS

\* A running row has been claimed, so its attempts index the backoff table.
RunningCounted == \A k \in Key : status[k] = "running" => attempts[k] >= 1

TypeInv == TypeOK /\ RunningCounted

LEMMA BackoffType ==
  ASSUME NEW n \in 1..AttemptCap
  PROVE  Backoff(n) \in 0..MaxDelay
<1> DEFINE pow == <<2, 4, 8, 16, 32, 64, 128, 256>>
           i == IF n < 8 THEN n ELSE 8
<1>1. i \in 1..8
  BY ConstantsAssumption
<1>2. pow[i] \in Nat
  BY <1>1
<1>3. Backoff(n) = IF pow[i] < MaxDelay THEN pow[i] ELSE MaxDelay
  BY DEF Backoff
<1> HIDE DEF pow, i
<1>4. QED
  BY <1>2, <1>3, ConstantsAssumption

\* The claims a lease hands out are claims.
LEMMA LeaseType ==
  ASSUME TypeInv, NEW w \in Worker, NEW S \in SUBSET Key, NEW next \in PC,
         Lease(w, S, next)
  PROVE  TypeInv'
<1>1. PICK f \in [S -> Fresh] :
         /\ status' = [k \in Key |-> IF k \in S THEN "running" ELSE status[k]]
         /\ token' = [k \in Key |-> IF k \in S THEN f[k] ELSE token[k]]
         /\ lease' = [k \in Key |-> IF k \in S THEN LeaseTime ELSE lease[k]]
         /\ attempts' = [k \in Key |-> IF k \in S /\ attempts[k] < AttemptCap
                                       THEN attempts[k] + 1 ELSE attempts[k]]
         /\ claims' = [claims EXCEPT ![w] = {[key |-> k, token |-> f[k]] : k \in S}]
         /\ pc' = [pc EXCEPT ![w] = next]
         /\ UNCHANGED <<work, delay, result, arrival, effects, current>>
  BY DEF Lease
<1>2. \A k \in S : f[k] \in Token
  BY DEF Fresh
<1>3. {[key |-> k, token |-> f[k]] : k \in S} \in SUBSET Claim
  BY <1>2 DEF Claim
<1>4. claims' \in [Worker -> SUBSET Claim]
  BY <1>1, <1>3 DEF TypeInv, TypeOK
<1>5. attempts' \in [Key -> 0..AttemptCap]
  BY <1>1, ConstantsAssumption DEF TypeInv, TypeOK
<1>6. RunningCounted'
  BY <1>1, ConstantsAssumption DEF TypeInv, TypeOK, RunningCounted
<1>7. status' \in [Key -> Status] /\ pc' \in [Worker -> PC]
  BY <1>1 DEF TypeInv, TypeOK, Status, PC
<1>8. token' \in [Key -> Token \union {NoToken}]
  BY <1>1, <1>2 DEF TypeInv, TypeOK
<1>9. lease' \in [Key -> 0..LeaseTime]
  BY <1>1, ConstantsAssumption DEF TypeInv, TypeOK
<1>10. QED
  BY <1>1, <1>4, <1>5, <1>6, <1>7, <1>8, <1>9 DEF TypeInv, TypeOK

\* Releasing rows keeps tokens and leases typed.
LEMMA ReleaseType ==
  ASSUME TypeOK, NEW K, Release(K)
  PROVE  /\ token' \in [Key -> Token \union {NoToken}]
         /\ lease' \in [Key -> 0..LeaseTime]
  BY ConstantsAssumption DEF TypeOK, Release

\* Settling claims keeps the workers typed.
LEMMA SettleType ==
  ASSUME TypeOK, NEW w \in Worker, NEW C, Settle(w, C)
  PROVE  /\ claims' \in [Worker -> SUBSET Claim]
         /\ pc' \in [Worker -> PC]
         /\ current' \in [Worker -> SUBSET Claim]
  BY DEF TypeOK, Settle, PC

LEMMA WorkerType ==
  ASSUME TypeInv, NEW w \in Worker, WorkerStep(w)
  PROVE  TypeInv'
<1> USE DEF TypeInv
<1>1. CASE ClaimMany(w)
  <2>1. PICK S \in SUBSET Claimable(BatchedKeys) : Lease(w, S, "batch")
    BY <1>1 DEF ClaimMany
  <2>2. S \in SUBSET Key
    BY DEF Claimable, BatchedKeys
  <2>3. QED
    BY <2>1, <2>2, LeaseType DEF PC
<1>2. CASE ClaimOne(w)
  <2>1. PICK S \in SUBSET Claimable(SingleKeys) : Lease(w, S, "each")
    BY <1>2 DEF ClaimOne
  <2>2. S \in SUBSET Key
    BY DEF Claimable, SingleKeys
  <2>3. QED
    BY <2>1, <2>2, LeaseType DEF PC
<1>3. ASSUME NEW c \in claims[w], Renew(w, c)
      PROVE  TypeInv'
  <2>1. lease' = [lease EXCEPT ![c.key] = LeaseTime]
    BY <1>3 DEF Renew
  <2> HIDE DEF TypeInv
  <2>2. lease' \in [Key -> 0..LeaseTime]
    <3>1. LeaseTime \in 0..LeaseTime
      BY ConstantsAssumption
    <3>2. lease \in [Key -> 0..LeaseTime]
      BY DEF TypeInv, TypeOK
    <3>3. QED
      BY <2>1, <3>1, <3>2
  <2>3. UNCHANGED <<status, work, attempts, token, delay, result, arrival,
                    effects, claims, pc, current>>
    BY <1>3 DEF Renew, worker
  <2>4. QED
    BY <2>2, <2>3 DEF TypeInv, TypeOK, RunningCounted
<1>4. CASE AskMany(w)
  BY <1>4 DEF TypeOK, RunningCounted, AskMany, row, PC
<1>5. CASE OpenMany(w)
  BY <1>5 DEF TypeOK, RunningCounted, OpenMany, row, PC
<1>6. ASSUME NEW c \in claims[w], OpenOne(w, c)
      PROVE  TypeInv'
  BY <1>6 DEF TypeOK, RunningCounted, OpenOne, row, PC
<1>7. ASSUME NEW c \in claims[w], Refused(w, c)
      PROVE  TypeInv'
  BY <1>7, SettleType DEF TypeOK, RunningCounted, Refused, row
<1>8. CASE Commit(w)
  <2>1. Release(Keys(current[w]))
    BY <1>8 DEF Commit
  <2>2. /\ token' \in [Key -> Token \union {NoToken}]
        /\ lease' \in [Key -> 0..LeaseTime]
    BY <2>1, ReleaseType
  <2>3. /\ claims' \in [Worker -> SUBSET Claim]
        /\ pc' \in [Worker -> PC]
        /\ current' \in [Worker -> SUBSET Claim]
    BY <1>8, SettleType DEF Commit
  <2>4. /\ status' \in [Key -> Status]
        /\ result' \in [Key -> Result]
        /\ effects' \in [Key -> Nat]
    BY <1>8 DEF Commit, TypeOK, Status, Result
  <2>5. RunningCounted'
    BY <1>8 DEF Commit, TypeOK, RunningCounted
  <2>6. QED
    BY <1>8, <2>2, <2>3, <2>4, <2>5 DEF TypeOK, Commit
<1>9. CASE Rollback(w)
  BY <1>9 DEF TypeOK, RunningCounted, Rollback, row, PC
<1>10. ASSUME NEW c \in claims[w], Raise(w, c)
       PROVE  TypeInv'
  BY <1>10 DEF TypeOK, RunningCounted, Raise, row, PC
<1>11. CASE Fail(w)
  <2> DEFINE K == Keys({c \in current[w] : Live(c)})
  <2>1. Release(K)
    BY <1>11 DEF Fail
  <2>2. /\ token' \in [Key -> Token \union {NoToken}]
        /\ lease' \in [Key -> 0..LeaseTime]
    BY <2>1, ReleaseType
  <2>3. /\ claims' \in [Worker -> SUBSET Claim]
        /\ pc' \in [Worker -> PC]
        /\ current' \in [Worker -> SUBSET Claim]
    BY <1>11, SettleType DEF Fail
  <2>4. \A k \in K : k \in Key => status[k] = "running"
    BY DEF Keys, Live, Owned
  <2>5. /\ status' = [k \in Key |->
              IF k \notin K THEN status[k]
              ELSE IF attempts[k] >= MaxAttempts THEN "failed" ELSE "retry"]
        /\ delay' = [k \in Key |-> IF k \in K THEN Backoff(attempts[k]) ELSE delay[k]]
        /\ UNCHANGED <<work, attempts, result, arrival, effects>>
    BY <1>11 DEF Fail
  <2> HIDE DEF K
  <2>6. \A k \in Key : k \in K => attempts[k] \in 1..AttemptCap
    BY <2>4 DEF TypeOK, RunningCounted
  <2>7. delay' \in [Key -> 0..MaxDelay]
    <3>1. \A k \in Key : k \in K => Backoff(attempts[k]) \in 0..MaxDelay
      BY <2>6, BackoffType
    <3>2. QED
      BY <2>5, <3>1 DEF TypeOK
  <2>8. status' \in [Key -> Status]
    BY <2>5 DEF TypeOK, Status
  <2>9. RunningCounted'
    BY <2>5 DEF RunningCounted, TypeOK
  <2>10. QED
    BY <2>2, <2>3, <2>5, <2>7, <2>8, <2>9 DEF TypeOK
<1>12. CASE Abandon(w)
  BY <1>12 DEF TypeOK, RunningCounted, Abandon, row, PC
<1>13. QED
  BY <1>1, <1>2, <1>3, <1>4, <1>5, <1>6, <1>7, <1>8, <1>9, <1>10, <1>11, <1>12
     DEF WorkerStep

LEMMA TypeCorrect == Spec => []TypeInv
<1> USE DEF TypeInv
<1>1. Init => TypeInv
  BY ConstantsAssumption
     DEF Init, TypeOK, RunningCounted, Status, Result, PC
<1>2. TypeInv /\ [Next]_vars => TypeInv'
  <2> SUFFICES ASSUME TypeInv, [Next]_vars
               PROVE  TypeInv'
    OBVIOUS
  <2>1. ASSUME NEW k \in Key, NEW x \in Work, Persist(k, x)
        PROVE  TypeInv'
    BY <2>1, ConstantsAssumption
       DEF Persist, TypeOK, RunningCounted, Status, worker
  <2>2. ASSUME NEW w \in Worker, WorkerStep(w)
        PROVE  TypeInv'
    BY <2>2, WorkerType
  <2>3. ASSUME NEW k \in Key, Retry(k)
        PROVE  TypeInv'
    BY <2>3, ConstantsAssumption
       DEF Retry, TypeOK, RunningCounted, Status, worker
  <2>4. ASSUME NEW n \in DOMAIN arrival, MarkStale(n)
        PROVE  TypeInv'
    <3> DEFINE F == {k \in {arrival[i] : i \in 1..n} \intersect AlertKeys :
                       status[k] = "failed"}
    <3>1. Release(F)
      BY <2>4 DEF MarkStale
    <3>2. /\ token' \in [Key -> Token \union {NoToken}]
          /\ lease' \in [Key -> 0..LeaseTime]
      BY <3>1, ReleaseType
    <3>3. /\ status' = [k \in Key |-> IF k \in F THEN "completed" ELSE status[k]]
          /\ result' = [k \in Key |-> IF k \in F THEN "stale" ELSE result[k]]
          /\ UNCHANGED <<work, attempts, delay, arrival, effects, worker>>
      BY <2>4 DEF MarkStale
    <3> HIDE DEF F
    <3>4. QED
      BY <3>2, <3>3 DEF TypeOK, RunningCounted, Status, Result, worker
  <2>5. CASE Tick
    BY <2>5, ConstantsAssumption DEF Tick, TypeOK, RunningCounted, worker
  <2>6. CASE UNCHANGED vars
    BY <2>6 DEF vars, TypeOK, RunningCounted
  <2>7. QED
    BY <2>1, <2>2, <2>3, <2>4, <2>5, <2>6 DEF Next
<1>3. QED
  BY <1>1, <1>2, PTL DEF Spec

\* Rows, claims and workers only ever hold values of their types; in
\* particular no retry waits longer than the backoff limit.
THEOREM TypeCorrectness == Spec => []TypeOK
  BY TypeCorrect, PTL DEF TypeInv

-----------------------------------------------------------------------------

\* A token belongs to one row and to one claim.
TokensUnique ==
  /\ \A j, k \in Key : token[j] = token[k] /\ token[j] # NoToken => j = k
  /\ \A v, w \in Worker : \A c \in claims[v], d \in claims[w] :
       c.token = d.token => v = w /\ c = d
  /\ \A w \in Worker : \A c \in claims[w], k \in Key :
       token[k] = c.token => k = c.key

\* Only running rows carry a token or a lease.
OnlyRunningLeased ==
  \A k \in Key : /\ status[k] # "running" => token[k] = NoToken /\ lease[k] = 0
                 /\ status[k] = "running" => token[k] \in Token

\* A worker completes or reports claims it holds.
CurrentHeld ==
  \A w \in Worker : /\ current[w] \subseteq claims[w]
                    /\ pc[w] = "idle" => current[w] = {}
                    /\ pc[w] \in {"one", "raised"} =>
                         \A c, d \in current[w] : c = d

\* Only completed rows have a result.
OnlyCompletedHaveResult ==
  \A k \in Key : result[k] = "none" <=> status[k] # "completed"

\* The inductive invariant.  ExactlyOnce alone is not inductive: it needs that
\* an open completion still owns its rows, which are then running and without a
\* result, and that in turn needs that no other claim carries the row's token.
IInv ==
  /\ TypeInv
  /\ TokensUnique
  /\ OnlyRunningLeased
  /\ CurrentHeld
  /\ OpenCompletionOwnsRows
  /\ OnlyCompletedHaveResult
  /\ ExactlyOnce

\* Tokens stay unique in every step that only drops claims and clears tokens.
LEMMA TokensKept ==
  ASSUME IInv, TypeInv',
         \A w \in Worker : claims'[w] \subseteq claims[w],
         \A k \in Key : token'[k] \in {token[k], NoToken}
  PROVE  TokensUnique'
<1>1. \A k \in Key, t \in Token : token'[k] = t => token[k] = t
  BY ConstantsAssumption
<1>2. \A w \in Worker : \A c \in claims'[w] : c \in claims[w] /\ c.token \in Token
  BY DEF IInv, TypeInv, TypeOK, Claim
<1>3. \A j, k \in Key : token'[j] = token'[k] /\ token'[j] # NoToken => j = k
  BY DEF IInv, TokensUnique
<1>4. \A v, w \in Worker : \A c \in claims'[v], d \in claims'[w] :
        c.token = d.token => v = w /\ c = d
  BY <1>2 DEF IInv, TokensUnique
<1>5. \A w \in Worker : \A c \in claims'[w], k \in Key :
        token'[k] = c.token => k = c.key
  BY <1>1, <1>2 DEF IInv, TokensUnique
<1>6. QED
  BY <1>3, <1>4, <1>5 DEF TokensUnique

\* Handing out leases on unlocked rows under fresh tokens keeps the invariant.
LEMMA LeaseInv ==
  ASSUME IInv, TypeInv', NEW w \in Worker, pc[w] = "idle",
         NEW S \in SUBSET Key,
         \A k \in S : Eligible(k) /\ ~Locked(k),
         NEW next \in {"batch", "each"},
         Lease(w, S, next)
  PROVE  IInv'
<1>1. PICK f \in [S -> Fresh] :
         /\ \A j, k \in S : f[j] = f[k] => j = k
         /\ status' = [k \in Key |-> IF k \in S THEN "running" ELSE status[k]]
         /\ token' = [k \in Key |-> IF k \in S THEN f[k] ELSE token[k]]
         /\ lease' = [k \in Key |-> IF k \in S THEN LeaseTime ELSE lease[k]]
         /\ claims' = [claims EXCEPT ![w] = {[key |-> k, token |-> f[k]] : k \in S}]
         /\ pc' = [pc EXCEPT ![w] = next]
         /\ UNCHANGED <<result, effects, current>>
  BY DEF Lease
<1>2. \A k \in S : /\ f[k] \in Token
                   /\ \A j \in Key : token[j] # f[k]
                   /\ \A v \in Worker : \A c \in claims[v] : c.token # f[k]
  BY DEF Fresh
<1>3. /\ claims'[w] = {[key |-> k, token |-> f[k]] : k \in S}
      /\ \A v \in Worker : v # w => claims'[v] = claims[v]
      /\ pc'[w] = next
      /\ \A v \in Worker : v # w => pc'[v] = pc[v]
  BY <1>1 DEF IInv, TypeInv, TypeOK
<1>4. \A c \in claims'[w] : c.key \in S /\ c.token = f[c.key]
  BY <1>3
<1>5. TokensUnique'
  <2>1. \A j, k \in Key : token'[j] = token'[k] /\ token'[j] # NoToken => j = k
    BY <1>1, <1>2 DEF IInv, TokensUnique
  <2>2. \A c, d \in claims'[w] : c.token = d.token => c = d
    BY <1>1, <1>3
  <2>3. \A v \in Worker : \A c \in claims'[w], d \in claims'[v] :
          c.token = d.token => v = w /\ c = d
    BY <1>2, <1>3, <1>4, <2>2
  <2>4. \A u, v \in Worker : \A c \in claims'[u], d \in claims'[v] :
          c.token = d.token => u = v /\ c = d
    BY <1>3, <2>3 DEF IInv, TokensUnique
  <2>5. \A v \in Worker : \A c \in claims'[v], k \in Key :
          token'[k] = c.token => k = c.key
    <3> SUFFICES ASSUME NEW v \in Worker, NEW c \in claims'[v], NEW k \in Key,
                        token'[k] = c.token
                 PROVE  k = c.key
      OBVIOUS
    <3>1. CASE v = w
      BY <3>1, <1>1, <1>2, <1>4
    <3>2. CASE v # w
      BY <3>2, <1>1, <1>2, <1>3 DEF IInv, TokensUnique
    <3>3. QED
      BY <3>1, <3>2
  <2>6. QED
    BY <2>1, <2>4, <2>5 DEF TokensUnique
<1>6. OnlyRunningLeased'
  BY <1>1, <1>2 DEF IInv, OnlyRunningLeased
<1>7. CurrentHeld'
  BY <1>1, <1>3 DEF IInv, CurrentHeld
<1>8. OpenCompletionOwnsRows'
  <2> SUFFICES ASSUME NEW v \in Worker, pc'[v] \in {"many", "one"},
                      NEW c \in current'[v]
               PROVE  Owned(c)'
    BY DEF OpenCompletionOwnsRows
  <2>1. v # w /\ pc[v] \in {"many", "one"} /\ c \in current[v]
    BY <1>1, <1>3
  <2>2. c \in claims[v] /\ c.key \in Key /\ Owned(c)
    BY <2>1 DEF IInv, CurrentHeld, OpenCompletionOwnsRows, TypeInv, TypeOK, Claim
  <2>3. c.key \in LockedBy(v)
    BY <2>1, <2>2 DEF LockedBy, Keys
  <2>4. c.key \notin S
    BY <2>3 DEF Locked
  <2>5. QED
    BY <1>1, <2>2, <2>4 DEF Owned
<1>9. \A k \in S : status[k] # "completed"
  BY DEF Eligible
<1>10. OnlyCompletedHaveResult' /\ ExactlyOnce'
  BY <1>1, <1>9 DEF IInv, OnlyCompletedHaveResult, ExactlyOnce
<1>11. QED
  BY <1>5, <1>6, <1>7, <1>8, <1>10 DEF IInv

\* Steps that leave the rows alone only have to keep the workers consistent.
LEMMA RowsKept ==
  ASSUME IInv, TypeInv', UNCHANGED <<status, token, lease, result, effects>>,
         \A w \in Worker : claims'[w] \subseteq claims[w],
         CurrentHeld', OpenCompletionOwnsRows'
  PROVE  IInv'
<1>1. TokensUnique'
  BY TokensKept
<1>2. OnlyRunningLeased' /\ OnlyCompletedHaveResult' /\ ExactlyOnce'
  BY DEF IInv, OnlyRunningLeased, OnlyCompletedHaveResult, ExactlyOnce
<1>3. QED
  BY <1>1, <1>2 DEF IInv

\* What Settle does to the workers.
LEMMA SettleEffect ==
  ASSUME TypeInv, NEW w \in Worker, NEW C, Settle(w, C)
  PROVE  /\ claims'[w] = claims[w] \ C
         /\ current'[w] = {}
         /\ pc'[w] \in {"idle", "each"}
         /\ \A v \in Worker : v # w =>
              claims'[v] = claims[v] /\ current'[v] = current[v] /\ pc'[v] = pc[v]
  BY DEF TypeInv, TypeOK, Settle

\* Settling claims keeps what the workers hold consistent.
LEMMA SettleHeld ==
  ASSUME IInv, NEW w \in Worker, NEW C, Settle(w, C)
  PROVE  CurrentHeld' /\ \A v \in Worker : claims'[v] \subseteq claims[v]
  BY SettleEffect DEF IInv, CurrentHeld

\* When worker w settles the claims whose rows are K, the open completions of
\* the others keep their rows: their tokens are different.
LEMMA OthersKeepRows ==
  ASSUME IInv, NEW w \in Worker, NEW C, Settle(w, C),
         NEW D \in SUBSET claims[w], \A d \in D : Owned(d),
         \A k \in Key \ Keys(D) : status'[k] = status[k] /\ token'[k] = token[k]
  PROVE  OpenCompletionOwnsRows'
<1> SUFFICES ASSUME NEW v \in Worker, pc'[v] \in {"many", "one"},
                    NEW c \in current'[v]
             PROVE  Owned(c)'
  BY DEF OpenCompletionOwnsRows
<1>1. v # w /\ pc[v] \in {"many", "one"} /\ c \in current[v]
  BY SettleEffect DEF IInv
<1>2. c \in claims[v] /\ c.key \in Key /\ Owned(c)
  BY <1>1 DEF IInv, CurrentHeld, OpenCompletionOwnsRows, TypeInv, TypeOK, Claim
<1>3. c.key \notin Keys(D)
  <2> SUFFICES ASSUME NEW d \in D, d.key = c.key
               PROVE  FALSE
    BY DEF Keys
  <2>1. d.token = c.token
    BY <1>2 DEF Owned
  <2>2. QED
    BY <1>1, <1>2, <2>1 DEF IInv, TokensUnique
<1>4. QED
  BY <1>2, <1>3 DEF Owned

LEMMA CommitInv ==
  ASSUME IInv, TypeInv', NEW w \in Worker, Commit(w)
  PROVE  IInv'
<1> DEFINE C == IF pc[w] = "many" THEN claims[w] ELSE current[w]
           K == Keys(current[w])
<1>1. /\ status' = [k \in Key |-> IF k \in K THEN "completed" ELSE status[k]]
      /\ result' = [k \in Key |-> IF k \in K THEN "applied" ELSE result[k]]
      /\ effects' = [k \in Key |-> IF k \in K THEN effects[k] + 1 ELSE effects[k]]
      /\ token' = [k \in Key |-> IF k \in K THEN NoToken ELSE token[k]]
      /\ lease' = [k \in Key |-> IF k \in K THEN 0 ELSE lease[k]]
      /\ Settle(w, C)
      /\ pc[w] \in {"many", "one"}
  BY DEF Commit, Release
<1>2. /\ current[w] \in SUBSET claims[w]
      /\ \A d \in current[w] : Owned(d)
  BY <1>1 DEF IInv, CurrentHeld, OpenCompletionOwnsRows
<1>3. \A k \in K : status[k] = "running"
  BY <1>2 DEF Keys, Owned
<1> HIDE DEF C, K
<1>4. CurrentHeld' /\ \A v \in Worker : claims'[v] \subseteq claims[v]
  BY <1>1, SettleHeld
<1>5. TokensUnique'
  BY <1>1, <1>4, TokensKept
<1>6. OpenCompletionOwnsRows'
  BY <1>1, <1>2, OthersKeepRows DEF K
<1>7. OnlyRunningLeased'
  BY <1>1 DEF IInv, OnlyRunningLeased
<1>8. OnlyCompletedHaveResult' /\ ExactlyOnce'
  <2>1. \A k \in K : k \in Key => result[k] = "none"
    BY <1>3 DEF IInv, OnlyCompletedHaveResult
  <2>2. QED
    BY <1>1, <2>1 DEF IInv, OnlyCompletedHaveResult, ExactlyOnce
<1>9. QED
  BY <1>4, <1>5, <1>6, <1>7, <1>8 DEF IInv

LEMMA FailInv ==
  ASSUME IInv, TypeInv', NEW w \in Worker, Fail(w)
  PROVE  IInv'
<1> DEFINE D == {c \in current[w] : Live(c)}
           K == Keys(D)
<1>1. /\ status' = [k \in Key |->
            IF k \notin K THEN status[k]
            ELSE IF attempts[k] >= MaxAttempts THEN "failed" ELSE "retry"]
      /\ token' = [k \in Key |-> IF k \in K THEN NoToken ELSE token[k]]
      /\ lease' = [k \in Key |-> IF k \in K THEN 0 ELSE lease[k]]
      /\ UNCHANGED <<result, effects>>
      /\ Settle(w, current[w])
  BY DEF Fail, Release
<1>2. /\ D \in SUBSET claims[w]
      /\ \A d \in D : Owned(d)
  BY DEF IInv, CurrentHeld, Live
<1>3. \A k \in K : status[k] = "running"
  BY <1>2 DEF Keys, Owned
<1> HIDE DEF D, K
<1>4. CurrentHeld' /\ \A v \in Worker : claims'[v] \subseteq claims[v]
  BY <1>1, SettleHeld
<1>5. TokensUnique'
  BY <1>1, <1>4, TokensKept
<1>6. OpenCompletionOwnsRows'
  BY <1>1, <1>2, OthersKeepRows DEF K
<1>7. OnlyRunningLeased'
  BY <1>1 DEF IInv, OnlyRunningLeased
<1>8. OnlyCompletedHaveResult' /\ ExactlyOnce'
  BY <1>1, <1>3 DEF IInv, OnlyCompletedHaveResult, ExactlyOnce
<1>9. QED
  BY <1>4, <1>5, <1>6, <1>7, <1>8 DEF IInv

LEMMA WorkerInv ==
  ASSUME IInv, TypeInv', NEW w \in Worker, WorkerStep(w)
  PROVE  IInv'
<1> USE DEF row
<1>1. CASE ClaimMany(w)
  <2>1. PICK S \in SUBSET Claimable(BatchedKeys) : Lease(w, S, "batch")
    BY <1>1 DEF ClaimMany
  <2>2. S \in SUBSET Key /\ \A k \in S : Eligible(k) /\ ~Locked(k)
    BY DEF Claimable, BatchedKeys
  <2>3. QED
    BY <1>1, <2>1, <2>2, LeaseInv DEF ClaimMany
<1>2. CASE ClaimOne(w)
  <2>1. PICK S \in SUBSET Claimable(SingleKeys) : Lease(w, S, "each")
    BY <1>2 DEF ClaimOne
  <2>2. S \in SUBSET Key /\ \A k \in S : Eligible(k) /\ ~Locked(k)
    BY DEF Claimable, SingleKeys
  <2>3. QED
    BY <1>2, <2>1, <2>2, LeaseInv DEF ClaimOne
<1>3. ASSUME NEW c \in claims[w], Renew(w, c)
      PROVE  IInv'
  <2>1. /\ lease' = [lease EXCEPT ![c.key] = LeaseTime]
        /\ UNCHANGED <<status, token, result, effects, claims, pc, current>>
        /\ status[c.key] = "running"
    BY <1>3 DEF Renew, worker, Live, Owned
  <2>2. OnlyRunningLeased'
    BY <2>1 DEF IInv, OnlyRunningLeased, TypeInv, TypeOK
  <2>3. CurrentHeld' /\ OpenCompletionOwnsRows'
    BY <2>1 DEF IInv, CurrentHeld, OpenCompletionOwnsRows, Owned
  <2>4. TokensUnique' /\ OnlyCompletedHaveResult' /\ ExactlyOnce'
    BY <2>1 DEF IInv, TokensUnique, OnlyCompletedHaveResult, ExactlyOnce
  <2>5. QED
    BY <2>2, <2>3, <2>4 DEF IInv
<1>4. CASE AskMany(w)
  <2>1. CurrentHeld' /\ OpenCompletionOwnsRows'
    BY <1>4 DEF AskMany, IInv, CurrentHeld, OpenCompletionOwnsRows, Owned, TypeInv, TypeOK
  <2>2. QED
    BY <1>4, <2>1, RowsKept DEF AskMany
<1>5. CASE OpenMany(w)
  <2>1. CurrentHeld' /\ OpenCompletionOwnsRows'
    BY <1>5 DEF OpenMany, IInv, CurrentHeld, OpenCompletionOwnsRows, Owned, TypeInv, TypeOK
  <2>2. QED
    BY <1>5, <2>1, RowsKept DEF OpenMany
<1>6. ASSUME NEW c \in claims[w], OpenOne(w, c)
      PROVE  IInv'
  <2>1. CurrentHeld' /\ OpenCompletionOwnsRows'
    BY <1>6 DEF OpenOne, IInv, CurrentHeld, OpenCompletionOwnsRows, Live, Owned,
                TypeInv, TypeOK
  <2>2. QED
    BY <1>6, <2>1, RowsKept DEF OpenOne
<1>7. ASSUME NEW c \in claims[w], Refused(w, c)
      PROVE  IInv'
  <2>1. Settle(w, {c}) /\ UNCHANGED <<status, token, lease, result, effects>>
    BY <1>7 DEF Refused
  <2>2. CurrentHeld' /\ \A v \in Worker : claims'[v] \subseteq claims[v]
    BY <2>1, SettleHeld
  <2>3. OpenCompletionOwnsRows'
    BY <2>1, SettleEffect DEF IInv, OpenCompletionOwnsRows, Owned
  <2>4. QED
    BY <2>1, <2>2, <2>3, RowsKept
<1>8. CASE Commit(w)
  BY <1>8, CommitInv
<1>9. CASE Rollback(w)
  <2>1. CurrentHeld' /\ OpenCompletionOwnsRows'
    BY <1>9 DEF Rollback, IInv, CurrentHeld, OpenCompletionOwnsRows, Owned, TypeInv, TypeOK
  <2>2. QED
    BY <1>9, <2>1, RowsKept DEF Rollback
<1>10. ASSUME NEW c \in claims[w], Raise(w, c)
       PROVE  IInv'
  <2>1. CurrentHeld' /\ OpenCompletionOwnsRows'
    BY <1>10 DEF Raise, IInv, CurrentHeld, OpenCompletionOwnsRows, Owned, TypeInv, TypeOK
  <2>2. QED
    BY <1>10, <2>1, RowsKept DEF Raise
<1>11. CASE Fail(w)
  BY <1>11, FailInv
<1>12. CASE Abandon(w)
  <2>1. CurrentHeld' /\ OpenCompletionOwnsRows'
    BY <1>12 DEF Abandon, IInv, CurrentHeld, OpenCompletionOwnsRows, Owned, TypeInv, TypeOK
  <2>2. \A v \in Worker : claims'[v] \subseteq claims[v]
    BY <1>12 DEF Abandon, IInv, TypeInv, TypeOK
  <2>3. QED
    BY <1>12, <2>1, <2>2, RowsKept DEF Abandon
<1>13. QED
  BY <1>1, <1>2, <1>3, <1>4, <1>5, <1>6, <1>7, <1>8, <1>9, <1>10, <1>11, <1>12
     DEF WorkerStep

\* Steps of submitters, operators and time: they touch only rows that no claim
\* owns, and release nothing.
LEMMA OutsideInv ==
  ASSUME IInv, TypeInv',
         \/ \E k \in Key, x \in Work : Persist(k, x)
         \/ \E k \in Key : Retry(k)
         \/ \E n \in DOMAIN arrival : MarkStale(n)
         \/ Tick
  PROVE  IInv'
<1> USE DEF worker
<1>1. UNCHANGED <<claims, pc, current, effects>>
  BY DEF Persist, Retry, MarkStale, Tick
<1>2. \A k \in Key : token'[k] = token[k]
  BY DEF Persist, Retry, MarkStale, Tick, Release, IInv, OnlyRunningLeased, TypeInv, TypeOK
<1>3. \A k \in Key : (status'[k] = "running") <=> (status[k] = "running")
  BY DEF Persist, Retry, MarkStale, Tick, IInv, TypeInv, TypeOK
<1>4. TokensUnique'
  BY <1>1, <1>2, TokensKept
<1>5. \A k \in Key : lease[k] = 0 => lease'[k] = 0
  BY DEF Persist, Retry, MarkStale, Tick, Release, IInv, TypeInv, TypeOK
<1>6. OnlyRunningLeased'
  BY <1>2, <1>3, <1>5 DEF IInv, OnlyRunningLeased
<1>7. CurrentHeld'
  BY <1>1 DEF IInv, CurrentHeld
<1>8. OpenCompletionOwnsRows'
  <2> SUFFICES ASSUME NEW v \in Worker, pc[v] \in {"many", "one"}, NEW c \in current[v]
               PROVE  Owned(c)'
    BY <1>1 DEF OpenCompletionOwnsRows
  <2>1. Owned(c) /\ c.key \in Key
    BY DEF IInv, OpenCompletionOwnsRows, TypeInv, TypeOK, Claim
  <2>2. QED
    BY <2>1, <1>2, <1>3 DEF Owned
<1>9. OnlyCompletedHaveResult' /\ ExactlyOnce'
  BY <1>1 DEF Persist, Retry, MarkStale, Tick, IInv, OnlyCompletedHaveResult,
              ExactlyOnce, TypeInv, TypeOK
<1>10. QED
  BY <1>4, <1>6, <1>7, <1>8, <1>9 DEF IInv

LEMMA Inductive == Spec => []IInv
<1>1. Init => IInv
  BY ConstantsAssumption
     DEF Init, IInv, TypeInv, TypeOK, RunningCounted, TokensUnique, OnlyRunningLeased,
         CurrentHeld, OpenCompletionOwnsRows, OnlyCompletedHaveResult, ExactlyOnce,
         Status, Result, PC
<1>2. IInv /\ TypeInv' /\ [Next]_vars => IInv'
  <2> SUFFICES ASSUME IInv, TypeInv', [Next]_vars
               PROVE  IInv'
    OBVIOUS
  <2>1. ASSUME NEW w \in Worker, WorkerStep(w)
        PROVE  IInv'
    BY <2>1, WorkerInv
  <2>2. CASE UNCHANGED vars
    <3>1. CurrentHeld' /\ OpenCompletionOwnsRows'
      BY <2>2 DEF vars, IInv, CurrentHeld, OpenCompletionOwnsRows, Owned
    <3>2. QED
      BY <2>2, <3>1, RowsKept DEF vars
  <2>3. QED
    BY <2>1, <2>2, OutsideInv DEF Next
<1>3. QED
  BY <1>1, <1>2, TypeCorrect, PTL DEF Spec

\* The effects of a job are committed at most once, however many workers claim
\* it, crash, run late or are retried (TaskStore.complete, complete_many).
THEOREM EffectsExactlyOnce == Spec => []ExactlyOnce
  BY Inductive, PTL DEF IInv

\* A row accepts the claim of at most one worker (the lease token fences off
\* every earlier claimant).
THEOREM OneOwnerOnly == Spec => []OneOwner
<1>1. IInv => OneOwner
  BY DEF IInv, OneOwner, TokensUnique, OnlyRunningLeased, Owned
<1>2. QED
  BY <1>1, Inductive, PTL

\* An open completion keeps its rows until it commits or rolls back, also when
\* their leases run out while its handler runs.
THEOREM CompletionKeepsRows == Spec => []OpenCompletionOwnsRows
  BY Inductive, PTL DEF IInv

-----------------------------------------------------------------------------
(* Action properties *)

\* A live lease is never taken over: until lease_until is reached, the row's
\* token stays or is cleared (claim, claim_many).
THEOREM LiveLeasesAreKept == Spec => LiveLeaseKept
<1> DEFINE Kept == \A k \in Key : lease[k] > 0 => token'[k] \in {token[k], NoToken}
<1>1. IInv /\ [Next]_vars => [Kept]_vars
  <2> SUFFICES ASSUME IInv, Next, NEW k \in Key, lease[k] > 0
               PROVE  token'[k] \in {token[k], NoToken}
    OBVIOUS
  <2>1. ASSUME NEW w \in Worker, NEW S, NEW next, Lease(w, S, next),
               \A j \in S : Eligible(j)
        PROVE  token'[k] = token[k]
    <3>1. k \notin S
      <4>1. status[k] = "running" /\ lease[k] # 0
        BY DEF IInv, OnlyRunningLeased
      <4>2. ~Eligible(k)
        BY <4>1 DEF Eligible
      <4>3. QED
        BY <2>1, <4>2
    <3>2. QED
      BY <2>1, <3>1 DEF Lease
  <2>2. ASSUME NEW w \in Worker, ClaimMany(w) \/ ClaimOne(w)
        PROVE  token'[k] = token[k]
    BY <2>1, <2>2 DEF ClaimMany, ClaimOne, Claimable, BatchedKeys,
         SingleKeys
  <2>3. ASSUME NEW w \in Worker, WorkerStep(w), ~ClaimMany(w), ~ClaimOne(w)
        PROVE  token'[k] \in {token[k], NoToken}
    <3>1. CASE UNCHANGED token
      BY <3>1
    <3>2. CASE Commit(w) \/ Fail(w)
      BY <3>2 DEF Commit, Fail, Release
    <3>3. Commit(w) \/ Fail(w) \/ UNCHANGED token
      BY <2>3 DEF WorkerStep, Renew, AskMany, OpenMany, OpenOne, Refused,
                  Rollback, Raise, Abandon, row
    <3>4. QED
      BY <3>1, <3>2, <3>3
  <2>4. CASE ~ \E w \in Worker : WorkerStep(w)
    BY <2>4 DEF Next, Persist, Retry, MarkStale, Tick, Release, IInv, TypeInv, TypeOK
  <2>5. QED
    BY <2>2, <2>3, <2>4
<1>2. QED
  BY <1>1, Inductive, PTL DEF Spec, LiveLeaseKept

\* What each kind of step can do to the status of a row.
LEMMA StatusSteps ==
  ASSUME IInv, [Next]_vars, NEW k \in Key
  PROVE  \/ UNCHANGED <<status[k], result[k], work[k]>>
         \/ /\ status[k] = "absent" /\ status'[k] = "pending"
            /\ UNCHANGED result[k]
         \/ /\ status[k] \in {"pending", "retry", "running"}
            /\ status'[k] \in {"running", "retry", "failed"}
            /\ UNCHANGED <<result[k], work[k]>>
         \/ /\ status[k] = "running" /\ status'[k] = "completed"
            /\ UNCHANGED work[k]
         \/ /\ status[k] = "failed" /\ status'[k] \in {"pending", "completed"}
            /\ UNCHANGED work[k]
<1> DEFINE Goal ==
         \/ UNCHANGED <<status[k], result[k], work[k]>>
         \/ /\ status[k] = "absent" /\ status'[k] = "pending"
            /\ UNCHANGED result[k]
         \/ /\ status[k] \in {"pending", "retry", "running"}
            /\ status'[k] \in {"running", "retry", "failed"}
            /\ UNCHANGED <<result[k], work[k]>>
         \/ /\ status[k] = "running" /\ status'[k] = "completed"
            /\ UNCHANGED work[k]
         \/ /\ status[k] = "failed" /\ status'[k] \in {"pending", "completed"}
            /\ UNCHANGED work[k]
<1>1. ASSUME NEW w \in Worker, NEW S, NEW next, Lease(w, S, next),
             \A j \in S : Eligible(j)
      PROVE  Goal
  BY <1>1 DEF Lease, Eligible
<1>2. ASSUME NEW w \in Worker, Commit(w)
      PROVE  Goal
  <2>1. \A j \in Keys(current[w]) : status[j] = "running"
    BY <1>2 DEF Commit, IInv, OpenCompletionOwnsRows, Keys, Owned
  <2>2. QED
    BY <1>2, <2>1 DEF Commit
<1>3. ASSUME NEW w \in Worker, Fail(w)
      PROVE  Goal
  <2>1. \A j \in Keys({c \in current[w] : Live(c)}) : status[j] = "running"
    BY DEF Keys, Live, Owned
  <2>2. QED
    BY <1>3, <2>1 DEF Fail
<1>4. ASSUME NEW w \in Worker, WorkerStep(w), ~Commit(w), ~Fail(w)
      PROVE  Goal
  <2>1. CASE ClaimMany(w) \/ ClaimOne(w)
    BY <1>1, <2>1 DEF ClaimMany, ClaimOne, Claimable, BatchedKeys,
         SingleKeys
  <2>2. CASE ~ClaimMany(w) /\ ~ClaimOne(w)
    <3>1. UNCHANGED <<status, result, work>>
      BY <1>4, <2>2 DEF WorkerStep, Renew, AskMany, OpenMany, OpenOne, Refused,
                        Rollback, Raise, Abandon, row
    <3>2. QED
      BY <3>1
  <2>3. QED
    BY <2>1, <2>2
<1>5. ASSUME NEW j \in Key, NEW x \in Work, Persist(j, x)
      PROVE  Goal
  BY <1>5 DEF Persist, IInv, TypeInv, TypeOK
<1>6. ASSUME NEW j \in Key, Retry(j)
      PROVE  Goal
  BY <1>6 DEF Retry, IInv, TypeInv, TypeOK
<1>7. ASSUME NEW n \in DOMAIN arrival, MarkStale(n)
      PROVE  Goal
  BY <1>7 DEF MarkStale
<1>8. CASE Tick \/ UNCHANGED vars
  BY <1>8 DEF Tick, vars
<1>9. QED
  BY <1>2, <1>3, <1>4, <1>5, <1>6, <1>7, <1>8 DEF Next

\* A row that does not exist has no contents, a row that exists has.
ContentsSet == \A k \in Key : status[k] = "absent" <=> work[k] = NoWork

LEMMA ContentsInv == Spec => []ContentsSet
<1>1. Init => ContentsSet
  BY DEF Init, ContentsSet
<1>2. IInv /\ ContentsSet /\ [Next]_vars => ContentsSet'
  <2> SUFFICES ASSUME IInv, ContentsSet, [Next]_vars, NEW k \in Key
               PROVE  (status[k] = "absent" <=> work[k] = NoWork)'
    BY DEF ContentsSet
  <2>1. CASE status[k] = "absent" /\ status'[k] = "pending"
    <3>1. PICK j \in Key, x \in Work : Persist(j, x) \/ UNCHANGED status[k]
      <4>1. ASSUME NEW w \in Worker, WorkerStep(w)
            PROVE  status'[k] # "pending"
        BY <2>1, <4>1 DEF WorkerStep, ClaimMany, ClaimOne, Lease, Renew, AskMany, OpenMany,
           OpenOne, Refused, Commit, Rollback, Raise, Fail, Abandon, row
      <4>2. QED
        BY <2>1, <4>1 DEF Next, Retry, MarkStale, Tick, vars, IInv, TypeInv, TypeOK
    <3>2. j = k
      BY <2>1, <3>1 DEF Persist, IInv, TypeInv, TypeOK
    <3>3. QED
      BY <2>1, <3>1, <3>2, ConstantsAssumption DEF Persist, IInv, TypeInv, TypeOK
  <2>2. QED
    BY <2>1, StatusSteps DEF ContentsSet
<1>3. QED
  BY <1>1, <1>2, Inductive, PTL DEF Spec

\* A completed job is final and an accepted one keeps its contents.
THEOREM CompletedJobsAreFinal == Spec => CompletedIsFinal
<1> DEFINE Final ==
      \A k \in Key :
        /\ work[k] # NoWork => work'[k] = work[k]
        /\ status[k] = "completed" =>
             status'[k] = "completed" /\ result'[k] = result[k]
<1>1. IInv /\ ContentsSet /\ [Next]_vars => [Final]_vars
  <2> SUFFICES ASSUME IInv, ContentsSet, [Next]_vars
               PROVE  Final
    OBVIOUS
  <2>1. QED
    BY StatusSteps DEF ContentsSet
<1>2. QED
  BY <1>1, Inductive, ContentsInv, PTL DEF Spec, CompletedIsFinal

-----------------------------------------------------------------------------
(* Refinement *)

\* A step that changes no phase and no effect is a stutter of the outbox.
LEMMA SamePhase ==
  ASSUME UNCHANGED effects,
         \A k \in Key : \/ status'[k] = status[k]
                        \/ /\ status[k] \in {"pending", "retry", "running"}
                           /\ status'[k] \in {"pending", "retry", "running"}
  PROVE  UNCHANGED Abstract!vars
<1>1. AbstractPhase' = AbstractPhase
  BY DEF AbstractPhase
<1>2. QED
  BY <1>1 DEF Abstract!vars

\* The outbox's promise is kept: rows, leases and workers implement Outbox.
THEOREM Refinement == Spec => ImplementsOutbox
<1>1. Init => Abstract!Init
  BY DEF Init, Abstract!Init, AbstractPhase
<1>2. IInv /\ [Next]_vars => [Abstract!Next]_(Abstract!vars)
  <2> SUFFICES ASSUME IInv, [Next]_vars
               PROVE  [Abstract!Next]_(Abstract!vars)
    OBVIOUS
  <2> USE DEF IInv, TypeInv, TypeOK
  <2>1. ASSUME NEW w \in Worker, ClaimMany(w) \/ ClaimOne(w)
        PROVE  UNCHANGED Abstract!vars
    <3>1. PICK S \in SUBSET Key, next \in {"batch", "each"} : Lease(w, S, next) /\ \A k \in S : Eligible(k)
      BY <2>1, ConstantsAssumption DEF ClaimMany, ClaimOne, Claimable, BatchedKeys,
         SingleKeys
    <3>2. QED
      BY <3>1, SamePhase DEF Lease, Eligible
  <2>2. ASSUME NEW w \in Worker, Commit(w)
        PROVE  [Abstract!Next]_(Abstract!vars)
    <3> DEFINE K == Keys(current[w])
    <3>1. /\ status' = [k \in Key |-> IF k \in K THEN "completed" ELSE status[k]]
          /\ effects' = [k \in Key |-> IF k \in K THEN effects[k] + 1 ELSE effects[k]]
      BY <2>2 DEF Commit
    <3>2. \A k \in K : k \in Key /\ status[k] = "running" /\ effects[k] = 0
      BY <2>2 DEF Commit, Keys, OpenCompletionOwnsRows, Owned, Claim,
                  OnlyCompletedHaveResult, ExactlyOnce
    <3> HIDE DEF K
    <3>3. CASE K = {}
      BY <3>1, <3>3, SamePhase
    <3>4. CASE K # {}
      <4>1. \A k \in K : AbstractPhase[k] = "open" /\ effects[k] = 0
        BY <3>2 DEF AbstractPhase
      <4>2. AbstractPhase' = [k \in Key |-> IF k \in K THEN "done" ELSE AbstractPhase[k]]
        BY <3>1, <3>2 DEF AbstractPhase
      <4>3. effects' = [k \in Key |-> IF k \in K THEN 1 ELSE effects[k]]
        BY <3>1, <3>2
      <4>4. Abstract!Apply(K)
        BY <3>4, <4>1, <4>2, <4>3 DEF Abstract!Apply
      <4>5. QED
        BY <3>2, <4>4 DEF Abstract!Next
    <3>5. QED
      BY <3>3, <3>4
  <2>3. ASSUME NEW w \in Worker, Fail(w)
        PROVE  [Abstract!Next]_(Abstract!vars)
    <3> DEFINE K == Keys({c \in current[w] : Live(c)})
    <3>1. /\ status' = [k \in Key |->
               IF k \notin K THEN status[k]
               ELSE IF attempts[k] >= MaxAttempts THEN "failed" ELSE "retry"]
          /\ UNCHANGED effects
      BY <2>3 DEF Fail
    <3>2. \A k \in K : k \in Key /\ status[k] = "running"
      BY DEF Keys, Live, Owned, Claim
    <3>3. \A j, k \in K : j = k
      BY <2>3 DEF Fail, Keys, CurrentHeld
    <3> HIDE DEF K
    <3>4. CASE \A k \in K : status'[k] # "failed"
      BY <3>1, <3>2, <3>4, SamePhase
    <3>5. ASSUME NEW k \in K, status'[k] = "failed"
          PROVE  Abstract!GiveUp(k)
      <4>1. AbstractPhase[k] = "open"
        BY <3>2 DEF AbstractPhase
      <4>2. status' = [status EXCEPT ![k] = "failed"]
        BY <3>1, <3>2, <3>3, <3>5
      <4>3. AbstractPhase' = [AbstractPhase EXCEPT ![k] = "dead"]
        BY <3>2, <4>2 DEF AbstractPhase
      <4>4. QED
        BY <3>1, <4>1, <4>3 DEF Abstract!GiveUp
    <3>6. QED
      BY <3>2, <3>4, <3>5 DEF Abstract!Next
  <2>4. ASSUME NEW w \in Worker, WorkerStep(w), ~ClaimMany(w), ~ClaimOne(w),
               ~Commit(w), ~Fail(w)
        PROVE  UNCHANGED Abstract!vars
    <3>1. UNCHANGED <<status, effects>>
      BY <2>4 DEF WorkerStep, Renew, AskMany, OpenMany, OpenOne, Refused,
                  Rollback, Raise, Abandon, row
    <3>2. QED
      BY <3>1, SamePhase
  <2>5. ASSUME NEW k \in Key, NEW x \in Work, Persist(k, x)
        PROVE  Abstract!Next
    <3>1. AbstractPhase[k] = "absent"
      BY <2>5 DEF Persist, AbstractPhase
    <3>2. AbstractPhase' = [AbstractPhase EXCEPT ![k] = "open"]
      BY <2>5 DEF Persist, AbstractPhase
    <3>3. QED
      BY <2>5, <3>1, <3>2 DEF Persist, Abstract!Next, Abstract!Accept
  <2>6. ASSUME NEW k \in Key, Retry(k)
        PROVE  Abstract!Next
    <3>1. AbstractPhase[k] = "dead"
      BY <2>6 DEF Retry, AbstractPhase
    <3>2. AbstractPhase' = [AbstractPhase EXCEPT ![k] = "open"]
      BY <2>6 DEF Retry, AbstractPhase
    <3>3. QED
      BY <2>6, <3>1, <3>2 DEF Retry, Abstract!Next, Abstract!Reopen
  <2>7. ASSUME NEW n \in DOMAIN arrival, MarkStale(n)
        PROVE  Abstract!Next
    <3> DEFINE F == {k \in {arrival[i] : i \in 1..n} \intersect AlertKeys :
                       status[k] = "failed"}
    <3>1. /\ F # {} /\ F \in SUBSET Key
          /\ \A k \in F : status[k] = "failed"
          /\ status' = [k \in Key |-> IF k \in F THEN "completed" ELSE status[k]]
          /\ UNCHANGED effects
      BY <2>7 DEF MarkStale, AlertKeys
    <3> HIDE DEF F
    <3>2. \A k \in F : AbstractPhase[k] = "dead"
      BY <3>1 DEF AbstractPhase
    <3>3. AbstractPhase' = [k \in Key |-> IF k \in F THEN "done" ELSE AbstractPhase[k]]
      BY <3>1 DEF AbstractPhase
    <3>4. Abstract!WriteOff(F)
      BY <3>1, <3>2, <3>3 DEF Abstract!WriteOff
    <3>5. QED
      BY <3>1, <3>4 DEF Abstract!Next
  <2>8. CASE Tick \/ UNCHANGED vars
    BY <2>8, SamePhase DEF Tick, vars
  <2>9. QED
    BY <2>1, <2>2, <2>3, <2>4, <2>5, <2>6, <2>7, <2>8 DEF Next
<1>3. QED
  BY <1>1, <1>2, Inductive, PTL DEF Spec, ImplementsOutbox, Abstract!Spec
=============================================================================
