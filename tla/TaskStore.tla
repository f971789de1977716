------------------------------ MODULE TaskStore ------------------------------
(***************************************************************************)
(* The durable outbox table background_tasks, the TaskStore operations on  *)
(* it, and the workers that claim its rows, run their handlers and settle  *)
(* them (backend/task_store.py, the claim loops of async_pipeline.py and   *)
(* the operator script scripts/recover-background-tasks.py).               *)
(*                                                                         *)
(* An operation is one database transaction and one step, except a         *)
(* completion: its transaction locks the rows, runs the handler and only   *)
(* then commits or rolls back, and time passes and other workers run in    *)
(* between.  The rows locked by an open completion are skipped by claims   *)
(* (FOR UPDATE SKIP LOCKED) and make every other writer wait.              *)
(*                                                                         *)
(* lease_until and retry_at are kept as the time that is left until they   *)
(* are reached (0: reached), so that the clock itself needs no bound.      *)
(***************************************************************************)
EXTENDS Integers, FiniteSets, Sequences

CONSTANTS
  Key,            \* idempotency keys; a row is identified by its key
  Work,           \* immutable contents: kind, camera, payload, evidence
  Batched,        \* contents of the kinds claimed with claim_many, the others
                  \* (alerts, notifications) are claimed one at a time
  Alerts,         \* those of the kind alert_write
  Worker,         \* the coroutines that claim and settle rows
  Token,          \* lease tokens (uuid4)
  NoToken,        \* a NULL lease_token
  NoWork,         \* the contents of a row that does not exist
  BatchLimit,     \* rows per claim_many (100)
  LeaseTime,      \* lease_seconds (120)
  MaxAttempts,    \* max_attempts of fail (5)
  MaxDelay,       \* longest retry backoff (300)
  AttemptCap      \* attempts stops counting here, above every value the code
                  \* compares it with

ASSUME ConstantsAssumption ==
  /\ Batched \subseteq Work /\ Alerts \subseteq Work \ Batched
  /\ NoToken \notin Token
  /\ NoWork \notin Work
  /\ BatchLimit \in Nat \ {0}
  /\ LeaseTime \in Nat \ {0}
  /\ MaxAttempts \in Nat \ {0}
  /\ MaxDelay \in Nat \ {0}
  /\ AttemptCap \in Nat /\ AttemptCap > MaxAttempts

VARIABLES
  status, work, attempts, token, lease, delay, result,   \* one row per key
  arrival,        \* the keys in created_at order
  effects,        \* history: commits of the handler's effects, per key
  claims,         \* what each worker still has to settle
  pc,             \* where each worker is
  current         \* the claims its running or failed completion is about

row    == <<status, work, attempts, token, lease, delay, result>>
worker == <<claims, pc, current>>
vars   == <<status, work, attempts, token, lease, delay, result, arrival,
            effects, claims, pc, current>>

Claim == [key : Key, token : Token]

Status == {"absent", "pending", "running", "retry", "completed", "failed"}
Result == {"none", "applied", "stale"}
PC     == {"idle",      \* polling
           "batch",     \* holds a claim_many batch
           "asked",     \* complete_many has read the clock, not the rows
           "many",      \* complete_many has an open transaction
           "each",      \* settles its claims one by one
           "one",       \* complete has an open transaction
           "raised"}    \* the claim in current failed and must be reported

TypeOK ==
  /\ status \in [Key -> Status]
  /\ work \in [Key -> Work \union {NoWork}]
  /\ attempts \in [Key -> 0..AttemptCap]
  /\ token \in [Key -> Token \union {NoToken}]
  /\ lease \in [Key -> 0..LeaseTime]
  /\ delay \in [Key -> 0..MaxDelay]
  /\ result \in [Key -> Result]
  /\ arrival \in Seq(Key)
  /\ effects \in [Key -> Nat]
  /\ claims \in [Worker -> SUBSET Claim]
  /\ pc \in [Worker -> PC]
  /\ current \in [Worker -> SUBSET Claim]

-----------------------------------------------------------------------------

Keys(C) == {c.key : c \in C}

\* The rows that are selected by their kind.
BatchedKeys == {k \in Key : work[k] \in Batched}
SingleKeys == {k \in Key : work[k] \in Work \ Batched}
AlertKeys == {k \in Key : work[k] \in Alerts}

\* Rows held FOR UPDATE by an open completion; complete_many locks the whole
\* batch, the claims it will skip included.
LockedBy(w) ==
  CASE pc[w] = "many" -> Keys(claims[w])
    [] pc[w] = "one"  -> Keys(current[w])
    [] OTHER          -> {}

Locked(k) == \E w \in Worker : k \in LockedBy(w)

\* Mutant: the row of a worker that disappeared is never eligible again.
EligibleWaiting(k) == status[k] \in {"pending", "retry"} /\ delay[k] = 0

\* retry_at <= now for waiting rows, lease_until <= now for running ones.
Eligible(k) ==
  \/ status[k] \in {"pending", "retry"} /\ delay[k] = 0
  \/ status[k] = "running" /\ lease[k] = 0

Claimable(K) == {k \in K : Eligible(k) /\ ~Locked(k)}

Older(j, k) ==
  \E m, n \in DOMAIN arrival : m < n /\ arrival[m] = j /\ arrival[n] = k

\* ORDER BY created_at LIMIT n
IsOldest(S, E, n) ==
  /\ S # {} /\ S \subseteq E
  /\ Cardinality(S) = IF Cardinality(E) < n THEN Cardinality(E) ELSE n
  /\ \A k \in S, j \in E \ S : Older(k, j)

\* Mutant: a token is only new among the rows, not among late workers.
FreshInRows == Token \ {token[k] : k \in Key}

Fresh == Token \ ( {token[k] : k \in Key}
                   \union UNION {{c.token : c \in claims[w]} : w \in Worker} )

\* The row still runs under the claim's token.
Owned(c) == status[c.key] = "running" /\ token[c.key] = c.token

\* ... and its lease is live.
Live(c) == Owned(c) /\ lease[c.key] > 0

\* Mutant: the backoff has no upper limit.
BackoffUnlimited(n) == <<2, 4, 8, 16, 32, 64, 128, 256>>[IF n < 8 THEN n ELSE 8]

\* min(300, 2 ** min(attempts, 8)), for the attempts of a claimed row
Backoff(n) ==
  LET pow == <<2, 4, 8, 16, 32, 64, 128, 256>>
      d   == pow[IF n < 8 THEN n ELSE 8]
  IN  IF d < MaxDelay THEN d ELSE MaxDelay

-----------------------------------------------------------------------------

Init ==
  /\ status = [k \in Key |-> "absent"]
  /\ work = [k \in Key |-> NoWork]
  /\ attempts = [k \in Key |-> 0]
  /\ token = [k \in Key |-> NoToken]
  /\ lease = [k \in Key |-> 0]
  /\ delay = [k \in Key |-> 0]
  /\ result = [k \in Key |-> "none"]
  /\ arrival = <<>>
  /\ effects = [k \in Key |-> 0]
  /\ claims = [w \in Worker |-> {}]
  /\ pc = [w \in Worker |-> "idle"]
  /\ current = [w \in Worker |-> {}]

\* persist of a new key.  For a key that has a row, persist changes nothing:
\* it returns the row's id if the work is the same and raises otherwise
\* (TaskInsert models how concurrent inserts come down to this step).
Persist(k, x) ==
  /\ status[k] = "absent"
  /\ status' = [status EXCEPT ![k] = "pending"]
  /\ work' = [work EXCEPT ![k] = x]
  /\ attempts' = [attempts EXCEPT ![k] = 0]
  /\ delay' = [delay EXCEPT ![k] = 0]
  /\ arrival' = Append(arrival, k)
  /\ UNCHANGED <<token, lease, result, effects, worker>>

\* Worker w takes the rows of S under new tokens.
Lease(w, S, next) ==
  \E f \in [S -> Fresh] :
    /\ \A j, k \in S : f[j] = f[k] => j = k
    /\ status' = [k \in Key |-> IF k \in S THEN "running" ELSE status[k]]
    /\ token' = [k \in Key |-> IF k \in S THEN f[k] ELSE token[k]]
    /\ lease' = [k \in Key |-> IF k \in S THEN LeaseTime ELSE lease[k]]
    /\ attempts' = [k \in Key |-> IF k \in S /\ attempts[k] < AttemptCap
                                  THEN attempts[k] + 1 ELSE attempts[k]]
    /\ claims' = [claims EXCEPT ![w] = {[key |-> k, token |-> f[k]] : k \in S}]
    /\ pc' = [pc EXCEPT ![w] = next]
    /\ UNCHANGED <<work, delay, result, arrival, effects, current>>

ClaimMany(w) ==
  /\ pc[w] = "idle"
  /\ \E S \in SUBSET Claimable(BatchedKeys) :
       /\ IsOldest(S, Claimable(BatchedKeys), BatchLimit)
       /\ Lease(w, S, "batch")

ClaimOne(w) ==
  /\ pc[w] = "idle"
  /\ \E S \in SUBSET Claimable(SingleKeys) :
       /\ IsOldest(S, Claimable(SingleKeys), 1)
       /\ Lease(w, S, "each")

\* renew: a claimant extends a lease that is still live.
Renew(w, c) ==
  /\ pc[w] \in {"batch", "each"}
  /\ c \in claims[w] /\ Live(c) /\ ~Locked(c.key)
  /\ lease' = [lease EXCEPT ![c.key] = LeaseTime]
  /\ UNCHANGED <<status, work, attempts, token, delay, result, arrival,
                 effects, worker>>

\* complete_many reads the clock before it waits for the rows, so it judges
\* the leases as they are now ...
AskMany(w) ==
  /\ pc[w] = "batch"
  /\ pc' = [pc EXCEPT ![w] = "asked"]
  /\ current' = [current EXCEPT ![w] = {c \in claims[w] : Live(c)}]
  /\ UNCHANGED <<row, arrival, effects, claims>>

\* Mutant: complete_many does not look at the locked rows again.
OpenManyUnchecked(w) ==
  /\ pc[w] = "asked"
  /\ \A k \in Keys(claims[w]) : ~Locked(k)
  /\ pc' = [pc EXCEPT ![w] = "many"]
  /\ UNCHANGED <<row, arrival, effects, claims, current>>

\* ... and status and token once it has locked them; claims that are no longer
\* the row's are skipped.
OpenMany(w) ==
  /\ pc[w] = "asked"
  /\ \A k \in Keys(claims[w]) : ~Locked(k)
  /\ pc' = [pc EXCEPT ![w] = "many"]
  /\ current' = [current EXCEPT ![w] = {c \in current[w] : Owned(c)}]
  /\ UNCHANGED <<row, arrival, effects, claims>>

\* complete locks the row first and reads the clock then.
OpenOne(w, c) ==
  /\ pc[w] = "each"
  /\ c \in claims[w] /\ Live(c) /\ ~Locked(c.key)
  /\ pc' = [pc EXCEPT ![w] = "one"]
  /\ current' = [current EXCEPT ![w] = {c}]
  /\ UNCHANGED <<row, arrival, effects, claims>>

\* Where a worker goes when the claims C are settled.
Settle(w, C) ==
  /\ claims' = [claims EXCEPT ![w] = @ \ C]
  /\ pc' = [pc EXCEPT ![w] = IF claims[w] \subseteq C THEN "idle" ELSE "each"]
  /\ current' = [current EXCEPT ![w] = {}]

\* complete returns False: the claim was taken over or its lease is over.
Refused(w, c) ==
  /\ pc[w] = "each"
  /\ c \in claims[w] /\ ~Live(c) /\ ~Locked(c.key)
  /\ Settle(w, {c})
  /\ UNCHANGED <<row, arrival, effects>>

\* The rows of K leave running: lease_token and lease_until are cleared.
Release(K) ==
  /\ token' = [k \in Key |-> IF k \in K THEN NoToken ELSE token[k]]
  /\ lease' = [k \in Key |-> IF k \in K THEN 0 ELSE lease[k]]

\* The handler's effects and the completed rows commit together.
Commit(w) ==
  /\ pc[w] \in {"many", "one"}
  /\ LET K == Keys(current[w]) IN
       /\ status' = [k \in Key |-> IF k \in K THEN "completed" ELSE status[k]]
       /\ result' = [k \in Key |-> IF k \in K THEN "applied" ELSE result[k]]
       /\ effects' = [k \in Key |-> IF k \in K THEN effects[k] + 1 ELSE effects[k]]
       /\ Release(K)
  /\ Settle(w, IF pc[w] = "many" THEN claims[w] ELSE current[w])
  /\ UNCHANGED <<work, attempts, delay, arrival>>

\* Mutant: the handler commits its effects in a session of its own.
RollbackAfterEffects(w) ==
  /\ pc[w] \in {"many", "one"}
  /\ current[w] # {}
  /\ effects' = [k \in Key |-> IF k \in Keys(current[w]) THEN effects[k] + 1 ELSE effects[k]]
  /\ pc' = [pc EXCEPT ![w] = IF pc[w] = "many" THEN "each" ELSE "raised"]
  /\ current' = [current EXCEPT ![w] = IF pc[w] = "many" THEN {} ELSE @]
  /\ UNCHANGED <<row, arrival, claims>>

\* A handler raised and the transaction rolled back.  The claims of a batch are
\* then completed one by one; a single one is reported to fail.
Rollback(w) ==
  /\ pc[w] \in {"many", "one"}
  /\ current[w] # {}
  /\ pc' = [pc EXCEPT ![w] = IF pc[w] = "many" THEN "each" ELSE "raised"]
  /\ current' = [current EXCEPT ![w] = IF pc[w] = "many" THEN {} ELSE @]
  /\ UNCHANGED <<row, arrival, effects, claims>>

\* Something the worker does for a claim before it completes it raised: the
\* evidence file, the HTTP delivery, the database call itself.
Raise(w, c) ==
  /\ pc[w] = "each"
  /\ c \in claims[w]
  /\ pc' = [pc EXCEPT ![w] = "raised"]
  /\ current' = [current EXCEPT ![w] = {c}]
  /\ UNCHANGED <<row, arrival, effects, claims>>

\* fail: the claim is accepted only while its lease is live.
Fail(w) ==
  /\ pc[w] = "raised"
  /\ \A c \in current[w] : ~Locked(c.key)
  /\ LET K == Keys({c \in current[w] : Live(c)}) IN
       /\ status' = [k \in Key |->
            IF k \notin K THEN status[k]
            ELSE IF attempts[k] >= MaxAttempts THEN "failed" ELSE "retry"]
       /\ delay' = [k \in Key |-> IF k \in K THEN Backoff(attempts[k]) ELSE delay[k]]
       /\ Release(K)
  /\ Settle(w, current[w])
  /\ UNCHANGED <<work, attempts, result, arrival, effects>>

\* The worker is killed or cancelled, or loses its database connection: an open
\* transaction rolls back and nobody settles its claims.
Abandon(w) ==
  /\ pc[w] # "idle"
  /\ claims' = [claims EXCEPT ![w] = {}]
  /\ pc' = [pc EXCEPT ![w] = "idle"]
  /\ current' = [current EXCEPT ![w] = {}]
  /\ UNCHANGED <<row, arrival, effects>>

\* Mutant: the administrator may retry a completed task as well.
RetrySettled(k) ==
  /\ status[k] \in {"failed", "completed"} /\ ~Locked(k)
  /\ status' = [status EXCEPT ![k] = "pending"]
  /\ attempts' = [attempts EXCEPT ![k] = 0]
  /\ delay' = [delay EXCEPT ![k] = 0]
  /\ token' = [token EXCEPT ![k] = NoToken]
  /\ lease' = [lease EXCEPT ![k] = 0]
  /\ UNCHANGED <<work, result, arrival, effects, worker>>

\* retry: an administrator gives a failed task a new life.
Retry(k) ==
  /\ status[k] = "failed" /\ ~Locked(k)
  /\ status' = [status EXCEPT ![k] = "pending"]
  /\ attempts' = [attempts EXCEPT ![k] = 0]
  /\ delay' = [delay EXCEPT ![k] = 0]
  /\ token' = [token EXCEPT ![k] = NoToken]
  /\ lease' = [lease EXCEPT ![k] = 0]
  /\ UNCHANGED <<work, result, arrival, effects, worker>>

\* Mutant: the script closes tasks that still wait for a retry.
MarkStaleWaiting(n) ==
  LET K == {arrival[i] : i \in 1..n} \intersect AlertKeys
      F == {k \in K : status[k] \in {"failed", "retry"}}
  IN  /\ F # {} /\ \A k \in F : ~Locked(k)
      /\ status' = [k \in Key |-> IF k \in F THEN "completed" ELSE status[k]]
      /\ result' = [k \in Key |-> IF k \in F THEN "stale" ELSE result[k]]
      /\ Release(F)
      /\ UNCHANGED <<work, attempts, delay, arrival, effects, worker>>

\* The recovery script closes the failed alerts created before a cut-off.
MarkStale(n) ==
  LET K == {arrival[i] : i \in 1..n} \intersect AlertKeys
      F == {k \in K : status[k] = "failed"}
  IN  /\ F # {} /\ \A k \in F : ~Locked(k)
      /\ status' = [k \in Key |-> IF k \in F THEN "completed" ELSE status[k]]
      /\ result' = [k \in Key |-> IF k \in F THEN "stale" ELSE result[k]]
      /\ Release(F)
      /\ UNCHANGED <<work, attempts, delay, arrival, effects, worker>>

\* Time passes: the leases of running rows and the waits of queued rows run down.
Tick ==
  /\ \E k \in Key : lease[k] > 0 \/ delay[k] > 0
  /\ lease' = [k \in Key |-> IF lease[k] > 0 THEN lease[k] - 1 ELSE 0]
  /\ delay' = [k \in Key |-> IF delay[k] > 0 THEN delay[k] - 1 ELSE 0]
  /\ UNCHANGED <<status, work, attempts, token, result, arrival, effects, worker>>

WorkerStep(w) ==
  \/ ClaimMany(w)
  \/ ClaimOne(w)
  \/ AskMany(w)
  \/ OpenMany(w)
  \/ Commit(w)
  \/ Rollback(w)
  \/ Fail(w)
  \/ Abandon(w)
  \/ \E c \in claims[w] : Renew(w, c) \/ OpenOne(w, c) \/ Refused(w, c) \/ Raise(w, c)

Next ==
  \/ \E k \in Key, x \in Work : Persist(k, x)
  \/ \E w \in Worker : WorkerStep(w)
  \/ \E k \in Key : Retry(k)
  \/ \E n \in DOMAIN arrival : MarkStale(n)
  \/ Tick

Spec == Init /\ [][Next]_vars

\* A worker is a loop that never stops by itself (Abandon stands for the cases
\* in which it is stopped), the event loop runs every ready coroutine, and time
\* passes.  Nothing obliges anybody to submit, renew, retry or recover.
Progress(w) ==
  \/ ClaimMany(w) \/ ClaimOne(w) \/ AskMany(w) \/ OpenMany(w)
  \/ Commit(w) \/ Rollback(w) \/ Fail(w)
  \/ \E c \in claims[w] : OpenOne(w, c) \/ Refused(w, c) \/ Raise(w, c)

FairSpec == Spec /\ WF_vars(Tick) /\ \A w \in Worker : WF_vars(Progress(w))

-----------------------------------------------------------------------------
(* Properties *)

\* However often a job is claimed, retried, taken over or replayed after a
\* crash, the effects of its handler are committed at most once, and exactly
\* when its row says so (TaskStore.complete / complete_many).
ExactlyOnce ==
  \A k \in Key :
    /\ effects[k] = IF result[k] = "applied" THEN 1 ELSE 0
    /\ result[k] = "applied" => status[k] = "completed"

\* Two workers never both hold a claim that the row would accept, and a row
\* that is not running accepts none: the tokens fence off late workers.
OneOwner ==
  /\ \A k \in Key : status[k] # "running" => token[k] = NoToken
  /\ \A v, w \in Worker : \A c \in claims[v], d \in claims[w] :
       Owned(c) /\ Owned(d) /\ c.key = d.key => v = w /\ c = d

\* While a completion is open its rows stay its own, even if their leases run
\* out meanwhile: the row lock keeps every other claimant away.
OpenCompletionOwnsRows ==
  \A w \in Worker : pc[w] \in {"many", "one"} => \A c \in current[w] : Owned(c)

\* A row with a live lease is never handed to another claim.
LiveLeaseKept ==
  [][\A k \in Key : lease[k] > 0 => token'[k] \in {token[k], NoToken}]_vars

\* What an accepted job says never changes, and a completed job is final: no
\* late worker, retry or recovery script touches it again.
CompletedIsFinal ==
  [][\A k \in Key :
       /\ work[k] # NoWork => work'[k] = work[k]
       /\ status[k] = "completed" =>
            status'[k] = "completed" /\ result'[k] = result[k]]_vars

\* A lease runs out although its claimant is still at work.
Lapse ==
  /\ \E w \in Worker : \E c \in claims[w] : Owned(c) /\ lease[c.key] = 1
  /\ Tick

\* Once workers stop crashing, finish within their leases and nobody reopens
\* failed tasks, every job that is in the table is completed or reported
\* failed: the rows of crashed workers are found again when their leases end,
\* and a job that keeps failing does not keep the others from their turn.
Calm == ~Lapse /\ (\A w \in Worker : ~Abandon(w)) /\ (\A k \in Key : ~Retry(k))

JobsSettle ==
  <>[][Calm]_vars =>
    \A k \in Key : status[k] # "absent" ~> status[k] \in {"completed", "failed"}

\* README.md and docs/ASYNC_PIPELINE_IMPLEMENTATION.md: a delivery is tried at
\* most max_attempts (5) times.
AttemptsBounded == \A k \in Key : attempts[k] <= MaxAttempts

\* The rows implement the outbox's promise.
AbstractPhase ==
  [k \in Key |->
    CASE status[k] = "absent"    -> "absent"
      [] status[k] = "completed" -> "done"
      [] status[k] = "failed"    -> "dead"
      [] OTHER                   -> "open"]

Abstract == INSTANCE Outbox WITH phase <- AbstractPhase, applied <- effects

ImplementsOutbox == Abstract!Spec
=============================================================================
