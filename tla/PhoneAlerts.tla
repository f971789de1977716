---------------------------- MODULE PhoneAlerts -----------------------------
(***************************************************************************)
(* Alerts about the use of phones, in one directory of cameras with        *)
(* background processing on.  Passes of the general pipeline (_process in  *)
(* pipeline.py) sample a frame and ask for a review, the answer of the     *)
(* model moves the event of the camera (phone_event_update in rules.py),   *)
(* an event that lasts for the threshold is put into the outbox, and the   *)
(* writer (_writes in async_pipeline.py) commits one alert per directory   *)
(* and cooldown.                                                           *)
(*                                                                         *)
(* The code compares timestamps; here every timestamp is its age in ticks, *)
(* and a tick is one behaviour interval.  A step is what a coroutine does  *)
(* between two suspensions, or a database transaction.                     *)
(***************************************************************************)
EXTENDS Integers, FiniteSets, FiniteSetsExt

CONSTANTS
  Camera,       \* the cameras of the directory, all with phone_use enabled
  Threshold,    \* phone_use_seconds
  Cooldown,     \* alert_cooldown_seconds, the largest of the directory
  MaxAge,       \* review_max_evidence_age_seconds
  MaxUpset      \* bound: edits, kills, lost streams and ends of a schedule

ASSUME PhoneAlertsAssumption ==
  /\ Threshold \in Nat \ {0} /\ Cooldown \in Nat \ {0}
  /\ MaxAge \in Nat /\ MaxAge <= Threshold /\ MaxUpset \in Nat

VARIABLES
  troubles,   \* setting: a subset of Trouble
  since,      \* phone_since, NoEvent for None
  alerted,    \* phone_alerted
  sampled,    \* the cameras that had a pass since the last tick
  pending, active,  \* ReviewQueue, for the kind "behavior"
  online,     \* the cameras with a frame of the last two seconds
  duty,       \* the cameras whose schedule is active
  steady,     \* from now on phones are used at these cameras, and nowhere
              \* else, and nothing disturbs; {} while anything may happen
  jobs,       \* alert_write jobs
  writer,     \* where _writes is with a job
  dbCool,     \* what is left of the cooldown, by the newest alert in the table
  memCool,    \* the same by alert_cooldowns, which enqueue_alert asks
  passCool,   \* the same by cooldowns, which the passes ask
  version,    \* AsyncPipeline.version
  print,      \* the fingerprint of each camera in AsyncPipeline.cameras
  dbPrint,    \* and in the table
  upsets,     \* bound: how many there were
  warm,       \* history: age of the last moment within a cooldown
  denied      \* history: age of the newest sample whose answer denied the use

ruleVars == <<since, alerted>>
reviewVars == <<pending, active>>
worldVars == <<online, duty, steady>>
writeVars == <<jobs, writer>>
coolVars == <<dbCool, memCool, passCool>>
configVars == <<version, print, dbPrint>>
historyVars == <<warm, denied>>
vars == <<troubles, ruleVars, sampled, reviewVars, worldVars, writeVars,
          coolVars, configVars, upsets, historyVars>>

-----------------------------------------------------------------------------
Oldest == Threshold + MaxAge + 1    \* older timestamps need not be told apart
NoEvent == -1
None == [at |-> "none"]

\* What may go wrong: passes, answers and writes are overtaken by the clock; a
\* stream is lost; the process is killed; an edit leaves the rule state alone.
Trouble == {"late", "offline", "restart", "rename"}

Request == [at : {"asked"}, age : 0 .. MaxAge + 1, version : 0 .. MaxUpset]
JobId == 1 .. 2     \* enough for the jobs of a camera at one time

Older(age) == IF age = NoEvent THEN NoEvent ELSE Min({age + 1, Oldest})
Left(n) == Max({n - 1, 0})

\* Mutant: the flag of the alert outlives its event.
QuietButAlerted(c) == since' = [since EXCEPT ![c] = NoEvent] /\ UNCHANGED alerted

Quiet(c) ==  \* reset_phone_event, phone_event_update(False)
  /\ since' = [since EXCEPT ![c] = NoEvent]
  /\ alerted' = [alerted EXCEPT ![c] = FALSE]

Init ==
  /\ troubles \in SUBSET Trouble
  /\ since = [c \in Camera |-> NoEvent]
  /\ alerted = [c \in Camera |-> FALSE]
  /\ sampled = {}
  /\ pending = [c \in Camera |-> None] /\ active = [c \in Camera |-> None]
  /\ online \in SUBSET Camera /\ duty = Camera /\ steady = {}
  /\ jobs = {} /\ writer = None
  /\ dbCool = 0 /\ memCool = 0 /\ passCool = 0
  /\ version = 0
  /\ print = [c \in Camera |-> 0] /\ dbPrint = print
  /\ upsets = 0
  /\ warm = Oldest /\ denied = [c \in Camera |-> Oldest]

-----------------------------------------------------------------------------
(***************************************************************************)
(* The passes.                                                             *)
(***************************************************************************)
\* A new sample replaces the one that waits (ReviewQueue.submit).
Schedule(c) ==
  pending' = [pending EXCEPT ![c] = [at |-> "asked", age |-> 0, version |-> version]]

\* _phone_use_cooldown_active
CoolingDown == passCool > 0

Pass(c) ==
  /\ c \in online \ sampled /\ sampled' = sampled \cup {c}
  /\ \/ c \in duty /\ CoolingDown /\ Quiet(c) /\ UNCHANGED pending
     \/ c \notin duty /\ Quiet(c) /\ UNCHANGED pending
     \/ c \in duty /\ ~CoolingDown /\ Schedule(c) /\ UNCHANGED ruleVars
  /\ UNCHANGED <<troubles, active, worldVars, writeVars, coolVars, configVars,
                 upsets, historyVars>>

TakeReview(c) ==  \* ReviewQueue._worker, up to the call of the model
  /\ active[c] = None /\ pending[c] # None
  /\ active' = [active EXCEPT ![c] = pending[c]]
  /\ pending' = [pending EXCEPT ![c] = None]
  /\ UNCHANGED <<troubles, ruleVars, sampled, worldVars, writeVars, coolVars,
                 configVars, upsets, historyVars>>

Done(c) == active' = [active EXCEPT ![c] = None] /\ UNCHANGED pending

Stale(c) ==  \* review_invalid
  \/ active[c].version # version
  \/ c \notin online \cap duty
  \/ active[c].age > MaxAge

-----------------------------------------------------------------------------
(***************************************************************************)
(* The answers.                                                            *)
(***************************************************************************)
JobsOf(c) == {j \in jobs : j.cam = c}
HasRoom(c) == Cardinality(JobsOf(c)) < Cardinality(JobId)
NewJob(c) ==
  [cam |-> c, id |-> Min(JobId \ {j.id : j \in JobsOf(c)}), print |-> print[c],
   begun |-> since[c], agreed |-> since[c] <= denied[c]]

\* enqueue_alert
Enqueue(c) ==
  jobs' = IF memCool > 0 THEN jobs ELSE jobs \cup {NewJob(c)}

Lasts(c) == since[c] - active[c].age >= Threshold

\* Mutant: every confirmation begins the event.
ConfirmedAnew(c) ==
  /\ since' = [since EXCEPT ![c] = active[c].age]
  /\ IF ~alerted[c] /\ since[c] # NoEvent /\ Lasts(c)
     THEN HasRoom(c) /\ alerted' = [alerted EXCEPT ![c] = TRUE] /\ Enqueue(c)
     ELSE UNCHANGED <<alerted, jobs>>

\* _behaviors and phone_event_update(True): a first confirmation opens the
\* event at the time of its sample, a later one may reach the threshold.
Confirmed(c) ==
  IF since[c] = NoEvent
  THEN /\ since' = [since EXCEPT ![c] = active[c].age]
       /\ UNCHANGED <<alerted, jobs>>
  ELSE IF ~alerted[c] /\ Lasts(c)
  THEN /\ HasRoom(c) /\ alerted' = [alerted EXCEPT ![c] = TRUE]
       /\ Enqueue(c) /\ UNCHANGED since
  ELSE UNCHANGED <<ruleVars, jobs>>

\* What the model may say: anything, or the truth when the world is steady.
Says(c, said) == steady # {} => said = (c \in steady)

Answer(c) ==
  /\ active[c] # None /\ Done(c)
  /\ \/ Stale(c) /\ UNCHANGED <<ruleVars, jobs, denied>>
     \/ /\ ~Stale(c) /\ Says(c, TRUE) /\ Confirmed(c) /\ UNCHANGED denied
     \/ /\ ~Stale(c) /\ Says(c, FALSE) /\ Quiet(c)
        /\ denied' = [denied EXCEPT ![c] = active[c].age] /\ UNCHANGED jobs
  /\ UNCHANGED <<troubles, sampled, worldVars, writer, coolVars, configVars,
                 upsets, warm>>

\* A VLMError and a time-out of the worker leave the event alone.
ReviewFails(c) ==
  /\ active[c] # None /\ steady = {} /\ Done(c)
  /\ UNCHANGED <<troubles, ruleVars, sampled, worldVars, writeVars, coolVars,
                 configVars, upsets, historyVars>>

\* Without a model every request that _review lets pass ends the event.
Unconfigured(c) ==
  /\ active[c] # None /\ steady = {} /\ Done(c) /\ Quiet(c)
  /\ active[c].version = version /\ active[c].age <= MaxAge
  /\ UNCHANGED <<troubles, sampled, worldVars, writeVars, coolVars, configVars,
                 upsets, historyVars>>

-----------------------------------------------------------------------------
(***************************************************************************)
(* The outbox and its writer.                                              *)
(***************************************************************************)
\* alert_valid asks the same of the process, which never knows more.
Current(j) == j.print = dbPrint[j.cam]

\* _write_transaction.  Mutant: the cooldown is left to enqueue_alert.
OutcomeUnchecked(j) == IF ~Current(j) THEN "stale" ELSE "alert"
Outcome(j) ==
  IF ~Current(j) THEN "stale" ELSE IF dbCool > 0 THEN "cooldown" ELSE "alert"

Commit(j) ==
  /\ writer = None /\ j \in jobs
  /\ jobs' = jobs \ {j}
  /\ writer' = [at |-> "committed", outcome |-> Outcome(j),
                agreed |-> j.agreed, apart |-> j.begun <= warm]
  /\ dbCool' = IF writer'.outcome = "alert" THEN Cooldown ELSE dbCool
  /\ warm' = IF writer'.outcome = "alert" THEN 0 ELSE warm
  /\ UNCHANGED <<troubles, ruleVars, sampled, reviewVars, worldVars, memCool,
                 passCool, configVars, upsets, denied>>

\* The process learns of the commit.  Only an alert of its own starts the
\* cooldown that the passes see.
AfterCommit ==
  /\ writer.at = "committed" /\ writer' = None
  /\ memCool' = CASE writer.outcome = "alert" -> Cooldown
                  [] writer.outcome = "cooldown" -> dbCool
                  [] OTHER -> memCool
  /\ passCool' = IF writer.outcome = "alert" THEN Cooldown ELSE passCool
  /\ UNCHANGED <<troubles, ruleVars, sampled, reviewVars, worldVars, jobs,
                 dbCool, configVars, upsets, historyVars>>

-----------------------------------------------------------------------------
(***************************************************************************)
(* The world: schedules, connections, the configuration, kills, the clock. *)
(***************************************************************************)
Upset == upsets < MaxUpset /\ upsets' = upsets + 1

\* Leaving is an upset, coming back is not.
Toggle(set, c) ==
  \/ c \in set /\ Upset /\ set' = set \ {c}
  \/ c \notin set /\ UNCHANGED upsets /\ set' = set \cup {c}

Shift(c) ==
  /\ steady = {} /\ Toggle(duty, c)
  /\ UNCHANGED <<troubles, ruleVars, sampled, reviewVars, online, steady,
                 writeVars, coolVars, configVars, historyVars>>

Connection(c) ==
  /\ steady = {} /\ "offline" \in troubles /\ Toggle(online, c)
  /\ UNCHANGED <<troubles, ruleVars, sampled, reviewVars, duty, steady,
                 writeVars, coolVars, configVars, historyVars>>

Editing == dbPrint # print

\* patch_camera of the options, update_geometry and update_schedule also
\* remove the rule state; other edits, of the name or the modes, do not.
Edit(c, removes) ==
  /\ steady = {} /\ ~Editing /\ Upset
  /\ removes \/ "rename" \in troubles
  /\ dbPrint' = [dbPrint EXCEPT ![c] = @ + 1]
  /\ IF removes THEN Quiet(c) ELSE UNCHANGED ruleVars
  /\ UNCHANGED <<troubles, sampled, reviewVars, worldVars, writeVars, coolVars,
                 version, print, historyVars>>

Refresh ==  \* sync_cameras
  /\ Editing /\ print' = dbPrint /\ version' = version + 1
  /\ UNCHANGED <<troubles, ruleVars, sampled, reviewVars, worldVars, writeVars,
                 coolVars, dbPrint, upsets, historyVars>>

\* A kill and a start: jobs that had no row are lost, and neither the rules nor
\* the cooldowns are restored.
Restart ==
  /\ "restart" \in troubles /\ steady = {} /\ Upset
  /\ since' = [c \in Camera |-> NoEvent] /\ alerted' = [c \in Camera |-> FALSE]
  /\ sampled' = {}
  /\ pending' = [c \in Camera |-> None] /\ active' = [c \in Camera |-> None]
  /\ jobs' \in SUBSET jobs /\ writer' = None
  /\ memCool' = 0 /\ passCool' = 0
  /\ print' = dbPrint /\ version' = version + (IF Editing THEN 1 ELSE 0)
  /\ UNCHANGED <<troubles, worldVars, dbCool, dbPrint, historyVars>>

Settle ==
  /\ steady = {} /\ ~Editing /\ duty = Camera /\ online = Camera
  /\ steady' \in SUBSET Camera \ {{}}
  /\ UNCHANGED <<troubles, ruleVars, sampled, reviewVars, online, duty,
                 writeVars, coolVars, configVars, upsets, historyVars>>

OlderRequest(r) == IF r = None THEN None ELSE [r EXCEPT !.age = Min({@ + 1, MaxAge + 1})]
KeepsUp == \* nothing that the clock might overtake is waiting
  /\ online \subseteq sampled /\ jobs = {}
  /\ \A c \in Camera : \A r \in {pending[c], active[c]} \ {None} : r.age < MaxAge

Tick ==
  /\ ~Editing /\ writer = None
  /\ KeepsUp \/ "late" \in troubles
  /\ since' = [c \in Camera |-> Older(since[c])]
  /\ pending' = [c \in Camera |-> OlderRequest(pending[c])]
  /\ active' = [c \in Camera |-> OlderRequest(active[c])]
  /\ sampled' = {}
  /\ dbCool' = Left(dbCool) /\ memCool' = Left(memCool) /\ passCool' = Left(passCool)
  /\ warm' = IF dbCool > 0 THEN 0 ELSE Older(warm)
  /\ denied' = [c \in Camera |-> Older(denied[c])]
  /\ UNCHANGED <<troubles, alerted, worldVars, writeVars, configVars, upsets>>

-----------------------------------------------------------------------------
Reviewing(c) == TakeReview(c) \/ Answer(c)
Writing == (\E j \in jobs : Commit(j)) \/ AfterCommit

Next ==
  \/ \E c \in Camera :
       \/ Pass(c) \/ Reviewing(c) \/ ReviewFails(c) \/ Unconfigured(c)
       \/ Shift(c) \/ Connection(c) \/ Edit(c, TRUE) \/ Edit(c, FALSE)
  \/ Writing \/ Refresh \/ Restart \/ Settle \/ Tick

Spec == Init /\ [][Next]_vars

\* The loops go on and time passes.
Fairness ==
  /\ \A c \in Camera : WF_vars(Pass(c)) /\ WF_vars(Reviewing(c))
  /\ WF_vars(Writing) /\ WF_vars(Refresh) /\ WF_vars(Tick)

FairSpec == Spec /\ Fairness

-----------------------------------------------------------------------------
(***************************************************************************)
(* Properties.                                                             *)
(***************************************************************************)
Age == {NoEvent} \cup 0 .. Oldest

TypeOK ==
  /\ troubles \subseteq Trouble
  /\ since \in [Camera -> Age] /\ alerted \in [Camera -> BOOLEAN]
  /\ \A c \in Camera : alerted[c] => since[c] >= Threshold
  /\ pending \in [Camera -> Request \cup {None}]
  /\ active \in [Camera -> Request \cup {None}]
  /\ online \subseteq Camera /\ duty \subseteq Camera /\ steady \subseteq Camera
  /\ \A j \in jobs : j.cam \in Camera /\ j.id \in JobId /\ j.begun \in Threshold .. Oldest
  /\ writer.at \in {"none", "committed"}
  /\ dbCool \in 0 .. Cooldown /\ memCool \in 0 .. Cooldown /\ passCool \in 0 .. Cooldown
  /\ warm \in Age /\ denied \in [Camera -> Age]

Alerts == writer.at = "committed" /\ writer.outcome = "alert"

\* No alert is about an event during which an answer denied the use, although
\* answers are late; and none is about an event that began before the cooldown
\* of the alert before it was over ("phone-use timing that must not carry
\* across a cooldown", rules.py:299), although two cameras may reach the
\* threshold at one time.  The second needs a cooldown that is longer than a
\* review may be old and than the time between two passes; the settings allow less.
EventsAreWhole == Alerts => writer.agreed /\ (troubles = {} => writer.apart)

\* The same with everything that may go wrong.
NeverAcrossCooldown == Alerts => writer.apart

\* Whoever uses a phone in one place for ever causes an alert again and again
\* (README.md:91), however the events, the cooldowns and the edits before met.
KeepsAlerting == troubles = {} => [](steady # {} => <>Alerts)

\* The same with everything that may go wrong before.
AlwaysKeepsAlerting == [](steady # {} => <>Alerts)
=============================================================================
