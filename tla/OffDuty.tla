------------------------------- MODULE OffDuty -------------------------------
(***************************************************************************)
(* The off-duty alert of one directory with background processing on: the  *)
(* local rule times an absence (rules.py), a vision model reviews it       *)
(* (ReviewQueue in background.py, _review and _review_completed in         *)
(* async_pipeline.py, _review_off_duty and _behaviors in pipeline.py), and *)
(* when every member of the directory is confirmed an alert is put into    *)
(* the outbox, validated again and committed (_writes).                    *)
(*                                                                         *)
(* A step is a slice of the event loop between two suspensions, or what a  *)
(* database transaction does.  An event is an absence; the code names it   *)
(* by its start time, here it is a number of its camera.  A frame is the   *)
(* number of the event whose threshold it is the first to cross, or        *)
(* AnyFrame.  The review of a camera that also looks for phones or smoking *)
(* is part of its behaviour requests.  The critical ingress is reduced to  *)
(* the insertion of a row: a key that has a row with other contents is a   *)
(* conflict, and its reservation stays.                                    *)
(***************************************************************************)
EXTENDS Integers, FiniteSets

CONSTANTS
  Camera,     \* the cameras that may be members of the directory
  Setting,    \* what is configured, may be answered and may happen
  MaxEvent,   \* bound: events of a camera; the last one stays below threshold
  MaxEdit,    \* bound: changes of the configuration
  MaxFault    \* bound: restarts, and errors of the database

ASSUME OffDutyAssumption ==
  /\ Setting \subseteq
       [cameras : SUBSET Camera,
        behavior : SUBSET Camera,  \* their behaviour requests own the answer
        verdict : SUBSET {"confirmed", "none", "uncertain", "failed"},
        disturb : SUBSET {"offline", "shift", "edit", "modes", "timeout",
                          "error", "unconfigured", "restart"}]
  /\ MaxEvent \in Nat \ {0}

VARIABLES
  setting,    \* the Setting of this behaviour
  state,      \* RuleStateRegistry: the CameraRuleState of each camera
  events,     \* the newest event of each camera
  online,     \* the cameras with a frame of the last two seconds
  duty,       \* the cameras whose schedule is active
  members,    \* enabled cameras of the directory with the off-duty mode
  version,    \* AsyncPipeline.version
  print,      \* the fingerprint of each camera, as the process knows it
  editing,    \* a change that is in the database and not yet in the process
  pass,       \* the camera's analysis, while it saves its audit image
  pending,    \* ReviewQueue.pending
  active,     \* ReviewQueue.active and unapplied
  rows,       \* the alert_write rows of the outbox
  reserved,   \* reserved_alerts
  writer,     \* where _writes is with an alert
  dbCool, subjCool, memCool,  \* the newest alert in the database, in
              \* alert_cooldowns and in cooldowns is younger than the cooldown
  reached,    \* history: the events that reached their threshold
  faults      \* bound

ruleVars == <<state, events, reached>>
worldVars == <<online, duty>>
configVars == <<members, version, print, editing>>
reviewVars == <<pending, active>>
alertVars == <<rows, reserved>>
coolVars == <<dbCool, subjCool, memCool>>
moving == <<ruleVars, worldVars, configVars, pass, reviewVars, alertVars, writer,
          coolVars, faults>>
vars == <<setting, moving>>

-----------------------------------------------------------------------------
Behavior == setting.behavior
Verdict == setting.verdict
Disturb == setting.disturb

NoEvent == 0
AnyFrame == 0
NoFrame == -1
None == [at |-> "none"]
Unheard == [event |-> NoEvent, said |-> "nothing"]

\* A fresh CameraRuleState; basis is history: the review that confirmed.
Quiet == [since |-> NoEvent, alerted |-> FALSE, confirmed |-> FALSE,
          latched |-> FALSE, evidence |-> NoFrame, asked |-> FALSE,
          basis |-> Unheard]

\* reset_off_duty_confirmation(reset_review=True)
Unconfirmed(s) == [Quiet EXCEPT !.since = s.since, !.alerted = s.alerted]

\* start_new_off_duty_cycle.  Mutant: the alerted event goes on.
SameCycle(s, event) == s
NewCycle(s, event) == [Quiet EXCEPT !.since = event]

\* record_off_duty_review
Recorded(s, confirmed, frame, event, said) ==
  [s EXCEPT !.confirmed = confirmed, !.asked = TRUE,
            !.evidence = IF confirmed THEN frame
                         ELSE IF s.latched THEN @ ELSE NoFrame,
            !.basis = IF confirmed THEN [event |-> event, said |-> said]
                      ELSE Unheard]

\* latch_off_duty_threshold
Latched(s, frame) ==
  IF s.latched THEN s ELSE [s EXCEPT !.latched = TRUE, !.evidence = frame]

Init ==
  /\ setting \in Setting
  /\ state = [c \in Camera |-> Quiet]
  /\ events = [c \in Camera |-> NoEvent] /\ reached = {}
  /\ online = Camera /\ duty = Camera
  /\ members = setting.cameras /\ version = 0
  /\ print = [c \in Camera |-> 0] /\ editing = None
  /\ pass = [c \in Camera |-> None]
  /\ pending = [c \in Camera |-> None] /\ active = [c \in Camera |-> None]
  /\ rows = << >> /\ reserved = {} /\ writer = None
  /\ dbCool = FALSE /\ subjCool = FALSE /\ memCool = FALSE
  /\ faults = 0

-----------------------------------------------------------------------------
(***************************************************************************)
(* _maybe_create_off_duty_alert and enqueue_alert, which run in one slice, *)
(* from the rule states st.                                                *)
(***************************************************************************)
Complete(st) ==
  /\ members # {} /\ members \subseteq online \cap duty
  /\ \A m \in members :
       st[m].confirmed /\ st[m].evidence # NoFrame /\ st[m].since # NoEvent

Fresh(c, st) ==
  [status |-> "queued", camera |-> c, print |-> print[c],
   frames |-> {[cam |-> m, frame |-> st[m].evidence] : m \in members},
   heard |-> \A m \in members : st[m].basis.said = "confirmed",
   lost |-> FALSE]

Insert(key, c, st) ==
  IF key \in DOMAIN rows THEN rows
  ELSE [k \in DOMAIN rows \cup {key} |->
          IF k = key THEN Fresh(c, st) ELSE rows[k]]

Enqueue(key, c, st) ==
  IF subjCool \/ key \in reserved THEN UNCHANGED alertVars
  ELSE reserved' = reserved \cup {key} /\ rows' = Insert(key, c, st)

MaybeAlert(c, st) ==
  IF c \notin members
  THEN state' = [st EXCEPT ![c] = Unconfirmed(@)] /\ UNCHANGED alertVars
  ELSE IF ~Complete(st) THEN state' = st /\ UNCHANGED alertVars
  ELSE IF memCool
  THEN /\ state' = [m \in Camera |-> IF m \in members THEN Quiet ELSE st[m]]
       /\ UNCHANGED alertVars
  ELSE state' = st /\ Enqueue([m \in members |-> st[m].since], c, st)

Only(st) == state' = st /\ UNCHANGED alertVars

-----------------------------------------------------------------------------
(***************************************************************************)
(* The analysis of a camera (_process): the off-duty sample of every ten   *)
(* seconds, and the behaviour request.  Between the two halves of a sample *)
(* the audit image is written.                                             *)
(***************************************************************************)
Request(event, frame) ==
  [at |-> "pending", event |-> event, version |-> version, frame |-> frame]

\* schedule_review: the newest request replaces the one that waits.
Schedule(c, event, frame) ==
  pending' = [pending EXCEPT ![c] = Request(event, frame)]

\* The end of _process: the behaviour request, when it is due.
ThenBehavior(c, event, frame) ==
  \/ UNCHANGED pending
  \/ c \in Behavior \cap duty /\ Schedule(c, event, frame)

\* Cooling down: observations belong to no event, and no image is saved.
SampleCooling(c) ==
  /\ pass[c] = None /\ c \in members /\ memCool
  /\ state' = [state EXCEPT ![c] = Quiet]
  /\ ThenBehavior(c, NoEvent, AnyFrame)
  /\ UNCHANGED <<events, reached, worldVars, configVars, pass, active,
                 alertVars, writer, coolVars, faults>>

\* A person is there, or the grace of the shift is not over, or nobody is
\* expected, or there is no frame or no detection; in the last three cases no
\* image is saved.
SampleQuiet(c) ==
  /\ pass[c] = None /\ c \in members /\ ~memCool
  /\ state' = [state EXCEPT ![c] = Quiet]
  /\ \/ UNCHANGED pass
     \/ /\ c \in duty
        /\ pass' = [pass EXCEPT ![c] =
                      [at |-> "saving", event |-> NoEvent, crossed |-> FALSE,
                       due |-> FALSE, orphan |-> FALSE]]
  /\ UNCHANGED <<events, reached, worldVars, configVars, reviewVars,
                 alertVars, writer, coolVars, faults>>

\* Nobody is there: absence_event_update, whether a new shift has begun,
\* whether the threshold is reached, and off_duty_review_due.
SampleAbsent(c) ==
  /\ pass[c] = None /\ c \in members \cap duty /\ ~memCool
  /\ \E newShift, over, retry \in BOOLEAN :
       LET s == IF newShift THEN Quiet ELSE state[c]
           starts == s.since = NoEvent
           crosses == ~starts /\ over /\ ~s.alerted /\ s.since < MaxEvent
           t == IF starts THEN [s EXCEPT !.since = events[c] + 1]
                ELSE [s EXCEPT !.alerted = s.alerted \/ crosses] IN
       /\ newShift => "shift" \in Disturb
       /\ starts => events[c] < MaxEvent
       /\ state' = [state EXCEPT ![c] = t]
       /\ events' = IF starts THEN [events EXCEPT ![c] = t.since] ELSE events
       /\ reached' = IF crosses THEN reached \cup {<<c, t.since>>} ELSE reached
       /\ pass' = [pass EXCEPT ![c] =
                     [at |-> "saving", event |-> t.since, crossed |-> crosses,
                      due |-> /\ c \notin Behavior /\ t.alerted /\ ~t.confirmed
                              /\ ~t.asked \/ retry,
                      orphan |-> FALSE]]
  /\ UNCHANGED <<worldVars, configVars, reviewVars, alertVars, writer,
                 coolVars, faults>>

\* The second half.  If the rule state was removed meanwhile, the pass goes on
\* with a state that nobody else sees.
Saved(c) ==
  LET p == pass[c]
      frame == IF p.crossed THEN p.event ELSE AnyFrame
      s == IF p.crossed THEN Latched(state[c], frame) ELSE state[c] IN
  /\ p # None
  /\ pass' = [pass EXCEPT ![c] = None]
  /\ \E accepted \in BOOLEAN :  \* blocked(), or a full queue, refuses
       LET t == IF p.due /\ accepted THEN [s EXCEPT !.asked = TRUE] ELSE s
           st == IF p.orphan THEN state ELSE [state EXCEPT ![c] = t] IN
       /\ IF p.due
          THEN IF accepted THEN Schedule(c, p.event, frame)
                           ELSE UNCHANGED pending
          ELSE ThenBehavior(c, p.event, frame)
       /\ \/ (st[c].confirmed \/ p.orphan) /\ MaybeAlert(c, st)
          \/ (~st[c].confirmed \/ p.orphan) /\ Only(st)
  /\ UNCHANGED <<events, reached, worldVars, configVars, active, writer,
                 coolVars, faults>>

\* A pass between two samples that only makes the behaviour request.
BehaviorPass(c) ==
  /\ pass[c] = None /\ c \in Behavior \cap duty \cap members
  /\ Schedule(c, state[c].since, AnyFrame)
  /\ UNCHANGED <<ruleVars, worldVars, configVars, pass, active, alertVars,
                 writer, coolVars, faults>>

-----------------------------------------------------------------------------
(***************************************************************************)
(* ReviewQueue._worker and AsyncPipeline._review.  The handler saves the   *)
(* evidence and an audit row before it asks the model; the whole handler   *)
(* has a timeout, and an error goes to the completion.                     *)
(***************************************************************************)
Review(c, at) == active[c].at = at
GoesOn(c, at) == active' = [active EXCEPT ![c].at = at]
\* The handler returned: what it was asked does not matter any more.
Returns(c) == active' = [active EXCEPT ![c] = [at |-> "done", failed |-> FALSE]]
ReviewFrame == <<events, reached, worldVars, configVars, pass, writer,
                 coolVars>>

TakeReview(c) ==
  /\ active[c] = None /\ pending[c] # None
  /\ active' = [active EXCEPT ![c] =
                  [at |-> "saving", request |-> pending[c], failed |-> FALSE,
                   orphan |-> FALSE]]
  /\ pending' = [pending EXCEPT ![c] = None]
  /\ UNCHANGED <<ReviewFrame, state, alertVars, faults>>

\* The configuration is compared, then the model is asked; a behaviour request
\* may be too old to be sent.
Ask(c) ==
  /\ Review(c, "saving")
  /\ \/ active[c].request.version = version /\ GoesOn(c, "asking")
     \/ /\ active[c].request.version # version \/ c \in Behavior
        /\ Returns(c)
  /\ UNCHANGED <<ReviewFrame, state, pending, alertVars, faults>>

\* review_invalid.  A newer result is never applied before an older one: a
\* camera has one request at work, and its newest waits.
\* Mutant: a result is applied whatever absence is timed now.
ValidForCamera(c, r) ==
  r.version = version /\ c \in online \cap duty
ValidNow(c, r) ==
  /\ r.version = version /\ c \in online \cap duty
  /\ state[c].since = r.event

\* A write to the rule state that the handler got when it began.
Written(c, s) == IF active[c].orphan THEN state ELSE [state EXCEPT ![c] = s]

\* _review_off_duty: only a valid answer that says so confirms.
AnswerOffDuty(c) ==
  LET r == active[c].request IN
  /\ Review(c, "asking") /\ c \notin Behavior /\ Returns(c)
  /\ \E said \in Verdict :
       IF ~ValidNow(c, r) THEN Only(state)
       ELSE IF said = "confirmed"
       THEN MaybeAlert(c, Written(c, Recorded(state[c], TRUE, r.frame, r.event,
                                              said)))
       ELSE IF said = "none" THEN Only(Written(c, Quiet))
       ELSE Only(Written(c, Recorded(state[c], FALSE, NoFrame, r.event, said)))
  /\ UNCHANGED <<ReviewFrame, pending, faults>>

\* The end of a behaviour review: it confirms and, past the threshold, alerts.
Confirms(c, r, said) ==
  LET s == Recorded(state[c], TRUE, r.frame, r.event, said) IN
  IF active[c].orphan THEN Only(state) \/ MaybeAlert(c, state)
  ELSE IF s.alerted THEN MaybeAlert(c, [state EXCEPT ![c] = s])
  ELSE Only([state EXCEPT ![c] = s])

\* _behaviors: any answer but "none" confirms, and a failed call confirms
\* without being checked.
AnswerBehavior(c) ==
  LET r == active[c].request IN
  /\ Review(c, "asking") /\ c \in Behavior /\ Returns(c)
  /\ \E said \in Verdict :
       \/ /\ said = "failed"
          /\ IF r.event = NoEvent THEN Only(state) ELSE Confirms(c, r, said)
       \/ /\ said # "failed"
          /\ IF ~ValidNow(c, r) THEN Only(state)
             ELSE IF said = "none" THEN Only(Written(c, Quiet))
             ELSE IF r.event = NoEvent THEN Only(state)
             ELSE Confirms(c, r, said)
  /\ UNCHANGED <<ReviewFrame, pending, faults>>

\* No model is configured: what would have been asked is recorded unchecked.
Unconfigured(c) ==
  LET r == active[c].request IN
  /\ "unconfigured" \in Disturb
  /\ Review(c, "saving") /\ r.version = version /\ Returns(c)
  /\ IF c \notin Behavior
     THEN Only([state EXCEPT ![c] =
                  Recorded(@, FALSE, NoFrame, r.event, "unconfigured")])
     ELSE IF r.event = NoEvent THEN Only(state)
     ELSE Confirms(c, r, "unconfigured")
  /\ UNCHANGED <<ReviewFrame, pending, faults>>

\* _review_completed after an error: for a behaviour request the event is
\* compared, and confirmed.
Completes(c) ==
  LET r == active[c].request
      s == Recorded(state[c], TRUE, r.frame, r.event, "timeout") IN
  IF c \notin Behavior \/ state[c].since # r.event THEN Only(state)
  ELSE IF s.alerted THEN MaybeAlert(c, [state EXCEPT ![c] = s])
  ELSE Only([state EXCEPT ![c] = s])

\* The timeout ends the handler, or the database or the disk refuses it.
ReviewFails(c) ==
  /\ "timeout" \in Disturb
  /\ Review(c, "saving") \/ Review(c, "asking")
  /\ active' = [active EXCEPT ![c].at = "done", ![c].failed = TRUE]
  /\ Completes(c)
  /\ UNCHANGED <<ReviewFrame, pending, faults>>

\* finish(): the audit row is closed, or the result is kept for a retry.
Finish(c) ==
  /\ Review(c, "done")
  /\ \/ active' = [active EXCEPT ![c] = None] /\ UNCHANGED faults
     \/ /\ "error" \in Disturb /\ faults < MaxFault
        /\ faults' = faults + 1 /\ GoesOn(c, "unapplied")
  /\ UNCHANGED <<ReviewFrame, state, pending, alertVars>>

\* retry_completion, by an administrator.
RetryResult(c) ==
  /\ Review(c, "unapplied") /\ GoesOn(c, "done")
  /\ IF active[c].failed THEN Completes(c) ELSE Only(state)
  /\ UNCHANGED <<ReviewFrame, pending, faults>>

-----------------------------------------------------------------------------
(***************************************************************************)
(* _writes, for an alert.                                                  *)
(***************************************************************************)
WriterFrame == <<events, reached, worldVars, configVars, pass, reviewVars>>

\* Mutant: the threshold is not asked for again.
AlertValidEarly(key) ==
  /\ print[rows[key].camera] = rows[key].print /\ members = DOMAIN key
  /\ members \subseteq online \cap duty
  /\ \A c \in members : state[c].confirmed /\ state[c].since = key[c]

\* alert_valid
AlertValid(key) ==
  /\ print[rows[key].camera] = rows[key].print /\ members = DOMAIN key
  /\ members \subseteq online \cap duty
  /\ \A c \in members :
       state[c].confirmed /\ state[c].alerted /\ state[c].since = key[c]

ClaimAlert ==
  /\ writer = None
  /\ \E key \in DOMAIN rows :
       /\ rows[key].status = "queued"
       /\ writer' = IF AlertValid(key)
                    THEN [at |-> "saving", key |-> key]
                    ELSE [at |-> "commit", key |-> key, valid |-> FALSE]
  /\ UNCHANGED <<WriterFrame, state, alertVars, coolVars, faults>>

EvidenceSaved ==
  /\ writer.at = "saving"
  /\ writer' = [at |-> "commit", key |-> writer.key,
                valid |-> AlertValid(writer.key)]
  /\ UNCHANGED <<WriterFrame, state, alertVars, coolVars, faults>>

\* The transaction reads the camera and the newest alert from the database.
PrintInRow(c) == print[c] + (IF editing # None /\ editing.camera = c
                             THEN 1 ELSE 0)
Outcome ==
  LET row == rows[writer.key] IN
  IF ~writer.valid \/ PrintInRow(row.camera) # row.print THEN "stale"
  ELSE IF dbCool THEN "cooldown" ELSE "alerted"

Commit ==
  /\ writer.at = "commit"
  /\ dbCool' = (dbCool \/ Outcome = "alerted")
  /\ \/ /\ rows' = [rows EXCEPT ![writer.key].status = Outcome]
        /\ writer' = [at |-> "after", key |-> writer.key, outcome |-> Outcome]
        /\ UNCHANGED faults
     \/ /\ "error" \in Disturb /\ faults < MaxFault  \* the answer is lost
        /\ rows' = [rows EXCEPT ![writer.key].status = Outcome,
                               ![writer.key].lost = TRUE]
        /\ faults' = faults + 1 /\ writer' = None
  /\ UNCHANGED <<WriterFrame, state, reserved, subjCool, memCool>>

WriteFails ==
  /\ writer.at \in {"saving", "commit"} /\ writer' = None
  /\ "error" \in Disturb /\ faults < MaxFault /\ faults' = faults + 1
  /\ UNCHANGED <<WriterFrame, state, alertVars, coolVars>>

\* What the process does once it knows: members that still have the event of
\* the alert start a new one.
AfterCommit ==
  LET key == writer.key
      alerted == writer.outcome = "alerted"
      over == {c \in DOMAIN key : alerted /\ state[c].since = key[c]} IN
  /\ writer.at = "after" /\ writer' = None
  /\ reserved' = reserved \ {key}
  /\ subjCool' = (subjCool \/ writer.outcome # "stale")
  /\ memCool' = (memCool \/ alerted)
  /\ events' = [c \in Camera |-> IF c \in over THEN events[c] + 1
                                 ELSE events[c]]
  /\ state' = [c \in Camera |-> IF c \in over
                  THEN NewCycle(state[c], events[c] + 1) ELSE state[c]]
  /\ UNCHANGED <<reached, worldVars, configVars, pass, reviewVars, rows,
                 dbCool, faults>>

\* In memory the newest alert is a little younger than in the database.
CoolingEnds ==
  /\ \/ dbCool /\ dbCool' = FALSE /\ UNCHANGED <<subjCool, memCool>>
     \/ ~dbCool /\ subjCool /\ subjCool' = FALSE /\ UNCHANGED <<dbCool, memCool>>
     \/ ~dbCool /\ memCool /\ memCool' = FALSE /\ UNCHANGED <<dbCool, subjCool>>
  /\ UNCHANGED <<WriterFrame, state, alertVars, writer, faults>>

-----------------------------------------------------------------------------
(***************************************************************************)
(* The world, the configuration API, and a restart.                        *)
(***************************************************************************)
Flip(set, c) == IF c \in set THEN set \ {c} ELSE set \cup {c}

Connection(c) ==
  /\ "offline" \in Disturb /\ online' = Flip(online, c)
  /\ UNCHANGED <<ruleVars, duty, configVars, pass, reviewVars, alertVars,
                 writer, coolVars, faults>>

Shift(c) ==
  /\ "shift" \in Disturb /\ duty' = Flip(duty, c)
  /\ UNCHANGED <<ruleVars, online, configVars, pass, reviewVars, alertVars,
                 writer, coolVars, faults>>

\* The API writes the row; a new geometry, schedule or option also removes the
\* rule state, new modes do not.
Edit(c, what) ==
  /\ what \in Disturb /\ editing = None /\ version < MaxEdit
  /\ editing' = [at |-> what, camera |-> c]
  /\ IF what = "modes" THEN UNCHANGED <<state, pass, active>>
     ELSE /\ state' = [state EXCEPT ![c] = Quiet]
          /\ pass' = IF pass[c] = None THEN pass
                     ELSE [pass EXCEPT ![c].orphan = TRUE]
          /\ active' = IF Review(c, "asking")
                       THEN [active EXCEPT ![c].orphan = TRUE] ELSE active
  /\ UNCHANGED <<events, reached, worldVars, members, version, print, pending,
                 alertVars, writer, coolVars, faults>>

Load ==
  /\ version' = version + 1 /\ editing' = None
  /\ print' = [c \in Camera |-> PrintInRow(c)]
  /\ members' = IF editing.at = "modes" THEN Flip(members, editing.camera)
                ELSE members

\* sync_cameras: if the members changed, nobody's confirmation stays.
Refresh ==
  /\ editing # None /\ Load
  /\ state' = [c \in Camera |->
       IF members' # members /\ c \in members \cup members'
       THEN Unconfirmed(state[c]) ELSE state[c]]
  /\ UNCHANGED <<events, reached, worldVars, pass, reviewVars, alertVars,
                 writer, coolVars, faults>>

\* The rows stay; every alert key that has a row is reserved again.
Restart ==
  /\ "restart" \in Disturb /\ faults < MaxFault /\ faults' = faults + 1
  /\ state' = [c \in Camera |-> Quiet]
  /\ IF editing # None THEN Load ELSE UNCHANGED configVars
  /\ pass' = [c \in Camera |-> None]
  /\ pending' = [c \in Camera |-> None] /\ active' = [c \in Camera |-> None]
  /\ reserved' = DOMAIN rows /\ writer' = None
  /\ subjCool' = FALSE /\ memCool' = FALSE
  /\ UNCHANGED <<events, reached, worldVars, rows, dbCool>>

-----------------------------------------------------------------------------
Analysis(c) == SampleCooling(c) \/ SampleAbsent(c) \/ Saved(c)
Reviewing(c) == \/ TakeReview(c) \/ Ask(c) \/ AnswerOffDuty(c)
                \/ AnswerBehavior(c) \/ Unconfigured(c) \/ Finish(c)
Writing == ClaimAlert \/ EvidenceSaved \/ Commit \/ AfterCommit

Next ==
  /\ \/ \E c \in setting.cameras :
          \/ Analysis(c) \/ SampleQuiet(c) \/ BehaviorPass(c)
          \/ Reviewing(c) \/ ReviewFails(c) \/ RetryResult(c)
          \/ Connection(c) \/ Shift(c) \/ Edit(c, "edit") \/ Edit(c, "modes")
     \/ Writing \/ WriteFails \/ CoolingEnds \/ Refresh \/ Restart
  /\ UNCHANGED setting

Spec == Init /\ [][Next]_vars

\* Workers analyse, review workers review, the writer writes, and cooldowns
\* end; whoever is absent, and whatever the model says, is left open.
Fairness ==
  /\ \A c \in Camera : WF_moving(Analysis(c)) /\ WF_moving(Reviewing(c))
  /\ WF_moving(Writing) /\ WF_moving(CoolingEnds) /\ WF_moving(Refresh)

FairSpec == Spec /\ Fairness

-----------------------------------------------------------------------------
(***************************************************************************)
(* Properties.                                                             *)
(***************************************************************************)
Event == 0 .. MaxEvent
Alerted == {key \in DOMAIN rows : rows[key].status = "alerted"}

TypeOK ==
  /\ \A c \in Camera :
       /\ state[c].since \in Event /\ state[c].evidence \in Event \cup {NoFrame}
       /\ state[c].since = NoEvent => ~state[c].alerted
       /\ state[c].since \in {NoEvent, events[c]}
       /\ active[c].at \in {"saving", "asking"} => active[c].request.event \in Event
  /\ events \in [Camera -> Event]
  /\ online \subseteq Camera /\ duty \subseteq Camera /\ members \subseteq Camera
  /\ \A key \in DOMAIN rows :
       /\ DOMAIN key \subseteq Camera /\ \A c \in DOMAIN key : key[c] \in Event
       /\ rows[key].status \in {"queued", "stale", "cooldown", "alerted"}
  /\ writer # None => writer.key \in DOMAIN rows

OfItsEvent(c) == state[c].confirmed =>
  state[c].since # NoEvent /\ state[c].basis.event = state[c].since

\* The confirmation of an off-duty review belongs to the absence that is timed
\* now: however late the answer comes, it does not confirm an absence that
\* began after its frame ("Do not reset a newer event" in _writes).
ConfirmedByItsEvent == \A c \in Camera \ Behavior : OfItsEvent(c)

\* So does every confirmation, whatever review it comes from (README.md:85).
EveryConfirmedByItsEvent == \A c \in Camera : OfItsEvent(c)

Answered == {key \in Alerted : ~rows[key].lost}

\* One absence is in at most one alert, although the key of an alert changes
\* with the members of the directory and with their absences.  Where the answer
\* of the commit is lost, the process goes on timing the absence, and may alert
\* it again after the cooldown.
AlertedOnce ==
  \A key, other \in Answered : key # other =>
    \A c \in DOMAIN key \cap DOMAIN other : key[c] # other[c]

\* An alert is only about absences that all reached their threshold, although
\* a behaviour review may confirm an absence long before (README.md:77).
ThresholdPassed ==
  \A key \in Alerted : \A c \in DOMAIN key : <<c, key[c]>> \in reached

\* What is alerted: absences past their threshold, each in one alert.
AlertsSound == AlertedOnce /\ ThresholdPassed

\* Every member of an alert was confirmed by an answer of the model: no model
\* and failed calls block the whole group (README.md:89).
ConfirmedByTheModel == \A key \in Alerted : rows[key].heard

\* The evidence of an alert is the frame of each member that crossed the
\* threshold, also when a review had to be repeated (README.md:87).
FixedFrame ==
  \A key \in Alerted : \A c \in DOMAIN key :
    [cam |-> c, frame |-> key[c]] \in rows[key].frames

Ready ==
  /\ Complete(state) /\ ~dbCool /\ ~subjCool /\ ~memCool
  /\ \A m \in members : state[m].alerted

\* When every member has passed its threshold and is confirmed, and nothing
\* cools down, an alert is committed, which starts new absences (README.md:89).
ReadyIsAlerted == []<>~Ready
=============================================================================
