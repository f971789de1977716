---------------------------- MODULE OffDutyProofs ----------------------------
(***************************************************************************)
(* Proofs about OffDuty, for any number of cameras and events, and every   *)
(* mixture of disturbances, behaviour requests and edits of the directory. *)
(***************************************************************************)
EXTENDS OffDuty, TLAPS

-----------------------------------------------------------------------------
(* The inductive invariant *)

Said == {"nothing", "confirmed", "none", "uncertain", "failed", "unconfigured", "timeout"}

RuleState ==
  [since : Event, alerted : BOOLEAN, confirmed : BOOLEAN, latched : BOOLEAN,
   evidence : Event \cup {NoFrame}, asked : BOOLEAN,
   basis : [event : Event, said : Said]]

RequestSet == [at : {"pending"}, event : Event, version : Nat, frame : Event]

Row == [status : {"queued", "stale", "cooldown", "alerted"}, camera : Camera, print : Nat,
        frames : SUBSET [cam : Camera, frame : Event \cup {NoFrame}],
        heard : BOOLEAN, lost : BOOLEAN]

Config ==
  /\ setting \in Setting
  /\ online \subseteq Camera /\ duty \subseteq Camera /\ members \subseteq Camera
  /\ version \in Nat /\ print \in [Camera -> Nat]
  /\ editing \in {None} \cup [at : {"edit", "modes"}, camera : Camera]

\* A rule state that the camera may have: it times the camera's newest event,
\* alerts only past the threshold, and is confirmed by an answer about its event
\* unless behaviour requests answer for it.
Good(c, s) ==
  /\ s \in RuleState
  /\ s.since \in {NoEvent, events[c]}
  /\ s.since = NoEvent => ~s.alerted
  /\ s.alerted => <<c, s.since>> \in reached
  /\ c \notin Behavior /\ s.confirmed => s.since # NoEvent /\ s.basis.event = s.since

Rules ==
  /\ events \in [Camera -> Event]
  /\ state \in [Camera -> RuleState]
  /\ \A c \in Camera : Good(c, state[c])
  /\ \A c \in Camera, e \in Event : <<c, e>> \in reached => e # NoEvent /\ e < MaxEvent

\* A review of an off-duty rule is requested past the threshold, about an event.
SavingOf(c) ==
  {p \in [at : {"saving"}, event : Event, crossed : BOOLEAN, due : BOOLEAN, orphan : BOOLEAN] :
     p.due => c \notin Behavior /\ p.event # NoEvent}

RequestOf(c) == {r \in RequestSet : c \notin Behavior => r.event # NoEvent}

AtWork(c) == [at : {"saving", "asking"}, request : RequestOf(c), failed : {FALSE},
              orphan : BOOLEAN]
Returned == [at : {"done", "unapplied"}, failed : {FALSE}]
Failed(c) == [at : {"done", "unapplied"}, request : RequestOf(c), failed : {TRUE},
              orphan : BOOLEAN]

Passes ==
  /\ DOMAIN pass = Camera
  /\ \A c \in Camera : pass[c] \in {None} \cup SavingOf(c)

Work(c) == {None} \cup AtWork(c) \cup Returned \cup Failed(c)

Reviews ==
  /\ DOMAIN pending = Camera /\ DOMAIN active = Camera
  /\ \A c \in Camera :
       pending[c] \in {None} \cup RequestOf(c) /\ active[c] \in Work(c)

\* The key of a row names events that its members have had.
Keyed(key) ==
  /\ DOMAIN key \subseteq Camera
  /\ \A c \in DOMAIN key : key[c] \in Event /\ key[c] <= events[c]

Rows == rows \in [DOMAIN rows -> Row] /\ \A key \in DOMAIN rows : Keyed(key)

WriterSet ==
  {None} \cup [at : {"saving"}, key : DOMAIN rows]
         \cup [at : {"commit"}, key : DOMAIN rows, valid : BOOLEAN]
         \cup [at : {"after"}, key : DOMAIN rows, outcome : {"stale", "cooldown", "alerted"}]

Writer ==
  /\ writer \in WriterSet
  /\ writer.at \in {"saving", "commit"} => rows[writer.key].status = "queued"
  /\ writer.at = "after" => rows[writer.key].status = writer.outcome

\* The members of a key are past their thresholds.
Passed(key) == \A c \in DOMAIN key : <<c, key[c]>> \in reached
Committing == writer.at = "commit" /\ writer.valid

Past ==
  /\ \A key \in Alerted : Passed(key)
  /\ Committing => Passed(writer.key)

\* The event e of c is over: no absence will be timed under its number again.
Over(c, e) == e <= events[c] /\ (e = events[c] => state[c].since = NoEvent)
Closing(key) == writer.at = "after" /\ writer.key = key

\* Alerts whose commit was answered: their events are over, or will be with the
\* writer's next step, and a row that is about to be alerted shares none.
Apart ==
  /\ \A key \in Answered : Closing(key) \/ \A c \in DOMAIN key : Over(c, key[c])
  /\ Committing => \A key \in Answered :
       \A c \in DOMAIN key \cap DOMAIN writer.key : key[c] # writer.key[c]
  /\ AlertedOnce

OInv == Config /\ Rules /\ Passes /\ Reviews /\ Rows /\ Writer /\ Past /\ Apart

-----------------------------------------------------------------------------
(* The states of the local rule *)

LEMMA Bounds == MaxEvent \in Nat /\ Event = 0 .. MaxEvent /\ NoEvent \in Event /\ AnyFrame \in Event
BY OffDutyAssumption DEF OffDutyAssumption, Event, NoEvent, AnyFrame

LEMMA Cameras ==
  ASSUME setting \in Setting
  PROVE setting.cameras \subseteq Camera /\ Behavior \subseteq Camera
BY OffDutyAssumption DEF OffDutyAssumption, Behavior

LEMMA QuietIsGood ==
  ASSUME NEW c \in Camera
  PROVE Good(c, Quiet) /\ Quiet.since = NoEvent
BY Bounds DEF Good, Quiet, RuleState, Said, Unheard, NoEvent

LEMMA UnconfirmedIsGood ==
  ASSUME NEW c \in Camera, NEW s, Good(c, s)
  PROVE Good(c, Unconfirmed(s)) /\ Unconfirmed(s).since = s.since
BY Bounds DEF Good, Unconfirmed, Quiet, RuleState, Said, Unheard, NoEvent

LEMMA NewCycleIsQuiet ==
  ASSUME NEW s, NEW event \in Event
  PROVE LET t == NewCycle(s, event) IN
        t \in RuleState /\ t.since = event /\ ~t.alerted /\ ~t.confirmed
<1>1. Quiet \in RuleState /\ ~Quiet.alerted /\ ~Quiet.confirmed
  BY Bounds DEF Quiet, RuleState, Said, Unheard
<1> QED BY <1>1 DEF NewCycle, RuleState

LEMMA LatchedIsGood ==
  ASSUME NEW c \in Camera, NEW s, Good(c, s), NEW frame \in Event
  PROVE Good(c, Latched(s, frame)) /\ Latched(s, frame).since = s.since
BY Bounds DEF Good, Latched, RuleState, NoEvent

LEMMA AskedIsGood ==
  ASSUME NEW c \in Camera, NEW s, Good(c, s)
  PROVE Good(c, [s EXCEPT !.asked = TRUE]) /\ [s EXCEPT !.asked = TRUE].since = s.since
BY Bounds DEF Good, RuleState, NoEvent

\* A recorded review keeps the timing; a confirmation of an off-duty review has
\* to be about the absence that is timed.
LEMMA RecordedIsGood ==
  ASSUME NEW c \in Camera, NEW s, Good(c, s), NEW confirmed \in BOOLEAN,
         NEW frame \in Event \cup {NoFrame}, NEW event \in Event, NEW said \in Said,
         confirmed /\ c \notin Behavior => s.since = event /\ event # NoEvent
  PROVE /\ Good(c, Recorded(s, confirmed, frame, event, said))
        /\ Recorded(s, confirmed, frame, event, said).since = s.since
<1>1. s \in RuleState BY DEF Good
<1>2. Recorded(s, confirmed, frame, event, said) \in RuleState
  BY <1>1, Bounds DEF Recorded, RuleState, Said, Unheard
<1>3. /\ Recorded(s, confirmed, frame, event, said).since = s.since
      /\ Recorded(s, confirmed, frame, event, said).alerted = s.alerted
      /\ Recorded(s, confirmed, frame, event, said).confirmed = confirmed
      /\ confirmed => Recorded(s, confirmed, frame, event, said).basis.event = event
  BY <1>1 DEF Recorded, RuleState
<1> QED BY <1>2, <1>3 DEF Good

-----------------------------------------------------------------------------
(* _maybe_create_off_duty_alert: it starts no absence, and rows only come    *)

\* Rule states that one slice of the event loop may leave behind.
Apt(st) ==
  /\ st \in [Camera -> RuleState]
  /\ \A c \in Camera : Good(c, st[c]) /\ st[c].since \in {NoEvent, state[c].since}

\* The rows that were there stay as they are, and new ones are queued.
RowsGrow ==
  /\ Rows'
  /\ \A key \in DOMAIN rows : key \in DOMAIN rows' /\ rows'[key] = rows[key]
  /\ \A key \in DOMAIN rows' : key \notin DOMAIN rows => rows'[key].status = "queued"

LEMMA AptNow ==
  ASSUME OInv
  PROVE Apt(state)
BY DEF OInv, Rules, Apt

LEMMA AptSet ==
  ASSUME OInv, NEW c \in Camera, NEW s, Good(c, s), s.since \in {NoEvent, state[c].since}
  PROVE Apt([state EXCEPT ![c] = s])
<1>1. s \in RuleState BY DEF Good
<1>2. state \in [Camera -> RuleState] BY DEF OInv, Rules
<1>3. [state EXCEPT ![c] = s] \in [Camera -> RuleState] BY <1>1, <1>2
<1>4. ASSUME NEW d \in Camera
      PROVE /\ Good(d, [state EXCEPT ![c] = s][d])
            /\ [state EXCEPT ![c] = s][d].since \in {NoEvent, state[d].since}
  <2>1. CASE d = c
    <3>1. [state EXCEPT ![c] = s][d] = s BY <1>2, <2>1
    <3> QED BY <3>1, <2>1
  <2>2. CASE d # c
    <3>1. [state EXCEPT ![c] = s][d] = state[d] BY <1>2, <2>2
    <3>2. Good(d, state[d]) BY DEF OInv, Rules
    <3> QED BY <3>1, <3>2
  <2> QED BY <2>1, <2>2
<1> QED BY <1>3, <1>4 DEF Apt

LEMMA RowsStay ==
  ASSUME Rows, UNCHANGED <<rows, events>>
  PROVE RowsGrow
<1>1. Rows' BY DEF Rows, Keyed, Row
<1> QED BY <1>1 DEF RowsGrow

LEMMA EnqueueGrows ==
  ASSUME OInv, NEW c \in Camera, NEW st, Apt(st), Complete(st), UNCHANGED events,
         NEW key, key = [m \in members |-> st[m].since], Enqueue(key, c, st)
  PROVE RowsGrow
<1> DEFINE frames == {[cam |-> m, frame |-> st[m].evidence] : m \in members}
<1> DEFINE heard == \A m \in members : st[m].basis.said = "confirmed"
<1> DEFINE row == [status |-> "queued", camera |-> c, print |-> print[c],
                   frames |-> frames, heard |-> heard, lost |-> FALSE]
<1>0. Rows /\ Config /\ Rules BY DEF OInv
<1>1. CASE UNCHANGED alertVars
  BY <1>1, <1>0, RowsStay DEF alertVars
<1>2. CASE ~ UNCHANGED alertVars
  <2>1. rows' = Insert(key, c, st) BY <1>2 DEF Enqueue, alertVars
  <2>2. CASE key \in DOMAIN rows
    <3>1. rows' = rows BY <2>1, <2>2 DEF Insert
    <3> QED BY <3>1, <1>0, RowsStay
  <2>3. CASE key \notin DOMAIN rows
    <3>1. rows' = [k \in DOMAIN rows \cup {key} |-> IF k = key THEN row ELSE rows[k]]
      BY <2>1, <2>3 DEF Insert, Fresh
    <3> HIDE DEF row
    <3>2. DOMAIN rows' = DOMAIN rows \cup {key} BY <3>1, <2>3
    <3>3. rows' = [k \in DOMAIN rows' |-> rows'[k]] BY <3>1, <2>3
    <3>4. \A k \in DOMAIN rows : rows'[k] = rows[k] BY <3>1, <2>3
    <3>5. rows'[key] = row BY <3>1, <2>3
    <3>6. row \in Row /\ row.status = "queued"
      <4>1. members \subseteq Camera /\ print[c] \in Nat BY <1>0 DEF Config
      <4>2. \A m \in members : st[m].evidence \in Event \cup {NoFrame}
        <5>1. \A m \in members : st[m] \in RuleState BY <4>1 DEF Apt
        <5> QED BY <5>1 DEF RuleState
      <4>3. frames \in SUBSET [cam : Camera, frame : Event \cup {NoFrame}]
        BY <4>1, <4>2
      <4>4. heard \in BOOLEAN OBVIOUS
      <4> HIDE DEF frames, heard
      <4> QED BY <4>1, <4>3, <4>4 DEF row, Row
    <3>7. Keyed(key)'
      <4>1. members \subseteq Camera BY <1>0 DEF Config
      <4>2. ASSUME NEW m \in members
            PROVE st[m].since \in Event /\ st[m].since <= events[m]
        <5>1. Good(m, st[m]) /\ m \in Camera BY <4>1 DEF Apt
        <5>2. events[m] \in Event BY <5>1, <1>0 DEF Rules
        <5>3. st[m].since \in Event BY <5>1 DEF Good, RuleState
        <5>4. st[m].since \in {NoEvent, events[m]} BY <5>1 DEF Good
        <5> QED BY <5>2, <5>3, <5>4, Bounds DEF NoEvent
      <4>3. DOMAIN key = members /\ \A m \in members : key[m] = st[m].since
        OBVIOUS
      <4> QED BY <4>1, <4>2, <4>3 DEF Keyed
    <3>8. \A k \in DOMAIN rows : rows[k] \in Row /\ Keyed(k) BY <1>0 DEF Rows
    <3>9. \A k \in DOMAIN rows : Keyed(k)' BY <3>8 DEF Keyed
    <3>10. \A k \in DOMAIN rows' : rows'[k] \in Row
      BY <3>2, <3>4, <3>5, <3>6, <3>8
    <3>11. rows' \in [DOMAIN rows' -> Row] BY <3>3, <3>10
    <3>12. \A k \in DOMAIN rows' : Keyed(k)' BY <3>2, <3>7, <3>9
    <3>13. Rows' BY <3>11, <3>12 DEF Rows, Row
    <3> QED BY <3>2, <3>4, <3>5, <3>6, <3>13 DEF RowsGrow
  <2> QED BY <2>2, <2>3
<1> QED BY <1>1, <1>2

LEMMA MaybeAlertIsApt ==
  ASSUME OInv, NEW c \in Camera, NEW st, Apt(st), MaybeAlert(c, st), UNCHANGED events
  PROVE Apt(state') /\ RowsGrow
<1>0. Rows BY DEF OInv
<1>1. CASE c \notin members
  <2>1. state' = [st EXCEPT ![c] = Unconfirmed(@)] /\ UNCHANGED alertVars
    BY <1>1 DEF MaybeAlert
  <2>2. st \in [Camera -> RuleState] /\ Good(c, st[c]) BY DEF Apt
  <2>3. Good(c, Unconfirmed(st[c])) /\ Unconfirmed(st[c]).since = st[c].since
    BY <2>2, UnconfirmedIsGood
  <2>4. Unconfirmed(st[c]) \in RuleState BY <2>3 DEF Good
  <2>5. state' = [st EXCEPT ![c] = Unconfirmed(st[c])] BY <2>1
  <2>6. state' \in [Camera -> RuleState] BY <2>5, <2>2, <2>4
  <2>7. state'[c] = Unconfirmed(st[c]) /\ \A d \in Camera : d # c => state'[d] = st[d]
    BY <2>5, <2>2
  <2>8. \A d \in Camera : Good(d, st[d]) /\ st[d].since \in {NoEvent, state[d].since}
    BY DEF Apt
  <2>9. ASSUME NEW d \in Camera
        PROVE Good(d, state'[d]) /\ state'[d].since \in {NoEvent, state[d].since}
    <3>1. CASE d = c BY <3>1, <2>3, <2>7, <2>8
    <3>2. CASE d # c BY <3>2, <2>7, <2>8
    <3> QED BY <3>1, <3>2
  <2>10. Apt(state') BY <2>6, <2>9 DEF Apt
  <2> QED BY <2>10, <2>1, <1>0, RowsStay DEF alertVars
<1>2. CASE c \in members /\ ~Complete(st)
  <2>1. state' = st /\ UNCHANGED alertVars BY <1>2 DEF MaybeAlert
  <2> QED BY <2>1, <1>0, RowsStay DEF alertVars
<1>3. CASE c \in members /\ Complete(st) /\ memCool
  <2>1. state' = [m \in Camera |-> IF m \in members THEN Quiet ELSE st[m]]
    BY <1>3 DEF MaybeAlert
  <2>2. UNCHANGED alertVars BY <1>3 DEF MaybeAlert
  <2>3. ASSUME NEW d \in Camera
        PROVE /\ Good(d, state'[d]) /\ state'[d] \in RuleState
              /\ state'[d].since \in {NoEvent, state[d].since}
    <3>1. CASE d \in members
      <4>1. state'[d] = Quiet BY <2>1, <3>1
      <4> QED BY <4>1, QuietIsGood DEF Good
    <3>2. CASE d \notin members
      <4>1. state'[d] = st[d] BY <2>1, <3>2
      <4> QED BY <4>1 DEF Apt
    <3> QED BY <3>1, <3>2
  <2>4. state' \in [Camera -> RuleState] BY <2>1, <2>3
  <2>5. Apt(state') BY <2>3, <2>4 DEF Apt
  <2> QED BY <2>5, <2>2, <1>0, RowsStay DEF alertVars
<1>4. CASE c \in members /\ Complete(st) /\ ~memCool
  <2>1. state' = st /\ Enqueue([m \in members |-> st[m].since], c, st)
    BY <1>4 DEF MaybeAlert
  <2>2. RowsGrow BY <2>1, <1>4, EnqueueGrows
  <2> QED BY <2>1, <2>2
<1> QED BY <1>1, <1>2, <1>3, <1>4

LEMMA OnlyIsApt ==
  ASSUME OInv, NEW st, Apt(st), Only(st), UNCHANGED events
  PROVE Apt(state') /\ RowsGrow
BY RowsStay DEF OInv, Only, alertVars

-----------------------------------------------------------------------------
(* Steps by what they touch *)

\* No camera begins to time an absence, unless it is a new one.
SinceKept ==
  \A c \in Camera :
    \/ events'[c] = events[c] /\ state'[c].since \in {NoEvent, state[c].since}
    \/ events'[c] > events[c]

LEMMA RowsFollowEvents ==
  ASSUME Rows, Rules, events' \in [Camera -> Event],
         \A c \in Camera : events'[c] >= events[c], UNCHANGED rows
  PROVE RowsGrow
<1>1. ASSUME NEW key \in DOMAIN rows
      PROVE Keyed(key)'
  <2>1. Keyed(key) BY DEF Rows
  <2>2. ASSUME NEW c \in DOMAIN key
        PROVE key[c] \in Event /\ key[c] <= events'[c]
    <3>1. c \in Camera /\ key[c] \in Event /\ key[c] <= events[c] BY <2>1 DEF Keyed
    <3>2. events[c] \in Event /\ events'[c] \in Event BY <3>1 DEF Rules
    <3>3. events'[c] >= events[c] BY <3>1
    <3> QED BY <3>1, <3>2, <3>3, Bounds
  <2> QED BY <2>1, <2>2 DEF Keyed
<1>2. Rows' BY <1>1 DEF Rows, Row
<1> QED BY <1>2 DEF RowsGrow

LEMMA OverStays ==
  ASSUME Rules, events' \in [Camera -> Event], SinceKept,
         NEW c \in Camera, NEW e \in Event, Over(c, e)
  PROVE Over(c, e)'
<1>1. events[c] \in Event /\ events'[c] \in Event BY DEF Rules
<1>2. CASE events'[c] = events[c] /\ state'[c].since \in {NoEvent, state[c].since}
  BY <1>2 DEF Over
<1>3. CASE events'[c] > events[c]
  BY <1>1, <1>3, Bounds DEF Over
<1> QED BY <1>2, <1>3 DEF SinceKept

\* What holds of the alerts lasts while the writer waits.
LEMMA AlertsKept ==
  ASSUME Rules, Rows, Writer, Past, Apart, RowsGrow, SinceKept,
         events' \in [Camera -> Event], reached \subseteq reached', writer' = writer
  PROVE Writer' /\ Past' /\ Apart'
<1>1. /\ DOMAIN rows \subseteq DOMAIN rows'
      /\ \A key \in DOMAIN rows : rows'[key] = rows[key]
  BY DEF RowsGrow
<1>2. Alerted' = Alerted /\ Answered' = Answered
  <2>1. Alerted' = Alerted BY <1>1 DEF RowsGrow, Alerted
  <2> QED BY <2>1, <1>1 DEF Answered, Alerted
<1>3. writer.at \in {"saving", "commit", "after"} => writer.key \in DOMAIN rows
  BY DEF Writer, WriterSet, None
<1>4. Writer'
  <2>1. writer' \in WriterSet' BY <1>1 DEF Writer, WriterSet, None
  <2>2. /\ writer.at \in {"saving", "commit"} => rows'[writer.key].status = "queued"
        /\ writer.at = "after" => rows'[writer.key].status = writer.outcome
    BY <1>1, <1>3 DEF Writer
  <2> QED BY <2>1, <2>2 DEF Writer
<1>5. \A key : Passed(key) => Passed(key)' BY DEF Passed
<1>6. Committing' = Committing BY DEF Committing
<1>7. Past' BY <1>2, <1>5, <1>6 DEF Past
<1>8. \A key : Closing(key)' = Closing(key) BY DEF Closing
<1>9. ASSUME NEW key \in Answered, NEW c \in DOMAIN key, Over(c, key[c])
      PROVE Over(c, key[c])'
  <2>1. c \in Camera /\ key[c] \in Event BY DEF Rows, Keyed, Answered, Alerted
  <2> QED BY <2>1, <1>9, OverStays
<1>10. Apart' BY <1>2, <1>6, <1>8, <1>9 DEF Apart, AlertedOnce
<1> QED BY <1>4, <1>7, <1>10

\* A slice of the event loop that times no new absence.
LEMMA AptStep ==
  ASSUME OInv, Apt(state'), RowsGrow, UNCHANGED <<setting, events, reached, writer>>
  PROVE Rules' /\ Rows' /\ Writer' /\ Past' /\ Apart'
<1>1. Rules'
  <2>1. ASSUME NEW c \in Camera
        PROVE Good(c, state[c])'
    <3>1. Good(c, state'[c]) BY DEF Apt
    <3> QED BY <3>1 DEF Good, Behavior
  <2> QED BY <2>1 DEF OInv, Rules, Apt
<1>2. SinceKept BY DEF SinceKept, Apt
<1>3. events' \in [Camera -> Event] BY DEF OInv, Rules
<1>4. Rows' BY DEF RowsGrow
<1> QED BY <1>1, <1>2, <1>3, <1>4, AlertsKept DEF OInv

LEMMA ConfigStays ==
  ASSUME Config, UNCHANGED <<setting, worldVars, configVars>>
  PROVE Config'
BY DEF Config, worldVars, configVars

LEMMA PassesStay ==
  ASSUME Passes, UNCHANGED <<setting, pass>>
  PROVE Passes'
BY DEF Passes, SavingOf, Behavior

LEMMA PassSet ==
  ASSUME Passes, UNCHANGED setting, NEW c \in Camera, NEW p \in {None} \cup SavingOf(c),
         pass' = [pass EXCEPT ![c] = p]
  PROVE Passes'
<1>1. DOMAIN pass' = Camera BY DEF Passes
<1>2. \A d \in Camera : pass'[d] = IF d = c THEN p ELSE pass[d] BY DEF Passes
<1>3. \A d \in Camera : pass'[d] \in {None} \cup SavingOf(d) BY <1>2 DEF Passes
<1>4. \A d \in Camera : SavingOf(d)' = SavingOf(d) BY DEF SavingOf, Behavior
<1> QED BY <1>1, <1>3, <1>4 DEF Passes

LEMMA WorkStays ==
  ASSUME UNCHANGED setting, NEW c \in Camera
  PROVE RequestOf(c)' = RequestOf(c) /\ Work(c)' = Work(c)
<1>1. RequestOf(c)' = RequestOf(c) BY DEF RequestOf, Behavior
<1> QED BY <1>1 DEF Work, AtWork, Failed

LEMMA ReviewsStay ==
  ASSUME Reviews, UNCHANGED <<setting, reviewVars>>
  PROVE Reviews'
BY WorkStays DEF Reviews, reviewVars

LEMMA ActiveSet ==
  ASSUME Reviews, UNCHANGED <<setting, pending>>, NEW c \in Camera, NEW w \in Work(c),
         active' = [active EXCEPT ![c] = w]
  PROVE Reviews'
<1>1. \A d \in Camera : active'[d] = IF d = c THEN w ELSE active[d] BY DEF Reviews
<1>2. \A d \in Camera : active'[d] \in Work(d) BY <1>1 DEF Reviews
<1> QED BY <1>2, WorkStays DEF Reviews

LEMMA PendingSet ==
  ASSUME Reviews, UNCHANGED <<setting, active>>, NEW c \in Camera, NEW r \in RequestOf(c),
         pending' = [pending EXCEPT ![c] = r]
  PROVE Reviews'
<1>1. \A d \in Camera : pending'[d] = IF d = c THEN r ELSE pending[d] BY DEF Reviews
<1>2. \A d \in Camera : pending'[d] \in {None} \cup RequestOf(d) BY <1>1 DEF Reviews
<1> QED BY <1>2, WorkStays DEF Reviews

-----------------------------------------------------------------------------
(* The analysis of a camera *)

LEMMA QuietIsApt ==
  ASSUME OInv, NEW c \in Camera
  PROVE Apt([state EXCEPT ![c] = Quiet])
BY AptSet, QuietIsGood

LEMMA AsRequested ==
  ASSUME Config, NEW c \in Camera, NEW event \in Event, NEW frame \in Event,
         c \notin Behavior => event # NoEvent
  PROVE Request(event, frame) \in RequestOf(c)
BY DEF Config, Request, RequestOf, RequestSet

LEMMA ThenBehaviorOk ==
  ASSUME OInv, NEW c \in Camera, NEW event \in Event, NEW frame \in Event,
         ThenBehavior(c, event, frame), UNCHANGED <<setting, active>>
  PROVE Reviews'
<1>1. Config /\ Reviews BY DEF OInv
<1>2. CASE UNCHANGED pending BY <1>1, <1>2, ReviewsStay DEF reviewVars
<1>3. CASE c \in Behavior /\ Schedule(c, event, frame)
  <2>1. Request(event, frame) \in RequestOf(c) BY <1>1, <1>3, AsRequested
  <2> QED BY <1>1, <1>3, <2>1, PendingSet DEF Schedule
<1> QED BY <1>2, <1>3 DEF ThenBehavior

LEMMA SampleCoolingStep ==
  ASSUME OInv, NEW c \in Camera, SampleCooling(c), UNCHANGED setting
  PROVE OInv'
<1>1. Config' BY ConfigStays DEF OInv, SampleCooling
<1>2. Passes' BY PassesStay DEF OInv, SampleCooling
<1>3. Reviews'
  <2>1. ThenBehavior(c, NoEvent, AnyFrame) /\ UNCHANGED active BY DEF SampleCooling
  <2> QED BY <2>1, Bounds, ThenBehaviorOk
<1>4. Apt(state') BY QuietIsApt DEF SampleCooling
<1>5. RowsGrow BY RowsStay DEF OInv, SampleCooling, alertVars
<1>6. UNCHANGED <<setting, events, reached, writer>> BY DEF SampleCooling
<1>7. Rules' /\ Rows' /\ Writer' /\ Past' /\ Apart' BY <1>4, <1>5, <1>6, AptStep
<1> QED BY <1>1, <1>2, <1>3, <1>7 DEF OInv

LEMMA SampleQuietStep ==
  ASSUME OInv, NEW c \in Camera, SampleQuiet(c), UNCHANGED setting
  PROVE OInv'
<1>1. Config' BY ConfigStays DEF OInv, SampleQuiet
<1>2. Passes'
  <2>1. Passes BY DEF OInv
  <2>2. CASE UNCHANGED pass BY <2>1, <2>2, PassesStay
  <2>3. CASE pass' = [pass EXCEPT ![c] =
                       [at |-> "saving", event |-> NoEvent, crossed |-> FALSE,
                        due |-> FALSE, orphan |-> FALSE]]
    <3>1. [at |-> "saving", event |-> NoEvent, crossed |-> FALSE,
           due |-> FALSE, orphan |-> FALSE] \in SavingOf(c)
      BY Bounds DEF SavingOf
    <3> QED BY <2>1, <2>3, <3>1, PassSet
  <2> QED BY <2>2, <2>3 DEF SampleQuiet
<1>3. Reviews' BY ReviewsStay DEF OInv, SampleQuiet
<1>4. Apt(state') BY QuietIsApt DEF SampleQuiet
<1>5. RowsGrow BY RowsStay DEF OInv, SampleQuiet, alertVars
<1>6. UNCHANGED <<setting, events, reached, writer>> BY DEF SampleQuiet
<1>7. Rules' /\ Rows' /\ Writer' /\ Past' /\ Apart' BY <1>4, <1>5, <1>6, AptStep
<1> QED BY <1>1, <1>2, <1>3, <1>7 DEF OInv

LEMMA BehaviorPassStep ==
  ASSUME OInv, NEW c \in Camera, BehaviorPass(c), UNCHANGED setting
  PROVE OInv'
<1>1. Config' BY ConfigStays DEF OInv, BehaviorPass
<1>2. Passes' BY PassesStay DEF OInv, BehaviorPass
<1>3. Reviews'
  <2>1. state[c].since \in Event BY DEF OInv, Rules, RuleState
  <2>2. ThenBehavior(c, state[c].since, AnyFrame) /\ UNCHANGED active
    BY DEF BehaviorPass, ThenBehavior
  <2> QED BY <2>1, <2>2, Bounds, ThenBehaviorOk
<1>4. Apt(state') BY AptNow DEF BehaviorPass, ruleVars
<1>5. RowsGrow BY RowsStay DEF OInv, BehaviorPass, alertVars, ruleVars
<1>6. UNCHANGED <<setting, events, reached, writer>> BY DEF BehaviorPass, ruleVars
<1>7. Rules' /\ Rows' /\ Writer' /\ Past' /\ Apart' BY <1>4, <1>5, <1>6, AptStep
<1> QED BY <1>1, <1>2, <1>3, <1>7 DEF OInv

LEMMA SavedStep ==
  ASSUME OInv, NEW c \in Camera, Saved(c), UNCHANGED setting
  PROVE OInv'
<1> DEFINE p == pass[c]
           frame == IF p.crossed THEN p.event ELSE AnyFrame
           s == IF p.crossed THEN Latched(state[c], frame) ELSE state[c]
           t(accepted) == IF p.due /\ accepted THEN [s EXCEPT !.asked = TRUE] ELSE s
           st(accepted) == IF p.orphan THEN state ELSE [state EXCEPT ![c] = t(accepted)]
<1>1. Config' BY ConfigStays DEF OInv, Saved
<1>2. Passes'
  <2>1. pass' = [pass EXCEPT ![c] = None] BY DEF Saved
  <2> QED BY <2>1, PassSet DEF OInv
<1>3. p \in SavingOf(c) BY DEF OInv, Passes, Saved
<1>4. /\ p.event \in Event /\ frame \in Event
      /\ p.due => c \notin Behavior /\ p.event # NoEvent
  BY <1>3, Bounds DEF SavingOf
<1>5. Good(c, state[c]) /\ state[c].since \in {NoEvent, state[c].since}
  BY DEF OInv, Rules
<1>6. Good(c, s) /\ s.since = state[c].since
  <2>1. CASE p.crossed BY <2>1, <1>4, <1>5, LatchedIsGood
  <2>2. CASE ~p.crossed BY <2>2, <1>5
  <2> QED BY <2>1, <2>2
<1>7. PICK accepted \in BOOLEAN :
        /\ IF p.due
           THEN IF accepted THEN Schedule(c, p.event, frame) ELSE UNCHANGED pending
           ELSE ThenBehavior(c, p.event, frame)
        /\ \/ MaybeAlert(c, st(accepted))
           \/ Only(st(accepted))
  BY DEF Saved
<1>8. UNCHANGED <<setting, active>> /\ UNCHANGED <<setting, events, reached, writer>>
  BY DEF Saved
<1>9. Reviews'
  <2>1. Config /\ Reviews BY DEF OInv
  <2> HIDE DEF p, frame, s, t, st
  <2>2. CASE p.due /\ accepted
    <3>1. Schedule(c, p.event, frame) BY <2>2, <1>7
    <3>2. Request(p.event, frame) \in RequestOf(c) BY <2>1, <2>2, <1>4, AsRequested
    <3> QED BY <2>1, <3>1, <3>2, <1>8, PendingSet DEF Schedule
  <2>3. CASE p.due /\ ~accepted
    <3>1. UNCHANGED <<setting, reviewVars>> BY <2>3, <1>7, <1>8 DEF reviewVars
    <3> QED BY <2>1, <3>1, ReviewsStay
  <2>4. CASE ~p.due
    <3>1. ThenBehavior(c, p.event, frame) BY <2>4, <1>7
    <3> QED BY <3>1, <1>4, <1>8, ThenBehaviorOk
  <2> QED BY <2>2, <2>3, <2>4
<1>10. Good(c, t(accepted)) /\ t(accepted).since = state[c].since
  <2> HIDE DEF s
  <2> QED BY <1>6, AskedIsGood
<1>11. Apt(st(accepted))
  <2> HIDE DEF t, s
  <2>1. CASE p.orphan BY <2>1, AptNow
  <2>2. CASE ~p.orphan BY <2>2, <1>10, AptSet
  <2> QED BY <2>1, <2>2
<1>12. Apt(state') /\ RowsGrow
  <2> HIDE DEF st
  <2>1. UNCHANGED events BY <1>8
  <2> QED BY <2>1, <1>7, <1>11, MaybeAlertIsApt, OnlyIsApt
<1>13. Rules' /\ Rows' /\ Writer' /\ Past' /\ Apart' BY <1>8, <1>12, AptStep
<1> QED BY <1>1, <1>2, <1>9, <1>13 DEF OInv

\* A sample without people times an absence, which may be a new one.
LEMMA SampleAbsentStep ==
  ASSUME OInv, NEW c \in Camera, SampleAbsent(c), UNCHANGED setting
  PROVE OInv'
<1>1. Config' BY ConfigStays DEF OInv, SampleAbsent
<1>2. Reviews' BY ReviewsStay DEF OInv, SampleAbsent
<1>3. UNCHANGED <<setting, rows, writer>> BY DEF SampleAbsent, alertVars
<1>4. PICK newShift, over, retry \in BOOLEAN :
        LET s == IF newShift THEN Quiet ELSE state[c]
            starts == s.since = NoEvent
            crosses == ~starts /\ over /\ ~s.alerted /\ s.since < MaxEvent
            t == IF starts THEN [s EXCEPT !.since = events[c] + 1]
                 ELSE [s EXCEPT !.alerted = s.alerted \/ crosses] IN
        /\ newShift => "shift" \in Disturb
        /\ starts => events[c] < MaxEvent
        /\ state' = [state EXCEPT ![c] = t]
        /\ events' = IF starts THEN [events EXCEPT ![c] = t.since] ELSE events
        /\ reached' = IF crosses THEN reached \cup {<<c, t.since>>} ELSE reached
        /\ pass' = [pass EXCEPT ![c] =
                      [at |-> "saving", event |-> t.since, crossed |-> crosses,
                       due |-> /\ c \notin Behavior /\ t.alerted /\ ~t.confirmed
                               /\ ~t.asked \/ retry,
                       orphan |-> FALSE]]
  BY Zenon DEF SampleAbsent
<1> DEFINE v == IF newShift THEN Quiet ELSE state[c]
           new == v.since = NoEvent
           cross == ~new /\ over /\ ~v.alerted /\ v.since < MaxEvent
           u == IF new THEN [v EXCEPT !.since = events[c] + 1]
                ELSE [v EXCEPT !.alerted = v.alerted \/ cross]
<1>5. Good(c, v) /\ v.since \in {NoEvent, state[c].since}
  BY QuietIsGood DEF OInv, Rules
<1>6. /\ events[c] \in Event /\ state \in [Camera -> RuleState]
      /\ events \in [Camera -> Event]
  BY DEF OInv, Rules
<1>7. /\ new => events[c] < MaxEvent
      /\ state' = [state EXCEPT ![c] = u]
      /\ new => events' = [events EXCEPT ![c] = u.since]
      /\ ~new => events' = events
      /\ cross => reached' = reached \cup {<<c, u.since>>}
      /\ ~cross => reached' = reached
  BY <1>4
<1>8. pass' = [pass EXCEPT ![c] =
             [at |-> "saving", event |-> u.since, crossed |-> cross,
              due |-> /\ c \notin Behavior /\ u.alerted /\ ~u.confirmed
                      /\ ~u.asked \/ retry,
              orphan |-> FALSE]]
  BY <1>4, Zenon
<1> HIDE DEF v
<1>9. /\ new => u = [v EXCEPT !.since = events[c] + 1]
      /\ ~new => u = [v EXCEPT !.alerted = v.alerted \/ cross]
  OBVIOUS
<1>10. /\ new <=> v.since = NoEvent
       /\ cross => ~new /\ v.since < MaxEvent
  OBVIOUS
<1>11. cross \in BOOLEAN OBVIOUS
<1> HIDE DEF u, new, cross
<1>12. /\ v \in RuleState /\ v.since \in {NoEvent, events[c]}
       /\ v.since = NoEvent => ~v.alerted
       /\ v.alerted => <<c, v.since>> \in reached
       /\ c \notin Behavior /\ v.confirmed => v.since # NoEvent /\ v.basis.event = v.since
  BY <1>5 DEF Good
<1>13. ASSUME new
       PROVE /\ u \in RuleState /\ u.since = events[c] + 1 /\ u.since \in Event
             /\ u.alerted = v.alerted /\ ~v.alerted /\ u.confirmed = v.confirmed
             /\ c \notin Behavior => ~v.confirmed
  <2>1. events[c] + 1 \in Event BY <1>13, <1>6, <1>7, Bounds DEF NoEvent
  <2>2. /\ u \in RuleState /\ u.since = events[c] + 1 /\ u.alerted = v.alerted
        /\ u.confirmed = v.confirmed
    BY <2>1, <1>13, <1>9, <1>12 DEF RuleState
  <2>3. v.since = NoEvent BY <1>13, <1>10
  <2> QED BY <2>1, <2>2, <2>3, <1>12
<1>14. ASSUME ~new
       PROVE /\ u \in RuleState /\ u.since = v.since /\ u.since # NoEvent
             /\ u.alerted = (v.alerted \/ cross) /\ u.confirmed = v.confirmed
             /\ u.basis = v.basis
  <2>1. u = [v EXCEPT !.alerted = v.alerted \/ cross] BY <1>14, <1>9
  <2>2. (v.alerted \/ cross) \in BOOLEAN OBVIOUS
  <2>3. /\ u \in RuleState /\ u.since = v.since
        /\ u.alerted = (v.alerted \/ cross) /\ u.confirmed = v.confirmed
        /\ u.basis = v.basis
    BY <2>1, <2>2, <1>12 DEF RuleState
  <2> QED BY <2>3, <1>14, <1>10
<1>15. u \in RuleState /\ u.since \in Event BY <1>13, <1>14 DEF RuleState
<1>16. events' \in [Camera -> Event] BY <1>6, <1>7, <1>15
<1>17. reached \subseteq reached' BY <1>7
<1>18. state' \in [Camera -> RuleState] BY <1>6, <1>7, <1>15
<1>19. \A d \in Camera : d # c => state'[d] = state[d] /\ events'[d] = events[d]
  BY <1>6, <1>7
<1>20. state'[c] = u BY <1>6, <1>7
<1>21. Good(c, state[c])'
  <2>1. CASE new
    <3>1. events'[c] = u.since BY <2>1, <1>6, <1>7
    <3> QED BY <3>1, <2>1, <1>13, <1>20 DEF Good, Behavior
  <2>2. CASE ~new
    <3>1. events'[c] = events[c] /\ v.since # NoEvent BY <2>2, <1>10, <1>7
    <3>2. ASSUME u.alerted PROVE <<c, u.since>> \in reached'
      <4>1. CASE cross BY <4>1, <1>7
      <4>2. CASE v.alerted BY <4>2, <2>2, <1>12, <1>14, <1>17
      <4> QED BY <3>2, <4>1, <4>2, <2>2, <1>14
    <3>3. /\ u \in RuleState /\ u.since \in {NoEvent, events'[c]} /\ u.since # NoEvent
      BY <3>1, <2>2, <1>12, <1>14
    <3>4. c \notin Behavior /\ u.confirmed => u.basis.event = u.since
      BY <2>2, <1>12, <1>14
    <3>5. c \notin Behavior' => c \notin Behavior BY DEF Behavior
    <3> HIDE DEF Behavior
    <3> QED BY <3>2, <3>3, <3>4, <3>5, <1>20 DEF Good
  <2> QED BY <2>1, <2>2
<1>22. ASSUME NEW d \in Camera
       PROVE Good(d, state[d])'
  <2>1. CASE d = c BY <2>1, <1>21
  <2>2. CASE d # c
    <3>1. Good(d, state[d]) BY DEF OInv, Rules
    <3> QED BY <3>1, <2>2, <1>17, <1>19 DEF Good, Behavior
  <2> QED BY <2>1, <2>2
<1>23. ASSUME NEW d \in Camera, NEW e \in Event, <<d, e>> \in reached'
       PROVE e # NoEvent /\ e < MaxEvent
  <2>1. CASE <<d, e>> \in reached BY <2>1 DEF OInv, Rules
  <2>2. CASE <<d, e>> \notin reached
    <3>1. cross /\ <<d, e>> = <<c, u.since>> BY <2>2, <1>7, <1>23
    <3>2. e = u.since BY <3>1
    <3> QED BY <3>1, <3>2, <1>10, <1>14
  <2> QED BY <2>1, <2>2
<1>24. Rules' BY <1>16, <1>18, <1>22, <1>23 DEF Rules
<1>25. Passes'
  <2> DEFINE q == [at |-> "saving", event |-> u.since, crossed |-> cross,
                   due |-> /\ c \notin Behavior /\ u.alerted /\ ~u.confirmed
                           /\ ~u.asked \/ retry,
                   orphan |-> FALSE]
  <2>1. u.alerted => u.since # NoEvent
    <3>1. CASE new BY <3>1, <1>13
    <3>2. CASE ~new BY <3>2, <1>14
    <3> QED BY <3>1, <3>2
  <2>2. q \in SavingOf(c)
    <3> DEFINE due == /\ c \notin Behavior /\ u.alerted /\ ~u.confirmed
                      /\ ~u.asked \/ retry
    <3>1. due \in BOOLEAN /\ (due => c \notin Behavior /\ u.alerted) OBVIOUS
    <3>2. q = [at |-> "saving", event |-> u.since, crossed |-> cross, due |-> due,
               orphan |-> FALSE]
      OBVIOUS
    <3> HIDE DEF due, q
    <3> QED BY <3>1, <3>2, <2>1, <1>11, <1>15 DEF SavingOf
  <2> QED BY <2>2, <1>3, <1>8, PassSet DEF OInv
<1>26. SinceKept
  <2>1. ASSUME NEW d \in Camera
        PROVE \/ events'[d] = events[d] /\ state'[d].since \in {NoEvent, state[d].since}
              \/ events'[d] > events[d]
    <3>1. CASE d # c BY <3>1, <1>19
    <3>2. CASE d = c /\ new
      <4>1. events'[c] = events[c] + 1 BY <3>2, <1>6, <1>7, <1>13
      <4> QED BY <4>1, <3>2, <1>6, Bounds
    <3>3. CASE d = c /\ ~new
      <4>1. events'[c] = events[c] BY <3>3, <1>7
      <4> QED BY <4>1, <3>3, <1>5, <1>14, <1>20
    <3> QED BY <3>1, <3>2, <3>3
  <2> QED BY <2>1 DEF SinceKept
<1>27. RowsGrow
  <2>1. ASSUME NEW d \in Camera
        PROVE events'[d] >= events[d]
    <3>1. events[d] \in Int /\ events'[d] \in Int BY <1>6, <1>16, Bounds
    <3> QED BY <3>1, <1>26 DEF SinceKept
  <2> QED BY <2>1, <1>3, <1>16, RowsFollowEvents DEF OInv
<1>28. Rows' BY <1>27 DEF RowsGrow
<1>29. Writer' /\ Past' /\ Apart'
  BY <1>3, <1>16, <1>17, <1>26, <1>27, AlertsKept DEF OInv
<1> QED BY <1>1, <1>2, <1>24, <1>25, <1>28, <1>29 DEF OInv

-----------------------------------------------------------------------------
(* The reviews *)

LEMMA ReviewStep ==
  ASSUME OInv, UNCHANGED <<setting, ReviewFrame>>, Apt(state'), RowsGrow, Reviews'
  PROVE OInv'
<1>1. Config' BY ConfigStays DEF OInv, ReviewFrame
<1>2. Passes' BY PassesStay DEF OInv, ReviewFrame
<1>3. UNCHANGED <<setting, events, reached, writer>> BY DEF ReviewFrame
<1>4. Rules' /\ Rows' /\ Writer' /\ Past' /\ Apart' BY <1>3, AptStep
<1> QED BY <1>1, <1>2, <1>4 DEF OInv

\* The rule states and the rows stay.
LEMMA QuietReviewStep ==
  ASSUME OInv, UNCHANGED <<setting, ReviewFrame>>, UNCHANGED <<state, alertVars>>, Reviews'
  PROVE OInv'
<1>1. Apt(state') BY AptNow
<1>2. RowsGrow BY RowsStay DEF OInv, ReviewFrame, alertVars
<1> QED BY <1>1, <1>2, ReviewStep

LEMMA WorkFacts ==
  ASSUME OInv, NEW c \in Camera
  PROVE /\ active[c].at \in {"saving", "asking"} => active[c] \in AtWork(c)
        /\ active[c].at \in {"done", "unapplied"} => active[c] \in Returned \cup Failed(c)
        /\ active[c].at \in {"none", "saving", "asking", "done", "unapplied"}
<1>1. active[c] \in {None} \cup AtWork(c) \cup Returned \cup Failed(c)
  BY DEF OInv, Reviews, Work
<1>2. CASE active[c] = None BY <1>2 DEF None
<1>3. CASE active[c] \in AtWork(c) BY <1>3 DEF AtWork
<1>4. CASE active[c] \in Returned BY <1>4 DEF Returned
<1>5. CASE active[c] \in Failed(c) BY <1>5 DEF Failed
<1> QED BY <1>1, <1>2, <1>3, <1>4, <1>5

LEMMA RequestFacts ==
  ASSUME NEW c \in Camera, NEW r \in RequestOf(c)
  PROVE /\ r.event \in Event /\ r.frame \in Event
        /\ c \notin Behavior => r.event # NoEvent
BY DEF RequestOf, RequestSet

LEMMA ReturnsOk ==
  ASSUME OInv, NEW c \in Camera, Returns(c), UNCHANGED <<setting, pending>>
  PROVE Reviews'
<1>1. [at |-> "done", failed |-> FALSE] \in Work(c) BY DEF Work, Returned
<1> QED BY <1>1, ActiveSet DEF OInv, Returns

LEMMA Verdicts ==
  ASSUME setting \in Setting
  PROVE Verdict \subseteq Said
BY OffDutyAssumption DEF OffDutyAssumption, Verdict, Said

LEMMA RecordedIsApt ==
  ASSUME OInv, NEW c \in Camera, NEW confirmed \in BOOLEAN,
         NEW frame \in Event \cup {NoFrame}, NEW event \in Event, NEW said \in Said,
         confirmed /\ c \notin Behavior => state[c].since = event /\ event # NoEvent
  PROVE Apt([state EXCEPT ![c] = Recorded(state[c], confirmed, frame, event, said)])
<1>1. Good(c, state[c]) BY DEF OInv, Rules
<1> DEFINE s == Recorded(state[c], confirmed, frame, event, said)
<1>2. Good(c, s) /\ s.since = state[c].since BY <1>1, RecordedIsGood
<1>3. s.since \in {NoEvent, state[c].since} BY <1>2
<1> QED BY <1>2, <1>3, AptSet, Zenon

LEMMA WrittenIsApt ==
  ASSUME OInv, NEW c \in Camera, NEW s, Apt([state EXCEPT ![c] = s])
  PROVE Apt(Written(c, s))
BY AptNow DEF Written

LEMMA ConfirmsIsApt ==
  ASSUME OInv, NEW c \in Camera, c \in Behavior, NEW r \in RequestOf(c), NEW said \in Said,
         Confirms(c, r, said), UNCHANGED events
  PROVE Apt(state') /\ RowsGrow
<1> DEFINE s == Recorded(state[c], TRUE, r.frame, r.event, said)
           st == [state EXCEPT ![c] = s]
<1>1. r.event \in Event /\ r.frame \in Event BY RequestFacts
<1>2. Apt(st) BY <1>1, RecordedIsApt
<1>3. \/ Only(state) \/ MaybeAlert(c, state)
      \/ MaybeAlert(c, st) \/ Only(st)
  BY DEF Confirms
<1> HIDE DEF s, st
<1> QED BY <1>2, <1>3, AptNow, MaybeAlertIsApt, OnlyIsApt

LEMMA CompletesIsApt ==
  ASSUME OInv, NEW c \in Camera, active[c].request \in RequestOf(c),
         Completes(c), UNCHANGED events
  PROVE Apt(state') /\ RowsGrow
<1> DEFINE r == active[c].request
           s == Recorded(state[c], TRUE, r.frame, r.event, "timeout")
           st == [state EXCEPT ![c] = s]
<1>1. CASE Only(state) BY <1>1, AptNow, OnlyIsApt
<1>2. CASE c \in Behavior /\ (MaybeAlert(c, st) \/ Only(st))
  <2>1. r.event \in Event /\ r.frame \in Event BY RequestFacts
  <2>2. "timeout" \in Said BY DEF Said
  <2>3. Apt(st) BY <1>2, <2>1, <2>2, RecordedIsApt
  <2> HIDE DEF st
  <2> QED BY <1>2, <2>3, MaybeAlertIsApt, OnlyIsApt
<1> QED BY <1>1, <1>2 DEF Completes

LEMMA TakeReviewStep ==
  ASSUME OInv, NEW c \in Camera, TakeReview(c), UNCHANGED setting
  PROVE OInv'
<1> DEFINE w == [at |-> "saving", request |-> pending[c], failed |-> FALSE, orphan |-> FALSE]
<1>1. /\ active' = [active EXCEPT ![c] = w]
      /\ pending' = [pending EXCEPT ![c] = None]
      /\ UNCHANGED <<setting, ReviewFrame>> /\ UNCHANGED <<state, alertVars>>
  BY DEF TakeReview, ReviewFrame, alertVars
<1>2. pending[c] \in RequestOf(c) BY DEF TakeReview, OInv, Reviews
<1>3. w \in Work(c) BY <1>2 DEF Work, AtWork
<1>4. Reviews BY DEF OInv
<1> HIDE DEF w
<1>5. \A d \in Camera : /\ active'[d] = IF d = c THEN w ELSE active[d]
                        /\ pending'[d] = IF d = c THEN None ELSE pending[d]
  BY <1>1, <1>4 DEF Reviews
<1>6. \A d \in Camera : active'[d] \in Work(d) /\ pending'[d] \in {None} \cup RequestOf(d)
  BY <1>3, <1>4, <1>5 DEF Reviews
<1>7. DOMAIN active' = Camera /\ DOMAIN pending' = Camera BY <1>1, <1>4 DEF Reviews
<1>8. Reviews' BY <1>6, <1>7, WorkStays DEF Reviews
<1> QED BY <1>1, <1>8, QuietReviewStep

\* A part of a review that changes neither the kind of work nor its request.
LEMMA GoesOnOk ==
  ASSUME OInv, NEW c \in Camera, NEW at, GoesOn(c, at), UNCHANGED <<setting, pending>>,
         \/ active[c] \in AtWork(c) /\ at = "asking"
         \/ active[c] \in Returned \cup Failed(c) /\ at \in {"done", "unapplied"}
  PROVE Reviews'
<1>1. active' = [active EXCEPT ![c] = [active[c] EXCEPT !.at = at]] BY DEF GoesOn
<1>2. [active[c] EXCEPT !.at = at] \in Work(c)
  <2>1. CASE active[c] \in AtWork(c) /\ at = "asking"
    <3>1. [active[c] EXCEPT !.at = at] \in AtWork(c) BY <2>1 DEF AtWork
    <3> QED BY <3>1 DEF Work
  <2>2. CASE active[c] \in Returned /\ at \in {"done", "unapplied"}
    <3>1. [active[c] EXCEPT !.at = at] \in Returned BY <2>2 DEF Returned
    <3> QED BY <3>1 DEF Work
  <2>3. CASE active[c] \in Failed(c) /\ at \in {"done", "unapplied"}
    <3>1. [active[c] EXCEPT !.at = at] \in Failed(c) BY <2>3 DEF Failed
    <3> QED BY <3>1 DEF Work
  <2> QED BY <2>1, <2>2, <2>3
<1>3. Reviews BY DEF OInv
<1> QED BY <1>1, <1>2, <1>3, ActiveSet

LEMMA AskStep ==
  ASSUME OInv, NEW c \in Camera, Ask(c), UNCHANGED setting
  PROVE OInv'
<1>1. UNCHANGED <<setting, ReviewFrame>> /\ UNCHANGED <<state, alertVars>>
      /\ UNCHANGED <<setting, pending>>
  BY DEF Ask, ReviewFrame, alertVars
<1>2. active[c] \in AtWork(c) BY WorkFacts DEF Ask, Review
<1>3. Reviews'
  <2>1. CASE GoesOn(c, "asking") BY <2>1, <1>1, <1>2, GoesOnOk
  <2>2. CASE Returns(c) BY <2>2, <1>1, ReturnsOk
  <2> QED BY <2>1, <2>2 DEF Ask
<1> QED BY <1>1, <1>3, QuietReviewStep

LEMMA AnswerOffDutyStep ==
  ASSUME OInv, NEW c \in Camera, AnswerOffDuty(c), UNCHANGED setting
  PROVE OInv'
<1> DEFINE r == active[c].request
           s(confirmed, frame, said) == Recorded(state[c], confirmed, frame, r.event, said)
<1>1. /\ UNCHANGED <<setting, ReviewFrame>> /\ UNCHANGED <<setting, pending>>
      /\ UNCHANGED events /\ Returns(c) /\ c \notin Behavior
  BY DEF AnswerOffDuty, ReviewFrame
<1>2. active[c] \in AtWork(c) BY WorkFacts DEF AnswerOffDuty, Review
<1>3. r \in RequestOf(c) BY <1>2 DEF AtWork
<1>4. r.event \in Event /\ r.frame \in Event /\ r.event # NoEvent
  BY <1>1, <1>3, RequestFacts
<1>5. Reviews' BY <1>1, ReturnsOk
<1>6. PICK said \in Verdict :
        IF ~ValidNow(c, r) THEN Only(state)
        ELSE IF said = "confirmed"
        THEN MaybeAlert(c, Written(c, s(TRUE, r.frame, said)))
        ELSE IF said = "none" THEN Only(Written(c, Quiet))
        ELSE Only(Written(c, s(FALSE, NoFrame, said)))
  BY Zenon DEF AnswerOffDuty
<1>7. said \in Said BY Verdicts DEF OInv, Config
<1>8. Apt(state') /\ RowsGrow
  <2>1. CASE Only(state) BY <2>1, <1>1, AptNow, OnlyIsApt
  <2>2. CASE ValidNow(c, r) /\ MaybeAlert(c, Written(c, s(TRUE, r.frame, said)))
    <3>1. state[c].since = r.event BY <2>2 DEF ValidNow
    <3>2. Apt([state EXCEPT ![c] = s(TRUE, r.frame, said)])
      BY <1>4, <1>7, <3>1, RecordedIsApt
    <3>3. Apt(Written(c, s(TRUE, r.frame, said))) BY <3>2, WrittenIsApt
    <3> HIDE DEF s
    <3> QED BY <2>2, <3>3, <1>1, MaybeAlertIsApt
  <2>3. CASE Only(Written(c, Quiet))
    <3>1. Apt(Written(c, Quiet)) BY QuietIsApt, WrittenIsApt
    <3> QED BY <2>3, <3>1, <1>1, OnlyIsApt
  <2>4. CASE Only(Written(c, s(FALSE, NoFrame, said)))
    <3>1. Apt([state EXCEPT ![c] = s(FALSE, NoFrame, said)])
      BY <1>4, <1>7, RecordedIsApt
    <3>2. Apt(Written(c, s(FALSE, NoFrame, said))) BY <3>1, WrittenIsApt
    <3> HIDE DEF s
    <3> QED BY <2>4, <3>2, <1>1, OnlyIsApt
  <2> HIDE DEF r, s
  <2> QED BY <1>6, <2>1, <2>2, <2>3, <2>4
<1> QED BY <1>1, <1>5, <1>8, ReviewStep

LEMMA AnswerBehaviorStep ==
  ASSUME OInv, NEW c \in Camera, AnswerBehavior(c), UNCHANGED setting
  PROVE OInv'
<1> DEFINE r == active[c].request
<1>1. /\ UNCHANGED <<setting, ReviewFrame>> /\ UNCHANGED <<setting, pending>>
      /\ UNCHANGED events /\ Returns(c) /\ c \in Behavior
  BY DEF AnswerBehavior, ReviewFrame
<1>2. active[c] \in AtWork(c) BY WorkFacts DEF AnswerBehavior, Review
<1>3. r \in RequestOf(c) BY <1>2 DEF AtWork
<1>4. Reviews' BY <1>1, ReturnsOk
<1>5. PICK said \in Verdict :
        Only(state) \/ Only(Written(c, Quiet)) \/ Confirms(c, r, said)
  BY DEF AnswerBehavior
<1>6. said \in Said BY Verdicts DEF OInv, Config
<1>7. Apt(state') /\ RowsGrow
  <2>1. CASE Only(state) BY <2>1, <1>1, AptNow, OnlyIsApt
  <2>2. CASE Only(Written(c, Quiet))
    <3>1. Apt(Written(c, Quiet)) BY QuietIsApt, WrittenIsApt
    <3> QED BY <2>2, <3>1, <1>1, OnlyIsApt
  <2>3. CASE Confirms(c, r, said) BY <2>3, <1>1, <1>3, <1>6, ConfirmsIsApt
  <2> QED BY <1>5, <2>1, <2>2, <2>3
<1> QED BY <1>1, <1>4, <1>7, ReviewStep

LEMMA UnconfiguredStep ==
  ASSUME OInv, NEW c \in Camera, Unconfigured(c), UNCHANGED setting
  PROVE OInv'
<1> DEFINE r == active[c].request
           s == Recorded(state[c], FALSE, NoFrame, r.event, "unconfigured")
<1>1. /\ UNCHANGED <<setting, ReviewFrame>> /\ UNCHANGED <<setting, pending>>
      /\ UNCHANGED events /\ Returns(c)
  BY DEF Unconfigured, ReviewFrame
<1>2. active[c] \in AtWork(c) BY WorkFacts DEF Unconfigured, Review
<1>3. r \in RequestOf(c) BY <1>2 DEF AtWork
<1>4. Reviews' BY <1>1, ReturnsOk
<1>5. "unconfigured" \in Said BY DEF Said
<1>6. \/ Only([state EXCEPT ![c] = s]) \/ Only(state)
      \/ c \in Behavior /\ Confirms(c, r, "unconfigured")
  BY DEF Unconfigured
<1>7. Apt(state') /\ RowsGrow
  <2>1. CASE Only(state) BY <2>1, <1>1, AptNow, OnlyIsApt
  <2>2. CASE Only([state EXCEPT ![c] = s])
    <3>1. r.event \in Event BY <1>3, RequestFacts
    <3>2. Apt([state EXCEPT ![c] = s]) BY <3>1, <1>5, RecordedIsApt
    <3> HIDE DEF s
    <3> QED BY <2>2, <3>2, <1>1, OnlyIsApt
  <2>3. CASE c \in Behavior /\ Confirms(c, r, "unconfigured")
    BY <2>3, <1>1, <1>3, <1>5, ConfirmsIsApt
  <2> QED BY <1>6, <2>1, <2>2, <2>3
<1> QED BY <1>1, <1>4, <1>7, ReviewStep

LEMMA ReviewFailsStep ==
  ASSUME OInv, NEW c \in Camera, ReviewFails(c), UNCHANGED setting
  PROVE OInv'
<1> DEFINE w == [active[c] EXCEPT !.at = "done", !.failed = TRUE]
<1>1. /\ UNCHANGED <<setting, ReviewFrame>> /\ UNCHANGED <<setting, pending>>
      /\ UNCHANGED events /\ Completes(c)
  BY DEF ReviewFails, ReviewFrame
<1>2. active[c] \in AtWork(c) BY WorkFacts DEF ReviewFails, Review
<1>3. active[c].request \in RequestOf(c) BY <1>2 DEF AtWork
<1>4. Reviews'
  <2>1. w \in Failed(c) BY <1>2 DEF AtWork, Failed
  <2>2. w \in Work(c) BY <2>1 DEF Work
  <2>3. active' = [active EXCEPT ![c] = w]
    <3>1. active' = [active EXCEPT ![c].at = "done", ![c].failed = TRUE] BY DEF ReviewFails
    <3>2. c \in DOMAIN active BY DEF OInv, Reviews
    <3> QED BY <3>1, <3>2
  <2> QED BY <2>2, <2>3, <1>1, ActiveSet DEF OInv
<1>5. Apt(state') /\ RowsGrow BY <1>1, <1>3, CompletesIsApt
<1> QED BY <1>1, <1>4, <1>5, ReviewStep

LEMMA FinishStep ==
  ASSUME OInv, NEW c \in Camera, Finish(c), UNCHANGED setting
  PROVE OInv'
<1>1. /\ UNCHANGED <<setting, ReviewFrame>> /\ UNCHANGED <<state, alertVars>>
      /\ UNCHANGED <<setting, pending>>
  BY DEF Finish, ReviewFrame, alertVars
<1>2. active[c] \in Returned \cup Failed(c) BY WorkFacts DEF Finish, Review
<1>3. Reviews'
  <2>1. CASE active' = [active EXCEPT ![c] = None]
    <3>1. None \in Work(c) BY DEF Work
    <3> QED BY <2>1, <3>1, <1>1, ActiveSet DEF OInv
  <2>2. CASE GoesOn(c, "unapplied") BY <2>2, <1>1, <1>2, GoesOnOk
  <2> QED BY <2>1, <2>2 DEF Finish
<1> QED BY <1>1, <1>3, QuietReviewStep

LEMMA RetryResultStep ==
  ASSUME OInv, NEW c \in Camera, RetryResult(c), UNCHANGED setting
  PROVE OInv'
<1>1. /\ UNCHANGED <<setting, ReviewFrame>> /\ UNCHANGED <<setting, pending>>
      /\ UNCHANGED events /\ GoesOn(c, "done")
  BY DEF RetryResult, ReviewFrame
<1>2. active[c] \in Returned \cup Failed(c) BY WorkFacts DEF RetryResult, Review
<1>3. Reviews' BY <1>1, <1>2, GoesOnOk
<1>4. Apt(state') /\ RowsGrow
  <2>1. CASE active[c].failed
    <3>1. active[c] \in Failed(c) BY <2>1, <1>2 DEF Returned
    <3>2. active[c].request \in RequestOf(c) BY <3>1 DEF Failed
    <3> QED BY <2>1, <3>2, <1>1, CompletesIsApt DEF RetryResult
  <2>2. CASE ~active[c].failed
    BY <2>2, <1>1, AptNow, OnlyIsApt DEF RetryResult
  <2> QED BY <2>1, <2>2
<1> QED BY <1>1, <1>3, <1>4, ReviewStep

-----------------------------------------------------------------------------
(* The writer *)

LEMMA BesideTheWriter ==
  ASSUME OInv, UNCHANGED <<setting, WriterFrame, state>>
  PROVE Config' /\ Rules' /\ Passes' /\ Reviews'
<1>1. Config' BY ConfigStays DEF OInv, WriterFrame
<1>2. Rules' BY DEF OInv, Rules, Good, Behavior, WriterFrame
<1>3. Passes' BY PassesStay DEF OInv, WriterFrame
<1>4. Reviews' BY ReviewsStay DEF OInv, WriterFrame
<1> QED BY <1>1, <1>2, <1>3, <1>4

LEMMA OverAsBefore ==
  ASSUME UNCHANGED <<setting, WriterFrame, state>>
  PROVE \A c, e : Over(c, e)' = Over(c, e)
BY DEF Over, WriterFrame

LEMMA WriterFacts ==
  ASSUME OInv
  PROVE /\ writer.at \in {"none", "saving", "commit", "after"}
        /\ writer.at \in {"saving", "commit", "after"} => writer.key \in DOMAIN rows
        /\ writer.at = "commit" => writer.valid \in BOOLEAN
        /\ writer.at = "after" => writer.outcome \in {"stale", "cooldown", "alerted"}
BY DEF OInv, Writer, WriterSet, None

\* While nothing is closing, every answered alert is about events that are over.
LEMMA AnsweredIsOver ==
  ASSUME OInv, writer.at # "after"
  PROVE \A key \in Answered : \A c \in DOMAIN key : Over(c, key[c])
BY DEF OInv, Apart, Closing

\* An alert that is valid now is about events past their thresholds, and about
\* none that is over.
LEMMA ValidIsPassed ==
  ASSUME OInv, NEW key \in DOMAIN rows, AlertValid(key)
  PROVE /\ Passed(key)
        /\ \A c \in DOMAIN key : ~Over(c, key[c])
<1>1. ASSUME NEW c \in DOMAIN key
      PROVE <<c, key[c]>> \in reached /\ ~Over(c, key[c])
  <2>1. c \in Camera BY DEF OInv, Rows, Keyed
  <2>2. state[c].alerted /\ state[c].since = key[c] BY DEF AlertValid
  <2>3. Good(c, state[c]) BY <2>1 DEF OInv, Rules
  <2>4. key[c] # NoEvent /\ key[c] = events[c] BY <2>2, <2>3 DEF Good
  <2>5. <<c, key[c]>> \in reached BY <2>2, <2>3 DEF Good
  <2> QED BY <2>2, <2>4, <2>5 DEF Over
<1> QED BY <1>1 DEF Passed

LEMMA ClaimAlertStep ==
  ASSUME OInv, ClaimAlert, UNCHANGED setting
  PROVE OInv'
<1>1. UNCHANGED <<setting, WriterFrame, state>> /\ UNCHANGED <<rows, events, reached>>
  BY DEF ClaimAlert, WriterFrame, alertVars
<1>2. Config' /\ Rules' /\ Passes' /\ Reviews' BY <1>1, BesideTheWriter
<1>3. Rows' BY <1>1 DEF OInv, Rows, Keyed, Row
<1>4. PICK key \in DOMAIN rows :
        /\ rows[key].status = "queued"
        /\ \/ writer' = [at |-> "saving", key |-> key]
           \/ writer' = [at |-> "commit", key |-> key, valid |-> FALSE]
  BY DEF ClaimAlert
<1>5. Writer'
  <2>1. CASE writer' = [at |-> "saving", key |-> key]
    BY <1>1, <1>4, <2>1 DEF Writer, WriterSet
  <2>2. CASE writer' = [at |-> "commit", key |-> key, valid |-> FALSE]
    BY <1>1, <1>4, <2>2 DEF Writer, WriterSet
  <2> QED BY <1>4, <2>1, <2>2
<1>6. ~Committing' BY <1>4 DEF Committing
<1>7. writer.at # "after" BY DEF ClaimAlert, None
<1>8. Alerted' = Alerted /\ Answered' = Answered BY <1>1 DEF Alerted, Answered
<1>9. Past' BY <1>1, <1>6, <1>8 DEF OInv, Past, Passed
<1>10. \A k \in Answered' : \A c \in DOMAIN k : Over(c, k[c])'
  BY <1>1, <1>7, <1>8, AnsweredIsOver, OverAsBefore
<1>11. AlertedOnce' BY <1>8 DEF OInv, Apart, AlertedOnce
<1>12. Apart' BY <1>6, <1>10, <1>11 DEF Apart
<1> QED BY <1>2, <1>3, <1>5, <1>9, <1>12 DEF OInv

LEMMA EvidenceSavedStep ==
  ASSUME OInv, EvidenceSaved, UNCHANGED setting
  PROVE OInv'
<1>1. UNCHANGED <<setting, WriterFrame, state>> /\ UNCHANGED <<rows, events, reached>>
  BY DEF EvidenceSaved, WriterFrame, alertVars
<1>2. Config' /\ Rules' /\ Passes' /\ Reviews' BY <1>1, BesideTheWriter
<1>3. Rows' BY <1>1 DEF OInv, Rows, Keyed, Row
<1>4. /\ writer.at = "saving" /\ writer.key \in DOMAIN rows
      /\ rows[writer.key].status = "queued"
  BY WriterFacts DEF EvidenceSaved, OInv, Writer
<1>5. PICK valid \in BOOLEAN :
        /\ valid <=> AlertValid(writer.key)
        /\ writer' = [at |-> "commit", key |-> writer.key, valid |-> valid]
  <2>1. AlertValid(writer.key) \in BOOLEAN BY DEF AlertValid
  <2> QED BY <2>1 DEF EvidenceSaved
<1>6. Writer' BY <1>1, <1>4, <1>5 DEF Writer, WriterSet
<1>7. Alerted' = Alerted /\ Answered' = Answered BY <1>1 DEF Alerted, Answered
<1>8. writer'.key = writer.key BY <1>5
<1>9. Committing' => AlertValid(writer.key) BY <1>5 DEF Committing
<1>10. Past'
  <2>1. Committing' => Passed(writer.key) BY <1>4, <1>9, ValidIsPassed
  <2> QED BY <2>1, <1>1, <1>7, <1>8 DEF OInv, Past, Passed
<1>11. \A k \in Answered : \A c \in DOMAIN k : Over(c, k[c])
  BY <1>4, AnsweredIsOver
<1>12. Apart'
  <2>1. \A k \in Answered' : \A c \in DOMAIN k : Over(c, k[c])'
    BY <1>1, <1>7, <1>11, OverAsBefore
  <2>2. ASSUME Committing', NEW k \in Answered, NEW c \in DOMAIN k \cap DOMAIN writer.key
        PROVE k[c] # writer.key[c]
    BY <2>2, <1>4, <1>9, <1>11, ValidIsPassed
  <2>3. AlertedOnce' BY <1>7 DEF OInv, Apart, AlertedOnce
  <2> QED BY <2>1, <2>2, <2>3, <1>7, <1>8 DEF Apart
<1> QED BY <1>2, <1>3, <1>6, <1>10, <1>12 DEF OInv

LEMMA WriteFailsStep ==
  ASSUME OInv, WriteFails, UNCHANGED setting
  PROVE OInv'
<1>1. UNCHANGED <<setting, WriterFrame, state>> /\ UNCHANGED <<rows, events, reached>>
  BY DEF WriteFails, WriterFrame, alertVars
<1>2. Config' /\ Rules' /\ Passes' /\ Reviews' BY <1>1, BesideTheWriter
<1>3. Rows' BY <1>1 DEF OInv, Rows, Keyed, Row
<1>4. writer' = None /\ writer.at # "after" BY DEF WriteFails
<1>5. Writer' BY <1>4 DEF Writer, WriterSet, None
<1>6. ~Committing' BY <1>4 DEF Committing, None
<1>7. Alerted' = Alerted /\ Answered' = Answered BY <1>1 DEF Alerted, Answered
<1>8. Past' BY <1>1, <1>6, <1>7 DEF OInv, Past, Passed
<1>9. \A k \in Answered' : \A c \in DOMAIN k : Over(c, k[c])'
  BY <1>1, <1>4, <1>7, AnsweredIsOver, OverAsBefore
<1>10. AlertedOnce' BY <1>7 DEF OInv, Apart, AlertedOnce
<1>11. Apart' BY <1>6, <1>9, <1>10 DEF Apart
<1> QED BY <1>2, <1>3, <1>5, <1>8, <1>11 DEF OInv

LEMMA CoolingEndsStep ==
  ASSUME OInv, CoolingEnds, UNCHANGED setting
  PROVE OInv'
<1>1. UNCHANGED <<setting, WriterFrame, state>>
      /\ UNCHANGED <<setting, events, reached, writer, rows>>
  BY DEF CoolingEnds, WriterFrame, alertVars
<1>2. Config' /\ Rules' /\ Passes' /\ Reviews' BY <1>1, BesideTheWriter
<1>3. Apt(state') BY <1>1, AptNow
<1>4. RowsGrow BY <1>1, RowsStay DEF OInv
<1>5. Rows' /\ Writer' /\ Past' /\ Apart' BY <1>1, <1>3, <1>4, AptStep
<1> QED BY <1>2, <1>5 DEF OInv

\* A committed alert closes its events with the writer's next step, unless the
\* answer of the commit is lost.
LEMMA CommitStep ==
  ASSUME OInv, Commit, UNCHANGED setting
  PROVE OInv'
<1> DEFINE key == writer.key
           after == [at |-> "after", key |-> key, outcome |-> Outcome]
<1>1. UNCHANGED <<setting, WriterFrame, state>> /\ UNCHANGED <<events, reached>>
  BY DEF Commit, WriterFrame
<1>2. Config' /\ Rules' /\ Passes' /\ Reviews' BY <1>1, BesideTheWriter
<1>3. /\ writer.at = "commit" /\ key \in DOMAIN rows /\ writer.valid \in BOOLEAN
      /\ rows[key].status = "queued"
  BY WriterFacts DEF Commit, OInv, Writer
<1>4. Outcome \in {"stale", "cooldown", "alerted"} /\ (Outcome = "alerted" => Committing)
  BY <1>3 DEF Outcome, Committing
<1>5. \/ rows' = [rows EXCEPT ![key].status = Outcome] /\ writer' = after
      \/ /\ rows' = [rows EXCEPT ![key].status = Outcome, ![key].lost = TRUE]
         /\ writer' = None
  BY DEF Commit
<1>6. rows \in [DOMAIN rows -> Row] BY DEF OInv, Rows
<1> HIDE DEF key
<1>7. /\ DOMAIN rows' = DOMAIN rows /\ rows' \in [DOMAIN rows -> Row]
      /\ rows'[key].status = Outcome
      /\ \A k \in DOMAIN rows : k # key => rows'[k] = rows[k]
      /\ rows'[key].lost = IF writer' = None THEN TRUE ELSE rows[key].lost
  <2>1. rows[key] \in Row BY <1>3, <1>6
  <2>2. CASE rows' = [rows EXCEPT ![key].status = Outcome] /\ writer' = after
    <3>1. after # None BY DEF None
    <3> HIDE DEF after
    <3> QED BY <2>1, <2>2, <3>1, <1>3, <1>4, <1>6 DEF Row
  <2>3. CASE /\ rows' = [rows EXCEPT ![key].status = Outcome, ![key].lost = TRUE]
             /\ writer' = None
    <3>1. rows' = [rows EXCEPT ![key] = [rows[key] EXCEPT !.status = Outcome, !.lost = TRUE]]
      BY <2>3, <1>3
    <3>2. [rows[key] EXCEPT !.status = Outcome, !.lost = TRUE] \in Row
      BY <2>1, <1>4 DEF Row
    <3> QED BY <2>1, <2>3, <3>1, <3>2, <1>3, <1>6 DEF Row
  <2> QED BY <1>5, <2>2, <2>3
<1>8. Rows'
  <2>1. \A k \in DOMAIN rows : Keyed(k)' BY <1>1 DEF OInv, Rows, Keyed
  <2>2. rows' \in [DOMAIN rows' -> Row'] BY <1>7 DEF Row
  <2> QED BY <2>1, <2>2, <1>7 DEF Rows
<1>9. Writer'
  <2>1. CASE writer' = after
    BY <2>1, <1>3, <1>4, <1>7 DEF Writer, WriterSet
  <2>2. CASE writer' = None
    BY <2>2 DEF Writer, WriterSet, None
  <2> QED BY <1>5, <2>1, <2>2
<1>10. ~Committing' BY <1>5 DEF Committing, None
<1>11. Alerted' \subseteq Alerted \cup {key} /\ (key \in Alerted' => Committing)
  BY <1>4, <1>7 DEF Alerted
<1>12. key \in Answered' => writer' = after
  BY <1>5, <1>7 DEF Answered
<1>13. Answered' \subseteq Answered \cup {key} /\ Answered' \subseteq Alerted'
  BY <1>7, <1>11 DEF Answered, Alerted
<1>14. Past'
  <2>1. \A k \in Alerted' : Passed(k)
    BY <1>11 DEF OInv, Past, key
  <2> QED BY <2>1, <1>1, <1>10 DEF Past, Passed
<1>15. \A k \in Answered : \A c \in DOMAIN k : Over(c, k[c])
  BY <1>3, AnsweredIsOver
<1>16. ASSUME NEW k \in Answered'
       PROVE Closing(k)' \/ \A c \in DOMAIN k : Over(c, k[c])'
  <2>1. CASE k \in Answered BY <2>1, <1>1, <1>15, OverAsBefore
  <2>2. CASE k = key BY <2>2, <1>12 DEF Closing
  <2> QED BY <2>1, <2>2, <1>13
<1>17. ASSUME key \in Answered', NEW k \in Answered, NEW c \in DOMAIN k \cap DOMAIN key
       PROVE k[c] # key[c]
  BY <1>11, <1>13, <1>17 DEF OInv, Apart, key
<1>18. AlertedOnce'
  <2>1. \A k, other \in Answered' : k # other =>
          \A c \in DOMAIN k \cap DOMAIN other : k[c] # other[c]
    BY <1>13, <1>17 DEF OInv, Apart, AlertedOnce
  <2> QED BY <2>1 DEF AlertedOnce
<1>19. Apart' BY <1>10, <1>16, <1>18 DEF Apart
<1> QED BY <1>2, <1>8, <1>9, <1>14, <1>19 DEF OInv

\* The members that still have the event of the alert start a new one.
LEMMA AfterCommitStep ==
  ASSUME OInv, AfterCommit, UNCHANGED setting
  PROVE OInv'
<1> DEFINE key == writer.key
           alerted == writer.outcome = "alerted"
           over == {c \in DOMAIN key : alerted /\ state[c].since = key[c]}
<1>1. /\ writer.at = "after" /\ writer' = None
      /\ events' = [c \in Camera |-> IF c \in over THEN events[c] + 1 ELSE events[c]]
      /\ state' = [c \in Camera |-> IF c \in over
                     THEN NewCycle(state[c], events[c] + 1) ELSE state[c]]
      /\ UNCHANGED <<setting, reached, worldVars, configVars, pass, reviewVars, rows>>
  BY DEF AfterCommit
<1>2. /\ Config' /\ Passes' /\ Reviews'
  <2>1. Config' BY <1>1, ConfigStays DEF OInv
  <2>2. Passes' BY <1>1, PassesStay DEF OInv
  <2>3. Reviews' BY <1>1, ReviewsStay DEF OInv
  <2> QED BY <2>1, <2>2, <2>3
<1>3. key \in DOMAIN rows /\ rows[key].status = writer.outcome
  BY <1>1, WriterFacts DEF OInv, Writer
<1>4. /\ events \in [Camera -> Event] /\ state \in [Camera -> RuleState]
      /\ \A c \in Camera : Good(c, state[c])
  BY DEF OInv, Rules
<1>5. ASSUME NEW c \in over
      PROVE /\ c \in Camera /\ events[c] = key[c] /\ state[c].since = key[c]
            /\ events[c] < MaxEvent /\ events[c] + 1 \in Event /\ events[c] + 1 # NoEvent
  <2>1. c \in Camera /\ key[c] \in Event BY <1>3, <1>5 DEF OInv, Rows, Keyed
  <2>2. key \in Alerted BY <1>3, <1>5 DEF Alerted
  <2>3. <<c, key[c]>> \in reached BY <1>5, <2>2 DEF OInv, Past, Passed
  <2>4. key[c] # NoEvent /\ key[c] < MaxEvent BY <2>1, <2>3 DEF OInv, Rules
  <2>5. state[c].since = key[c] /\ events[c] = key[c]
    BY <1>4, <1>5, <2>1, <2>4 DEF Good
  <2>6. key[c] + 1 \in Event /\ key[c] + 1 # NoEvent BY <2>1, <2>4, Bounds DEF NoEvent
  <2> QED BY <2>1, <2>4, <2>5, <2>6
<1> HIDE DEF over, key
<1>6. ASSUME NEW c \in Camera
      PROVE /\ events'[c] \in Event /\ state'[c] \in RuleState /\ Good(c, state[c])'
            /\ events'[c] >= events[c]
  <2>1. Good(c, state[c]) /\ events[c] \in Event BY <1>4
  <2>2. CASE c \in over
    <3>1. events'[c] = events[c] + 1 /\ state'[c] = NewCycle(state[c], events[c] + 1)
      BY <1>1, <2>2
    <3>2. events'[c] \in Event /\ events'[c] # NoEvent /\ events'[c] >= events[c]
      BY <3>1, <1>5, <2>1, <2>2, Bounds
    <3>3. /\ state'[c] \in RuleState /\ state'[c].since = events'[c]
          /\ ~state'[c].alerted /\ ~state'[c].confirmed
      BY <3>1, <3>2, <1>5, <2>2, NewCycleIsQuiet
    <3> QED BY <3>2, <3>3 DEF Good
  <2>3. CASE c \notin over
    <3>1. events'[c] = events[c] /\ state'[c] = state[c] BY <1>1, <2>3
    <3>2. Good(c, state[c])' BY <3>1, <2>1, <1>1 DEF Good, Behavior
    <3> QED BY <3>1, <3>2, <2>1, Bounds DEF Good
  <2> QED BY <2>2, <2>3
<1>7. events' \in [Camera -> Event] /\ state' \in [Camera -> RuleState]
  BY <1>1, <1>6
<1>8. Rules'
  <2>1. \A c \in Camera, e \in Event : <<c, e>> \in reached' => e # NoEvent /\ e < MaxEvent
    BY <1>1 DEF OInv, Rules
  <2> QED BY <2>1, <1>6, <1>7 DEF Rules
<1>9. RowsGrow
  <2>1. UNCHANGED rows /\ \A c \in Camera : events'[c] >= events[c] BY <1>1, <1>6
  <2> QED BY <2>1, <1>7, RowsFollowEvents DEF OInv
<1>10. Writer' BY <1>1 DEF Writer, WriterSet, None
<1>11. ~Committing' BY <1>1 DEF Committing, None
<1>12. Alerted' = Alerted /\ Answered' = Answered BY <1>1 DEF Alerted, Answered
<1>13. Past' BY <1>1, <1>11, <1>12 DEF OInv, Past, Passed
<1>14. SinceKept
  <2>1. ASSUME NEW c \in Camera
        PROVE \/ events'[c] = events[c] /\ state'[c].since \in {NoEvent, state[c].since}
              \/ events'[c] > events[c]
    <3>1. CASE c \in over
      <4>1. events'[c] = events[c] + 1 /\ events[c] \in Event BY <1>1, <1>4, <3>1
      <4> QED BY <4>1, Bounds
    <3>2. CASE c \notin over BY <1>1, <3>2
    <3> QED BY <3>1, <3>2
  <2> QED BY <2>1 DEF SinceKept
<1>15. ASSUME NEW k \in Answered, NEW c \in DOMAIN k
       PROVE Over(c, k[c])'
  <2>1. k \in DOMAIN rows /\ rows[k].status = "alerted" BY DEF Answered, Alerted
  <2>2. c \in Camera /\ k[c] \in Event /\ k[c] <= events[c]
    BY <2>1 DEF OInv, Rows, Keyed
  <2>3. events[c] \in Event BY <1>4, <2>2
  <2>4. CASE Over(c, k[c])
    BY <2>2, <2>4, <1>7, <1>14, OverStays DEF OInv
  <2>5. CASE k = key
    <3>1. alerted BY <2>1, <2>5, <1>3
    <3>2. CASE c \in over
      <4>1. events'[c] = events[c] + 1 BY <1>1, <2>2, <3>2
      <4> QED BY <4>1, <2>2, <2>3, Bounds DEF Over
    <3>3. CASE c \notin over
      <4>1. events'[c] = events[c] /\ state'[c] = state[c] BY <1>1, <2>2, <3>3
      <4>2. state[c].since # k[c] BY <2>5, <3>1, <3>3 DEF over
      <4>3. state[c].since \in {NoEvent, events[c]} BY <1>4, <2>2 DEF Good
      <4> QED BY <4>1, <4>2, <4>3, <2>2 DEF Over
    <3> QED BY <3>2, <3>3
  <2> QED BY <2>4, <2>5 DEF OInv, Apart, Closing, key
<1>16. AlertedOnce' BY <1>12 DEF OInv, Apart, AlertedOnce
<1>17. Apart' BY <1>11, <1>12, <1>15, <1>16 DEF Apart
<1>18. Rows' BY <1>9 DEF RowsGrow
<1> QED BY <1>2, <1>8, <1>10, <1>13, <1>17, <1>18 DEF OInv

-----------------------------------------------------------------------------
(* The world, the configuration, and a restart *)

\* What changes leaves the rules, the rows and the writer alone.
LEMMA AlertsUntouched ==
  ASSUME OInv, UNCHANGED <<setting, state, events, reached, rows, writer>>
  PROVE Rules' /\ Rows' /\ Writer' /\ Past' /\ Apart'
<1>1. Apt(state') BY AptNow
<1>2. RowsGrow BY RowsStay DEF OInv
<1> QED BY <1>1, <1>2, AptStep

LEMMA ConnectionStep ==
  ASSUME OInv, NEW c \in Camera, Connection(c) \/ Shift(c), UNCHANGED setting
  PROVE OInv'
<1>1. /\ UNCHANGED <<setting, state, events, reached, rows, writer>>
      /\ UNCHANGED <<setting, pass>> /\ UNCHANGED <<setting, reviewVars>>
      /\ UNCHANGED configVars
  BY DEF Connection, Shift, ruleVars, alertVars
<1>2. Config'
  <2>1. online' \subseteq Camera /\ duty' \subseteq Camera
    BY DEF OInv, Config, Connection, Shift, Flip
  <2> QED BY <1>1, <2>1 DEF OInv, Config, configVars
<1>3. Passes' BY <1>1, PassesStay DEF OInv
<1>4. Reviews' BY <1>1, ReviewsStay DEF OInv
<1> QED BY <1>1, <1>2, <1>3, <1>4, AlertsUntouched DEF OInv

LEMMA EditStep ==
  ASSUME OInv, NEW c \in Camera, NEW what \in {"edit", "modes"}, Edit(c, what),
         UNCHANGED setting
  PROVE OInv'
<1>1. /\ UNCHANGED <<setting, events, reached, writer>> /\ UNCHANGED <<setting, pending>>
      /\ UNCHANGED <<worldVars, members, version, print, rows>>
      /\ editing' = [at |-> what, camera |-> c]
  BY DEF Edit, alertVars
<1>2. Config' BY <1>1 DEF OInv, Config, worldVars
<1>3. /\ \/ state' = state \/ state' = [state EXCEPT ![c] = Quiet]
      /\ \/ pass' = pass
         \/ pass[c] # None /\ pass' = [pass EXCEPT ![c].orphan = TRUE]
      /\ \/ active' = active
         \/ Review(c, "asking") /\ active' = [active EXCEPT ![c].orphan = TRUE]
  BY DEF Edit
<1>4. Passes'
  <2>1. Passes BY DEF OInv
  <2>2. CASE pass' = pass BY <1>1, <2>1, <2>2, PassesStay
  <2>3. CASE pass[c] # None /\ pass' = [pass EXCEPT ![c].orphan = TRUE]
    <3>1. pass[c] \in SavingOf(c) BY <2>1, <2>3 DEF Passes
    <3>2. [pass[c] EXCEPT !.orphan = TRUE] \in SavingOf(c) BY <3>1 DEF SavingOf
    <3>3. pass' = [pass EXCEPT ![c] = [pass[c] EXCEPT !.orphan = TRUE]] BY <2>3
    <3> QED BY <1>1, <2>1, <3>2, <3>3, PassSet
  <2> QED BY <1>3, <2>2, <2>3
<1>5. Reviews'
  <2>1. Reviews BY DEF OInv
  <2>2. CASE active' = active BY <1>1, <2>1, <2>2, ReviewsStay DEF reviewVars
  <2>3. CASE Review(c, "asking") /\ active' = [active EXCEPT ![c].orphan = TRUE]
    <3>1. active[c] \in AtWork(c) BY <2>3, WorkFacts DEF Review
    <3>2. [active[c] EXCEPT !.orphan = TRUE] \in AtWork(c) BY <3>1 DEF AtWork
    <3>3. [active[c] EXCEPT !.orphan = TRUE] \in Work(c) BY <3>2 DEF Work
    <3>4. active' = [active EXCEPT ![c] = [active[c] EXCEPT !.orphan = TRUE]] BY <2>3
    <3> QED BY <1>1, <2>1, <3>3, <3>4, ActiveSet
  <2> QED BY <1>3, <2>2, <2>3
<1>6. Apt(state') BY <1>3, AptNow, QuietIsApt
<1>7. RowsGrow BY <1>1, RowsStay DEF OInv
<1>8. Rules' /\ Rows' /\ Writer' /\ Past' /\ Apart' BY <1>1, <1>6, <1>7, AptStep
<1> QED BY <1>2, <1>4, <1>5, <1>8 DEF OInv

LEMMA LoadOk ==
  ASSUME OInv, Load, UNCHANGED <<setting, worldVars>>, editing # None
  PROVE Config'
<1>1. Config BY DEF OInv
<1>2. editing.camera \in Camera BY <1>1 DEF Config
<1>3. members' \subseteq Camera BY <1>1, <1>2 DEF Load, Config, Flip
<1>4. version' \in Nat /\ editing' = None BY <1>1 DEF Load, Config
<1>5. print' \in [Camera -> Nat]
  <2>1. \A c \in Camera : PrintInRow(c) \in Nat BY <1>1 DEF PrintInRow, Config
  <2> QED BY <2>1 DEF Load
<1> QED BY <1>1, <1>3, <1>4, <1>5 DEF Config, worldVars

LEMMA RefreshStep ==
  ASSUME OInv, Refresh, UNCHANGED setting
  PROVE OInv'
<1>1. /\ UNCHANGED <<setting, events, reached, writer>> /\ UNCHANGED <<setting, pass>>
      /\ UNCHANGED <<setting, reviewVars>> /\ UNCHANGED <<rows, events>>
      /\ UNCHANGED <<setting, worldVars>>
  BY DEF Refresh, alertVars
<1>2. Config' BY <1>1, LoadOk DEF Refresh
<1>3. Passes' BY <1>1, PassesStay DEF OInv
<1>4. Reviews' BY <1>1, ReviewsStay DEF OInv
<1>5. state' = [c \in Camera |->
        IF members' # members /\ c \in members \cup members'
        THEN Unconfirmed(state[c]) ELSE state[c]]
  BY DEF Refresh
<1>6. ASSUME NEW c \in Camera
      PROVE /\ Good(c, state'[c]) /\ state'[c] \in RuleState
            /\ state'[c].since \in {NoEvent, state[c].since}
  <2>1. Good(c, state[c]) BY DEF OInv, Rules
  <2>2. state'[c] = state[c] \/ state'[c] = Unconfirmed(state[c]) BY <1>5
  <2>3. Good(c, Unconfirmed(state[c])) /\ Unconfirmed(state[c]).since = state[c].since
    BY <2>1, UnconfirmedIsGood
  <2>4. Good(c, state'[c]) /\ state'[c].since = state[c].since BY <2>1, <2>2, <2>3
  <2> QED BY <2>4 DEF Good
<1>7. Apt(state')
  <2>1. state' \in [Camera -> RuleState] BY <1>5, <1>6
  <2> QED BY <1>6, <2>1 DEF Apt
<1>8. RowsGrow BY <1>1, RowsStay DEF OInv
<1>9. Rules' /\ Rows' /\ Writer' /\ Past' /\ Apart' BY <1>1, <1>7, <1>8, AptStep
<1> QED BY <1>2, <1>3, <1>4, <1>9 DEF OInv

\* After a restart nothing is timed, so every event that an alert may name is over.
LEMMA RestartStep ==
  ASSUME OInv, Restart, UNCHANGED setting
  PROVE OInv'
<1>1. /\ UNCHANGED <<setting, worldVars>> /\ UNCHANGED <<rows, events, reached>>
      /\ state' = [c \in Camera |-> Quiet] /\ writer' = None
      /\ pass' = [c \in Camera |-> None]
      /\ pending' = [c \in Camera |-> None] /\ active' = [c \in Camera |-> None]
  BY DEF Restart
<1>2. Config'
  <2>1. CASE editing # None BY <1>1, <2>1, LoadOk DEF Restart
  <2>2. CASE editing = None BY <1>1, <2>2, ConfigStays DEF OInv, Restart
  <2> QED BY <2>1, <2>2
<1>3. Passes' BY <1>1 DEF Passes
<1>4. Reviews' BY <1>1 DEF Reviews, Work
<1>5. \A c \in Camera : /\ state'[c] = Quiet /\ state'[c].since = NoEvent
                        /\ state'[c] \in RuleState /\ Good(c, state'[c])
  BY <1>1, QuietIsGood DEF Good
<1>6. Rules'
  <2>1. \A c \in Camera : Good(c, state[c])' BY <1>1, <1>5 DEF Good, Behavior
  <2>2. state' \in [Camera -> RuleState] BY <1>1, <1>5
  <2> QED BY <1>1, <2>1, <2>2 DEF OInv, Rules
<1>7. Rows' BY <1>1 DEF OInv, Rows, Keyed, Row
<1>8. Writer' BY <1>1 DEF Writer, WriterSet, None
<1>9. ~Committing' BY <1>1 DEF Committing, None
<1>10. Alerted' = Alerted /\ Answered' = Answered BY <1>1 DEF Alerted, Answered
<1>11. Past' BY <1>1, <1>9, <1>10 DEF OInv, Past, Passed
<1>12. ASSUME NEW k \in Answered, NEW c \in DOMAIN k
       PROVE Over(c, k[c])'
  <2>1. c \in Camera /\ k[c] <= events[c] BY DEF OInv, Rows, Keyed, Answered, Alerted
  <2> QED BY <2>1, <1>1, <1>5 DEF Over
<1>13. AlertedOnce' BY <1>10 DEF OInv, Apart, AlertedOnce
<1>14. Apart' BY <1>9, <1>10, <1>12, <1>13 DEF Apart
<1> QED BY <1>2, <1>3, <1>4, <1>6, <1>7, <1>8, <1>11, <1>14 DEF OInv

-----------------------------------------------------------------------------
(* The theorems *)

LEMMA OInvInit ==
  ASSUME Init
  PROVE OInv
<1>1. setting \in Setting /\ setting.cameras \subseteq Camera BY Cameras DEF Init
<1>2. Config BY <1>1 DEF Init, Config
<1>3. Rules
  <2>1. state = [c \in Camera |-> Quiet] /\ events = [c \in Camera |-> NoEvent] /\ reached = {}
    BY DEF Init
  <2>2. ASSUME NEW c \in Camera
        PROVE state[c] \in RuleState /\ Good(c, state[c])
    BY <2>1, QuietIsGood DEF Good
  <2>3. state \in [Camera -> RuleState] BY <2>1, <2>2
  <2> QED BY <2>1, <2>2, <2>3, Bounds DEF Rules
<1>4. Passes BY DEF Init, Passes
<1>5. Reviews BY DEF Init, Reviews, Work
<1>6. DOMAIN rows = {} /\ rows = << >> BY DEF Init
<1>7. Rows BY <1>6 DEF Rows
<1>8. writer = None BY DEF Init
<1>9. Writer BY <1>8 DEF Writer, WriterSet, None
<1>10. Alerted = {} /\ Answered = {} /\ ~Committing
  BY <1>6, <1>8 DEF Alerted, Answered, Committing, None
<1>11. Past BY <1>10 DEF Past
<1>12. Apart BY <1>10 DEF Apart, AlertedOnce
<1> QED BY <1>2, <1>3, <1>4, <1>5, <1>7, <1>9, <1>11, <1>12 DEF OInv

LEMMA OInvStutters ==
  ASSUME OInv, UNCHANGED vars
  PROVE OInv'
<1>1. /\ UNCHANGED <<setting, state, events, reached, rows, writer>>
      /\ UNCHANGED <<setting, pass>> /\ UNCHANGED <<setting, reviewVars>>
      /\ UNCHANGED <<setting, worldVars, configVars>>
  BY DEF vars, moving, ruleVars, alertVars
<1>2. Config' BY <1>1, ConfigStays DEF OInv
<1>3. Passes' BY <1>1, PassesStay DEF OInv
<1>4. Reviews' BY <1>1, ReviewsStay DEF OInv
<1> QED BY <1>1, <1>2, <1>3, <1>4, AlertsUntouched DEF OInv

LEMMA OInvNext ==
  ASSUME OInv, Next
  PROVE OInv'
<1>1. UNCHANGED setting /\ setting.cameras \subseteq Camera
  BY Cameras DEF OInv, Config, Next
<1>2. ASSUME NEW c \in setting.cameras,
             \/ Analysis(c) \/ SampleQuiet(c) \/ BehaviorPass(c)
             \/ Reviewing(c) \/ ReviewFails(c) \/ RetryResult(c)
             \/ Connection(c) \/ Shift(c) \/ Edit(c, "edit") \/ Edit(c, "modes")
      PROVE OInv'
  <2>1. c \in Camera BY <1>1
  <2>2. CASE Analysis(c)
    BY <2>2, <2>1, <1>1, SampleCoolingStep, SampleAbsentStep, SavedStep DEF Analysis
  <2>3. CASE SampleQuiet(c) BY <2>3, <2>1, <1>1, SampleQuietStep
  <2>4. CASE BehaviorPass(c) BY <2>4, <2>1, <1>1, BehaviorPassStep
  <2>5. CASE Reviewing(c)
    BY <2>5, <2>1, <1>1, TakeReviewStep, AskStep, AnswerOffDutyStep, AnswerBehaviorStep,
       UnconfiguredStep, FinishStep DEF Reviewing
  <2>6. CASE ReviewFails(c) BY <2>6, <2>1, <1>1, ReviewFailsStep
  <2>7. CASE RetryResult(c) BY <2>7, <2>1, <1>1, RetryResultStep
  <2>8. CASE Connection(c) \/ Shift(c) BY <2>8, <2>1, <1>1, ConnectionStep
  <2>9. CASE Edit(c, "edit") \/ Edit(c, "modes") BY <2>9, <2>1, <1>1, EditStep
  <2> QED BY <1>2, <2>2, <2>3, <2>4, <2>5, <2>6, <2>7, <2>8, <2>9
<1>3. CASE Writing
  BY <1>1, <1>3, ClaimAlertStep, EvidenceSavedStep, CommitStep, AfterCommitStep DEF Writing
<1>4. CASE WriteFails BY <1>1, <1>4, WriteFailsStep
<1>5. CASE CoolingEnds BY <1>1, <1>5, CoolingEndsStep
<1>6. CASE Refresh BY <1>1, <1>6, RefreshStep
<1>7. CASE Restart BY <1>1, <1>7, RestartStep
<1> QED BY <1>2, <1>3, <1>4, <1>5, <1>6, <1>7 DEF Next

THEOREM OInvAlways == Spec => []OInv
<1>1. Init => OInv BY OInvInit
<1>2. OInv /\ [Next]_vars => OInv' BY OInvNext, OInvStutters
<1> QED BY <1>1, <1>2, PTL DEF Spec

\* The types, and that a camera times nothing or its newest event.
THEOREM TypeCorrect == Spec => []TypeOK
<1>1. OInv => TypeOK
  <2> SUFFICES ASSUME OInv PROVE TypeOK OBVIOUS
  <2>1. ASSUME NEW c \in Camera
        PROVE /\ state[c].since \in Event /\ state[c].evidence \in Event \cup {NoFrame}
              /\ state[c].since = NoEvent => ~state[c].alerted
              /\ state[c].since \in {NoEvent, events[c]}
              /\ active[c].at \in {"saving", "asking"} => active[c].request.event \in Event
    <3>1. Good(c, state[c]) BY DEF OInv, Rules
    <3>2. state[c].since \in Event /\ state[c].evidence \in Event \cup {NoFrame}
      BY <3>1 DEF Good, RuleState
    <3>3. ASSUME active[c].at \in {"saving", "asking"}
          PROVE active[c].request.event \in Event
      <4>1. active[c].request \in RequestOf(c) BY <3>3, WorkFacts DEF AtWork
      <4> QED BY <4>1, RequestFacts
    <3> QED BY <3>1, <3>2, <3>3 DEF Good
  <2>2. events \in [Camera -> Event] BY DEF OInv, Rules
  <2>3. online \subseteq Camera /\ duty \subseteq Camera /\ members \subseteq Camera
    BY DEF OInv, Config
  <2>4. ASSUME NEW key \in DOMAIN rows
        PROVE /\ DOMAIN key \subseteq Camera /\ \A c \in DOMAIN key : key[c] \in Event
              /\ rows[key].status \in {"queued", "stale", "cooldown", "alerted"}
    <3>1. Keyed(key) /\ rows[key] \in Row BY DEF OInv, Rows
    <3> QED BY <3>1 DEF Keyed, Row
  <2>5. writer # None => writer.key \in DOMAIN rows BY DEF OInv, Writer, WriterSet
  <2> QED BY <2>1, <2>2, <2>3, <2>4, <2>5 DEF TypeOK
<1> QED BY <1>1, OInvAlways, PTL

\* A review of the off-duty rule confirms only the absence that is timed when its
\* answer arrives ("Do not reset a newer event" in _writes of async_pipeline.py).
THEOREM ConfirmedByItsEventAlways == Spec => []ConfirmedByItsEvent
<1>1. OInv => ConfirmedByItsEvent
  BY DEF OInv, Rules, Good, ConfirmedByItsEvent, OfItsEvent
<1> QED BY <1>1, OInvAlways, PTL

\* Every alert is about absences past their thresholds, and one absence is in at
\* most one alert whose commit was answered, however the directory, its shifts,
\* its cameras and the process change (_writes and alert_valid).
THEOREM AlertsSoundAlways == Spec => []AlertsSound
<1>1. OInv => AlertsSound
  BY DEF OInv, Past, Apart, AlertsSound, ThresholdPassed, Passed
<1> QED BY <1>1, OInvAlways, PTL
=============================================================================
