----------------------------- MODULE SceneRules -----------------------------
(***************************************************************************)
(* The rules of one camera that look at a window of frames: black screen,  *)
(* fire and smoke, intrusion, people flow (CameraRuleState in rules.py).   *)
(* The general pass (_process), the fire pass (_process_fire) and the      *)
(* analysis that a user asks for (analyze_now) feed them in pipeline.py,   *)
(* one pass at a time: each holds the lock of the camera.  Frames have     *)
(* numbers in the code; here it is only kept for whom the latest is new.   *)
(*                                                                         *)
(* A pass has several steps: between them the detector runs in a thread,   *)
(* frames arrive, and an edit may replace the rule state that the pass     *)
(* holds.  What is asked of the outbox afterwards is modelled in           *)
(* PhoneAlerts, Notifications and TrafficWrites; an alert of a replaced    *)
(* state is refused there, its fingerprint is an old one.                  *)
(***************************************************************************)
EXTENDS Integers, Sequences, FiniteSets, FiniteSetsExt

CONSTANTS
  Track,        \* identities the tracker gives to people
  LostCycles,   \* lost_cycles of flow_update
  Second,       \* one second, in intervals between frames
  Config,       \* the sets of modes the camera may be configured with
  Switch,       \* the changes of modes that an edit may make, as pairs
  MaxPass,      \* bound: passes
  MaxTracking,  \* bound: passes of a configuration that follows people
  MaxEdit       \* bound: edits

Mode == {"black", "fire", "intrusion", "flow"}

ASSUME SceneRulesAssumption ==
  /\ LostCycles \in Nat \ {0} /\ Second \in Nat \ {0}
  /\ Config \subseteq SUBSET Mode \ {{}} /\ Switch \subseteq Config \X Config

VARIABLES
  modes,      \* modes_json
  active,     \* intrusion and flow, while their schedule is active
  version,    \* of the configuration
  rules,      \* the CameraRuleState in the registry
  stale,      \* the latest frame is older than two seconds: not online()
  day,
  fresh,      \* "analysis", "fire": the workers for whom the latest frame is
              \* newer than last_analyzed_sequence, last_fire_sequence
  pass,       \* the pass that holds the lock of the camera
  passes,     \* bound
  seen,       \* history: what the rules were shown since they are there
  verdict     \* history: what they said last

worldVars == <<modes, active, version, stale, day>>
historyVars == <<seen, verdict>>
vars == <<worldVars, rules, fresh, pass, passes, historyVars>>

-----------------------------------------------------------------------------
Never == -1
Unknown == [counted |-> FALSE, missing |-> Never]   \* no FlowTrackState
NoPass == [at |-> "none"]

NewRules ==
  [black |-> 0, fire |-> 0, smoke |-> <<>>,
   inside |-> {}, unseen |-> [t \in Track |-> Never],       \* intrusion_*
   tracks |-> [t \in Track |-> Unknown], flowDay |-> Never] \* flow_*

NothingSeen == 
  [black |-> <<>>, fire |-> <<>>, smoke |-> <<>>, looks |-> <<>>,
   newer |-> TRUE, zone |-> <<>>, gap |-> 0, flow |-> <<>>]
NothingSaid ==
  [black |-> FALSE, fire |-> FALSE, smoke |-> FALSE, intruders |-> {}, entered |-> 0]

Init ==
  /\ modes \in Config /\ active = Mode /\ version = 0
  /\ rules = NewRules
  /\ stale = TRUE /\ day = 0 /\ fresh = {}
  /\ pass = NoPass /\ passes = 0
  /\ seen = NothingSeen /\ verdict = NothingSaid

-----------------------------------------------------------------------------
(***************************************************************************)
(* CameraRuleState.                                                        *)
(***************************************************************************)
\* black_update
Black(r, isBlack) == [r EXCEPT !.black = IF isBlack THEN Min({@ + 1, 3}) ELSE 0]

LastOf(s, n) == SubSeq(s, Max({1, Len(s) - n + 1}), Len(s))
Hits(s) == Cardinality({i \in DOMAIN s : s[i]})

FireSmoke(r, fireHit, smokeHit) ==  \* fire_smoke_update, first half
  [r EXCEPT !.fire = IF fireHit THEN Min({@ + 1, 2}) ELSE 0,
            !.smoke = LastOf(Append(@, smokeHit), 5)]
SmokeConfirmed(r) == Len(r.smoke) = 5 /\ Hits(r.smoke) >= 3

\* intrusion_update: who left is forgotten a second after the last sight.
\* Mutant: whoever is out of sight is forgotten at once.
GoneHastily(r, current) == r.inside \ current
Gone(r, current) == {t \in r.inside \ current : r.unseen[t] >= Second}

Intruders(r, current) == current \ (r.inside \ Gone(r, current))
Intrusion(r, current) ==
  [r EXCEPT !.inside = (@ \ Gone(r, current)) \cup current,
            !.unseen = [t \in Track |-> IF t \in current THEN 0 ELSE @[t]]]
ResetIntrusion(r) ==
  [r EXCEPT !.inside = {}, !.unseen = [t \in Track |-> Never]]

\* flow_update: the tracks that are left after the day, a recovery and the loss
\* of whoever is missing, then the positions.
Kept(r, recovering) ==
  IF recovering \/ r.flowDay # day THEN [t \in Track |-> Unknown] ELSE r.tracks

\* Mutant: a track is lost one cycle late.
AfterSightLate(state, here, within) ==
  IF here THEN [counted |-> state.counted \/ within, missing |-> 0]
  ELSE IF state = Unknown \/ state.missing >= LostCycles THEN Unknown
  ELSE [state EXCEPT !.missing = @ + 1]
AfterSight(state, here, within) ==
  IF here THEN [counted |-> state.counted \/ within, missing |-> 0]
  ELSE IF state = Unknown \/ state.missing + 1 >= LostCycles THEN Unknown
  ELSE [state EXCEPT !.missing = @ + 1]

Flow(r, present, within, recovering) ==
  [r EXCEPT !.flowDay = day,
            !.tracks = [t \in Track |->
              AfterSight(Kept(r, recovering)[t], t \in present, t \in within)]]
Entered(r, within, recovering) ==
  Cardinality({t \in within : ~Kept(r, recovering)[t].counted})

-----------------------------------------------------------------------------
(***************************************************************************)
(* A pass begins.                                                          *)
(***************************************************************************)
Detecting(p) == p.modes \cap {"flow"} # {} \/ "intrusion" \in p.modes \cap active

\* The state that the registry holds is changed, not the one of a pass whose
\* camera was edited in the meantime.
Show(r, s, v) ==
  IF pass.orphan THEN UNCHANGED <<rules, seen, verdict>>
  ELSE rules' = r /\ seen' = s /\ verdict' = v

\* _process up to the detector.  A black screen is looked for when its interval
\* is over, in the frame of the beginning.
Process(p) ==
  LET looked == "black" \in p.modes
  IN /\ pass' = [p EXCEPT !.at = "detecting", !.newer = FALSE, !.orphan = FALSE]
     /\ \/ (looked => ~p.forced) /\ UNCHANGED <<rules, historyVars>>
        \/ /\ looked
           /\ \E dark \in BOOLEAN :
                /\ rules' = Black(rules, dark)
                /\ seen' = [seen EXCEPT !.black = Append(@, dark)]
                /\ verdict' = [verdict EXCEPT !.black = rules'.black >= 3]

NewPass(at, forced) ==
  [at |-> at, forced |-> forced, modes |-> modes, version |-> version,
   recovering |-> stale, newer |-> FALSE, again |-> ~seen.newer, orphan |-> FALSE]

Free ==
  /\ pass = NoPass /\ passes' = passes + 1
  /\ passes < (IF modes \cap {"flow", "intrusion"} = {} THEN MaxPass ELSE MaxTracking)

Work ==  \* _worker
  /\ Free /\ "analysis" \in fresh /\ modes # {"fire"}
  /\ Process(NewPass("detecting", FALSE))
  /\ UNCHANGED <<worldVars, fresh>>

WorkFire ==  \* _worker, fire_only
  /\ Free /\ "fire" \in fresh /\ "fire" \in modes
  /\ pass' = NewPass("burning", FALSE)
  /\ UNCHANGED <<worldVars, rules, fresh, historyVars>>

Manual ==  \* analyze_now, which waits for a new frame
  /\ Free /\ pass' = NewPass("capturing", TRUE)
  /\ UNCHANGED <<worldVars, rules, fresh, historyVars>>

Captured ==
  /\ pass.at = "capturing" /\ pass.newer /\ Process(pass)
  /\ UNCHANGED <<worldVars, fresh, passes>>

CaptureTimesOut ==
  /\ pass.at = "capturing" /\ pass' = NoPass
  /\ UNCHANGED <<worldVars, rules, fresh, passes, historyVars>>

-----------------------------------------------------------------------------
(***************************************************************************)
(* The detector has answered.                                              *)
(***************************************************************************)
\* A worker has consumed the frame it had, an analysis consumes none.
Consumed(reader, latest) ==
  IF pass.forced \/ ~latest THEN fresh ELSE fresh \ {reader}

\* An analysis goes on with the fire pass.
Finish(latest) ==
  /\ pass' = IF pass.forced /\ "fire" \in pass.modes
             THEN [pass EXCEPT !.at = "burning", !.newer = FALSE,
                               !.again = ~seen.newer, !.orphan = FALSE]
             ELSE NoPass
  /\ fresh' = Consumed("analysis", latest)
  /\ UNCHANGED <<worldVars, passes>>

\* The passes of the zone are dated, from the first.
Moment == seen.gap + IF seen.zone = <<>> THEN 0 ELSE seen.zone[Len(seen.zone)].at
Zone(new, within) == [new |-> new, at |-> Moment, within |-> within]
Gate(recovering, present, within) ==
  [new |-> recovering \/ rules.flowDay # day, present |-> present, within |-> within]

Sees(flow, intrusion, present, within, trespassing) ==
  LET moved == IF flow THEN Flow(rules, present, within, pass.recovering) ELSE rules
      quiet == "intrusion" \in pass.modes /\ "intrusion" \notin active
      r == IF intrusion THEN Intrusion(moved, trespassing)
           ELSE IF quiet THEN ResetIntrusion(moved) ELSE moved
      gates == IF flow THEN Append(seen.flow, Gate(pass.recovering, present, within))
               ELSE seen.flow
      zones == IF intrusion THEN Append(seen.zone, Zone(FALSE, trespassing))
               ELSE IF quiet THEN Append(seen.zone, Zone(TRUE, {})) ELSE seen.zone
  IN Show(r, [seen EXCEPT !.flow = gates, !.zone = zones,
                          !.gap = IF zones = seen.zone THEN @ ELSE 0],
       [verdict EXCEPT
          !.entered = IF flow THEN Entered(rules, within, pass.recovering) ELSE @,
          !.intruders = IF intrusion THEN Intruders(rules, trespassing)
                        ELSE IF quiet THEN {} ELSE @])

\* The detector is given the frame that is the latest when it begins.
Detected ==
  /\ pass.at = "detecting" /\ pass.version = version
  /\ LET flow == pass.modes \cap active \cap {"flow"} # {}
         intrusion == "intrusion" \in pass.modes \cap active
     IN \E present \in IF flow THEN SUBSET Track ELSE {{}} :
        \E within \in SUBSET present :
        \E trespassing \in IF intrusion THEN SUBSET Track ELSE {{}} :
          Sees(flow, intrusion, present, within, trespassing)
  /\ Finish(Detecting(pass) \/ ~pass.newer)

Skip ==  \* the configuration was changed
  /\ pass.at = "detecting" /\ pass.version # version
  /\ UNCHANGED <<rules, historyVars>> /\ Finish(~pass.newer)

\* An error or a time-out ends the pass, and an analysis altogether.
DetectionFails ==
  /\ pass.at = "detecting" /\ Detecting(pass) /\ pass' = NoPass
  /\ fresh' = Consumed("analysis", ~pass.newer)
  /\ UNCHANGED <<worldVars, rules, passes, historyVars>>

\* Mutant: the worker does not note the frame.
BurntFrameForgotten == fresh' = fresh
BurntFrame == fresh' = Consumed("fire", ~pass.newer)

Look == [again |-> pass.again, forced |-> pass.forced]

Burnt ==  \* _process_fire
  /\ pass.at = "burning" /\ pass' = NoPass /\ BurntFrame
  /\ \E fireHit, smokeHit \in BOOLEAN :
       LET r == FireSmoke(rules, fireHit, smokeHit)
       IN Show(r,
            [seen EXCEPT !.fire = Append(@, fireHit), !.smoke = Append(@, smokeHit),
                         !.looks = LastOf(Append(@, Look), 2), !.newer = pass.newer],
            [verdict EXCEPT !.fire = r.fire >= 2,
                            !.smoke = smokeHit /\ SmokeConfirmed(r)])
  /\ UNCHANGED <<worldVars, passes>>

\* The detector is unavailable or fails, or the mode is off.
BurningFails ==
  /\ pass.at = "burning" /\ pass' = NoPass /\ BurntFrame
  /\ UNCHANGED <<worldVars, rules, passes, historyVars>>

-----------------------------------------------------------------------------
(***************************************************************************)
(* Frames, schedules and edits.                                            *)
(***************************************************************************)
Later(n, by) == Min({n + by, Second})

Aged(by) ==
  /\ rules' = [rules EXCEPT !.unseen =
                 [t \in Track |-> IF @[t] = Never THEN Never ELSE Later(@[t], by)]]
  /\ seen' = [seen EXCEPT !.gap = Later(@, by), !.newer = @ \/ ~stale']

NewFrame ==
  /\ stale' = FALSE /\ fresh' = {"analysis", "fire"}
  /\ pass' = IF pass = NoPass THEN pass ELSE [pass EXCEPT !.newer = TRUE]
  /\ Aged(1)
  /\ UNCHANGED <<modes, active, version, day, passes, verdict>>

\* For more than two seconds no frame arrives; like midnight, it only matters
\* where people are counted.
Stall ==
  /\ "flow" \in modes /\ ~stale /\ stale' = TRUE /\ Aged(Second)
  /\ UNCHANGED <<modes, active, version, day, fresh, pass, passes, verdict>>

Midnight ==
  /\ "flow" \in modes /\ day = 0 /\ day' = 1
  /\ UNCHANGED <<modes, active, version, stale, rules, fresh, pass, passes, historyVars>>

Shift(m) ==
  /\ m \in {"intrusion", "flow"} \cap modes
  /\ active' = IF m \in active THEN active \ {m} ELSE active \cup {m}
  /\ UNCHANGED <<modes, version, stale, day, rules, fresh, pass, passes, historyVars>>

\* An edit of the options, the geometry or the schedule removes the rule state;
\* one of the modes does not.
Edit ==
  /\ version < MaxEdit /\ version' = version + 1
  /\ \/ /\ \E ms \in Config : <<modes, ms>> \in Switch /\ modes' = ms
        /\ UNCHANGED <<rules, pass, historyVars>>
     \/ /\ rules' = NewRules /\ seen' = NothingSeen /\ verdict' = NothingSaid
        /\ pass' = IF pass = NoPass THEN pass ELSE [pass EXCEPT !.orphan = TRUE]
        /\ UNCHANGED modes
  /\ UNCHANGED <<active, stale, day, fresh, passes>>

-----------------------------------------------------------------------------
Passing ==
  \/ Work \/ WorkFire \/ Manual \/ Captured \/ CaptureTimesOut
  \/ Detected \/ Skip \/ DetectionFails \/ Burnt \/ BurningFails

Next ==
  \/ Passing \/ NewFrame \/ Stall \/ Midnight \/ Edit
  \/ \E m \in Mode : Shift(m)

Spec == Init /\ [][Next]_vars

-----------------------------------------------------------------------------
(***************************************************************************)
(* Properties: the counters against the whole history.                     *)
(***************************************************************************)
TypeOK ==
  /\ modes \in Config /\ active \subseteq Mode
  /\ rules.black \in 0 .. 3 /\ rules.fire \in 0 .. 2
  /\ rules.smoke \in Seq(BOOLEAN) /\ Len(rules.smoke) <= 5
  /\ \A t \in rules.inside : rules.unseen[t] \in 0 .. Second
  /\ \A t \in Track : rules.tracks[t] = Unknown \/ rules.tracks[t].missing \in 0 .. LostCycles - 1
  /\ fresh \subseteq {"analysis", "fire"}
  /\ pass.at \in {"none", "capturing", "detecting", "burning"}

LastAll(s, n) == Len(s) >= n /\ Hits(LastOf(s, n)) = n

\* Who is inside now and was not inside before in the same visit?
NewAt(s, Ends(_, _)) ==
  IF s = <<>> THEN {}
  ELSE {t \in s[Len(s)].within :
          \A j \in 1 .. Len(s) - 1 :
            t \in s[j].within => \E k \in j + 1 .. Len(s) : Ends(t, k)}

\* A visit of the zone ends with the schedule, or in a pass that misses whoever
\* was last seen inside a second or more before.
LeavesZone(t, k) ==
  LET s == seen.zone
  IN \/ s[k].new
     \/ /\ t \notin s[k].within
        /\ \A j \in 1 .. k - 1 : t \in s[j].within => s[k].at - s[j].at >= Second

\* A visit of the hall ends with the day, a recovery, or the last of LostCycles
\* passes in a row that miss the track.
LeavesFlow(t, k) ==
  \/ seen.flow[k].new
  \/ /\ k >= LostCycles
     /\ \A n \in k - LostCycles + 1 .. k : t \notin seen.flow[n].present

\* Whatever passes failed, were skipped, were asked for or lost their state, an
\* alert of a black screen means three black looks in a row, one of fire two
\* hits in a row, one of smoke a hit now and three among the last five
\* (README.md:82), and every intruder is announced once a visit.
ConfirmedByHistory ==
  /\ verdict.black = LastAll(seen.black, 3)
  /\ verdict.fire = LastAll(seen.fire, 2)
  /\ verdict.smoke = (/\ LastAll(seen.smoke, 1) /\ Len(seen.smoke) >= 5
                      /\ Hits(LastOf(seen.smoke, 5)) >= 3)
  /\ verdict.intruders = NewAt(seen.zone, LeavesZone)

\* The number that is added to the traffic is the number of visits that begin.
VisitsCounted == verdict.entered = Cardinality(NewAt(seen.flow, LeavesFlow))

Twice == Len(seen.looks) = 2 /\ seen.looks[2].again

\* Fire "in two frames in a row" (README.md:82) is never one frame that was
\* looked at twice by the workers,
WorkersBurnOnce == verdict.fire /\ Twice => seen.looks[1].forced \/ seen.looks[2].forced

\* The types, and the frames of the fire window.
Consistent == TypeOK /\ WorkersBurnOnce

\* nor by a worker and for the analysis that a user asked for.
FramesBurnOnce == ~(verdict.fire /\ Twice)

\* A track that stays is counted once in its life (README.md:107).
OncePerTrack ==
  \A t \in Track : \A i \in DOMAIN seen.flow :
    /\ \A n \in 1 .. i : t \in seen.flow[n].within
    /\ i = Len(seen.flow) /\ i > 1 /\ day = 0
    => verdict.entered < Cardinality(seen.flow[i].within)
=============================================================================
