----------------------------- MODULE MCOffDuty ------------------------------
(* Small instances of OffDuty: one or two cameras of one directory. *)
EXTENDS OffDuty, TLC

CONSTANTS a, b

Cameras == Permutations({a, b})

AnyVerdict == {"confirmed", "none", "uncertain", "failed"}

\* Two cameras of a directory, and errors of the database.
Two == [cameras |-> {a, b}, behavior |-> {}, verdict |-> {"confirmed"},
        disturb |-> {"error"}]
\* Two cameras of a directory whose members change.
Group == [Two EXCEPT !.disturb = {"modes"}]
\* One camera and every disturbance.
One == [cameras |-> {a}, behavior |-> {}, verdict |-> AnyVerdict,
        disturb |-> {"offline", "shift", "edit", "timeout", "error",
                     "unconfigured", "restart"}]
\* A camera whose behaviour requests may confirm long before the threshold.
Behaving == [cameras |-> {a}, behavior |-> {a}, verdict |-> AnyVerdict,
             disturb |-> {"offline", "restart"}]
All == {Two, Group, One, Behaving}

\* In Two the cameras have three absences between them, or two and an error, in
\* any interleaving.
Narrow == \A c, d \in Camera : c # d => events'[c] + events'[d] + faults' <= 3

\* In Group they have more, but take turns: two alerts of the directory follow each
\* other, with a change of its members between them; one analysis worker, one
\* review worker, and who has left comes back only while the directory cools down.
OneAtATime(work) == \A c, d \in Camera : c # d => work[c] = None \/ work[d] = None
Away(c) ==
  /\ state[c].since = NoEvent \/ memCool \/ state'[c].since # NoEvent
  /\ pass'[c] = None \/ pass'[c].event # NoEvent
Few ==
  /\ \A c, d \in Camera : c # d => events'[c] + events'[d] + version' <= 5
  /\ Cardinality(DOMAIN rows') <= 2
InTurn == OneAtATime(pass') /\ OneAtATime(active') /\ Few /\ \A c \in Camera : Away(c)

\* Otherwise a camera has two absences, of which the second stays below its threshold.
Short == \A c \in Camera : events'[c] <= 2 /\ <<c, 2>> \notin reached'

Bounds == \/ setting = Two /\ Narrow /\ Short
          \/ setting = Group /\ InTurn
          \/ setting \in {One, Behaving} /\ Short

MCSpec == Init /\ [][Next /\ Bounds]_vars

\* One camera that nothing disturbs, with and without behaviour requests.
Calm == {[s EXCEPT !.disturb = {}] : s \in {One, Behaving}}
=============================================================================
