----------------------------- MODULE MCTaskStore -----------------------------
(* A small instance of TaskStore: two workers on one job; once a second job
   arrives, one of the workers goes on alone and may claim both at once.      *)
EXTENDS TaskStore

CONSTANTS k1, k2, w1, w2

Narrow == status'[k2] = "absent" \/ claims'[w2] = {}

MCFairSpec ==
  /\ Init /\ [][Next /\ Narrow]_vars
  /\ WF_vars(Tick /\ Narrow)
  /\ \A w \in Worker : WF_vars(Progress(w) /\ Narrow)
=============================================================================
