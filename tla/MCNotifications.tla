--------------------------- MODULE MCNotifications ---------------------------
(* Instances of Notifications: what happens besides the workers' and         *)
(* coroutines' own steps is one of three cases.                              *)
EXTENDS Notifications
CONSTANT First          \* a worker
MCInit ==
  /\ Init
  /\ \/ staff = {} /\ left.losses = 0
     \/ staff = Worker /\ left = [losses |-> MaxLosses, restarts |-> 0, sends |-> 0]
     \/ staff = {First} /\ left = [losses |-> 0, restarts |-> MaxRestarts, sends |-> MaxSends]
MCSpec == MCInit /\ [][Next]_vars
MCFairSpec == MCInit /\ Fairness
=============================================================================
