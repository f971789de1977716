--------------------------- MODULE MCPhoneAlerts ----------------------------
(* Small instances of PhoneAlerts: two cameras of one directory. *)
EXTENDS PhoneAlerts

CONSTANTS c1, c2, Case

MCInit ==
  /\ Init /\ troubles \in Case
  /\ online = IF "late" \in troubles THEN {c1} ELSE Camera
MCSpec == MCInit /\ [][Next]_vars
MCFairSpec == MCSpec /\ Fairness
=============================================================================
