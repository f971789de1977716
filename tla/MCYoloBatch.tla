----------------------------- MODULE MCYoloBatch -----------------------------
(* Small instances of YoloBatch: a camera and its preview on one device, with
   and without batches.  One of the keys has a second frame to come and there
   is one trouble, or there are two troubles and no more frames.             *)
EXTENDS YoloBatch

CONSTANTS c1, p1, d1

LastFrames == [k \in Key |-> MaxFrame]

MCInit ==
  /\ Init
  /\ \/ \E k \in Key : /\ fixed => k \in Camera
                       /\ upsets = MaxUpset - 1
                       /\ frame = [LastFrames EXCEPT ![k] = MaxFrame - 1]
     \/ ~fixed /\ upsets = 0 /\ frame = LastFrames

MCFairSpec == MCInit /\ [][Next]_vars /\ Fairness
=============================================================================
