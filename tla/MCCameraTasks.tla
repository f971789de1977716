--------------------------- MODULE MCCameraTasks ----------------------------
(* Small instances of CameraTasks. *)
EXTENDS CameraTasks, TLC

CONSTANTS g1, g2, f1

\* The workers of one line do the same.
Workers == Permutations(GeneralWorker) \cup Permutations(FireWorker)
=============================================================================
