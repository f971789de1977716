----------------------------- MODULE MCPreviews -----------------------------
(* Instances of Previews.                                                    *)
EXTENDS Previews
CONSTANT Spare         \* a camera
MCPreview == 1..3
MCPreviews == 1..4

\* Either no camera is changed and all may be played, as many as there are or
\* one at a time, or one is changed and Spare is disabled until it is the one.
MCInit ==
  /\ Init
  /\ limit = 1 => edits = MaxEdits
  /\ edits = MaxEdits <=> rows[Spare] # Off
  /\ \A c \in Camera \ {Spare} : rows[c] # Off
MCSpec == MCInit /\ [][Next]_vars
MCFairSpec == MCInit /\ Fairness
=============================================================================
