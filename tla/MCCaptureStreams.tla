-------------------------- MODULE MCCaptureStreams --------------------------
(* Instances of CaptureStreams.                                              *)
EXTENDS CaptureStreams

MCCamera == 1..3
MCSlot == 1..3

Enabled(S) == [c \in Camera |-> IF c \in S THEN "rtsp:a" ELSE "absent"]

\* Three cameras on two devices with room for one each are changed, deleted and
\* renamed; and one camera is while its reader reports, and two report.  One
\* process may outlive its kill.
MCInTurn ==
  { [rows |-> Enabled(1..2), scope |-> 1..3, edits |-> 3, reports |-> FALSE, stubborn |-> 0],
    [rows |-> Enabled({1}), scope |-> {1}, edits |-> 2, reports |-> TRUE, stubborn |-> 1],
    [rows |-> Enabled(1..2), scope |-> {}, edits |-> 0, reports |-> TRUE, stubborn |-> 0] }

\* Two requests that overlap, about one camera and about two.
MCOverlap ==
  { [rows |-> Enabled({1}), scope |-> {1}, edits |-> 3, reports |-> FALSE, stubborn |-> 1],
    [rows |-> Enabled({1}), scope |-> 1..2, edits |-> 2, reports |-> FALSE, stubborn |-> 1] }

MCSettings == MCInTurn \cup MCOverlap

\* The behaviour began with a setting of MCInTurn: requests come one after the
\* other.  Where two readers report, nobody closes the runtime.
InTurn == reports \/ scope = Camera
Bounds ==
  /\ InTurn' => ed'["e2"].pc = "idle"
  /\ scope' = {} => ~closed'

MCSpec == Init /\ [][Next /\ Bounds]_vars /\ WritersGoOn /\ RequestsGoOn

\* While requests come one after the other, no camera is read twice and no device
\* is overloaded, even while sync stops and starts readers (media_capture.py:393),
\* processes apart that survive their kill; and when a request has been answered,
\* exactly the enabled cameras are read, as the table has them and on their devices.
ReadersFitInTurn == TypeOK /\ (InTurn => ReadersBounded /\ Settled)
=============================================================================
