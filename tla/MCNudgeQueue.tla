---------------------------- MODULE MCNudgeQueue ----------------------------
(* The nudge queue with one nudge, whose files follow one another. *)
EXTENDS NudgeQueue

OneNudge == 1..1
=============================================================================
