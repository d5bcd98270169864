------------------------------ MODULE Pipeline ------------------------------
(***************************************************************************)
(* What the orchestrator promises of a workflow, whatever its template:    *)
(* work passes the gates of the delivery pipeline one at a time.  It may   *)
(* fall back at any moment, and after a crash it resumes from the stage    *)
(* that was saved last, but the only gates it ever jumps over are those    *)
(* between Plan and Build, and only with an approved test plan.            *)
(***************************************************************************)
EXTENDS Naturals

CONSTANTS
    Last,       \* the stage of a completed workflow, counted from 0
    Plan,       \* the stage that precedes the test plan
    Build       \* the stage that follows the test plan's gates, after Plan

VARIABLES stage, saved, approved

Init ==
    /\ stage = 0 /\ saved = 0
    /\ approved \in BOOLEAN

\* Passing a gate between Plan and Build may approve the plan.
Advance ==
    /\ stage < Last
    /\ stage' = stage + 1
    /\ approved' \in {FALSE, approved} \cup (IF Plan < stage /\ stage < Build THEN {TRUE} ELSE {})
    /\ saved' \in {saved, stage'}

JumpApproved ==
    /\ approved /\ stage = Plan
    /\ stage' = Build
    /\ saved' \in {saved, stage'}
    /\ UNCHANGED approved

FallBack ==
    /\ stage' \in 0 .. stage
    /\ approved' \in {FALSE, approved}
    /\ saved' \in {saved, stage'}

Recover ==
    /\ stage' = saved
    /\ UNCHANGED <<saved, approved>>

Next == Advance \/ JumpApproved \/ FallBack \/ Recover

Spec == Init /\ [][Next]_<<stage, saved, approved>>
=============================================================================
