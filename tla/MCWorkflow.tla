----------------------------- MODULE MCWorkflow -----------------------------
(***************************************************************************)
(* Workflow instantiated with the rig-flow template.                       *)
(***************************************************************************)
EXTENDS Workflow, RigFlow

RigState == DOMAIN RigTo

Fresh == {[reviewed |-> FALSE, frozen |-> FALSE, ver |-> 1]}
OneVersion == {1}

\* "fail" is an alias of "failure": the runs with fairness leave it out.
PlainOutcome == FlowOutcome \ {"fail"}

NoStates == {}

\* The state `gt mayor workflow reset' is documented with.
ResetStates == {"design"}

\* A reset into the review loop keeps its counter: without one, every entry of
\* test_review follows a success, which clears it.
ReviewResets == {"test_review"}

\* The limits of the template, and of the states that take no timeout, which
\* GT_STATE_TIMEOUT_SECONDS limits as well, that of kickoff.
SomeLimited == RigTimeLimited \cup {"kickoff"}

\* What the proof of RetryHarmless asks of a template holds of rig-flow.
ASSUME RigFlowRetrySafe == RetrySafe
=============================================================================
