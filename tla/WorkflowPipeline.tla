-------------------------- MODULE WorkflowPipeline --------------------------
(***************************************************************************)
(* Workflow implements Pipeline: the stage of a workflow is the rank of    *)
(* its state, and the approval is test_plan_reviewed.                      *)
(***************************************************************************)
EXTENDS Workflow

CONSTANT Rank    \* the stage of each state, and of the ended states

\* The states whose success marks the test plan reviewed.
ApprovalGates == {"test_plan", "test_plan_review"} \cap State

\* What it takes for a template to be a pipeline.
ASSUME RankAssumption ==
    /\ Rank \in [Place -> Nat]
    /\ Rank[InitialState] = 0
    /\ \A s \in Place : Rank[s] <= Rank["completed"]
    /\ \A s \in State : \A o \in DOMAIN To[s] : Rank[To[s][o]] <= Rank[s] + 1
    /\ \A s \in Resettable : Rank[s] <= 1
    \* no edge, skip or escalation leads forward by more than a stage
    /\ {"plan_review", "test_plan", "test_review", "project_setup"} \subseteq State
    /\ \A s \in {"plan_review", "test_plan", "test_review"} : Rank["design"] <= Rank[s] + 1
    /\ Rank["test_plan_rework"] <= Rank["test_review"] + 1
    /\ \A o \in {"failure", "default"} \cap DOMAIN To["test_plan_rework"] :
         Rank[To["test_plan_rework"][o]] <= Rank["test_plan_rework"]
    /\ "advance_phase" \in State => Rank["advance_phase"] = Rank["completed"]
    \* the test plan is written after plan_review, and its gates are passed one
    \* by one up to project_setup
    /\ \A s \in State : \A o \in DOMAIN To[s] :
         To[s][o] = "test_plan" => s = "plan_review" \/ (s = "test_plan_review" /\ o = "failure")
    /\ \A s \in ApprovalGates :
         /\ Rank["plan_review"] < Rank[s] /\ Rank[s] < Rank["project_setup"]
         /\ "success" \in DOMAIN To[s]
         /\ To[s]["success"] \notin {"advance_phase", "test_plan_rework"}
         /\ Rank[To[s]["success"]] = Rank[s] + 1
         /\ To[s]["success"] \in ApprovalGates \/ Rank[To[s]["success"]] = Rank["project_setup"]

P == INSTANCE Pipeline WITH
        stage <- Rank[inst.state], saved <- Rank[disk.state], approved <- prof.reviewed,
        Last <- Rank["completed"], Plan <- Rank["plan_review"], Build <- Rank["project_setup"]

\* However its requests are redirected, rolled back, skipped, escalated, timed
\* out or lost in a crash, a workflow passes its gates one at a time, and jumps
\* over test_plan only while test_plan_reviewed is set.
GatesInOrder == P!Spec
=============================================================================
