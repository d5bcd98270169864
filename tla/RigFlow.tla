------------------------------ MODULE RigFlow ------------------------------
(***************************************************************************)
(* The rig-flow template shipped with the orchestrator                     *)
(* (internal/orchestrator/town/templates/rig-flow.yaml): states, roles,    *)
(* edges and the hooks that bear on control.                               *)
(***************************************************************************)
EXTENDS TLC

FlowOutcome == {"success", "failure", "fail", "architecture_failure", "plan_gap",
                "timeout", "task_passed", "all_passed"}

RigRoleOf ==
       "kickoff" :> "mayor" @@ "design" :> "architect" @@ "design_review" :> "qa"
    @@ "planning" :> "planner" @@ "plan_review" :> "qa" @@ "test_plan" :> "tester"
    @@ "test_plan_review" :> "qa" @@ "test_plan_rework" :> "tester"
    @@ "project_setup" :> "setup" @@ "implementation" :> "polecat"
    @@ "test_review" :> "tester" @@ "qa_review" :> "qa" @@ "advance_phase" :> "none"

ArchitectureFailure == "architecture_failure" :> "design"

RigTo ==
    [ kickoff          |-> "success" :> "design" @@ "failure" :> "kickoff",
      design           |-> "success" :> "design_review" @@ "failure" :> "design",
      design_review    |-> "success" :> "planning" @@ "failure" :> "design",
      planning         |-> "success" :> "plan_review" @@ "failure" :> "planning"
                           @@ "timeout" :> "planning" @@ ArchitectureFailure,
      plan_review      |-> "success" :> "test_plan" @@ "failure" :> "planning"
                           @@ ArchitectureFailure,
      test_plan        |-> "success" :> "test_plan_review" @@ "failure" :> "planning"
                           @@ ArchitectureFailure,
      test_plan_review |-> "success" :> "project_setup" @@ "failure" :> "test_plan"
                           @@ ArchitectureFailure,
      test_plan_rework |-> "success" :> "implementation" @@ "failure" :> "test_plan_rework"
                           @@ ArchitectureFailure,
      project_setup    |-> "success" :> "implementation" @@ "failure" :> "project_setup"
                           @@ ArchitectureFailure,
      implementation   |-> "success" :> "test_review" @@ "failure" :> "planning"
                           @@ "plan_gap" :> "test_plan_rework"
                           @@ "timeout" :> "implementation" @@ ArchitectureFailure,
      test_review      |-> "success" :> "qa_review" @@ "failure" :> "implementation"
                           @@ "plan_gap" :> "test_plan_rework"
                           @@ "timeout" :> "implementation" @@ ArchitectureFailure,
      qa_review        |-> "task_passed" :> "implementation" @@ "all_passed" :> "advance_phase"
                           @@ "failure" :> "implementation"
                           @@ "timeout" :> "implementation" @@ ArchitectureFailure,
      advance_phase    |-> "timeout" :> "planning" ]

\* States with a positive state_timeout_seconds.
RigTimeLimited == {"planning", "implementation", "qa_review", "advance_phase"}

\* States with on_timeout or on_state_timeout hooks.
RigTimeoutHooked == {"planning", "implementation"}

\* States with both no_progress_limit and progress_files.
RigProgressGuarded == {"design", "design_review"}
=============================================================================
