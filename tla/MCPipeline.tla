----------------------------- MODULE MCPipeline -----------------------------
(***************************************************************************)
(* The rig-flow template as a pipeline.                                    *)
(***************************************************************************)
EXTENDS WorkflowPipeline, MCWorkflow, Sequences

\* The stages of the template, in order; test_plan_rework is a side road that
\* leads to implementation, as project_setup does.
RigOrder == <<"kickoff", "design", "design_review", "planning", "plan_review", "test_plan",
              "test_plan_review", "project_setup", "implementation", "test_review",
              "qa_review", "completed">>

RigRank ==
    [s \in Place |->
        LET t == CASE s = "test_plan_rework" -> "project_setup"
                   [] s \in {"advance_phase", "failed"} -> "completed"
                   [] OTHER -> s
        IN  (CHOOSE n \in 1 .. Len(RigOrder) : RigOrder[n] = t) - 1]
=============================================================================
