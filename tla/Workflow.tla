------------------------------ MODULE Workflow ------------------------------
(***************************************************************************)
(* One workflow instance of the orchestrator (internal/orchestrator), for  *)
(* an arbitrary template: the in-memory instance, its copy in              *)
(* instances.json, and the test-plan flags of workflow-profile.json.       *)
(*                                                                         *)
(* The orchestrator serves MCP requests one at a time from a single NATS   *)
(* subscription, and every Manager method holds m.mu, so a request is one  *)
(* action.  FetchTask is the exception: it loops, and while it loops no    *)
(* other request is served (`fetching').  What agents, the file system and *)
(* the validators report is a nondeterministic choice of the action.       *)
(***************************************************************************)
EXTENDS Naturals

CONSTANTS
    State,            \* states of the template
    Outcome,          \* outcomes an agent may report
    RoleOf,           \* the role of each state, NoRole for internal states
    To,               \* To[s][o]: the edge of s for o, for o \in DOMAIN To[s]
    InitialState,
    TimeLimited,      \* states with a positive limit: their own, or, for every
                      \* state, that of GT_STATE_TIMEOUT_SECONDS
    TimeoutHooked,    \* states with on_timeout hooks
    ProgressGuarded,  \* states with no_progress_limit and progress_files
    NoProgressLimit,
    MaxReviewRetries,
    Resettable,       \* the states an operator resets the workflow to
    Version,          \* contents of workflow-profile.json besides the flags
    InitialProfile,   \* the profiles a new workflow may find
    IOFails,          \* may reading the profile or writing instances.json fail?
    NoRole, NoState

VARIABLES
    inst,      \* the instance in m.instances
    disk,      \* its copy in instances.json
    prof,      \* workflow-profile.json
    reply,     \* what the last request answered
    last,      \* the last completion, until something else moves the instance
    fetching   \* the FetchTask being served: none, about to apply the timeout
               \* it found, or about to look again after that or its failure

vars == <<inst, disk, prof, reply, last, fetching>>

Place == State \cup {"completed", "failed"}
Profile == [reviewed : BOOLEAN, frozen : BOOLEAN, ver : Version]
NoProgress == [failures |-> 0]
Progress == {NoProgress} \cup [failures : 1 .. NoProgressLimit, seen : Profile]
NoCall == [moved |-> FALSE, role |-> NoRole, outcome |-> "success"]

ASSUME TemplateAssumption ==
    /\ {"design", "planning", "implementation", "test_plan_rework"} \subseteq State
    /\ {"success", "failure", "architecture_failure", "plan_gap"} \subseteq Outcome
    /\ {"completed", "failed"} \cap State = {} /\ NoState \notin Place
    /\ InitialState \in State /\ ProgressGuarded \subseteq State
    /\ \A s \in State : DOMAIN To[s] \subseteq Outcome
    /\ \A s \in State : \A o \in DOMAIN To[s] : To[s][o] \in Place
    \* neither plan_review nor a state with a no-progress budget ends the workflow
    /\ \A s \in ProgressGuarded \cup ({"plan_review"} \cap State) :
         \A o \in DOMAIN To[s] : To[s][o] \in State \ {"advance_phase"}
    /\ Resettable \subseteq State

ASSUME LimitAssumption ==
    /\ NoProgressLimit \in Nat \ {0}
    /\ MaxReviewRetries \in Nat \ {0}
    /\ InitialProfile \subseteq Profile
    /\ IOFails \in BOOLEAN

-----------------------------------------------------------------------------
(* Outcomes and edges.                                                     *)

IsFailureOutcome(o) == o \in {"fail", "failure"}

IsArchitectureReworkOutcome(o) == o = "architecture_failure"

IsTimeoutOutcome(o) == o = "timeout"

IsCrossStateReworkOutcome(o) ==
    \/ IsFailureOutcome(o)
    \/ IsArchitectureReworkOutcome(o)
    \/ o = "plan_gap"
    \/ IsTimeoutOutcome(o)

IsProgressOutcome(o) ==
    ~ (IsTimeoutOutcome(o) \/ IsFailureOutcome(o) \/ IsArchitectureReworkOutcome(o))

AcceptsOutcome(s, o) ==
    \/ o \in DOMAIN To[s]
    \/ o = "fail" /\ "failure" \in DOMAIN To[s]

\* The edge taken for an outcome: its own, the alias of "fail", or "default".
Edge(s, o) ==
    IF o \in DOMAIN To[s] THEN To[s][o]
    ELSE IF o = "fail" /\ "failure" \in DOMAIN To[s] THEN To[s]["failure"]
    ELSE IF "default" \in DOMAIN To[s] THEN To[s]["default"]
    ELSE NoState

IsWorkflowTerminalStatus(st) == st \in {"completed", "failed"}

\* Place the instance in a state and restart its wall-clock window.
EnterState(i, s) == [i EXCEPT !.state = s, !.overdue = FALSE]

\* Without an edge (an error in the code) the instance stays where it is.
Transition(i, o) ==
    LET t == IF i.state \in State THEN Edge(i.state, o) ELSE NoState IN
    IF t = NoState THEN i
    ELSE [i EXCEPT !.state = t,
                   !.overdue = @ /\ t = i.state,
                   !.status = IF t \in {"completed", "failed"} THEN t ELSE @]
-----------------------------------------------------------------------------
(* The test-plan flags of workflow-profile.json.                           *)

\* Marking the plan reviewed also freezes it; a plan already marked is left.
SetTestPlanReviewed(p) ==
    IF p.reviewed THEN p ELSE [p EXCEPT !.reviewed = TRUE, !.frozen = TRUE]

ClearTestPlanFlags(p) == [p EXCEPT !.reviewed = FALSE, !.frozen = FALSE]

FlagsOnCompletion(s, o, p) ==
    CASE s \in {"test_plan", "test_plan_review"} /\ o = "success" -> SetTestPlanReviewed(p)
      [] \/ s \in {"test_plan_review", "design_review"} /\ IsFailureOutcome(o)
         \/ IsArchitectureReworkOutcome(o) -> ClearTestPlanFlags(p)
      [] OTHER -> p

\* Design success re-derives the profile from architecture.md; an explicit
\* delivery contract also clears the flags.
ProfilesOnCompletion(s, o, p) ==
    IF s = "design" /\ o = "success"
    THEN {[q EXCEPT !.ver = v] : q \in {p, ClearTestPlanFlags(p)}, v \in Version}
    ELSE {FlagsOnCompletion(s, o, p)}

-----------------------------------------------------------------------------
(* CompleteTask up to and including the Transition.                        *)

\* The request is for a live state, and its outcome is one the state takes.
\* (The agent is the state's own: any other agent is turned away unchanged.)
Admitted(o) ==
    /\ fetching = "no"
    /\ inst.status # "paused"
    /\ inst.state \in State
    /\ RoleOf[inst.state] = NoRole \/ AcceptsOutcome(inst.state, o)
    /\ Edge(inst.state, o) # NoState

\* What reopening the implement beads after a test_review failure comes to:
\* nothing to reopen, beads reopened, or a gap in the plan itself.
Repairs(s, o) ==
    IF /\ s = "test_review" /\ IsFailureOutcome(o)
       /\ o \in DOMAIN To[s] /\ To[s][o] = "implementation"
    THEN {"none", "reopened"} \cup (IF "plan_gap" \in DOMAIN To[s] THEN {"gap"} ELSE {})
    ELSE {"none"}

\* What the Transition for an outcome results in: the outcome in effect after
\* the repair r, the instance, and the profile (q before the repair).
Move(o, r, q) ==
    LET e == IF r = "gap" THEN "plan_gap" ELSE o IN
    [outcome |-> e, inst |-> Transition(inst, e), reopened |-> r = "reopened",
     prof |-> IF r = "gap" THEN ClearTestPlanFlags(q) ELSE q, rewound |-> FALSE]

\* A failed implementation may be rewound to an earlier delivery phase, which
\* keeps the polecat in implementation.
Rewound(m) == [m EXCEPT !.inst = EnterState(@, "implementation"), !.rewound = TRUE]

Moves(o) ==
    LET straight == {Move(o, r, q) : r \in Repairs(inst.state, o),
                                     q \in ProfilesOnCompletion(inst.state, o, prof)}
    IN  straight \cup
        {Rewound(m) : m \in {n \in straight : inst.state = "implementation"
                                              /\ n.inst.state = "planning"}}

-----------------------------------------------------------------------------
(* What CompleteTask does with the state the Transition led to.            *)

\* Mutant of MayAutoComplete: any plan will do.
MayAutoCompleteUnreviewed(m) ==
    m.inst.state = "test_plan" /\ Edge("test_plan", "success") # NoState

\* test_plan is completed at once when its plan is reviewed and still valid.
MayAutoComplete(m) ==
    m.inst.state = "test_plan" /\ m.prof.reviewed /\ Edge("test_plan", "success") # NoState

\* test_plan_rework is skipped when the plan is frozen, unless test_review
\* itself reported the gap.
SkipsRework(s, m) ==
    /\ m.inst.state = "test_plan_rework" /\ m.prof.frozen
    /\ ~ (s = "test_review" /\ m.outcome = "plan_gap")
    /\ Edge("test_plan_rework", "failure") # NoState

\* The profile once the tester is really sent to work.
ProfileOnEntry(s, m) ==
    IF m.inst.state = "test_plan" /\ m.prof.reviewed THEN ClearTestPlanFlags(m.prof)
    ELSE IF s = "test_review" /\ m.outcome = "plan_gap" /\ m.inst.state = "test_plan_rework"
         THEN [m.prof EXCEPT !.frozen = FALSE]
    ELSE m.prof

AdvancesPhase(s, m) ==
    \/ m.inst.state = "advance_phase"
    \/ m.inst.state = "completed" /\ s = "qa_review" /\ m.outcome = "all_passed"

\* The errors CompleteTask can still return once the instance has moved.
RefusedAfterMove(s, m) ==
    \/ s = "spec_review" /\ m.outcome = "success" /\ m.inst.state = "design"
    \/ s = "qa_review" /\ IsArchitectureReworkOutcome(m.outcome) /\ m.inst.state = "design"
    \/ m.inst.state = "implementation" /\ s # "implementation" /\ ~m.reopened

\* Mutant of Landings: nobody takes the workflow out of advance_phase.
LandingsStranded(s, m) ==
    IF AdvancesPhase(s, m) THEN {[EnterState(m.inst, "planning") EXCEPT !.status = "running"], m.inst}
    ELSE {m.inst} \cup (IF s = "plan_review" /\ IsFailureOutcome(m.outcome)
                        THEN {EnterState(m.inst, "design")} ELSE {})

\* Where the instance lands: plan_review failures may need the architect, and
\* advance_phase resolves to the next delivery phase or to completion.
Landings(s, m) ==
    IF AdvancesPhase(s, m)
    THEN {[EnterState(m.inst, "planning") EXCEPT !.status = "running"],
          [m.inst EXCEPT !.state = "completed", !.status = "completed"]}
    ELSE {m.inst} \cup (IF s = "plan_review" /\ IsFailureOutcome(m.outcome)
                        THEN {EnterState(m.inst, "design")} ELSE {})

\* Mutant of RetriesSpent: one retry too many.
RetriesSpentLate(n) == n > MaxReviewRetries

RetriesSpent(n) == n >= MaxReviewRetries

\* Rework and loop-safety counters; `to' is where a rejected implementation is
\* escalated to.
Account(s, m, i, to) ==
    LET o == m.outcome
        rejected == s = "test_review" /\ i.state = "implementation" /\ IsFailureOutcome(o)
        unplanned == s = "test_plan" /\ i.state = "planning" /\ IsFailureOutcome(o)
        escalated == rejected /\ RetriesSpent(i.testReviewFailures + 1)
        replanned == unplanned /\ RetriesSpent(i.testPlanFailures + 1)
        routed == IF escalated THEN EnterState(i, to)
                  ELSE IF replanned THEN EnterState(i, "design") ELSE i
    IN
    IF m.rewound \/ (i.state # s /\ IsCrossStateReworkOutcome(o)) \/ IsTimeoutOutcome(o)
    THEN [routed EXCEPT
            !.rework = s,
            !.testReviewFailures =
                IF escalated THEN 0 ELSE IF rejected THEN @ + 1
                ELSE IF IsProgressOutcome(o) /\ s \in {"test_review", "implementation"}
                THEN 0 ELSE @,
            !.testPlanFailures =
                IF replanned THEN 0 ELSE IF unplanned THEN @ + 1
                ELSE IF s = "test_plan" THEN 0 ELSE @]
    ELSE IF IsProgressOutcome(o)
    THEN [i EXCEPT !.rework = IF AdvancesPhase(s, m) /\ i.state = "planning"
                              THEN s ELSE NoState,
                   !.testReviewFailures = 0, !.testPlanFailures = 0]
    ELSE i

\* Mutant of RecordReviewProgress: every failure starts a new count.
RecordReviewProgressForgetful(s, o, i, p) ==
    IF s \notin ProgressGuarded THEN {i}
    ELSE {[i EXCEPT !.progress[s] = IF IsFailureOutcome(o) THEN [failures |-> 1, seen |-> p]
                                    ELSE NoProgress]}

\* The no-progress budget of a state: failures over an unchanged profile.  An
\* unreadable profile counts for nothing.
RecordReviewProgress(s, o, i, p) ==
    LET g == i.progress[s]
        n == IF g = NoProgress \/ g.seen # p THEN 1
             ELSE IF g.failures < NoProgressLimit THEN g.failures + 1 ELSE g.failures
    IN
    IF s \notin ProgressGuarded THEN {i}
    ELSE IF ~IsFailureOutcome(o) THEN {[i EXCEPT !.progress[s] = NoProgress]}
    ELSE (IF IOFails THEN {i} ELSE {}) \cup
         {[i EXCEPT !.progress[s] = [failures |-> n, seen |-> p],
                     !.status = IF n >= NoProgressLimit THEN "paused" ELSE @]}

-----------------------------------------------------------------------------
(* The requests.                                                           *)

\* Write instances.json; on an error memory keeps what the request did.
PersistLocked(i, saved, unsaved) ==
    \/ disk' = i /\ reply' = saved
    \/ IOFails /\ UNCHANGED disk /\ reply' = unsaved

CompletionOf(o) ==
    last' = [moved |-> inst'.state # inst.state, role |-> RoleOf[inst.state], outcome |-> o]

\* Back to the architect, with a new wall-clock window.  A state without an
\* edge for it keeps the workflow: Transition then answers the current state.
Redirect(i) == [Transition(i, "architecture_failure") EXCEPT !.overdue = FALSE]

\* Mutant of CompleteRedirected: the redirect is not saved.
CompleteRedirectedUnsaved(o) ==
    /\ Admitted(o) /\ o = "success"
    /\ inst.state \in {"design", "planning", "plan_review", "project_setup"}
    /\ inst' = [Redirect(inst) EXCEPT !.rework = inst.state]
    /\ reply' = "ok"
    /\ CompletionOf(o)
    /\ UNCHANGED <<disk, prof, fetching>>

\* The planning gate finds architecture.md at fault: back to design.
CompleteRedirected(o) ==
    /\ Admitted(o) /\ o = "success"
    /\ inst.state \in {"design", "planning", "plan_review", "project_setup"}
    /\ inst' = [Redirect(inst) EXCEPT !.rework = inst.state]
    /\ PersistLocked(inst', "ok", "unsaved")
    /\ CompletionOf(o)
    /\ UNCHANGED <<prof, fetching>>

\* Mutant of CompleteAuto: test_plan_review is not stepped over.
CompleteAutoOneStep(o) ==
    /\ Admitted(o)
    /\ \E m \in Moves(o) :
         LET i == Transition(m.inst, "success") IN
         /\ MayAutoComplete(m)
         /\ inst' = EnterState(i, i.state)
         /\ prof' = m.prof
    /\ PersistLocked(inst', "auto", "auto")
    /\ CompletionOf(o)
    /\ UNCHANGED fetching

CompleteAuto(o) ==
    /\ Admitted(o)
    /\ \E m \in Moves(o) :
         LET i == Transition(m.inst, "success")
             j == IF i.state = "test_plan_review" THEN Transition(i, "success") ELSE i
         IN  /\ MayAutoComplete(m)
             /\ inst' = EnterState(j, j.state)
             /\ prof' = m.prof
    /\ PersistLocked(inst', "auto", "auto")
    /\ CompletionOf(o)
    /\ UNCHANGED fetching

CompleteSkippingRework(o) ==
    /\ Admitted(o)
    /\ \E m \in Moves(o) :
         LET i == Transition(m.inst, "failure") IN
         /\ SkipsRework(inst.state, m)
         /\ inst' = EnterState(i, i.state)
         /\ prof' = m.prof
    /\ PersistLocked(inst', "auto", "auto")
    /\ CompletionOf(o)
    /\ UNCHANGED fetching

\* The request fails although the instance has moved; nothing is saved.
CompleteRefused(o) ==
    /\ Admitted(o)
    /\ \E m \in Moves(o) :
         /\ RefusedAfterMove(inst.state, m)
         /\ inst' = m.inst
         /\ prof' = ProfileOnEntry(inst.state, m)
    /\ reply' = "refused"
    /\ CompletionOf(o)
    /\ UNCHANGED <<disk, fetching>>

\* The delivery phase cannot be advanced: QA stays retryable.
CompleteRolledBack(o) ==
    /\ Admitted(o)
    /\ \E m \in Moves(o) :
         /\ AdvancesPhase(inst.state, m)
         /\ inst' = [EnterState(m.inst, inst.state) EXCEPT !.status = "running"]
         /\ prof' = m.prof
    /\ reply' = "refused"
    /\ CompletionOf(o)
    /\ UNCHANGED <<disk, fetching>>

CompleteTask(o) ==
    /\ Admitted(o)
    /\ \E m \in Moves(o) :
         /\ ~SkipsRework(inst.state, m)
         /\ prof' = ProfileOnEntry(inst.state, m)
         /\ \E i \in Landings(inst.state, m), to \in {"test_plan_rework", "design"} :
              inst' \in RecordReviewProgress(inst.state, m.outcome,
                                             Account(inst.state, m, i, to), prof')
    /\ PersistLocked(inst', "ok", "unsaved")
    /\ CompletionOf(o)
    /\ UNCHANGED fetching

\* A completion for an instance that has ended: no state, hence no role, no
\* outcome check and no transition.
CompleteEnded(o) ==
    /\ fetching = "no" /\ inst.state \notin State /\ inst.status # "paused"
    /\ prof' = FlagsOnCompletion(inst.state, o, prof)
    /\ inst' = IF IsProgressOutcome(o)
               THEN [inst EXCEPT !.rework = NoState, !.testReviewFailures = 0,
                                 !.testPlanFailures = 0]
               ELSE inst
    /\ PersistLocked(inst', "ok", "unsaved")
    /\ UNCHANGED <<last, fetching>>
\* Mutant of PauseWorkflow: an ended workflow can be paused.
PauseWorkflowEnded ==
    /\ fetching = "no"
    /\ inst' = [inst EXCEPT !.status = "paused"]
    /\ PersistLocked(inst', "ok", "unsaved")
    /\ UNCHANGED <<prof, last, fetching>>

\* An operator's pause is refused only for an ended workflow.
PauseWorkflow ==
    /\ fetching = "no" /\ ~IsWorkflowTerminalStatus(inst.status)
    /\ inst' = [inst EXCEPT !.status = "paused"]
    /\ PersistLocked(inst', "ok", "unsaved")
    /\ UNCHANGED <<prof, last, fetching>>

ResumeWorkflow ==
    /\ fetching = "no" /\ inst.status = "paused"
    /\ inst' = [inst EXCEPT !.status = "running"]
    /\ PersistLocked(inst', "ok", "unsaved")
    /\ UNCHANGED <<prof, last, fetching>>

\* A reset keeps the counters and the pending rework, and of the flags it
\* clears only `reviewed', once the instance is saved.
ResetWorkflow(s) ==
    /\ fetching = "no"
    /\ inst' = [EnterState(inst, s) EXCEPT !.status = "running",
                                           !.progress = [t \in ProgressGuarded |-> NoProgress]]
    /\ PersistLocked(inst', "ok", "unsaved")
    /\ prof' = IF reply' = "ok" THEN [prof EXCEPT !.reviewed = FALSE] ELSE prof
    /\ last' = NoCall
    /\ UNCHANGED fetching

-----------------------------------------------------------------------------
(* FetchTask.  A fetch that finds the state within its limit answers and   *)
(* changes nothing; one that finds it overdue loops: it applies the        *)
(* timeout, ignores whether that failed, and looks for its task again.     *)

Dispatchable == inst.status = "running" /\ inst.state \in State /\ RoleOf[inst.state] # NoRole

TimedOut == Dispatchable /\ inst.overdue

FetchTask ==
    /\ fetching # "apply" /\ TimedOut
    /\ fetching' = "apply"
    /\ UNCHANGED <<inst, disk, prof, reply, last>>

\* Mutant of ApplyStateTimeout: the wall-clock window is not restarted.
ApplyStateTimeoutUntouched ==
    /\ fetching = "apply" /\ TimedOut
    /\ AcceptsOutcome(inst.state, "timeout")
    /\ inst' = [Transition(inst, "timeout") EXCEPT !.rework = inst.state]
    /\ PersistLocked(inst', "timeout", "timeout")
    /\ last' = NoCall /\ fetching' = "find"
    /\ UNCHANGED prof

ApplyStateTimeout ==
    /\ fetching = "apply" /\ TimedOut
    /\ AcceptsOutcome(inst.state, "timeout")
    /\ inst' = [Transition(inst, "timeout") EXCEPT !.overdue = FALSE, !.rework = inst.state]
    /\ PersistLocked(inst', "timeout", "timeout")
    /\ last' = NoCall /\ fetching' = "find"
    /\ UNCHANGED prof

\* The state takes no timeout, or one of its hooks returns an error.
TimeoutFails ==
    /\ fetching = "apply" /\ TimedOut
    /\ AcceptsOutcome(inst.state, "timeout") => inst.state \in TimeoutHooked
    /\ fetching' = "failed"
    /\ UNCHANGED <<inst, disk, prof, reply, last>>

FetchReturns ==
    /\ fetching \in {"find", "failed"} /\ ~TimedOut
    /\ fetching' = "no"
    /\ UNCHANGED <<inst, disk, prof, reply, last>>

-----------------------------------------------------------------------------
(* Time and crashes.                                                       *)

\* The wall-clock limit of the current state passes, paused or not.  A saved
\* copy that differs was entered at another time, so its limit is its own.
StateExpires ==
    /\ inst.state \in TimeLimited /\ ~inst.overdue
    /\ inst' = [inst EXCEPT !.overdue = TRUE]
    /\ disk' \in IF disk = inst THEN {inst'}
                 ELSE {disk} \cup {d \in {[disk EXCEPT !.overdue = TRUE]} :
                                    disk.state \in TimeLimited}
    /\ UNCHANGED <<prof, reply, last, fetching>>

\* The orchestrator dies and is started again: LoadInstances.
Restart ==
    /\ inst' = disk
    /\ reply' = "none" /\ last' = NoCall /\ fetching' = "no"
    /\ UNCHANGED <<disk, prof>>

-----------------------------------------------------------------------------
Init ==
    /\ inst = [state |-> InitialState, status |-> "running", overdue |-> FALSE,
               rework |-> NoState, testReviewFailures |-> 0, testPlanFailures |-> 0,
               progress |-> [s \in ProgressGuarded |-> NoProgress]]
    /\ disk = inst
    /\ prof \in InitialProfile
    /\ reply = "none" /\ last = NoCall /\ fetching = "no"

Complete(o) ==
    \/ CompleteTask(o) \/ CompleteRedirected(o) \/ CompleteAuto(o)
    \/ CompleteSkippingRework(o) \/ CompleteRefused(o) \/ CompleteRolledBack(o)
    \/ CompleteEnded(o)

Next ==
    \/ \E o \in Outcome : Complete(o)
    \/ PauseWorkflow \/ ResumeWorkflow
    \/ \E s \in Resettable : ResetWorkflow(s)
    \/ FetchTask \/ ApplyStateTimeout \/ TimeoutFails \/ FetchReturns
    \/ StateExpires \/ Restart

Spec == Init /\ [][Next]_vars

\* FetchTask, once it is being served, keeps looping, and one turn of its loop
\* takes far less than the limit of a state.  Its hooks may fail for ever.
FetchFairness ==
    /\ WF_vars(fetching # "no" /\ (FetchTask \/ ApplyStateTimeout \/ TimeoutFails))
    /\ SF_vars(FetchReturns)

FetchSpec == Spec /\ FetchFairness

\* The agents keep working: whenever a state comes up again and again, its
\* agent at some time reports success there and the validators agree, and QA
\* at some time passes the last delivery phase.  An operator resumes a paused
\* workflow.
Forward(s) ==
    /\ inst.state = s
    /\ \/ CompleteTask("success") /\ inst'.state # s
       \/ CompleteTask("all_passed") /\ inst'.state = "completed"

AgentFairness ==
    /\ WF_vars(ResumeWorkflow)
    /\ \A s \in State : SF_vars(Forward(s))

-----------------------------------------------------------------------------
Instance ==
    [state : Place, status : {"running", "paused", "completed", "failed"},
     overdue : BOOLEAN, rework : Place \cup {NoState},
     testReviewFailures : 0 .. MaxReviewRetries - 1,
     testPlanFailures : 0 .. MaxReviewRetries - 1,
     progress : [ProgressGuarded -> Progress]]

FetchStep == {"no", "find", "apply", "failed"}
Reply == {"none", "ok", "auto", "refused", "unsaved", "timeout"}
Call == [moved : BOOLEAN, role : {RoleOf[s] : s \in State} \cup {NoRole}, outcome : Outcome]

\* The variables have their types.  In particular neither loop-safety counter
\* of CompleteTask ever rests at its limit, in memory or in instances.json.
TypeOK ==
    /\ inst \in Instance
    /\ disk \in Instance
    /\ prof \in Profile
    /\ reply \in Reply
    /\ last \in Call
    /\ fetching \in FetchStep

\* Where one complete_task of state s with outcome o may take the workflow:
\* along an edge of s, or where CompleteTask goes on to or redirects it.
Effective(s, o) ==
    {o} \cup (IF s = "test_review" /\ IsFailureOutcome(o)
              THEN {"plan_gap"} \cap DOMAIN To[s] ELSE {})

Follow(s, o) == IF s \in State /\ Edge(s, o) # NoState THEN Edge(s, o) ELSE s

Leads(s, o, t) ==
    \/ \E e \in Effective(s, o) :
         \/ t = Edge(s, e)
         \/ Edge(s, e) = "test_plan"
            /\ LET u == Follow("test_plan", "success")
               IN  t = IF u = "test_plan_review" THEN Follow(u, "success") ELSE u
         \/ Edge(s, e) = "test_plan_rework" /\ t = Follow("test_plan_rework", "failure")
         \/ Edge(s, e) \in {"advance_phase", "completed"} /\ t = "planning"
    \/ o = "success" /\ t = Follow(s, "architecture_failure")
    \/ IsFailureOutcome(o) /\ s \in {"plan_review", "test_plan", "test_review"} /\ t = "design"
    \/ IsFailureOutcome(o) /\ s = "test_review" /\ t = "test_plan_rework"

\* A template in which no outcome takes an agent from one of its states to
\* another one that it would leave by the same outcome.
RetrySafe ==
    \A s, t \in State : \A o \in Outcome :
        s # t /\ RoleOf[s] = RoleOf[t] /\ Edge(s, o) # NoState /\ Leads(s, o, t)
        => ~AcceptsOutcome(t, o) \/ Edge(t, o) = t

\* A client that retries complete_task after a lost answer (CallWithTimeout)
\* does no harm: once a completion has moved the workflow, the same request of
\* the same agent is turned away or leaves the state as it is, until something
\* else moves the workflow.
RetryHarmless ==
    last.moved /\ inst.state \in State /\ RoleOf[inst.state] = last.role =>
        \/ ~AcceptsOutcome(inst.state, last.outcome)
        \/ Edge(inst.state, last.outcome) = inst.state

\* A request answered with success is on disk: a restart cannot undo it.  (The
\* automatic steps past test_plan and test_plan_rework only log the failure to
\* save, and are not counted.)
AckedIsDurable == reply = "ok" => disk = inst

\* In memory and on disk, a workflow has an ended status exactly when it rests
\* in no state of its template: it is never paused out of "completed", and no
\* late completion, timeout or rollback leaves it ended half-way.
EndedMeansEnded ==
    \A i \in {inst, disk} : IsWorkflowTerminalStatus(i.status) <=> i.state \notin State

\* Every fetch_task is answered (the loop in FetchTask ends), and with it every
\* request queued behind it on the one NATS subscription, unless timeouts fail for
\* ever: FetchTask only logs that a hook failed or that the state takes no timeout
\* (GT_STATE_TIMEOUT_SECONDS limits such states too), and tries it again.
FetchIsAnswered ==
    []<>(fetching = "failed") \/ ((fetching # "no") ~> (fetching = "no"))

\* Agents that keep working, and whose fetches are answered, finish the workflow:
\* no redirect, rollback, skip or escalation of CompleteTask leads into a trap.
WorkflowFinishes ==
    AgentFairness /\ []<>(fetching = "no") => <>(inst.status = "completed")

\* A design that QA keeps rejecting without any change of the profile does not
\* loop for ever: recordReviewProgress pauses the workflow.
DesignLoopPauses ==
    /\ []<>(inst.state = "design_review")
    /\ []<>(inst.state = "design" /\ inst.rework = "design_review")
    => []<>(inst.status = "paused" \/ inst.state \notin {"design", "design_review"})
-----------------------------------------------------------------------------
(* Statements of the code's own comments and documents that do not hold.   *)

\* Loop safety: "after tester.max_review_retries consecutive test_review
\* rejections, escalate [...] instead of spinning test_review <-> implementation
\* forever".
ReviewLoopEscalates ==
    []<>(inst.state = "implementation" /\ inst.testReviewFailures # 0)
    => []<>(\/ inst.state \notin {"test_review", "implementation"} \/ reply # "ok"
            \/ last.outcome \notin {"success", "failure"})
=============================================================================
