---------------------------- MODULE DeliveryPhases ----------------------------
(***************************************************************************)
(* Phased delivery: the required files of a project are split into phases  *)
(* 1..N, and a workflow goes through planning, implementation, test_review *)
(* and qa_review once for each.  Which phase is active, which are          *)
(* completed and where to return after a repair is kept in                 *)
(* workflow-profile.json, which the orchestrator, the agents and the       *)
(* operator's commands all rewrite without a lock.  When QA passes a phase *)
(* the orchestrator marks it completed, moves to the next one and saves    *)
(* the workflow, in separate steps.  Whoever finds a missing or stubbed    *)
(* file of an earlier phase rewinds to that phase.                         *)
(*                                                                         *)
(* The list of phases does not change: normalisation on load and save      *)
(* (FinalizeDeliveryPhases) leaves it alone, as with an explicit delivery  *)
(* contract.  A call that rewrites the profile is one step.  The states    *)
(* before implementation are one stage, "planning".  Implement beads are   *)
(* not modelled: whether some are open is a choice wherever it matters.    *)
(***************************************************************************)
EXTENDS Integers

CONSTANTS N,          \* number of delivery phases
          FirstFiles, \* what the files of a phase may be when a workflow starts
          Changes     \* bound: the sets of phases that a new contract changes

FileStates == {"missing", "stub", "good"}

ASSUME PhaseAssumption ==
    /\ N \in Nat \ {0}
    /\ FirstFiles \subseteq FileStates
    /\ Changes \subseteq SUBSET (1..N)

Phases == 1..N
Stages == {"planning", "implementation", "test_review", "qa_review", "completed"}

VARIABLES active,   \* active_phase_id
          rewound,  \* rewound_from_phase_id, 0 when empty
          done,     \* completed_phase_ids
          file,     \* per phase: the worst of its required files on disk
          stage,    \* the state of the workflow, as saved
          step,     \* where the orchestrator is in handling all_passed
          asked,    \* the phase that QA checked before it sent all_passed, or 0
          \* history, read by the properties only:
          first,    \* the phase the workflow started with
          dropped,  \* phases whose completion was withdrawn and not given again
          lost,     \* phases that lost files, or changed, since the check of asked
          stray     \* the orchestrator acted on another phase than asked, or on
                    \* one that changed between its completion and the next step

profile == <<active, rewound, done>>
history == <<first, dropped, lost, stray>>
vars == <<profile, file, stage, step, asked, history>>

TypeOK ==
    /\ active \in Phases
    /\ rewound \in 0..N
    /\ done \subseteq Phases
    /\ file \in [Phases -> FileStates]
    /\ stage \in Stages
    /\ step \in {"idle", "marked", "moved", "cleared", "forwarded"}
    /\ asked \in 0..N
    /\ first \in Phases
    /\ dropped \subseteq Phases
    /\ lost \subseteq Phases
    /\ stray \in BOOLEAN

Broken == {p \in Phases : file[p] # "good"}
Earliest(S) == CHOOSE p \in S : \A q \in S : p <= q

\* The first phase with a missing file; the first phase if there is none.
ResolveActivePhaseFromDisk(f) ==
    LET missing == {p \in Phases : f[p] = "missing"}
    IN  IF missing = {} THEN 1 ELSE Earliest(missing)

\* StartWorkflow, with ResetRigPhaseForNewWorkflow
Init ==
    /\ file \in [Phases -> FirstFiles]
    /\ active = ResolveActivePhaseFromDisk(file)
    /\ rewound = 0 /\ done = {}
    /\ stage = "planning" /\ step = "idle" /\ asked = 0
    /\ first = active /\ dropped = {} /\ lost = {} /\ stray = FALSE
-----------------------------------------------------------------------------
(***************************************************************************)
(* Rewinds                                                                 *)
(***************************************************************************)
\* performRewindToPhase: where to return to, then the active phase.
Rewind(p) ==
    /\ rewound' = IF p = active THEN rewound ELSE active
    /\ active' = p
    /\ done' = done

\* The first write fails, which is ignored.
RewindForgets(p) ==
    /\ active' = p
    /\ UNCHANGED <<rewound, done>>

\* The second one fails, and with it the rewind.
RewindFails(p) ==
    /\ rewound' = IF p = active THEN rewound ELSE active
    /\ UNCHANGED <<active, done>>

TryRewind(p) == Rewind(p) \/ RewindForgets(p) \/ RewindFails(p)

\* reopenTestReviewRepair: a place to return to is kept.
RepairRewind(p) ==
    /\ rewound' = IF p # active /\ rewound = 0 THEN active ELSE rewound
    /\ active' = p
    /\ done' = done
-----------------------------------------------------------------------------
(***************************************************************************)
(* Agents.  While all_passed is on its way the workflow is in qa_review    *)
(* and its agent waits.                                                    *)
(***************************************************************************)
Elsewhere == UNCHANGED <<step, asked, history>>

\* Planning, reviews and project setup are through.
Plan ==
    /\ stage = "planning" /\ stage' = "implementation"
    /\ UNCHANGED <<profile, file>> /\ Elsewhere

\* The polecat writes the files of the active phase.
Write(s) ==
    /\ stage = "implementation"
    /\ file' = [file EXCEPT ![active] = s]
    /\ UNCHANGED <<profile, stage>> /\ Elsewhere

\* RewindToPhaseForClosedFile: it wants to write a file of an earlier phase.
WriteClosedFile(p) ==
    /\ stage = "implementation" /\ p < active
    /\ TryRewind(p)
    /\ UNCHANGED <<file, stage>> /\ Elsewhere

\* Mutant of ImplementationSucceeds: the files of later phases are required too.
ImplementationSucceedsUnscoped ==
    /\ stage = "implementation"
    /\ \A p \in Phases : file[p] = "good"
    /\ stage' = "test_review"
    /\ UNCHANGED <<profile, file>> /\ Elsewhere

\* validateImplementationArtifacts accepts a success.
ImplementationSucceeds ==
    /\ stage = "implementation"
    /\ \A p \in 1..active : file[p] = "good"
    /\ stage' = "test_review"
    /\ UNCHANGED <<profile, file>> /\ Elsewhere

\* MaybeRewindToProblemPhaseForFinalPhase, on the way to a success
FinalPhaseRewind ==
    /\ stage = "implementation"
    /\ active = N /\ file[N] # "missing" /\ Broken # {}
    /\ TryRewind(Earliest(Broken))
    /\ UNCHANGED <<file, stage>> /\ Elsewhere

\* MaybeRewindToProblemPhaseForImplementation: the completed phases before
\* the active one that block it, else what compiler and tests complain of.
CompletedProblems == {p \in done \cap Broken : p < active}
Blamed == IF CompletedProblems # {}
          THEN {Earliest(CompletedProblems)}
          ELSE {p \in Phases : p < active}

ImplementationRewind(p) ==
    /\ stage = "implementation" /\ p \in Blamed
    /\ \/ (Rewind(p) \/ RewindForgets(p)) /\ stage' = stage
       \/ TryRewind(p) /\ stage' = "planning"
    /\ UNCHANGED file /\ Elsewhere

\* A failure without such a phase, or a design that cannot be built.
ImplementationFails ==
    /\ stage = "implementation" /\ stage' = "planning"
    /\ UNCHANGED <<profile, file>> /\ Elsewhere

TestReviewPasses ==
    /\ stage = "test_review" /\ stage' = "qa_review"
    /\ UNCHANGED <<profile, file>> /\ Elsewhere

\* A failure with its repair, which may fail when the beads are reopened or
\* after its first write, or a gap in the plan.
TestReviewFails ==
    /\ stage = "test_review"
    /\ \/ \E p \in done \cup {active} : RepairRewind(p) /\ stage' \in {"implementation", stage}
       \/ UNCHANGED profile /\ stage' = "planning"
       \/ /\ done \ {active} # {} /\ rewound = 0
          /\ rewound' = active
          /\ UNCHANGED <<active, done, stage>>
    /\ UNCHANGED file /\ Elsewhere

QAFails ==
    /\ stage = "qa_review" /\ asked = 0
    /\ stage' \in {"implementation", "planning"}
    /\ UNCHANGED <<profile, file>> /\ Elsewhere

\* Mutant of QAScope: QA looks at the active phase only.
QAScopeActive == {}

\* validateQAArtifacts: the earlier phases of the one QA looked at
QAScope == {p \in Phases : p < active}

\* MaybeRewindToProblemPhaseForQA, before all_passed is sent
QARewind ==
    /\ stage = "qa_review" /\ asked = 0
    /\ file[active] = "good" /\ QAScope \cap Broken # {}
    /\ TryRewind(Earliest(QAScope \cap Broken))
    /\ UNCHANGED <<file, stage>> /\ Elsewhere

\* validateQAArtifacts has no objection and CompleteTask sends all_passed.
QAPasses ==
    /\ stage = "qa_review" /\ asked = 0
    /\ file[active] = "good" /\ QAScope \cap Broken = {}
    /\ asked' = active
    /\ UNCHANGED <<profile, file, stage, step, history>>

\* The request is over: what its history recorded is forgotten.
Answered == asked' = 0 /\ lost' = {} /\ stray' = FALSE /\ UNCHANGED <<first, dropped>>

\* CallWithTimeout has used up its retries, or got an error.
GiveUp ==
    /\ asked # 0 /\ step = "idle" /\ stage = "qa_review"
    /\ Answered
    /\ UNCHANGED <<profile, file, stage, step>>
-----------------------------------------------------------------------------
(***************************************************************************)
(* The orchestrator handles all_passed (CompleteTask, advance_phase).  It  *)
(* may crash between any two steps; the request is then sent again.        *)
(***************************************************************************)
Handling(s) == asked # 0 /\ stage = "qa_review" /\ step = s

\* AddRigCompletedPhase of whatever phase is active now.
MarkCompleted ==
    /\ Handling("idle")
    /\ done' = done \cup {active}
    /\ dropped' = dropped \ {active}
    /\ stray' = (active # asked)
    /\ step' = "marked"
    /\ UNCHANGED <<active, rewound, file, stage, asked, first, lost>>

\* Mutant of NextPhase: the last phase is taken for one with a successor.
NextPhasePastLast ==
    CASE active \notin done -> 0
      [] active \in done /\ rewound # 0 -> rewound
      [] active \in done /\ rewound = 0 -> IF active <= N THEN active + 1 ELSE 0

\* TryAdvanceDeliveryPhaseAfterQA: the phase to go to, 0 if there is none
NextPhase ==
    CASE active \notin done -> 0
      [] active \in done /\ rewound # 0 -> rewound
      [] active \in done /\ rewound = 0 -> IF active < N THEN active + 1 ELSE 0

Advance ==
    /\ Handling("marked") /\ NextPhase # 0
    /\ \/ active' = NextPhase /\ step' = "moved" /\ UNCHANGED <<asked, history>>
       \/ Answered /\ step' = "idle" /\ UNCHANGED active
    /\ UNCHANGED <<rewound, done, file, stage>>

\* No phase to advance to: the workflow is completed.
Complete ==
    /\ Handling("marked") /\ NextPhase = 0
    /\ stage' = "completed" /\ step' = "idle"
    /\ stray' = (stray \/ active # asked)
    /\ UNCHANGED <<profile, file, asked, first, dropped, lost>>

\* ClearRigRewoundFromPhase, whose failure is ignored
ClearMarker ==
    /\ Handling("moved")
    /\ rewound' \in {0, rewound}
    /\ step' = "cleared"
    /\ UNCHANGED <<active, done, file, stage, asked, history>>

\* Mutant of Skippable: a phase without open beads is taken for completed.
SkippableWithoutBeads(p) == TRUE

\* TryFastForwardDeliveryPhase: over completed phases, up to one with open
\* beads, one not completed, or the last.
Skippable(p) == p \in done
FastForward ==
    /\ Handling("cleared")
    /\ \E p \in active..N :
          /\ \A q \in active..(p - 1) : Skippable(q)
          /\ active' = p
    /\ step' = "forwarded"
    /\ UNCHANGED <<rewound, done, file, stage, asked, history>>

\* persistLocked and the reply: planning of the next phase begins.
Persist ==
    /\ Handling("forwarded")
    /\ stage' = "planning" /\ step' = "idle" /\ Answered
    /\ UNCHANGED <<profile, file>>

Crash ==
    /\ step # "idle" /\ step' = "idle"
    /\ UNCHANGED <<profile, file, stage, asked, history>>
-----------------------------------------------------------------------------
(***************************************************************************)
(* What else touches the rig                                               *)
(***************************************************************************)
\* WriteRigWorkflowProfileClamped, called by `gt rig spec-index`: progress is
\* kept, the phase to return to is not.
SpecIndex ==
    /\ stage # "completed"
    /\ rewound' = 0
    /\ active' = IF active \in done /\ Phases \ done # {}
                 THEN Earliest(Phases \ done)
                 ELSE active
    /\ UNCHANGED <<done, file, stage, step, asked, history>>

\* reconcileDeliveryContractProgress: the architect changes the phases in C.  The
\* workflow reads the contract while it plans, `gt rig sync-arch` at any time.
ContractSync(C) ==
    /\ stage # "completed"
    /\ done' = done \ C
    /\ active' = IF done \cap C # {} THEN Earliest(Phases \ done') ELSE active
    /\ dropped' = dropped \cup (done \cap C)
    /\ file' \in {f \in [Phases -> FileStates] : \A p \in Phases \ C : f[p] = file[p]}
    /\ lost' = IF asked = 0 THEN lost ELSE lost \cup C
    /\ stray' = (stray \/ (step = "marked" /\ asked \in C))
    /\ UNCHANGED <<rewound, stage, step, asked, first>>

\* A file is lost or spoiled: by an agent at work on another one, a prune.
LoseFile(p, s) ==
    /\ stage # "completed"
    /\ file[p] = "good" /\ s # "good"
    /\ file' = [file EXCEPT ![p] = s]
    /\ lost' = IF asked = 0 THEN lost ELSE lost \cup {p}
    /\ UNCHANGED <<profile, stage, step, asked, first, dropped, stray>>
-----------------------------------------------------------------------------
Agents ==
    \/ Plan
    \/ \E s \in FileStates : Write(s)
    \/ ImplementationSucceeds \/ FinalPhaseRewind \/ ImplementationFails
    \/ \E p \in Phases : WriteClosedFile(p) \/ ImplementationRewind(p)
    \/ TestReviewPasses \/ TestReviewFails
    \/ QAFails \/ QARewind \/ QAPasses \/ GiveUp

Orchestrator ==
    \/ MarkCompleted \/ Advance \/ Complete
    \/ ClearMarker \/ FastForward \/ Persist \/ Crash

Next ==
    \/ Agents
    \/ Orchestrator
    \/ SpecIndex
    \/ \E C \in Changes : ContractSync(C)
    \/ \E p \in Phases, s \in FileStates : LoseFile(p, s)

Spec == Init /\ [][Next]_vars

-----------------------------------------------------------------------------
(***************************************************************************)
(* Agents that keep at it: a success that keeps being possible is reported *)
(* at last, and a rewind that is called for is made.  The orchestrator     *)
(* goes on with what it handles.                                           *)
(***************************************************************************)
NeededRewind ==
    /\ \/ FinalPhaseRewind
       \/ QARewind
       \/ \E p \in CompletedProblems : ImplementationRewind(p) /\ UNCHANGED stage
    /\ Rewind(active')

Handle == MarkCompleted \/ Advance \/ Complete \/ ClearMarker \/ FastForward \/ Persist

Fairness ==
    /\ WF_vars(Plan) /\ WF_vars(QAFails) /\ WF_vars(Handle)
    /\ SF_vars(Write("good")) /\ SF_vars(NeededRewind)
    /\ SF_vars(ImplementationSucceeds) /\ SF_vars(TestReviewPasses) /\ SF_vars(QAPasses)

FairSpec == Spec /\ Fairness
-----------------------------------------------------------------------------
\* A rewind leads back, and an advance or a fast-forward goes on, without
\* leaving out a phase: every phase between the one the workflow started with
\* and the active one has been marked completed, whatever is rewound, lost,
\* repeated or re-indexed on the way.  A completion that a changed delivery
\* contract withdrew still counts here.
NoPhaseSkipped == \A p \in first..(active - 1) : p \in done \cup dropped

\* A completed workflow has delivered: QA found the files of every phase in
\* place, the earlier ones included, and only what was lost after that check
\* may be missing.  Excluded is an all_passed that the orchestrator took for
\* another phase than the one QA had checked (the request does not name it), and
\* one whose phase a sync-arch changed after it was marked completed: a phase that
\* is not completed has no next one, and the workflow ends.
CompletedIsBuilt ==
    stage = "completed" /\ ~stray => \A p \in Phases : file[p] = "good" \/ p \in lost

\* Steps that succeed, and failures that leave the profile alone.
Smooth ==
    \/ Plan \/ ImplementationSucceeds \/ ImplementationFails \/ NeededRewind
    \/ \E s \in FileStates : Write(s)
    \/ TestReviewPasses \/ QAFails \/ QAPasses
    \/ MarkCompleted \/ Complete \/ FastForward \/ Persist
    \/ Advance /\ step' = "moved"
    \/ ClearMarker /\ rewound' = 0

\* An earlier phase is broken and was never completed.  A success of the active
\* phase is refused because of it, and only from the last phase, or to a
\* completed one, is there a rewind.
Stuck == \E p \in Phases \ done : p < active /\ file[p] # "good"

\* Whatever was rewound, lost, repeated or changed before: once only Smooth
\* steps are taken and no phase is stuck, the phases are gone through to the
\* end.  Rewinding and returning (TryAdvanceDeliveryPhaseAfterQA) never runs in
\* a circle.
DeliveryFinishes ==
    (<>[][Smooth]_vars /\ <>[]~Stuck) => <>(stage = "completed")

\* docs/workflow-profile.md: "Changed phase files/commands invalidate that
\* phase's old completion", so a workflow is not completed before every phase
\* has been, and reconcileDeliveryContractProgress returns to the first one.
EveryPhaseCompleted ==
    stage = "completed" /\ ~stray => \A p \in first..N : p \in done
=============================================================================
