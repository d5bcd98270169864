-------------------------- MODULE Workflow_proofs --------------------------
(***************************************************************************)
(* Type correctness, durability of acknowledged requests and consistency   *)
(* of ended workflows, for every template that satisfies the assumptions   *)
(* of Workflow, every retry limit and every no-progress budget.            *)
(***************************************************************************)
EXTENDS Workflow, TLAPS

\* Zenon is the prover of every leaf that names no other.
USE Zenon

\* What every copy of an instance satisfies at every point of a request.
Sound(i) ==
    /\ i \in Instance
    /\ IsWorkflowTerminalStatus(i.status) <=> i.state \notin State

\* An edge leads to a place of the template, and from plan_review or a state
\* with a no-progress budget it stays in the template.
LEMMA EdgeType ==
    ASSUME NEW s \in State, NEW o, Edge(s, o) # NoState
    PROVE  /\ Edge(s, o) \in Place
           /\ s \in ProgressGuarded \/ s = "plan_review"
                => Edge(s, o) \in State \ {"advance_phase"}
  BY TemplateAssumption DEF Edge

\* A transition keeps an instance sound.
LEMMA TransitionSound ==
    ASSUME NEW i, Sound(i), NEW o
    PROVE  Sound(Transition(i, o))
<1> DEFINE t == IF i.state \in State THEN Edge(i.state, o) ELSE NoState
<1>1. CASE t = NoState
  BY <1>1 DEF Transition
<1>2. CASE t # NoState
  <2>1. i.state \in State /\ t \in Place
    BY <1>2, EdgeType
  <2> DEFINE b == i.overdue /\ t = i.state
             u == IF t \in {"completed", "failed"} THEN t ELSE i.status
  <2>2. Transition(i, o) = [i EXCEPT !.state = t, !.overdue = b, !.status = u]
    BY <1>2 DEF Transition
  <2>3. b \in BOOLEAN
    OBVIOUS
  <2>4. /\ u \in {"running", "paused", "completed", "failed"}
        /\ IsWorkflowTerminalStatus(u) <=> t \notin State
    BY <2>1, TemplateAssumption DEF Sound, Instance, IsWorkflowTerminalStatus, Place
  <2> HIDE DEF t, b, u
  <2> QED
    BY <2>1, <2>2, <2>3, <2>4 DEF Sound, Instance
<1> QED
  BY <1>1, <1>2

\* Entering a state of the template keeps a live instance sound.
LEMMA EnterSound ==
    ASSUME NEW i, Sound(i), i.state \in State, NEW s \in State
    PROVE  /\ Sound(EnterState(i, s))
           /\ EnterState(i, s).state = s
  BY TemplateAssumption DEF Sound, EnterState, Instance, IsWorkflowTerminalStatus, Place

\* The profile stays well formed.
LEMMA ProfileType ==
    ASSUME NEW p \in Profile, NEW s, NEW o
    PROVE  /\ ClearTestPlanFlags(p) \in Profile
           /\ FlagsOnCompletion(s, o, p) \in Profile
           /\ ProfilesOnCompletion(s, o, p) \subseteq Profile
<1>1. ClearTestPlanFlags(p) \in Profile /\ SetTestPlanReviewed(p) \in Profile
  BY DEF ClearTestPlanFlags, SetTestPlanReviewed, Profile
<1>2. FlagsOnCompletion(s, o, p) \in Profile
  BY <1>1 DEF FlagsOnCompletion
<1>3. \A q \in {p, ClearTestPlanFlags(p)}, v \in Version : [q EXCEPT !.ver = v] \in Profile
  BY <1>1 DEF Profile
<1> QED
  BY SMT, <1>1, <1>2, <1>3 DEF ProfilesOnCompletion

\* What the transition of a completion results in.
SoundMove(m) ==
    /\ Sound(m.inst)
    /\ m.prof \in Profile
    /\ m.outcome \in Outcome
    /\ inst.state \in ProgressGuarded \/ inst.state = "plan_review"
        => m.inst.state \in State \ {"advance_phase"}

\* What CompleteTask has after its Transition is a sound instance and a profile.
LEMMA MovesSound ==
    ASSUME TypeOK, Sound(inst), NEW o \in Outcome, Admitted(o), NEW m \in Moves(o)
    PROVE  SoundMove(m)
<1> DEFINE straight == {Move(o, r, q) : r \in Repairs(inst.state, o),
                                        q \in ProfilesOnCompletion(inst.state, o, prof)}
<1>1. ASSUME NEW r \in Repairs(inst.state, o),
             NEW q \in ProfilesOnCompletion(inst.state, o, prof)
      PROVE  SoundMove(Move(o, r, q))
  <2> DEFINE e == IF r = "gap" THEN "plan_gap" ELSE o
  <2>1. inst.state \in State /\ Edge(inst.state, o) # NoState /\ prof \in Profile
    BY DEF Admitted, TypeOK
  <2>2. q \in Profile /\ ClearTestPlanFlags(q) \in Profile
    BY <2>1, ProfileType
  <2>3. e \in Outcome /\ Edge(inst.state, e) # NoState
    <3>1. CASE r = "gap"
      <4>1. "plan_gap" \in DOMAIN To[inst.state]
        BY <3>1 DEF Repairs
      <4> QED
        BY <2>1, <3>1, <4>1, TemplateAssumption DEF Edge
    <3>2. CASE r # "gap"
      BY <2>1, <3>2
    <3> QED
      BY <3>1, <3>2
  <2>4. Transition(inst, e).state = Edge(inst.state, e)
    BY <2>1, <2>3 DEF Transition, TypeOK, Instance
  <2>5. Sound(Transition(inst, e))
    BY TransitionSound
  <2>6. /\ Move(o, r, q).inst = Transition(inst, e)
        /\ Move(o, r, q).prof = IF r = "gap" THEN ClearTestPlanFlags(q) ELSE q
        /\ Move(o, r, q).outcome = e
    BY DEF Move
  <2> HIDE DEF e
  <2> QED
    BY <2>1, <2>2, <2>3, <2>4, <2>5, <2>6, EdgeType DEF SoundMove
<1>2. ASSUME NEW r, NEW q, SoundMove(Move(o, r, q)), Move(o, r, q).inst.state = "planning"
      PROVE  SoundMove(Rewound(Move(o, r, q)))
  <2> DEFINE n == Move(o, r, q)
  <2>1. /\ Sound(EnterState(n.inst, "implementation"))
        /\ EnterState(n.inst, "implementation").state = "implementation"
    BY SMT, <1>2, EnterSound, TemplateAssumption DEF SoundMove
  <2>2. /\ Rewound(n).inst = EnterState(n.inst, "implementation")
        /\ Rewound(n).prof = n.prof
        /\ Rewound(n).outcome = n.outcome
    BY DEF Move, Rewound
  <2> HIDE DEF n
  <2> QED
    BY <1>2, <2>1, <2>2, TemplateAssumption DEF SoundMove, n
<1>3. \/ m \in straight
      \/ \E n \in straight : n.inst.state = "planning" /\ m = Rewound(n)
  BY SMT DEF Moves
<1>4. CASE m \in straight
  BY SMT, <1>1, <1>4
<1>5. CASE \E n \in straight : n.inst.state = "planning" /\ m = Rewound(n)
  <2>1. PICK r \in Repairs(inst.state, o), q \in ProfilesOnCompletion(inst.state, o, prof) :
           Move(o, r, q).inst.state = "planning" /\ m = Rewound(Move(o, r, q))
    BY SMT, <1>5
  <2> QED
    BY <1>1, <1>2, <2>1
<1> QED
  BY SMT, <1>3, <1>4, <1>5

\* Advancing the phase ends or revives the workflow, consistently.
LEMMA LandingsSound ==
    ASSUME TypeOK, NEW m, SoundMove(m), NEW i \in Landings(inst.state, m)
    PROVE  /\ Sound(i)
           /\ inst.state \in ProgressGuarded => i.state \in State
<1>1. CASE AdvancesPhase(inst.state, m)
  <2>1. inst.state \notin ProgressGuarded
    BY <1>1, TemplateAssumption DEF AdvancesPhase, SoundMove
  <2>2. \/ i = [EnterState(m.inst, "planning") EXCEPT !.status = "running"]
        \/ i = [m.inst EXCEPT !.state = "completed", !.status = "completed"]
    BY <1>1 DEF Landings
  <2>3. m.inst \in Instance /\ {"completed", "planning"} \subseteq Place
    BY SMT, TemplateAssumption DEF SoundMove, Sound, Place
  <2>4. CASE i = [EnterState(m.inst, "planning") EXCEPT !.status = "running"]
    <3>1. i \in Instance /\ i.state = "planning" /\ i.status = "running"
      BY <2>3, <2>4 DEF EnterState, Instance
    <3> QED
      BY <2>1, <3>1, TemplateAssumption DEF Sound, IsWorkflowTerminalStatus
  <2>5. CASE i = [m.inst EXCEPT !.state = "completed", !.status = "completed"]
    <3>1. i \in Instance /\ i.state = "completed" /\ i.status = "completed"
      BY <2>3, <2>5 DEF Instance
    <3> QED
      BY <2>1, <3>1, TemplateAssumption DEF Sound, IsWorkflowTerminalStatus
  <2> QED
    BY <2>2, <2>4, <2>5
<1>2. CASE ~AdvancesPhase(inst.state, m)
  <2>1. \/ i = m.inst
        \/ inst.state = "plan_review" /\ i = EnterState(m.inst, "design")
    BY <1>2 DEF Landings
  <2> QED
    BY SMT, <2>1, EnterSound, TemplateAssumption DEF SoundMove
<1> QED
  BY <1>1, <1>2

\* The counters stay below the limit, because reaching it resets them.
LEMMA AccountSound ==
    ASSUME NEW s \in Place, NEW m, NEW i, Sound(i), NEW to \in {"test_plan_rework", "design"}
    PROVE  /\ Sound(Account(s, m, i, to))
           /\ i.state \in State => Account(s, m, i, to).state \in State
<1> DEFINE o == m.outcome
           rejected == s = "test_review" /\ i.state = "implementation" /\ IsFailureOutcome(o)
           unplanned == s = "test_plan" /\ i.state = "planning" /\ IsFailureOutcome(o)
           escalated == rejected /\ RetriesSpent(i.testReviewFailures + 1)
           replanned == unplanned /\ RetriesSpent(i.testPlanFailures + 1)
           routed == IF escalated THEN EnterState(i, to)
                     ELSE IF replanned THEN EnterState(i, "design") ELSE i
           trf == IF escalated THEN 0 ELSE IF rejected THEN i.testReviewFailures + 1
                  ELSE IF IsProgressOutcome(o) /\ s \in {"test_review", "implementation"}
                  THEN 0 ELSE i.testReviewFailures
           tpf == IF replanned THEN 0 ELSE IF unplanned THEN i.testPlanFailures + 1
                  ELSE IF s = "test_plan" THEN 0 ELSE i.testPlanFailures
           rework == IF AdvancesPhase(s, m) /\ i.state = "planning" THEN s ELSE NoState
<1>1. Sound(routed) /\ (i.state \in State => routed.state \in State)
  BY SMT, EnterSound, TemplateAssumption
<1>2. /\ routed.testReviewFailures = i.testReviewFailures
      /\ routed.testPlanFailures = i.testPlanFailures
  BY DEF EnterState, Sound, Instance
<1>3. trf \in 0 .. MaxReviewRetries - 1 /\ tpf \in 0 .. MaxReviewRetries - 1
  BY SMT, LimitAssumption DEF RetriesSpent, Sound, Instance
<1>4. rework \in Place \cup {NoState}
  OBVIOUS
<1>5. \/ Account(s, m, i, to) = [routed EXCEPT !.rework = s, !.testReviewFailures = trf,
                                               !.testPlanFailures = tpf]
      \/ Account(s, m, i, to) = [i EXCEPT !.rework = rework, !.testReviewFailures = 0,
                                          !.testPlanFailures = 0]
      \/ Account(s, m, i, to) = i
  BY <1>2 DEF Account
<1> HIDE DEF routed, trf, tpf, rework
<1>6. CASE Account(s, m, i, to) = [routed EXCEPT !.rework = s, !.testReviewFailures = trf,
                                                 !.testPlanFailures = tpf]
  BY <1>1, <1>3, <1>6 DEF Sound, Instance
<1>7. CASE Account(s, m, i, to) = [i EXCEPT !.rework = rework, !.testReviewFailures = 0,
                                            !.testPlanFailures = 0]
  <2>1. 0 \in 0 .. MaxReviewRetries - 1
    BY SMT, LimitAssumption
  <2> QED
    BY <1>4, <1>7, <2>1 DEF Sound, Instance
<1> QED
  BY <1>5, <1>6, <1>7

\* A no-progress record stays within its budget; pausing needs a live instance.
LEMMA RecordSound ==
    ASSUME NEW s \in Place, NEW o, NEW i, Sound(i), s \in ProgressGuarded => i.state \in State,
           NEW p \in Profile, NEW j \in RecordReviewProgress(s, o, i, p)
    PROVE  Sound(j)
<1> DEFINE g == i.progress[s]
           n == IF g = NoProgress \/ g.seen # p THEN 1
                ELSE IF g.failures < NoProgressLimit THEN g.failures + 1 ELSE g.failures
           st == IF n >= NoProgressLimit THEN "paused" ELSE i.status
           pr(e) == [i.progress EXCEPT ![s] = e]
<1>1. CASE s \notin ProgressGuarded
  BY <1>1 DEF RecordReviewProgress
<1>2. CASE s \in ProgressGuarded
  <2>1. g \in Progress
    BY <1>2 DEF Sound, Instance
  <2>2. n \in 1 .. NoProgressLimit
    BY SMT, <2>1, LimitAssumption DEF Progress
  <2>3. /\ st \in {"running", "paused", "completed", "failed"}
        /\ IsWorkflowTerminalStatus(st) <=> i.state \notin State
    BY <1>2 DEF Sound, Instance, IsWorkflowTerminalStatus
  <2>4. [failures |-> n, seen |-> p] \in Progress /\ NoProgress \in Progress
    BY <2>2 DEF Progress
  <2>5. \A e \in Progress : pr(e) \in [ProgressGuarded -> Progress]
    BY DEF Sound, Instance
  <2>6. \/ j = i
        \/ j = [i EXCEPT !.progress = pr(NoProgress)]
        \/ j = [i EXCEPT !.progress = pr([failures |-> n, seen |-> p]), !.status = st]
    BY <1>2 DEF RecordReviewProgress
  <2>7. /\ pr(NoProgress) \in [ProgressGuarded -> Progress]
        /\ pr([failures |-> n, seen |-> p]) \in [ProgressGuarded -> Progress]
    BY <2>4, <2>5
  <2> DEFINE q == pr([failures |-> n, seen |-> p])
             z == pr(NoProgress)
  <2> HIDE DEF pr, n, st, q, z
  <2> QED
    BY <2>3, <2>6, <2>7, ZenonT(40) DEF Sound, Instance, q, z
<1> QED
  BY <1>1, <1>2

-----------------------------------------------------------------------------
(* The invariant.  TypeOK and EndedMeansEnded need each other (a late       *)
(* completion of an ended instance must find no state), and AckedIsDurable  *)
(* needs neither to weaken: the three are inductive together.               *)

WorkflowInv == TypeOK /\ EndedMeansEnded /\ AckedIsDurable

\* The invariant says that the instance in memory and the saved one are sound.
LEMMA InvSound ==
    WorkflowInv <=> /\ Sound(inst) /\ Sound(disk)
                    /\ prof \in Profile /\ reply \in Reply /\ last \in Call
                    /\ fetching \in FetchStep
                    /\ reply = "ok" => disk = inst
  BY DEF WorkflowInv, TypeOK, EndedMeansEnded, AckedIsDurable, Sound

\* What a request has to establish: a sound instance, which is saved unless
\* the request says otherwise.
LEMMA RequestKeepsInv ==
    ASSUME WorkflowInv, Sound(inst'), prof' \in Profile, last' \in Call, fetching' \in FetchStep,
           \/ disk' = inst' /\ reply' \in Reply
           \/ disk' = disk /\ reply' \in Reply \ {"ok"}
    PROVE  WorkflowInv'
<1>1. Sound(disk)
  BY InvSound
<1> QED
  BY <1>1 DEF WorkflowInv, TypeOK, EndedMeansEnded, AckedIsDurable, Sound

\* The record of the last completion has its type.
LEMMA CallType ==
    ASSUME NEW o \in Outcome, inst.state \in State, CompletionOf(o)
    PROVE  last' \in Call
<1> DEFINE b == inst'.state # inst.state
<1>1. b \in BOOLEAN
  OBVIOUS
<1>2. last' = [moved |-> b, role |-> RoleOf[inst.state], outcome |-> o]
  BY DEF CompletionOf
<1> HIDE DEF b
<1> QED
  BY <1>1, <1>2 DEF Call

\* So has the record of no completion.
LEMMA NoCallType == NoCall \in Call
<1> DEFINE b == FALSE
<1>1. b \in BOOLEAN
  OBVIOUS
<1> QED
  BY <1>1, TemplateAssumption DEF NoCall, Call

\* StartWorkflow establishes the invariant.
LEMMA WorkflowInit == Init => WorkflowInv
<1> SUFFICES ASSUME Init
             PROVE  WorkflowInv
  OBVIOUS
<1>1. [s \in ProgressGuarded |-> NoProgress] \in [ProgressGuarded -> Progress]
  BY DEF Progress
<1>2. 0 \in 0 .. MaxReviewRetries - 1
  BY SMT, LimitAssumption
<1>3. Sound(inst)
  BY <1>1, <1>2, TemplateAssumption DEF Init, Sound, Instance, Place, IsWorkflowTerminalStatus
<1>4. prof \in Profile
  BY LimitAssumption DEF Init
<1> QED
  BY <1>3, <1>4, InvSound, NoCallType DEF Init, Reply, FetchStep

\* A completion moves the instance as Moves and Landings allow, or not at all.
LEMMA CompleteKeepsInv ==
    ASSUME WorkflowInv, NEW o \in Outcome, Complete(o)
    PROVE  WorkflowInv'
<1>1. /\ Sound(inst) /\ TypeOK /\ prof \in Profile /\ last \in Call /\ fetching \in FetchStep
      /\ inst.state \in Place
  BY InvSound DEF WorkflowInv, Sound, Instance
<1>2. ASSUME NEW a \in Reply, NEW b \in Reply \ {"ok"}, PersistLocked(inst', a, b)
      PROVE  \/ disk' = inst' /\ reply' \in Reply
             \/ disk' = disk /\ reply' \in Reply \ {"ok"}
  BY <1>2 DEF PersistLocked
<1>3. Admitted(o) => inst.state \in State
  BY DEF Admitted
<1>4. ASSUME Admitted(o), NEW m \in Moves(o)
      PROVE  SoundMove(m)
  BY <1>1, <1>4, MovesSound
<1>5. ASSUME NEW s, NEW m, m.prof \in Profile
      PROVE  ProfileOnEntry(s, m) \in Profile
  <2>1. [m.prof EXCEPT !.frozen = FALSE] \in Profile
    BY <1>5 DEF Profile
  <2> QED
    BY <1>5, <2>1, ProfileType DEF ProfileOnEntry
<1>6. CASE CompleteTask(o)
  <2>1. PICK m \in Moves(o) :
          /\ prof' = ProfileOnEntry(inst.state, m)
          /\ \E i \in Landings(inst.state, m), to \in {"test_plan_rework", "design"} :
               inst' \in RecordReviewProgress(inst.state, m.outcome,
                                              Account(inst.state, m, i, to), prof')
    BY <1>6 DEF CompleteTask
  <2>2. PICK i \in Landings(inst.state, m), to \in {"test_plan_rework", "design"} :
          inst' \in RecordReviewProgress(inst.state, m.outcome,
                                         Account(inst.state, m, i, to), prof')
    BY <2>1
  <2>3. SoundMove(m)
    BY <1>4, <1>6 DEF CompleteTask
  <2>4. prof' \in Profile
    BY <1>5, <2>1, <2>3 DEF SoundMove
  <2>5. Sound(i) /\ (inst.state \in ProgressGuarded => i.state \in State)
    BY <1>1, <2>3, LandingsSound
  <2> DEFINE j == Account(inst.state, m, i, to)
  <2>6. Sound(j) /\ (inst.state \in ProgressGuarded => j.state \in State)
    BY <1>1, <2>5, AccountSound
  <2>7. inst' \in RecordReviewProgress(inst.state, m.outcome, j, prof')
    BY <2>2
  <2> HIDE DEF j
  <2>8. Sound(inst')
    BY <1>1, <2>4, <2>6, <2>7, RecordSound
  <2> QED
    BY <1>1, <1>2, <1>3, <1>6, <2>4, <2>8, CallType, RequestKeepsInv DEF CompleteTask, Reply
<1>7. CASE CompleteRedirected(o)
  <2> DEFINE t == Transition(inst, "architecture_failure")
  <2>1. Sound(Redirect(inst))
    <3>1. Sound(t)
      BY <1>1, TransitionSound
    <3>2. Redirect(inst) = [t EXCEPT !.overdue = FALSE]
      BY DEF Redirect
    <3> HIDE DEF t
    <3> QED
      BY <3>1, <3>2 DEF Sound, Instance
  <2>2. inst' = [Redirect(inst) EXCEPT !.rework = inst.state]
    BY <1>7 DEF CompleteRedirected
  <2>3. Sound(inst')
    BY <1>1, <2>1, <2>2 DEF Sound, Instance
  <2> QED
    BY <1>1, <1>2, <1>3, <1>7, <2>3, CallType, RequestKeepsInv DEF CompleteRedirected, Reply
<1>8. ASSUME NEW i, Sound(i)
      PROVE  Sound(EnterState(i, i.state))
  BY <1>8 DEF Sound, EnterState, Instance
<1>9. CASE CompleteAuto(o)
  <2>1. PICK m \in Moves(o) :
          LET i == Transition(m.inst, "success")
              j == IF i.state = "test_plan_review" THEN Transition(i, "success") ELSE i
          IN  inst' = EnterState(j, j.state) /\ prof' = m.prof
    BY <1>9 DEF CompleteAuto
  <2>2. Sound(m.inst) /\ m.prof \in Profile
    BY <1>4, <1>9 DEF CompleteAuto, SoundMove
  <2>3. Sound(inst') /\ prof' \in Profile
    BY <1>8, <2>1, <2>2, TransitionSound
  <2> QED
    BY <1>1, <1>2, <1>3, <1>9, <2>3, CallType, RequestKeepsInv DEF CompleteAuto, Reply
<1>10. CASE CompleteSkippingRework(o)
  <2>1. PICK m \in Moves(o) :
          LET i == Transition(m.inst, "failure")
          IN  inst' = EnterState(i, i.state) /\ prof' = m.prof
    BY <1>10 DEF CompleteSkippingRework
  <2>2. Sound(m.inst) /\ m.prof \in Profile
    BY <1>4, <1>10 DEF CompleteSkippingRework, SoundMove
  <2>3. Sound(inst') /\ prof' \in Profile
    BY <1>8, <2>1, <2>2, TransitionSound
  <2> QED
    BY <1>1, <1>2, <1>3, <1>10, <2>3, CallType, RequestKeepsInv
    DEF CompleteSkippingRework, Reply
<1>11. CASE CompleteRefused(o)
  <2>1. PICK m \in Moves(o) : inst' = m.inst /\ prof' = ProfileOnEntry(inst.state, m)
    BY <1>11 DEF CompleteRefused
  <2>2. Sound(inst') /\ prof' \in Profile
    BY <1>4, <1>5, <1>11, <2>1 DEF CompleteRefused, SoundMove
  <2> QED
    BY <1>1, <1>3, <1>11, <2>2, CallType, RequestKeepsInv DEF CompleteRefused, Reply
<1>12. CASE CompleteRolledBack(o)
  <2>1. PICK m \in Moves(o) :
          /\ inst' = [EnterState(m.inst, inst.state) EXCEPT !.status = "running"]
          /\ prof' = m.prof
    BY <1>12 DEF CompleteRolledBack
  <2>2. m.inst \in Instance /\ m.prof \in Profile /\ inst.state \in State
    BY <1>3, <1>4, <1>12 DEF CompleteRolledBack, SoundMove, Sound
  <2>3. inst' \in Instance /\ inst'.state = inst.state /\ inst'.status = "running"
    BY <1>1, <2>1, <2>2 DEF EnterState, Instance
  <2>4. Sound(inst')
    BY <2>2, <2>3 DEF Sound, IsWorkflowTerminalStatus
  <2> QED
    BY <1>1, <1>3, <1>12, <2>1, <2>2, <2>4, CallType, RequestKeepsInv
    DEF CompleteRolledBack, Reply
<1>13. CASE CompleteEnded(o)
  <2>1. 0 \in 0 .. MaxReviewRetries - 1
    BY SMT, LimitAssumption
  <2>2. \/ inst' = inst
        \/ inst' = [inst EXCEPT !.rework = NoState, !.testReviewFailures = 0,
                                !.testPlanFailures = 0]
    BY <1>13 DEF CompleteEnded
  <2>3. Sound(inst')
    BY <1>1, <2>1, <2>2 DEF Sound, Instance
  <2>4. prof' \in Profile
    BY <1>1, <1>13, ProfileType DEF CompleteEnded
  <2> QED
    BY <1>1, <1>2, <1>13, <2>3, <2>4, RequestKeepsInv DEF CompleteEnded, Reply
<1> QED
  BY <1>6, <1>7, <1>9, <1>10, <1>11, <1>12, <1>13 DEF Complete

\* Every request, timeout, expiry and restart keeps the invariant.
LEMMA WorkflowStep == WorkflowInv /\ [Next]_vars => WorkflowInv'
<1> SUFFICES ASSUME WorkflowInv, [Next]_vars
             PROVE  WorkflowInv'
  OBVIOUS
<1>1. /\ Sound(inst) /\ Sound(disk) /\ prof \in Profile /\ last \in Call
      /\ fetching \in FetchStep /\ inst.state \in Place /\ reply \in Reply
      /\ reply = "ok" => disk = inst
  BY InvSound DEF Sound, Instance
<1>2. ASSUME NEW a \in Reply, NEW b \in Reply \ {"ok"}, PersistLocked(inst', a, b)
      PROVE  \/ disk' = inst' /\ reply' \in Reply
             \/ disk' = disk /\ reply' \in Reply \ {"ok"}
  BY <1>2 DEF PersistLocked
<1>3. ASSUME NEW o \in Outcome, Complete(o)
      PROVE  WorkflowInv'
  BY <1>3, CompleteKeepsInv
<1>4. CASE PauseWorkflow
  <2>1. Sound(inst')
    BY <1>1, <1>4 DEF PauseWorkflow, Sound, Instance, IsWorkflowTerminalStatus
  <2> QED
    BY <1>1, <1>2, <1>4, <2>1, RequestKeepsInv DEF PauseWorkflow, Reply
<1>5. CASE ResumeWorkflow
  <2>1. Sound(inst')
    BY <1>1, <1>5 DEF ResumeWorkflow, Sound, Instance, IsWorkflowTerminalStatus
  <2> QED
    BY <1>1, <1>2, <1>5, <2>1, RequestKeepsInv DEF ResumeWorkflow, Reply
<1>6. ASSUME NEW s \in Resettable, ResetWorkflow(s)
      PROVE  WorkflowInv'
  <2>1. [t \in ProgressGuarded |-> NoProgress] \in [ProgressGuarded -> Progress]
    BY DEF Progress
  <2>2. s \in State /\ s \in Place
    BY TemplateAssumption DEF Place
  <2>3. inst' \in Instance /\ inst'.state = s /\ inst'.status = "running"
    BY <1>1, <1>6, <2>1, <2>2 DEF ResetWorkflow, EnterState, Sound, Instance
  <2>4. Sound(inst')
    BY <2>2, <2>3 DEF Sound, IsWorkflowTerminalStatus
  <2>5. [prof EXCEPT !.reviewed = FALSE] \in Profile
    BY <1>1 DEF Profile
  <2> QED
    BY <1>1, <1>2, <1>6, <2>4, <2>5, NoCallType, RequestKeepsInv DEF ResetWorkflow, Reply
<1>7. CASE FetchTask \/ TimeoutFails \/ FetchReturns
  <2>1. fetching' \in FetchStep
    BY <1>7 DEF FetchTask, TimeoutFails, FetchReturns, FetchStep
  <2>2. UNCHANGED <<inst, disk, prof, reply, last>>
    BY <1>7 DEF FetchTask, TimeoutFails, FetchReturns
  <2> QED
    BY <1>1, <2>1, <2>2 DEF WorkflowInv, TypeOK, EndedMeansEnded, AckedIsDurable, Sound
<1>8. CASE ApplyStateTimeout
  <2> DEFINE i == Transition(inst, "timeout")
  <2>1. Sound(i)
    BY <1>1, TransitionSound
  <2>2. inst' = [i EXCEPT !.overdue = FALSE, !.rework = inst.state]
    BY <1>8 DEF ApplyStateTimeout
  <2> HIDE DEF i
  <2>3. Sound(inst')
    BY <1>1, <2>1, <2>2 DEF Sound, Instance
  <2> QED
    BY <1>1, <1>2, <1>8, <2>3, NoCallType, RequestKeepsInv DEF ApplyStateTimeout, Reply, FetchStep
<1>9. CASE StateExpires
  <2>1. /\ inst' = [inst EXCEPT !.overdue = TRUE]
        /\ disk' = IF disk = inst THEN inst' ELSE disk'
        /\ disk # inst => disk' \in {disk, [disk EXCEPT !.overdue = TRUE]}
    BY <1>9 DEF StateExpires
  <2>2. Sound(inst') /\ Sound([disk EXCEPT !.overdue = TRUE])
    BY <1>1, <2>1 DEF Sound, Instance
  <2>3. Sound(disk') /\ (disk = inst => disk' = inst')
    BY <1>1, <2>1, <2>2
  <2> QED
    BY <1>1, <1>9, <2>2, <2>3
    DEF StateExpires, WorkflowInv, TypeOK, EndedMeansEnded, AckedIsDurable, Sound
<1>10. CASE Restart
  BY <1>1, <1>10, NoCallType, RequestKeepsInv DEF Restart, Reply, FetchStep
<1>11. CASE UNCHANGED vars
  BY <1>11 DEF vars, WorkflowInv, TypeOK, EndedMeansEnded, AckedIsDurable
<1> QED
  BY <1>3, <1>4, <1>5, <1>6, <1>7, <1>8, <1>9, <1>10, <1>11 DEF Next

\* For every template, retry limit and no-progress budget: the variables have
\* their types (so neither loop-safety counter of CompleteTask rests at its
\* limit), an ended status goes with an ended state, and an answered request
\* is in instances.json.
THEOREM WorkflowInvariant == Spec => []WorkflowInv
  BY WorkflowInit, WorkflowStep, PTL DEF Spec

\* Type correctness of the manager's instance, its saved copy and the profile.
THEOREM WorkflowTypeOK == Spec => []TypeOK
  BY WorkflowInvariant, PTL DEF WorkflowInv

\* No restart undoes a request that CompleteTask, PauseWorkflow, ResumeWorkflow
\* or ResetWorkflow answered with success.
THEOREM WorkflowAckedIsDurable == Spec => []AckedIsDurable
  BY WorkflowInvariant, PTL DEF WorkflowInv

\* No interleaving of completions, pauses, resets, timeouts and restarts leaves
\* an ended status on a live state or a live status on an ended one.
THEOREM WorkflowEndedMeansEnded == Spec => []EndedMeansEnded
  BY WorkflowInvariant, PTL DEF WorkflowInv

-----------------------------------------------------------------------------
(* Retried completions.                                                    *)

\* Transition leads to the edge of the state, or nowhere.
LEMMA TransitionState ==
    ASSUME NEW i \in Instance, NEW o
    PROVE  /\ Transition(i, o) \in Instance
           /\ i.state \in State /\ Edge(i.state, o) # NoState
                => Transition(i, o).state = Edge(i.state, o)
           /\ ~(i.state \in State /\ Edge(i.state, o) # NoState) => Transition(i, o) = i
<1> DEFINE t == IF i.state \in State THEN Edge(i.state, o) ELSE NoState
<1>1. CASE t = NoState
  BY <1>1 DEF Transition
<1>2. CASE t # NoState
  <2>1. i.state \in State /\ t \in Place
    BY <1>2, EdgeType
  <2> DEFINE b == i.overdue /\ t = i.state
             u == IF t \in {"completed", "failed"} THEN t ELSE i.status
  <2>2. Transition(i, o) = [i EXCEPT !.state = t, !.overdue = b, !.status = u]
    BY <1>2 DEF Transition
  <2>3. b \in BOOLEAN /\ u \in {"running", "paused", "completed", "failed"}
    BY DEF Instance
  <2>4. t = Edge(i.state, o)
    BY <2>1
  <2> HIDE DEF t, b, u
  <2> QED
    BY <1>2, <2>1, <2>2, <2>3, <2>4 DEF Instance
<1> QED
  BY <1>1, <1>2

\* recordReviewProgress may pause the workflow but does not move it.
LEMMA RecordState ==
    ASSUME NEW s, NEW o, NEW i \in Instance, NEW p, NEW j \in RecordReviewProgress(s, o, i, p)
    PROVE  j.state = i.state
  BY DEF RecordReviewProgress, Instance

\* Where an instance rests after a Transition.
LEMMA TransitionFollows ==
    ASSUME NEW i \in Instance, NEW o
    PROVE  Transition(i, o) \in Instance /\ Transition(i, o).state = Follow(i.state, o)
  BY TransitionState DEF Follow

\* Up to its Transition, CompleteTask follows an edge of the state, or keeps
\* the state when the implementation is rewound.
LEMMA MovesFollow ==
    ASSUME WorkflowInv, NEW o \in Outcome, Admitted(o), NEW m \in Moves(o)
    PROVE  /\ IsFailureOutcome(m.outcome) => IsFailureOutcome(o)
           /\ \/ \E e \in Effective(inst.state, o) : m.inst.state = Edge(inst.state, e)
              \/ m.inst.state = inst.state /\ inst.state = "implementation"
<1> DEFINE s == inst.state
           straight == {Move(o, r, q) : r \in Repairs(s, o), q \in ProfilesOnCompletion(s, o, prof)}
<1>1. s \in State /\ Edge(s, o) # NoState /\ inst \in Instance
  BY DEF Admitted, WorkflowInv, TypeOK
<1>2. ASSUME NEW r \in Repairs(s, o), NEW q
      PROVE  /\ IsFailureOutcome(Move(o, r, q).outcome) => IsFailureOutcome(o)
             /\ \E e \in Effective(s, o) : Move(o, r, q).inst.state = Edge(s, e)
             /\ Move(o, r, q).inst \in Instance
             /\ DOMAIN Move(o, r, q) = {"outcome", "inst", "reopened", "prof", "rewound"}
  <2> DEFINE e == IF r = "gap" THEN "plan_gap" ELSE o
  <2>1. /\ Move(o, r, q).inst = Transition(inst, e) /\ Move(o, r, q).outcome = e
        /\ DOMAIN Move(o, r, q) = {"outcome", "inst", "reopened", "prof", "rewound"}
    BY DEF Move
  <2>2. r = "gap" => /\ "plan_gap" \in DOMAIN To[s]
                     /\ s = "test_review" /\ IsFailureOutcome(o)
    BY DEF Repairs
  <2>3. e \in Effective(s, o) /\ (IsFailureOutcome(e) => IsFailureOutcome(o))
    BY <2>2 DEF Effective, IsFailureOutcome
  <2>4. Edge(s, e) # NoState
    BY <1>1, <2>2, TemplateAssumption DEF Edge
  <2>5. Transition(inst, e) \in Instance /\ Transition(inst, e).state = Edge(s, e)
    BY <1>1, <2>4, TransitionState
  <2> HIDE DEF e, s
  <2> QED
    BY <2>1, <2>3, <2>5
<1>3. ASSUME NEW n \in straight
      PROVE  Rewound(n).inst.state = "implementation" /\ Rewound(n).outcome = n.outcome
  <2>1. n.inst \in Instance /\ DOMAIN n = {"outcome", "inst", "reopened", "prof", "rewound"}
    BY SMT, <1>2
  <2>2. EnterState(n.inst, "implementation").state = "implementation"
    BY SMT, <2>1 DEF EnterState, Instance
  <2>3. /\ Rewound(n).inst = EnterState(n.inst, "implementation")
        /\ Rewound(n).outcome = n.outcome
    BY SMT, <2>1 DEF Rewound
  <2> QED
    BY SMT, <2>2, <2>3
<1>4. \/ m \in straight
      \/ \E n \in straight : s = "implementation" /\ m = Rewound(n)
  BY SMT DEF Moves
<1> QED
  BY SMT, <1>2, <1>3, <1>4

\* Advancing the phase, and the escalations and loop-safety counters, lead
\* where Leads says, or end the workflow.
LEMMA LandingsLead ==
    ASSUME NEW s \in State, NEW o \in Outcome, NEW m, m.inst \in Instance,
           IsFailureOutcome(m.outcome) => IsFailureOutcome(o),
           \/ \E e \in Effective(s, o) : m.inst.state = Edge(s, e)
           \/ m.inst.state = s /\ s = "implementation",
           NEW i \in Landings(s, m), i \in Instance,
           NEW to \in {"test_plan_rework", "design"},
           NEW t, t = Account(s, m, i, to).state
    PROVE  t = s \/ t \notin State \/ Leads(s, o, t)
<1>1. i.state = m.inst.state \/ i.state = "completed" \/ Leads(s, o, i.state)
  <2>1. \A u : EnterState(m.inst, u).state = u
    BY DEF EnterState, Instance
  <2>2. CASE AdvancesPhase(s, m)
    <3>1. \/ i = [EnterState(m.inst, "planning") EXCEPT !.status = "running"]
          \/ i = [m.inst EXCEPT !.state = "completed", !.status = "completed"]
      BY <2>2 DEF Landings
    <3>2. i.state \in {"planning", "completed"}
      BY <3>1, ZenonT(40) DEF EnterState, Instance
    <3>3. m.inst.state \in {"advance_phase", "completed"}
      BY <2>2 DEF AdvancesPhase
    <3>4. \E e \in Effective(s, o) : Edge(s, e) \in {"advance_phase", "completed"}
      BY <3>3
    <3> QED
      BY <3>2, <3>4 DEF Leads
  <2>3. CASE ~AdvancesPhase(s, m)
    <3>1. \/ i = m.inst
          \/ s = "plan_review" /\ IsFailureOutcome(m.outcome) /\ i = EnterState(m.inst, "design")
      BY <2>3 DEF Landings
    <3> QED
      BY <2>1, <3>1 DEF Leads
  <2> QED
    BY <2>2, <2>3
<1>2. \/ t = i.state
      \/ s = "test_review" /\ IsFailureOutcome(o) /\ t \in {"test_plan_rework", "design"}
      \/ s = "test_plan" /\ IsFailureOutcome(o) /\ t = "design"
  <2> DEFINE rejected == s = "test_review" /\ i.state = "implementation" /\ IsFailureOutcome(m.outcome)
             unplanned == s = "test_plan" /\ i.state = "planning" /\ IsFailureOutcome(m.outcome)
             escalated == rejected /\ RetriesSpent(i.testReviewFailures + 1)
             replanned == unplanned /\ RetriesSpent(i.testPlanFailures + 1)
             routed == IF escalated THEN EnterState(i, to)
                       ELSE IF replanned THEN EnterState(i, "design") ELSE i
  <2>1. DOMAIN i = DOMAIN routed /\ "state" \in DOMAIN i
    BY DEF EnterState, Instance
  <2>2. \A u : EnterState(i, u).state = u
    BY DEF EnterState, Instance
  <2>3. \/ routed.state = i.state
        \/ s = "test_review" /\ IsFailureOutcome(o) /\ routed.state \in {"test_plan_rework", "design"}
        \/ s = "test_plan" /\ IsFailureOutcome(o) /\ routed.state = "design"
    BY <2>2
  <2>4. t \in {routed.state, i.state}
    <3> HIDE DEF routed
    <3> QED
      BY <2>1 DEF Account, routed, Instance
  <2> QED
    BY <2>3, <2>4
<1>3. "completed" \notin State
  BY TemplateAssumption
<1> QED
  BY <1>1, <1>2, <1>3 DEF Leads

\* Whatever a completion of a live state comes to, the workflow stays, ends, or
\* is where Leads says.
LEMMA CompleteLeads ==
    ASSUME WorkflowInv, NEW o \in Outcome, Complete(o), inst.state \in State
    PROVE  /\ CompletionOf(o) /\ Edge(inst.state, o) # NoState
           /\ \/ inst'.state = inst.state \/ inst'.state \notin State
              \/ Leads(inst.state, o, inst'.state)
<1> DEFINE s == inst.state
<1>1. Sound(inst) /\ TypeOK /\ inst \in Instance /\ s \in Place
  BY InvSound DEF WorkflowInv, Sound, Instance
<1>2. Admitted(o) /\ CompletionOf(o) /\ Edge(s, o) # NoState
  <2>1. Admitted(o) /\ CompletionOf(o)
    BY DEF Complete, CompleteTask, CompleteRedirected, CompleteAuto,
           CompleteSkippingRework, CompleteRefused, CompleteRolledBack, CompleteEnded
  <2> QED
    BY <2>1 DEF Admitted
<1>3. ASSUME NEW m \in Moves(o)
      PROVE  /\ SoundMove(m) /\ m.inst \in Instance
             /\ IsFailureOutcome(m.outcome) => IsFailureOutcome(o)
             /\ \/ \E e \in Effective(s, o) : m.inst.state = Edge(s, e)
                \/ m.inst.state = s /\ s = "implementation"
  BY <1>1, <1>2, MovesSound, MovesFollow DEF SoundMove, Sound
<1>4. ASSUME NEW i \in Instance, NEW u
      PROVE  EnterState(i, u).state = u
  BY DEF EnterState, Instance
<1>5. CASE CompleteTask(o)
  <2>0. PICK m \in Moves(o) :
          \E i \in Landings(s, m), to \in {"test_plan_rework", "design"} :
            inst' \in RecordReviewProgress(s, m.outcome, Account(s, m, i, to), prof')
    BY <1>5 DEF CompleteTask
  <2>1. PICK i \in Landings(s, m), to \in {"test_plan_rework", "design"} :
          inst' \in RecordReviewProgress(s, m.outcome, Account(s, m, i, to), prof')
    BY <2>0
  <2>2. Sound(i) /\ i \in Instance
    BY <1>1, <1>3, LandingsSound DEF Sound
  <2>3. Account(s, m, i, to) \in Instance
    BY <1>1, <2>2, AccountSound DEF Sound
  <2>4. inst'.state = Account(s, m, i, to).state
    BY SMT, <2>1, <2>3, RecordState
  <2>5. \/ Account(s, m, i, to).state = s \/ Account(s, m, i, to).state \notin State
        \/ Leads(s, o, Account(s, m, i, to).state)
    BY <1>3, <2>2, LandingsLead
  <2> QED
    BY <1>2, <2>4, <2>5
<1>6. CASE CompleteRedirected(o)
  <2> DEFINE i == Transition(inst, "architecture_failure")
  <2>1. i \in Instance /\ i.state = Follow(s, "architecture_failure")
    BY <1>1, TransitionFollows
  <2>2. inst' = [[i EXCEPT !.overdue = FALSE] EXCEPT !.rework = inst.state] /\ o = "success"
    BY <1>6 DEF CompleteRedirected, Redirect
  <2> HIDE DEF i
  <2>3. inst'.state = i.state
    BY <2>1, <2>2 DEF Instance
  <2> QED
    BY <1>2, <2>1, <2>2, <2>3 DEF Leads
<1>7. CASE CompleteAuto(o)
  <2>1. PICK m \in Moves(o) :
          LET i == Transition(m.inst, "success")
              j == IF i.state = "test_plan_review" THEN Transition(i, "success") ELSE i
          IN  MayAutoComplete(m) /\ inst' = EnterState(j, j.state)
    BY <1>7 DEF CompleteAuto
  <2> DEFINE i == Transition(m.inst, "success")
             j == IF i.state = "test_plan_review" THEN Transition(i, "success") ELSE i
             u == Follow("test_plan", "success")
  <2>2. m.inst.state = "test_plan"
    BY <2>1 DEF MayAutoComplete
  <2>3. i \in Instance /\ i.state = u
    BY <1>3, <2>2, TransitionFollows
  <2>4. j \in Instance /\ j.state = IF u = "test_plan_review" THEN Follow(u, "success") ELSE u
    BY <2>3, TransitionFollows
  <2>5. inst'.state = j.state
    BY <1>4, <2>1, <2>4
  <2>6. \E e \in Effective(s, o) : Edge(s, e) = "test_plan"
    BY <1>3, <2>2
  <2> HIDE DEF i, j
  <2> QED
    BY <1>2, <2>4, <2>5, <2>6 DEF Leads
<1>8. CASE CompleteSkippingRework(o)
  <2>1. PICK m \in Moves(o) :
          LET i == Transition(m.inst, "failure")
          IN  SkipsRework(s, m) /\ inst' = EnterState(i, i.state)
    BY <1>8 DEF CompleteSkippingRework
  <2>2. m.inst.state = "test_plan_rework"
    BY <2>1 DEF SkipsRework
  <2>3. inst'.state = Follow("test_plan_rework", "failure")
    BY SMT, <1>3, <1>4, <2>1, <2>2, TransitionFollows
  <2>4. \E e \in Effective(s, o) : Edge(s, e) = "test_plan_rework"
    BY <1>3, <2>2
  <2> QED
    BY <1>2, <2>3, <2>4 DEF Leads
<1>9. CASE CompleteRefused(o)
  <2>1. PICK m \in Moves(o) : inst' = m.inst
    BY <1>9 DEF CompleteRefused
  <2>2. m.inst.state = s \/ \E e \in Effective(s, o) : m.inst.state = Edge(s, e)
    BY <1>3
  <2> QED
    BY <1>2, <2>1, <2>2 DEF Leads
<1>10. CASE CompleteRolledBack(o)
  <2>1. PICK m \in Moves(o) :
          inst' = [EnterState(m.inst, s) EXCEPT !.status = "running"]
    BY <1>10 DEF CompleteRolledBack
  <2>2. inst'.state = s
    BY <1>3, <2>1, ZenonT(40) DEF EnterState, Instance
  <2> QED
    BY <1>2, <2>2
<1>11. CASE CompleteEnded(o)
  BY <1>11 DEF CompleteEnded
<1> QED
  BY <1>5, <1>6, <1>7, <1>8, <1>9, <1>10, <1>11 DEF Complete

\* The invariant and a retry-safe template keep a retried completion harmless.
LEMMA RetryStep ==
    ASSUME RetrySafe, WorkflowInv, WorkflowInv', RetryHarmless, [Next]_vars
    PROVE  RetryHarmless'
<1>1. ASSUME inst'.state = inst.state, last' = last
      PROVE  RetryHarmless'
  BY <1>1 DEF RetryHarmless
<1>2. ASSUME last' = NoCall
      PROVE  RetryHarmless'
  BY <1>2 DEF RetryHarmless, NoCall
<1>3. ASSUME NEW o \in Outcome, Complete(o)
      PROVE  RetryHarmless'
  <2>1. CASE inst.state \in State
    <3>1. /\ CompletionOf(o) /\ Edge(inst.state, o) # NoState
          /\ \/ inst'.state = inst.state \/ inst'.state \notin State
             \/ Leads(inst.state, o, inst'.state)
      BY <1>3, <2>1, CompleteLeads
    <3>2. /\ last'.moved = (inst'.state # inst.state)
          /\ last'.role = RoleOf[inst.state] /\ last'.outcome = o
      BY <3>1 DEF CompletionOf
    <3>3. SUFFICES ASSUME inst'.state # inst.state, inst'.state \in State,
                          RoleOf[inst'.state] = RoleOf[inst.state]
                   PROVE  ~AcceptsOutcome(inst'.state, o) \/ Edge(inst'.state, o) = inst'.state
      BY <3>2 DEF RetryHarmless
    <3> QED
      BY <2>1, <3>1, <3>3 DEF RetrySafe
  <2>2. CASE inst.state \notin State
    <3>1. CompleteEnded(o)
      BY <1>3, <2>2 DEF Complete, CompleteTask, CompleteRedirected, CompleteAuto,
           CompleteSkippingRework, CompleteRefused, CompleteRolledBack, Admitted
    <3>2. inst'.state = inst.state /\ last' = last
      BY <3>1 DEF CompleteEnded, WorkflowInv, TypeOK, Instance
    <3> QED
      BY <1>1, <3>2
  <2> QED
    BY <2>1, <2>2
<1>4. CASE \/ PauseWorkflow \/ ResumeWorkflow \/ StateExpires
           \/ FetchTask \/ TimeoutFails \/ FetchReturns
  <2>1. inst'.state = inst.state /\ last' = last
    BY <1>4 DEF PauseWorkflow, ResumeWorkflow, StateExpires, FetchTask, TimeoutFails, FetchReturns,
                WorkflowInv, TypeOK, Instance
  <2> QED
    BY <1>1, <2>1
<1>5. CASE (\E s \in Resettable : ResetWorkflow(s)) \/ ApplyStateTimeout \/ Restart
  BY <1>2, <1>5 DEF ResetWorkflow, ApplyStateTimeout, Restart
<1>6. CASE UNCHANGED vars
  BY <1>1, <1>6 DEF vars
<1> QED
  BY <1>3, <1>4, <1>5, <1>6 DEF Next

\* For every retry-safe template, whatever is paused, reset, timed out, skipped,
\* escalated or restarted in between: a complete_task that CallWithTimeout sends
\* again after it has moved the workflow is turned away or changes no state.
THEOREM WorkflowRetryHarmless == RetrySafe /\ Spec => []RetryHarmless
<1>1. Init => RetryHarmless
  BY SMT DEF Init, RetryHarmless, NoCall
<1>2. RetrySafe /\ WorkflowInv /\ WorkflowInv' /\ RetryHarmless /\ [Next]_vars => RetryHarmless'
  BY RetryStep
<1>3. RetrySafe => []RetrySafe
  OBVIOUS
<1> QED
  BY <1>1, <1>2, <1>3, WorkflowInvariant, PTL DEF Spec
=============================================================================
