---------------------- MODULE WorkflowPipeline_proofs ----------------------
(***************************************************************************)
(* Workflow implements Pipeline, for every template that RankAssumption    *)
(* calls a pipeline.                                                       *)
(***************************************************************************)
EXTENDS WorkflowPipeline, Workflow_proofs

\* Zenon is the prover of every leaf that names no other.
USE Zenon

\* Edges lead at most one stage forward.
LEMMA EdgeRank ==
    ASSUME NEW s \in State, NEW o, Edge(s, o) # NoState
    PROVE  /\ Edge(s, o) \in Place
           /\ Rank[Edge(s, o)] <= Rank[s] + 1
<1>1. PICK x \in DOMAIN To[s] : Edge(s, o) = To[s][x]
  BY DEF Edge
<1> QED
  BY SMT, <1>1, TemplateAssumption, RankAssumption

\* What the transition of a completion does to the stage and the approval.
RankedMove(m) ==
    /\ m.inst \in Instance
    /\ Rank[m.inst.state] <= Rank[inst.state] + 1
    /\ m.prof.reviewed =>
         \/ prof.reviewed
         \/ /\ inst.state \in ApprovalGates /\ m.outcome = "success"
            /\ m.inst.state = To[inst.state]["success"]
    /\ m.prof.reviewed /\ m.inst.state = "test_plan" =>
         inst.state = "plan_review" /\ prof.reviewed

\* Only the success of an approval gate sets test_plan_reviewed.
LEMMA ApprovalOrigin ==
    ASSUME NEW s \in State, NEW o \in Outcome, NEW p \in Profile,
           NEW q \in ProfilesOnCompletion(s, o, p), q.reviewed
    PROVE  /\ p.reviewed \/ (s \in ApprovalGates /\ o = "success")
           /\ ~(s = "test_plan_review" /\ IsFailureOutcome(o))
           /\ ~IsArchitectureReworkOutcome(o)
<1>1. ~ClearTestPlanFlags(p).reviewed
  BY DEF ClearTestPlanFlags, Profile
<1>2. CASE s = "design" /\ o = "success"
  <2>1. PICK x \in {p, ClearTestPlanFlags(p)}, v \in Version : q = [x EXCEPT !.ver = v]
    BY SMT, <1>2 DEF ProfilesOnCompletion
  <2>2. x \in Profile
    BY ProfileType
  <2>3. q.reviewed = x.reviewed
    BY <2>1, <2>2 DEF Profile
  <2> QED
    BY <1>1, <1>2, <2>1, <2>3 DEF IsFailureOutcome, IsArchitectureReworkOutcome
<1>3. CASE ~(s = "design" /\ o = "success")
  <2>1. q = FlagsOnCompletion(s, o, p)
    BY SMT, <1>3 DEF ProfilesOnCompletion
  <2>2. CASE s \in {"test_plan", "test_plan_review"} /\ o = "success"
    BY <2>2 DEF ApprovalGates, IsFailureOutcome, IsArchitectureReworkOutcome
  <2>3. CASE ~(s \in {"test_plan", "test_plan_review"} /\ o = "success")
    <3>1. CASE \/ s \in {"test_plan_review", "design_review"} /\ IsFailureOutcome(o)
               \/ IsArchitectureReworkOutcome(o)
      BY <1>1, <2>1, <2>3, <3>1 DEF FlagsOnCompletion
    <3>2. CASE ~(\/ s \in {"test_plan_review", "design_review"} /\ IsFailureOutcome(o)
                 \/ IsArchitectureReworkOutcome(o))
      BY <2>1, <2>3, <3>2 DEF FlagsOnCompletion
    <3> QED
      BY <3>1, <3>2
  <2> QED
    BY <2>2, <2>3
<1> QED
  BY <1>2, <1>3

\* Up to its Transition, CompleteTask moves at most one stage forward.
LEMMA MovesRanked ==
    ASSUME WorkflowInv, NEW o \in Outcome, Admitted(o), NEW m \in Moves(o)
    PROVE  RankedMove(m)
<1> DEFINE s == inst.state
           straight == {Move(o, r, q) : r \in Repairs(s, o), q \in ProfilesOnCompletion(s, o, prof)}
<1>1. s \in State /\ Edge(s, o) # NoState /\ prof \in Profile /\ inst \in Instance
  BY DEF Admitted, WorkflowInv, TypeOK
<1>2. ASSUME NEW r \in Repairs(s, o), NEW q \in ProfilesOnCompletion(s, o, prof)
      PROVE  RankedMove(Move(o, r, q)) /\ DOMAIN Move(o, r, q) =
               {"outcome", "inst", "reopened", "prof", "rewound"}
  <2> DEFINE e == IF r = "gap" THEN "plan_gap" ELSE o
  <2>1. /\ Move(o, r, q).inst = Transition(inst, e)
        /\ Move(o, r, q).prof = IF r = "gap" THEN ClearTestPlanFlags(q) ELSE q
        /\ Move(o, r, q).outcome = e
        /\ DOMAIN Move(o, r, q) = {"outcome", "inst", "reopened", "prof", "rewound"}
    BY DEF Move
  <2>2. q \in Profile
    BY <1>1, ProfileType
  <2>3. ~ClearTestPlanFlags(q).reviewed
    BY <2>2 DEF ClearTestPlanFlags, Profile
  <2>4. r = "gap" => "plan_gap" \in DOMAIN To[s]
    BY DEF Repairs
  <2>5. Edge(s, e) # NoState
    BY <1>1, <2>4, TemplateAssumption DEF Edge
  <2>6. Transition(inst, e) \in Instance /\ Transition(inst, e).state = Edge(s, e)
    BY <1>1, <2>5, TransitionState
  <2>7. Rank[Edge(s, e)] <= Rank[s] + 1
    BY <1>1, <2>5, EdgeRank
  <2>8. ASSUME Move(o, r, q).prof.reviewed
        PROVE  /\ q.reviewed /\ e = o
               /\ prof.reviewed \/ (s \in ApprovalGates /\ o = "success")
               /\ ~(s = "test_plan_review" /\ IsFailureOutcome(o))
    BY SMT, <1>1, <2>1, <2>3, <2>8, ApprovalOrigin
  <2>9. ASSUME s \in ApprovalGates, e = "success"
        PROVE  Edge(s, e) = To[s]["success"]
    BY SMT, <2>9, RankAssumption DEF Edge
  <2>10. ASSUME Edge(s, o) = "test_plan", ~(s = "test_plan_review" /\ IsFailureOutcome(o))
         PROVE  s = "plan_review"
    <3>1. PICK x \in DOMAIN To[s] : To[s][x] = "test_plan" /\ (x = "failure" => o \in {"fail", "failure"})
      BY <1>1, <2>10 DEF Edge
    <3> QED
      BY <1>1, <2>10, <3>1, RankAssumption DEF IsFailureOutcome
  <2>11. s = "plan_review" => s \notin ApprovalGates
    BY DEF ApprovalGates
  <2> HIDE DEF e, s
  <2> QED
    BY <2>1, <2>6, <2>7, <2>8, <2>9, <2>10, <2>11 DEF RankedMove, s
<1>3. ASSUME NEW n, RankedMove(n), n.inst.state = "planning", s = "implementation",
             DOMAIN n = {"outcome", "inst", "reopened", "prof", "rewound"}
      PROVE  RankedMove(Rewound(n))
  <2>1. /\ Rewound(n).inst = EnterState(n.inst, "implementation")
        /\ Rewound(n).prof = n.prof
    BY <1>3 DEF Rewound
  <2>2. "implementation" \in Place /\ n.inst \in Instance
    BY <1>3, TemplateAssumption DEF Place, RankedMove
  <2>3. /\ EnterState(n.inst, "implementation") \in Instance
        /\ EnterState(n.inst, "implementation").state = "implementation"
    BY <2>2 DEF EnterState, Instance
  <2>4. s \notin ApprovalGates
    BY <1>3 DEF ApprovalGates
  <2>5. Rank[s] \in Nat
    BY <1>3, <2>2, RankAssumption
  <2> QED
    BY SMT, <1>3, <2>1, <2>3, <2>4, <2>5 DEF RankedMove
<1>4. \/ m \in straight
      \/ \E n \in straight : s = "implementation" /\ n.inst.state = "planning" /\ m = Rewound(n)
  BY SMT DEF Moves
<1>5. \A n \in straight : RankedMove(n) /\ DOMAIN n =
                            {"outcome", "inst", "reopened", "prof", "rewound"}
  BY SMT, <1>2
<1> QED
  BY SMT, <1>3, <1>4, <1>5

\* A step of the workflow that is a step of the pipeline.
LEMMA StepMaps ==
    ASSUME {inst.state, inst'.state, disk.state} \subseteq Place,
           disk'.state \in {disk.state, inst'.state},
           prof.reviewed \in BOOLEAN, prof'.reviewed \in BOOLEAN,
           \/ Rank[inst'.state] <= Rank[inst.state] + 1 /\ (prof'.reviewed => prof.reviewed)
           \/ inst.state \in ApprovalGates /\ Rank[inst'.state] = Rank[inst.state] + 1
    PROVE  P!Next
<1>1. /\ Rank[inst.state] \in Nat /\ Rank[inst'.state] \in Nat /\ Rank[disk.state] \in Nat
      /\ Rank[inst'.state] <= Rank["completed"] /\ Rank["completed"] \in Nat
  BY RankAssumption DEF Place
<1>2. inst.state \in ApprovalGates => /\ Rank["plan_review"] < Rank[inst.state]
                                      /\ Rank[inst.state] < Rank["project_setup"]
  BY RankAssumption
<1>3. (prof'.reviewed => prof.reviewed) => prof'.reviewed \in {FALSE, prof.reviewed}
  <2>1. CASE prof'.reviewed = FALSE
    BY <2>1
  <2>2. CASE prof'.reviewed = TRUE
    <3>1. prof'.reviewed /\ (prof.reviewed => prof'.reviewed = prof.reviewed)
      BY <2>2, Zenon
    <3> QED
      BY <3>1
  <2> QED
    BY <2>1, <2>2
<1>4. Rank[disk'.state] \in {Rank[disk.state], Rank[inst'.state]}
  OBVIOUS
<1>5. CASE Rank[inst'.state] = Rank[inst.state] + 1
  <2>1. Rank[inst.state] < Rank["completed"]
    BY SMT, <1>1, <1>5
  <2>2. prof'.reviewed \in {FALSE, prof.reviewed} \cup
          (IF Rank["plan_review"] < Rank[inst.state] /\ Rank[inst.state] < Rank["project_setup"]
           THEN {TRUE} ELSE {})
    <3>1. CASE prof'.reviewed => prof.reviewed
      BY <1>3, <3>1
    <3>2. CASE ~(prof'.reviewed => prof.reviewed)
      <4>1. prof'.reviewed = TRUE
        BY <3>2
      <4>2. inst.state \in ApprovalGates
        BY <3>2
      <4> QED
        BY <1>2, <4>1, <4>2
    <3> QED
      BY <3>1, <3>2
  <2>3. P!Advance
    BY <1>4, <1>5, <2>1, <2>2 DEF P!Advance
  <2> QED
    BY <2>3 DEF P!Next
<1>6. CASE Rank[inst'.state] # Rank[inst.state] + 1
  <2>1. Rank[inst'.state] \in 0 .. Rank[inst.state]
    BY SMT, <1>1, <1>6
  <2>2. prof'.reviewed \in {FALSE, prof.reviewed}
    BY <1>3, <1>6
  <2>3. P!FallBack
    BY <1>4, <2>1, <2>2 DEF P!FallBack
  <2> QED
    BY <2>3 DEF P!Next
<1> QED
  BY <1>5, <1>6

\* A request that saves the instance or leaves the saved copy alone.
LEMMA RequestMaps ==
    ASSUME WorkflowInv, WorkflowInv', disk' \in {disk, inst'},
           \/ Rank[inst'.state] <= Rank[inst.state] + 1 /\ (prof'.reviewed => prof.reviewed)
           \/ inst.state \in ApprovalGates /\ Rank[inst'.state] = Rank[inst.state] + 1
    PROVE  P!Next
<1>1. {inst.state, inst'.state, disk.state} \subseteq Place
  BY DEF WorkflowInv, TypeOK, Instance
<1>2. prof.reviewed \in BOOLEAN /\ prof'.reviewed \in BOOLEAN
  BY DEF WorkflowInv, TypeOK, Profile
<1> QED
  BY <1>1, <1>2, StepMaps

\* Advancing the phase and sending a plan back to the architect.
LEMMA LandingsRanked ==
    ASSUME inst.state \in State, NEW m, RankedMove(m), NEW i \in Landings(inst.state, m)
    PROVE  /\ i \in Instance
           /\ Rank[i.state] <= Rank[inst.state] + 1
           /\ inst.state \in ApprovalGates /\ m.outcome = "success"
              /\ m.inst.state = To[inst.state]["success"] => i = m.inst
<1>1. m.inst \in Instance /\ {"planning", "completed", "design"} \subseteq Place
  BY SMT, TemplateAssumption DEF RankedMove, Place
<1>2. Rank[inst.state] \in Nat /\ Rank["planning"] <= Rank["completed"]
  BY <1>1, RankAssumption DEF Place
<1>3. CASE AdvancesPhase(inst.state, m)
  <2>1. Rank[m.inst.state] = Rank["completed"]
    <3>1. m.inst.state \in Place
      BY <1>1 DEF Instance
    <3>2. m.inst.state \in {"advance_phase", "completed"}
      BY <1>3 DEF AdvancesPhase
    <3> QED
      BY <3>1, <3>2, RankAssumption DEF Place
  <2>2. \/ i = [EnterState(m.inst, "planning") EXCEPT !.status = "running"]
        \/ i = [m.inst EXCEPT !.state = "completed", !.status = "completed"]
    BY <1>3 DEF Landings
  <2>3. i \in Instance /\ i.state \in {"planning", "completed"}
    BY <1>1, <2>2, ZenonT(40) DEF EnterState, Instance
  <2>4. ~(inst.state \in ApprovalGates /\ m.inst.state = To[inst.state]["success"])
    BY <1>3, RankAssumption DEF AdvancesPhase, ApprovalGates
  <2>5. Rank[i.state] <= Rank["completed"] /\ Rank[i.state] \in Nat /\ Rank["completed"] \in Nat
    BY <1>1, <2>3, RankAssumption
  <2> QED
    BY SMT, <1>2, <2>1, <2>3, <2>4, <2>5 DEF RankedMove
<1>4. CASE ~AdvancesPhase(inst.state, m)
  <2>1. \/ i = m.inst
        \/ inst.state = "plan_review" /\ i = EnterState(m.inst, "design")
    BY <1>4 DEF Landings
  <2>2. EnterState(m.inst, "design") \in Instance /\ EnterState(m.inst, "design").state = "design"
    BY <1>1 DEF EnterState, Instance
  <2>3. inst.state = "plan_review" =>
          Rank["design"] <= Rank[inst.state] + 1 /\ inst.state \notin ApprovalGates
    BY RankAssumption DEF ApprovalGates
  <2> QED
    BY <1>1, <2>1, <2>2, <2>3 DEF RankedMove
<1> QED
  BY <1>3, <1>4

\* Escalations lead back.
LEMMA AccountRanked ==
    ASSUME NEW s \in State, NEW m, NEW i \in Instance, NEW to \in {"test_plan_rework", "design"},
           Rank[i.state] <= Rank[s] + 1
    PROVE  /\ Rank[Account(s, m, i, to).state] <= Rank[s] + 1
           /\ m.outcome = "success" => Account(s, m, i, to).state = i.state
<1> DEFINE o == m.outcome
           rejected == s = "test_review" /\ i.state = "implementation" /\ IsFailureOutcome(o)
           unplanned == s = "test_plan" /\ i.state = "planning" /\ IsFailureOutcome(o)
           escalated == rejected /\ RetriesSpent(i.testReviewFailures + 1)
           replanned == unplanned /\ RetriesSpent(i.testPlanFailures + 1)
           routed == IF escalated THEN EnterState(i, to)
                     ELSE IF replanned THEN EnterState(i, "design") ELSE i
<1>1. Account(s, m, i, to).state \in {routed.state, i.state}
  <2>1. DOMAIN i = DOMAIN routed /\ "state" \in DOMAIN i
    BY DEF EnterState, Instance
  <2> HIDE DEF routed
  <2> QED
    BY <2>1 DEF Account, routed, Instance
<1>2. \A t : EnterState(i, t).state = t
  BY DEF EnterState, Instance
<1>3. s = "test_review" => Rank[to] <= Rank[s] + 1
  BY RankAssumption
<1>4. s = "test_plan" => Rank["design"] <= Rank[s] + 1
  BY RankAssumption
<1>5. o = "success" => routed = i
  BY DEF IsFailureOutcome
<1> QED
  BY <1>1, <1>2, <1>3, <1>4, <1>5

\* Every outcome of CompleteTask is a step of the pipeline.
LEMMA CompleteMaps ==
    ASSUME WorkflowInv, WorkflowInv', NEW o \in Outcome, Complete(o)
    PROVE  P!Next
<1>1. /\ Sound(inst) /\ TypeOK /\ inst \in Instance /\ inst.state \in Place
      /\ prof \in Profile /\ Rank[inst.state] \in Nat
  BY InvSound, RankAssumption DEF WorkflowInv, Sound, Instance
<1>2. ASSUME NEW a, NEW b, PersistLocked(inst', a, b)
      PROVE  disk' \in {disk, inst'}
  BY <1>2 DEF PersistLocked
<1>3. ASSUME Admitted(o), NEW m \in Moves(o)
      PROVE  /\ RankedMove(m) /\ SoundMove(m) /\ inst.state \in State
             /\ \A s : ProfileOnEntry(s, m).reviewed => m.prof.reviewed
  <2>1. RankedMove(m) /\ SoundMove(m) /\ inst.state \in State
    BY <1>1, <1>3, MovesRanked, MovesSound DEF Admitted
  <2>2. m.prof \in Profile
    BY <2>1 DEF SoundMove
  <2>3. /\ ~ClearTestPlanFlags(m.prof).reviewed
        /\ [m.prof EXCEPT !.frozen = FALSE].reviewed = m.prof.reviewed
    BY <2>2 DEF ClearTestPlanFlags, Profile
  <2> QED
    BY <2>1, <2>3 DEF ProfileOnEntry
<1>4. ASSUME NEW i \in Instance
      PROVE  EnterState(i, i.state).state = i.state
  BY DEF EnterState, Instance
<1>5. CASE CompleteTask(o)
  <2>1. PICK m \in Moves(o) :
          /\ prof' = ProfileOnEntry(inst.state, m)
          /\ \E i \in Landings(inst.state, m), to \in {"test_plan_rework", "design"} :
               inst' \in RecordReviewProgress(inst.state, m.outcome,
                                              Account(inst.state, m, i, to), prof')
    BY <1>5 DEF CompleteTask
  <2>2. PICK i \in Landings(inst.state, m), to \in {"test_plan_rework", "design"} :
          inst' \in RecordReviewProgress(inst.state, m.outcome,
                                         Account(inst.state, m, i, to), prof')
    BY <2>1
  <2>3. RankedMove(m) /\ SoundMove(m) /\ inst.state \in State
        /\ (prof'.reviewed => m.prof.reviewed)
    BY <1>3, <1>5, <2>1 DEF CompleteTask
  <2>4. Sound(i)
    BY <1>1, <2>3, LandingsSound
  <2>5. /\ i \in Instance /\ Rank[i.state] <= Rank[inst.state] + 1
        /\ inst.state \in ApprovalGates /\ m.outcome = "success"
           /\ m.inst.state = To[inst.state]["success"] => i = m.inst
    BY <2>3, LandingsRanked
  <2> DEFINE j == Account(inst.state, m, i, to)
  <2>6. /\ Rank[j.state] <= Rank[inst.state] + 1 /\ (m.outcome = "success" => j.state = i.state)
        /\ j \in Instance
    BY SMT, <1>1, <2>3, <2>4, <2>5, AccountRanked, AccountSound DEF Sound
  <2>7. inst'.state = j.state
    BY SMT, <2>2, <2>6, RecordState
  <2> HIDE DEF j
  <2>8. \/ prof'.reviewed => prof.reviewed
        \/ inst.state \in ApprovalGates /\ Rank[inst'.state] = Rank[inst.state] + 1
    BY SMT, <2>3, <2>5, <2>6, <2>7, RankAssumption DEF RankedMove
  <2>9. disk' \in {disk, inst'}
    BY <1>2, <1>5 DEF CompleteTask
  <2> QED
    BY <2>6, <2>7, <2>8, <2>9, RequestMaps
<1>6. CASE CompleteRedirected(o)
  <2> DEFINE i == Transition(inst, "architecture_failure")
  <2>1. i \in Instance /\ Rank[i.state] <= Rank[inst.state] + 1
    BY SMT, <1>1, TransitionState, EdgeRank
  <2>2. inst' = [[i EXCEPT !.overdue = FALSE] EXCEPT !.rework = inst.state]
    BY <1>6 DEF CompleteRedirected, Redirect
  <2> HIDE DEF i
  <2>3. inst'.state = i.state
    BY <2>1, <2>2 DEF Instance
  <2>4. disk' \in {disk, inst'} /\ prof' = prof
    BY <1>2, <1>6 DEF CompleteRedirected
  <2> QED
    BY <2>1, <2>3, <2>4, RequestMaps
<1>7. CASE CompleteAuto(o)
  <2>1. PICK m \in Moves(o) :
          LET i == Transition(m.inst, "success")
              j == IF i.state = "test_plan_review" THEN Transition(i, "success") ELSE i
          IN  MayAutoComplete(m) /\ inst' = EnterState(j, j.state) /\ prof' = m.prof
    BY <1>7 DEF CompleteAuto
  <2>2. m.inst.state = "test_plan" /\ m.prof.reviewed
    BY <2>1 DEF MayAutoComplete
  <2>3. inst.state = "plan_review" /\ prof.reviewed /\ m.inst \in Instance
        /\ m.prof \in Profile
    BY <1>3, <1>7, <2>2 DEF CompleteAuto, RankedMove, SoundMove
  <2> DEFINE i == Transition(m.inst, "success")
             j == IF i.state = "test_plan_review" THEN Transition(i, "success") ELSE i
             t == To["test_plan"]["success"]
             u == To["test_plan_review"]["success"]
  <2>4. "test_plan" \in ApprovalGates /\ t \in Place /\ NoState \notin Place
    BY TemplateAssumption, RankAssumption DEF ApprovalGates
  <2>5. Edge("test_plan", "success") = t
    BY <2>4, RankAssumption DEF Edge
  <2>6. i \in Instance /\ i.state = t
    BY <2>2, <2>3, <2>4, <2>5, TransitionState DEF ApprovalGates
  <2>7. ASSUME t # "test_plan_review"
        PROVE  Rank[inst'.state] = Rank["project_setup"]
    <3>1. Rank[t] = Rank["project_setup"]
      <4>1. t # "test_plan"
        BY <2>4, RankAssumption DEF ApprovalGates
      <4> QED
        BY <2>4, <2>7, <4>1, RankAssumption DEF ApprovalGates
    <3>2. inst'.state = t
      BY <1>4, <2>1, <2>6, <2>7
    <3> QED
      BY <3>1, <3>2
  <2>8. ASSUME t = "test_plan_review"
        PROVE  Rank[inst'.state] = Rank["project_setup"]
    <3>1. "test_plan_review" \in State
      BY <2>4, <2>8, TemplateAssumption DEF Place
    <3>2. "test_plan_review" \in ApprovalGates
      BY <3>1 DEF ApprovalGates
    <3>3. u \in Place /\ "success" \in DOMAIN To["test_plan_review"]
      BY <3>1, <3>2, TemplateAssumption, RankAssumption
    <3>4. Edge("test_plan_review", "success") = u
      BY <3>3 DEF Edge
    <3>5. j \in Instance /\ j.state = u
      BY <2>4, <2>6, <2>8, <3>1, <3>3, <3>4, TransitionState
    <3>6. u \notin {"test_plan", "test_plan_review"}
      <4>1. u # "test_plan"
        BY <3>1, <3>3, RankAssumption
      <4>2. Rank[u] = Rank["test_plan_review"] + 1 /\ Rank["test_plan_review"] \in Nat
        BY <3>1, <3>2, RankAssumption DEF Place
      <4> QED
        BY SMT, <4>1, <4>2
    <3>7. Rank[u] = Rank["project_setup"]
      BY <3>2, <3>6, RankAssumption DEF ApprovalGates
    <3>8. inst'.state = u
      BY <1>4, <2>1, <3>5
    <3> QED
      BY <3>7, <3>8
  <2>9. Rank[inst'.state] = Rank["project_setup"]
    BY <2>7, <2>8
  <2>10. disk' \in {disk, inst'}
    BY <1>2, <1>7 DEF CompleteAuto
  <2>11. prof.reviewed = TRUE /\ prof'.reviewed = TRUE
    <3>1. prof.reviewed \in BOOLEAN /\ m.prof.reviewed \in BOOLEAN
      BY <1>1, <2>3 DEF Profile
    <3>2. prof' = m.prof
      BY <2>1
    <3> QED
      BY <2>2, <2>3, <3>1, <3>2
  <2>12. P!JumpApproved
    BY <2>3, <2>9, <2>10, <2>11 DEF P!JumpApproved
  <2> QED
    BY <2>12 DEF P!Next
<1>8. CASE CompleteSkippingRework(o)
  <2>1. PICK m \in Moves(o) :
          LET i == Transition(m.inst, "failure") IN
          SkipsRework(inst.state, m) /\ inst' = EnterState(i, i.state) /\ prof' = m.prof
    BY <1>8 DEF CompleteSkippingRework
  <2>2. RankedMove(m) /\ inst.state \in State
    BY <1>3, <1>8 DEF CompleteSkippingRework
  <2>3. m.inst.state = "test_plan_rework" /\ Edge("test_plan_rework", "failure") # NoState
    BY <2>1 DEF SkipsRework
  <2> DEFINE i == Transition(m.inst, "failure")
  <2>4. i \in Instance /\ i.state = Edge("test_plan_rework", "failure")
    BY <2>2, <2>3, TransitionState, TemplateAssumption DEF RankedMove
  <2>5. Rank[Edge("test_plan_rework", "failure")] <= Rank["test_plan_rework"]
    BY <2>3, RankAssumption DEF Edge
  <2>6. inst'.state = i.state
    BY <1>4, <2>1, <2>4
  <2>7. Rank[inst'.state] <= Rank[inst.state] + 1
    <3>1. Rank["test_plan_rework"] \in Nat /\ Rank[i.state] \in Nat
      BY SMT, <2>4, TemplateAssumption, RankAssumption DEF Place, Instance
    <3> QED
      BY <1>1, <2>2, <2>3, <2>4, <2>5, <2>6, <3>1, SMTT(30) DEF RankedMove
  <2>8. prof'.reviewed => prof.reviewed
    BY <2>1, <2>2, <2>3, RankAssumption DEF RankedMove
  <2>9. disk' \in {disk, inst'}
    BY <1>2, <1>8 DEF CompleteSkippingRework
  <2> QED
    BY <2>7, <2>8, <2>9, RequestMaps
<1>9. CASE CompleteRefused(o)
  <2>1. PICK m \in Moves(o) : inst' = m.inst /\ prof' = ProfileOnEntry(inst.state, m)
    BY <1>9 DEF CompleteRefused
  <2>2. RankedMove(m) /\ (prof'.reviewed => m.prof.reviewed)
    BY <1>3, <1>9, <2>1 DEF CompleteRefused
  <2>3. disk' = disk
    BY <1>9 DEF CompleteRefused
  <2> QED
    BY SMT, <2>1, <2>2, <2>3, RequestMaps, RankAssumption DEF RankedMove
<1>10. CASE CompleteRolledBack(o)
  <2>1. PICK m \in Moves(o) :
          /\ AdvancesPhase(inst.state, m)
          /\ inst' = [EnterState(m.inst, inst.state) EXCEPT !.status = "running"]
          /\ prof' = m.prof
    BY <1>10 DEF CompleteRolledBack
  <2>2. RankedMove(m)
    BY <1>3, <1>10 DEF CompleteRolledBack
  <2>3. inst'.state = inst.state
    BY <2>1, <2>2 DEF RankedMove, EnterState, Instance
  <2>4. prof'.reviewed => prof.reviewed
    BY <2>1, <2>2, RankAssumption DEF RankedMove, AdvancesPhase, ApprovalGates
  <2>5. disk' = disk
    BY <1>10 DEF CompleteRolledBack
  <2> QED
    BY SMT, <1>1, <2>3, <2>4, <2>5, RequestMaps
<1>11. CASE CompleteEnded(o)
  <2>1. inst'.state = inst.state
    BY <1>1, <1>11 DEF CompleteEnded, Instance
  <2>2. inst.state \in {"completed", "failed"}
    BY <1>1, <1>11 DEF CompleteEnded, Place
  <2>3. prof' = prof \/ prof' = ClearTestPlanFlags(prof)
    BY <1>11, <2>2 DEF CompleteEnded, FlagsOnCompletion
  <2>4. prof'.reviewed => prof.reviewed
    BY <1>1, <2>3 DEF ClearTestPlanFlags, Profile
  <2>5. disk' \in {disk, inst'}
    BY <1>2, <1>11 DEF CompleteEnded
  <2> QED
    BY SMT, <1>1, <2>1, <2>4, <2>5, RequestMaps
<1> QED
  BY <1>5, <1>6, <1>7, <1>8, <1>9, <1>10, <1>11 DEF Complete

\* A new workflow is a new pipeline.
LEMMA PipelineInit == Init => P!Init
<1> SUFFICES ASSUME Init
             PROVE  P!Init
  OBVIOUS
<1>1. prof.reviewed \in BOOLEAN
  BY LimitAssumption DEF Init, Profile
<1> QED
  BY <1>1, RankAssumption DEF Init, P!Init

\* Every step of the workflow is a step of the pipeline or leaves it alone.
LEMMA PipelineStep ==
    WorkflowInv /\ WorkflowInv' /\ [Next]_vars =>
        [P!Next]_<<Rank[inst.state], Rank[disk.state], prof.reviewed>>
<1> SUFFICES ASSUME WorkflowInv, WorkflowInv', [Next]_vars
             PROVE  \/ P!Next
                    \/ UNCHANGED <<Rank[inst.state], Rank[disk.state], prof.reviewed>>
  OBVIOUS
<1>1. /\ inst \in Instance /\ disk \in Instance /\ prof \in Profile
      /\ Rank[inst.state] \in Nat /\ Rank[disk.state] \in Nat
  BY RankAssumption DEF WorkflowInv, TypeOK, Instance
<1>2. ASSUME NEW a, NEW b, PersistLocked(inst', a, b)
      PROVE  disk' \in {disk, inst'}
  BY <1>2 DEF PersistLocked
<1>3. ASSUME NEW o \in Outcome, Complete(o)
      PROVE  P!Next
  BY <1>3, CompleteMaps
<1>4. CASE PauseWorkflow \/ ResumeWorkflow
  <2>1. inst'.state = inst.state /\ disk' \in {disk, inst'} /\ prof' = prof
    BY <1>1, <1>2, <1>4 DEF PauseWorkflow, ResumeWorkflow, Instance
  <2> QED
    BY SMT, <1>1, <2>1, RequestMaps
<1>5. ASSUME NEW s \in Resettable, ResetWorkflow(s)
      PROVE  P!Next
  <2>1. inst'.state = s
    BY <1>1, <1>5 DEF ResetWorkflow, EnterState, Instance
  <2>2. prof' \in {prof, [prof EXCEPT !.reviewed = FALSE]}
    BY <1>5 DEF ResetWorkflow
  <2>3. prof'.reviewed => prof.reviewed
    BY <1>1, <2>2 DEF Profile
  <2>4. Rank[s] <= Rank[inst.state] + 1
    <3>1. Rank[s] <= 1 /\ Rank[s] \in Nat
      BY TemplateAssumption, RankAssumption DEF Place
    <3> QED
      BY SMT, <1>1, <3>1
  <2>5. disk' \in {disk, inst'}
    BY <1>2, <1>5 DEF ResetWorkflow
  <2> QED
    BY <2>1, <2>3, <2>4, <2>5, RequestMaps
<1>6. CASE ApplyStateTimeout
  <2> DEFINE i == Transition(inst, "timeout")
  <2>1. i \in Instance /\ Rank[i.state] <= Rank[inst.state] + 1
    BY SMT, <1>1, TransitionState, EdgeRank
  <2>2. inst' = [i EXCEPT !.overdue = FALSE, !.rework = inst.state]
    BY <1>6 DEF ApplyStateTimeout
  <2> HIDE DEF i
  <2>3. inst'.state = i.state
    BY <2>1, <2>2 DEF Instance
  <2>4. disk' \in {disk, inst'} /\ prof' = prof
    BY <1>2, <1>6 DEF ApplyStateTimeout
  <2> QED
    BY <2>1, <2>3, <2>4, RequestMaps
<1>7. CASE StateExpires
  <2>1. inst'.state = inst.state /\ disk'.state = disk.state /\ prof' = prof
    BY <1>1, <1>7 DEF StateExpires, Instance
  <2> QED
    BY <2>1
<1>8. CASE Restart
  <2>1. inst' = disk /\ disk' = disk /\ prof' = prof
    BY <1>8 DEF Restart
  <2>2. P!Recover
    BY <2>1 DEF P!Recover
  <2> QED
    BY <2>2 DEF P!Next
<1>9. CASE FetchTask \/ TimeoutFails \/ FetchReturns \/ UNCHANGED vars
  BY <1>9 DEF FetchTask, TimeoutFails, FetchReturns, vars
<1> QED
  BY <1>3, <1>4, <1>5, <1>6, <1>7, <1>8, <1>9 DEF Next

\* For every template that is a pipeline: whatever CompleteTask, FetchTask, the
\* operator's pauses and resets, failing writes and crashes do, the workflow
\* passes its gates one at a time, and jumps over test_plan only while
\* test_plan_reviewed is set.
THEOREM WorkflowImplementsPipeline == Spec => GatesInOrder
<1>1. Init => P!Init
  BY PipelineInit
<1>2. WorkflowInv /\ WorkflowInv' /\ [Next]_vars =>
        [P!Next]_<<Rank[inst.state], Rank[disk.state], prof.reviewed>>
  BY PipelineStep
<1> QED
  BY <1>1, <1>2, WorkflowInvariant, PTL DEF Spec, GatesInOrder, P!Spec
=============================================================================
