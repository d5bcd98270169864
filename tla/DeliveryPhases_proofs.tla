------------------------ MODULE DeliveryPhases_proofs ------------------------
(***************************************************************************)
(* Phased delivery, for any number of phases and any files at the start:   *)
(* no phase is skipped, and a completed workflow has delivered.            *)
(***************************************************************************)
EXTENDS DeliveryPhases, WellFoundedInduction, TLAPS

\* Zenon is the prover of every leaf that names no other.
USE Zenon

\* The earliest phase of a set is in the set, and none of it is earlier.
LEMMA EarliestIsLeast ==
  ASSUME NEW S, S \subseteq Phases, S # {}
  PROVE  Earliest(S) \in S /\ \A q \in S : Earliest(S) <= q
<1>1. S \subseteq Nat
  BY SMT, PhaseAssumption DEF Phases
<1> DEFINE R == OpToRel(<, Nat)
<1>2. IsWellFoundedOn(R, Nat)
  BY NatLessThanWellFounded
<1>a. \A y, x \in Nat : y < x => <<y, x>> \in R
  BY DEF OpToRel
<1> HIDE DEF R
<1>3. PICK x \in S : \A y \in S : ~(<<y, x>> \in R)
  BY <1>1, <1>2, WFMin
<1>4. \A y \in S : ~(y < x)
  BY <1>1, <1>3, <1>a
<1>5. \A y \in S : x <= y
  BY SMT, <1>1, <1>4
<1> QED
  BY <1>5 DEF Earliest

-----------------------------------------------------------------------------
\* Every phase before p, from the first one of the workflow, was completed.
Covered(p) == \A q \in first..(p - 1) : q \in done \cup dropped

\* Wherever the active phase may be set to is covered: where it is, the phase
\* to return to, and, since a repair goes back to one, the completed phases.
Reached ==
    /\ Covered(active)
    /\ rewound # 0 => Covered(rewound)
    /\ \A d \in done \cup dropped : Covered(d)

\* What is known of the request all_passed while it is handled.
Checked ==
    /\ asked # 0 => /\ stage \in {"qa_review", "completed"}
                    /\ \A p \in 1..asked : file[p] = "good" \/ p \in lost
    /\ step # "idle" => asked # 0 /\ stage = "qa_review"
    /\ step = "marked" /\ ~stray => asked \in done
    /\ stage = "completed" /\ ~stray => asked = N

\* A phase is chosen only if there is one.
LEMMA EarliestOf ==
  ASSUME NEW S, S \subseteq Phases, S # {}
  PROVE  Earliest(S) \in Phases /\ Earliest(S) \in S /\ \A q \in S : Earliest(S) <= q
BY EarliestIsLeast

\* A workflow starts in a phase of the project.
LEMMA FirstPhase ==
  ASSUME NEW f
  PROVE  ResolveActivePhaseFromDisk(f) \in Phases
<1>1. {p \in Phases : f[p] = "missing"} \subseteq Phases
  OBVIOUS
<1> QED
  BY SMT, <1>1, EarliestIsLeast, PhaseAssumption DEF ResolveActivePhaseFromDisk, Phases

LEMMA InitInv == Init => TypeOK /\ Reached /\ Checked
<1> SUFFICES ASSUME Init PROVE TypeOK /\ Reached /\ Checked
  OBVIOUS
<1>1. active \in Phases
  BY FirstPhase DEF Init
<1>a. file \in [Phases -> FileStates]
  BY PhaseAssumption DEF Init
<1>b. stray \in BOOLEAN
  BY Zenon DEF Init
<1>c. /\ rewound = 0 /\ done = {} /\ stage = "planning" /\ step = "idle" /\ asked = 0
      /\ first = active /\ dropped = {} /\ lost = {}
  BY DEF Init
<1>2. TypeOK
  BY SMT, <1>1, <1>a, <1>b, <1>c, PhaseAssumption DEF TypeOK, Stages
<1>3. Reached
  BY SMT, <1>1, PhaseAssumption DEF Init, Reached, Covered, Phases
<1>4. Checked
  BY DEF Init, Checked
<1> QED
  BY <1>2, <1>3, <1>4
-----------------------------------------------------------------------------
\* The phases a rewind goes to.
LEMMA RewindTargets ==
  ASSUME TypeOK
  PROVE  /\ FinalPhaseRewind => \E p \in Phases : p <= active /\ TryRewind(p)
         /\ QARewind => \E p \in Phases : p <= active /\ TryRewind(p)
         /\ \A p \in Phases : ImplementationRewind(p) => p <= active /\ TryRewind(p)
<1>1. Broken \subseteq Phases /\ QAScope \cap Broken \subseteq Phases /\ CompletedProblems \subseteq Phases
  BY DEF Broken, QAScope, CompletedProblems
<1>2. ASSUME FinalPhaseRewind PROVE \E p \in Phases : p <= active /\ TryRewind(p)
  <2>1. Earliest(Broken) \in Phases
    BY <1>1, <1>2, EarliestOf DEF FinalPhaseRewind
  <2> QED
    BY SMT, <1>2, <2>1, PhaseAssumption DEF FinalPhaseRewind, Phases
<1>3. ASSUME QARewind PROVE \E p \in Phases : p <= active /\ TryRewind(p)
  <2>1. Earliest(QAScope \cap Broken) \in QAScope
    BY <1>1, <1>3, EarliestOf DEF QARewind
  <2> QED
    BY SMT, <1>3, <2>1, PhaseAssumption DEF QARewind, QAScope, Phases, TypeOK
<1>4. ASSUME NEW p \in Phases, ImplementationRewind(p) PROVE p <= active /\ TryRewind(p)
  <2>1. p < active
    <3>1. CASE CompletedProblems # {}
      <4>1. p \in CompletedProblems
        BY <1>1, <1>4, <3>1, EarliestOf DEF ImplementationRewind, Blamed
      <4> QED
        BY <4>1 DEF CompletedProblems
    <3>2. CASE CompletedProblems = {}
      BY <1>4, <3>2 DEF ImplementationRewind, Blamed
    <3> QED
      BY <3>1, <3>2
  <2> QED
    BY SMT, <1>4, <2>1, PhaseAssumption DEF ImplementationRewind, TryRewind, Phases, TypeOK
<1> QED
  BY <1>2, <1>3, <1>4

\* A rewind to the active phase or an earlier one stays within what is covered.
LEMMA RewindKeeps ==
  ASSUME TypeOK, Reached, NEW p \in Phases, p <= active, TryRewind(p), UNCHANGED <<first, dropped>>
  PROVE  active' \in Phases /\ rewound' \in 0..N /\ done' = done /\ Reached'
<1>1. active' \in Phases /\ rewound' \in 0..N /\ done' = done
  BY SMT, PhaseAssumption DEF TryRewind, Rewind, RewindForgets, RewindFails, TypeOK, Phases
<1>2. Covered(p)
  BY SMT, PhaseAssumption DEF Reached, Covered, TypeOK, Phases
<1>3. active' \in {p, active} /\ rewound' \in {rewound, active}
  BY DEF TryRewind, Rewind, RewindForgets, RewindFails
<1> QED
  BY <1>1, <1>2, <1>3 DEF Reached, Covered

-----------------------------------------------------------------------------
Inv == TypeOK /\ Reached /\ Checked

\* Steps of the agents that leave profile and request alone.
LEMMA WorkKeeps ==
  ASSUME Inv,
         \/ Plan \/ ImplementationSucceeds \/ ImplementationFails
         \/ TestReviewPasses \/ QAFails
         \/ \E s \in FileStates : Write(s)
  PROVE  Inv'
<1>1. UNCHANGED <<active, rewound, done, step, asked, first, dropped, lost, stray>>
  BY DEF Plan, ImplementationSucceeds, ImplementationFails, TestReviewPasses, QAFails, Write,
         Elsewhere, profile, history
<1>2. /\ file' \in [Phases -> FileStates] /\ stage' \in Stages
      /\ stage \in {"planning", "implementation", "test_review"} \/ asked = 0
      /\ stage' # "completed"
  BY DEF Plan, ImplementationSucceeds, ImplementationFails, TestReviewPasses, QAFails, Write,
         Inv, TypeOK, Stages, FileStates
<1>3. asked = 0 /\ step = "idle"
  BY <1>2 DEF Inv, Checked
<1>4. TypeOK'
  BY <1>1, <1>2 DEF Inv, TypeOK
<1>5. Reached'
  BY <1>1 DEF Inv, Reached, Covered
<1>6. Checked'
  BY <1>1, <1>2, <1>3 DEF Checked
<1> QED
  BY <1>4, <1>5, <1>6 DEF Inv

\* Rewinds of the polecat, of a failed implementation and of QA.
LEMMA RewindsKeep ==
  ASSUME Inv,
         \/ FinalPhaseRewind \/ QARewind
         \/ \E p \in Phases : WriteClosedFile(p) \/ ImplementationRewind(p)
  PROVE  Inv'
<1>1. PICK p \in Phases : p <= active /\ TryRewind(p)
  <2>1. ASSUME NEW p \in Phases, WriteClosedFile(p) PROVE p <= active /\ TryRewind(p)
    BY SMT, <2>1, PhaseAssumption DEF WriteClosedFile, Inv, TypeOK, Phases
  <2> QED
    BY <2>1, RewindTargets DEF Inv
<1>2. UNCHANGED <<file, step, asked, first, dropped, lost, stray>>
  BY DEF FinalPhaseRewind, QARewind, WriteClosedFile, ImplementationRewind, Elsewhere, history
<1>3. stage' \in Stages /\ stage' # "completed" /\ (stage = "implementation" \/ asked = 0)
  BY DEF FinalPhaseRewind, QARewind, WriteClosedFile, ImplementationRewind, Stages
<1>4. asked = 0 /\ step = "idle"
  BY <1>3 DEF Inv, Checked
<1>5. active' \in Phases /\ rewound' \in 0..N /\ done' = done /\ Reached'
  BY <1>1, <1>2, RewindKeeps DEF Inv
<1>6. TypeOK'
  BY <1>2, <1>3, <1>5 DEF Inv, TypeOK
<1>7. Checked'
  BY <1>2, <1>3, <1>4 DEF Checked
<1> QED
  BY <1>5, <1>6, <1>7 DEF Inv

\* A test review that asks for repairs.
LEMMA RepairKeeps ==
  ASSUME Inv, TestReviewFails
  PROVE  Inv'
<1>1. UNCHANGED <<file, step, asked, first, dropped, lost, stray, done>>
  BY DEF TestReviewFails, RepairRewind, Elsewhere, history, profile
<1>2. stage' \in Stages /\ stage' # "completed" /\ stage = "test_review"
  BY DEF TestReviewFails, Stages
<1>3. asked = 0 /\ step = "idle"
  BY <1>2 DEF Inv, Checked
<1>4. active' \in done \cup {active} /\ rewound' \in {rewound, active}
  BY DEF TestReviewFails, RepairRewind, profile
<1>5. active' \in Phases /\ rewound' \in 0..N
  BY SMT, <1>4, PhaseAssumption DEF Inv, TypeOK, Phases
<1>6. Reached'
  BY <1>1, <1>4 DEF Inv, Reached, Covered
<1>7. TypeOK'
  BY <1>1, <1>2, <1>5 DEF Inv, TypeOK
<1>8. Checked'
  BY <1>1, <1>2, <1>3 DEF Checked
<1> QED
  BY <1>6, <1>7, <1>8 DEF Inv

\* The request is sent, or given up.
LEMMA RequestKeeps ==
  ASSUME Inv, QAPasses \/ GiveUp
  PROVE  Inv'
<1>1. UNCHANGED <<active, rewound, done, file, stage, step, first, dropped>>
  BY DEF QAPasses, GiveUp, Answered, profile, history
<1>2. Reached'
  BY <1>1 DEF Inv, Reached, Covered
<1>3. CASE QAPasses
  <2>1. asked' = active /\ UNCHANGED <<lost, stray>> /\ asked = 0 /\ stage = "qa_review"
    BY <1>3 DEF QAPasses, history
  <2>2. step = "idle"
    BY <2>1 DEF Inv, Checked
  <2>3. \A p \in 1..active : file[p] = "good"
    BY SMT, <1>3, PhaseAssumption DEF QAPasses, QAScope, Broken, Inv, TypeOK, Phases
  <2>4. TypeOK'
    BY SMT, <1>1, <2>1, PhaseAssumption DEF Inv, TypeOK, Phases
  <2>5. Checked'
    BY <1>1, <2>1, <2>2, <2>3 DEF Checked
  <2> QED
    BY <1>2, <2>4, <2>5 DEF Inv
<1>4. CASE GiveUp
  <2>1. asked' = 0 /\ lost' = {} /\ step = "idle" /\ stage = "qa_review"
    BY <1>4 DEF GiveUp, Answered
  <2>a. stray' \in BOOLEAN
    BY <1>4, Zenon DEF GiveUp, Answered
  <2>2. TypeOK'
    BY SMT, <1>1, <2>1, <2>a, PhaseAssumption DEF Inv, TypeOK
  <2>3. Checked'
    BY <1>1, <2>1 DEF Checked
  <2> QED
    BY <1>2, <2>2, <2>3 DEF Inv
<1> QED
  BY <1>3, <1>4

-----------------------------------------------------------------------------
\* The phase that was active is completed.
LEMMA MarkKeeps ==
  ASSUME Inv, MarkCompleted
  PROVE  Inv'
<1>1. /\ done' = done \cup {active} /\ dropped' = dropped \ {active} /\ step' = "marked"
      /\ UNCHANGED <<active, rewound, file, stage, asked, first, lost>>
      /\ asked # 0 /\ stage = "qa_review"
  BY DEF MarkCompleted, Handling
<1>2. stray' \in BOOLEAN
  BY Zenon DEF MarkCompleted
<1>3. ~stray' => active = asked
  BY DEF MarkCompleted
<1>4. TypeOK'
  BY <1>1, <1>2 DEF Inv, TypeOK
<1>5. Reached'
  BY <1>1 DEF Inv, Reached, Covered
<1>6. Checked'
  BY <1>1, <1>3 DEF Inv, Checked
<1> QED
  BY <1>4, <1>5, <1>6 DEF Inv

\* The phase to go to is covered.
LEMMA NextPhaseIsCovered ==
  ASSUME Inv, NextPhase # 0
  PROVE  NextPhase \in Phases /\ Covered(NextPhase)
<1>1. active \in done
  BY DEF NextPhase
<1>2. CASE rewound # 0
  BY SMT, <1>1, <1>2, PhaseAssumption DEF NextPhase, Inv, TypeOK, Reached, Phases
<1>3. CASE rewound = 0
  <2>1. active < N /\ NextPhase = active + 1
    BY <1>1, <1>3 DEF NextPhase
  <2>2. \A q \in first..active : q \in done \cup dropped
    BY SMT, <1>1, PhaseAssumption DEF Inv, TypeOK, Reached, Covered, Phases
  <2>3. (active + 1) - 1 = active /\ active + 1 \in Phases
    BY SMT, <2>1, PhaseAssumption DEF Inv, TypeOK, Phases
  <2> QED
    BY <2>1, <2>2, <2>3 DEF Covered
<1> QED
  BY <1>2, <1>3

\* The next phase becomes active, or the write fails and the request with it.
LEMMA AdvanceKeeps ==
  ASSUME Inv, Advance
  PROVE  Inv'
<1>1. /\ UNCHANGED <<rewound, done, file, stage, first, dropped>>
      /\ asked # 0 /\ stage = "qa_review" /\ NextPhase # 0
      /\ step' \in {"moved", "idle"}
  BY DEF Advance, Handling, Answered, history
<1>2. active' \in {active, NextPhase}
  BY DEF Advance
<1>3. active' \in Phases /\ Reached'
  BY <1>1, <1>2, NextPhaseIsCovered DEF Inv, TypeOK, Reached, Covered
<1>4. stray' \in BOOLEAN
  <2>1. stray' = stray \/ stray' = FALSE
    BY DEF Advance, Answered, history
  <2> QED
    BY <2>1, Zenon DEF Inv, TypeOK
<1>5. \/ UNCHANGED <<asked, lost>> /\ step' = "moved"
      \/ asked' = 0 /\ lost' = {} /\ step' = "idle"
  BY DEF Advance, Answered, history
<1>6. TypeOK'
  BY SMT, <1>1, <1>3, <1>4, <1>5, PhaseAssumption DEF Inv, TypeOK
<1>7. Checked'
  BY <1>1, <1>5 DEF Inv, Checked
<1> QED
  BY <1>3, <1>6, <1>7 DEF Inv

\* The workflow is completed: with the last phase, unless it strayed.
LEMMA CompleteKeeps ==
  ASSUME Inv, Complete
  PROVE  Inv'
<1>1. /\ UNCHANGED <<active, rewound, done, file, asked, first, dropped, lost>>
      /\ asked # 0 /\ stage = "qa_review" /\ step = "marked" /\ NextPhase = 0
      /\ stage' = "completed" /\ step' = "idle"
  BY DEF Complete, Handling, profile
<1>2. stray' \in BOOLEAN
  BY Zenon DEF Complete
<1>3. ~stray' => ~stray /\ active = asked
  BY DEF Complete
<1>4. ASSUME ~stray' PROVE asked = N
  <2>1. active \in done /\ active = asked
    BY <1>1, <1>3, <1>4 DEF Inv, Checked
  <2>2. rewound = 0 /\ ~(active < N)
    BY SMT, <1>1, <2>1, PhaseAssumption DEF NextPhase, Inv, TypeOK, Phases
  <2> QED
    BY SMT, <2>1, <2>2, PhaseAssumption DEF Inv, TypeOK, Phases
<1>5. TypeOK'
  BY <1>1, <1>2 DEF Inv, TypeOK, Stages
<1>6. Reached'
  BY <1>1 DEF Inv, Reached, Covered
<1>7. Checked'
  BY <1>1, <1>4 DEF Inv, Checked
<1> QED
  BY <1>5, <1>6, <1>7 DEF Inv

\* The marker is cleared, completed phases are passed over, all is saved; or
\* the orchestrator crashes on the way.
LEMMA FinishKeeps ==
  ASSUME Inv, ClearMarker \/ FastForward \/ Persist \/ Crash
  PROVE  Inv'
<1>1. /\ UNCHANGED <<done, file, first, dropped>> /\ asked # 0 /\ stage = "qa_review"
      /\ step' \in {"cleared", "forwarded", "idle"} /\ rewound' \in {0, rewound}
  BY DEF ClearMarker, FastForward, Persist, Crash, Handling, Answered, profile, history, Inv, Checked
<1>2. active' \in Phases /\ Reached'
  <2>1. CASE FastForward
    <3>1. PICK p \in active..N : (\A q \in active..(p - 1) : q \in done) /\ active' = p
      BY <2>1 DEF FastForward, Skippable
    <3>2. p \in Phases
      BY SMT, <3>1, PhaseAssumption DEF Inv, TypeOK, Phases
    <3>3. Covered(p)
      BY SMT, <3>1, PhaseAssumption DEF Inv, TypeOK, Reached, Covered, Phases
    <3> QED
      BY <1>1, <3>1, <3>2, <3>3 DEF Inv, Reached, Covered
  <2>2. CASE ClearMarker \/ Persist \/ Crash
    <3>1. active' = active
      BY <2>2 DEF ClearMarker, Persist, Crash, profile
    <3> QED
      BY <1>1, <3>1 DEF Inv, TypeOK, Reached, Covered
  <2> QED
    BY <2>1, <2>2
<1>3. stray' \in BOOLEAN
  <2>1. stray' = stray \/ stray' = FALSE
    BY DEF ClearMarker, FastForward, Persist, Crash, Answered, history
  <2> QED
    BY <2>1, Zenon DEF Inv, TypeOK
<1>4. \/ UNCHANGED <<asked, lost, stage>>
      \/ asked' = 0 /\ lost' = {} /\ stage' = "planning" /\ step' = "idle"
  BY DEF ClearMarker, FastForward, Persist, Crash, Answered, history
<1>5. TypeOK'
  BY SMT, <1>1, <1>2, <1>3, <1>4, PhaseAssumption DEF Inv, TypeOK, Stages
<1>6. Checked'
  BY <1>1, <1>4 DEF Inv, Checked
<1> QED
  BY <1>2, <1>5, <1>6 DEF Inv

-----------------------------------------------------------------------------
\* Everything before the earliest phase outside S is in S.
LEMMA EarliestOutside ==
  ASSUME TypeOK, NEW S, Phases \ S # {}, NEW q \in first..(Earliest(Phases \ S) - 1)
  PROVE  q \in S
<1>1. Earliest(Phases \ S) \in Phases /\ \A r \in Phases \ S : Earliest(Phases \ S) <= r
  BY EarliestOf
<1>2. q \in Phases /\ ~(Earliest(Phases \ S) <= q)
  BY SMT, <1>1, PhaseAssumption DEF TypeOK, Phases
<1> QED
  BY <1>1, <1>2

\* The profile is generated again: the first phase not completed.
LEMMA SpecIndexKeeps ==
  ASSUME Inv, SpecIndex
  PROVE  Inv'
<1>1. /\ rewound' = 0
      /\ UNCHANGED <<done, file, stage, step, asked, first, dropped, lost, stray>>
  BY DEF SpecIndex, history
<1>2. active' \in Phases /\ \A q \in first..(active' - 1) : q \in done \cup dropped
  <2>1. CASE active \in done /\ Phases \ done # {}
    BY <2>1, EarliestOf, EarliestOutside DEF SpecIndex, Inv
  <2>2. CASE ~(active \in done /\ Phases \ done # {})
    BY <2>2 DEF SpecIndex, Inv, TypeOK, Reached, Covered
  <2> QED
    BY <2>1, <2>2
<1>3. Reached'
  BY <1>1, <1>2 DEF Inv, Reached, Covered
<1>4. TypeOK'
  BY SMT, <1>1, <1>2, PhaseAssumption DEF Inv, TypeOK
<1>5. Checked'
  BY <1>1 DEF Inv, Checked
<1> QED
  BY <1>3, <1>4, <1>5 DEF Inv

\* The architect changes phases: completions are withdrawn.
LEMMA ContractKeeps ==
  ASSUME Inv, NEW C \in SUBSET Phases, ContractSync(C)
  PROVE  Inv'
<1>1. /\ done' = done \ C /\ dropped' = dropped \cup (done \cap C)
      /\ UNCHANGED <<rewound, stage, step, asked, first>> /\ stage # "completed"
      /\ lost' = IF asked = 0 THEN lost ELSE lost \cup C
      /\ file' \in [Phases -> FileStates] /\ \A p \in Phases \ C : file'[p] = file[p]
  BY DEF ContractSync
<1>s. /\ stray' \in BOOLEAN
      /\ ~stray' => ~stray /\ ~(step = "marked" /\ asked \in C)
  BY DEF ContractSync
<1>2. done' \cup dropped' = done \cup dropped
  BY <1>1
<1>3. active' \in Phases /\ \A q \in first..(active' - 1) : q \in done \cup dropped
  <2>1. CASE done \cap C # {}
    <3>1. Phases \ (done \ C) # {} /\ active' = Earliest(Phases \ (done \ C))
      BY <1>1, <2>1 DEF ContractSync
    <3>2. active' \in Phases
      BY <3>1, EarliestOf
    <3>3. \A q \in first..(active' - 1) : q \in done \ C
      BY <3>1, EarliestOutside DEF Inv
    <3> QED
      BY <3>2, <3>3
  <2>2. CASE done \cap C = {}
    BY <2>2 DEF ContractSync, Inv, TypeOK, Reached, Covered
  <2> QED
    BY <2>1, <2>2
<1>4. Reached'
  BY <1>1, <1>2, <1>3 DEF Inv, Reached, Covered
<1>5. TypeOK'
  BY <1>1, <1>3, <1>s DEF Inv, TypeOK
<1>6. ASSUME asked # 0, NEW q \in 1..asked PROVE file'[q] = "good" \/ q \in lost'
  <2>1. q \in Phases
    BY SMT, PhaseAssumption DEF Inv, TypeOK, Phases
  <2>2. file[q] = "good" \/ q \in lost
    BY <1>6 DEF Inv, Checked
  <2> QED
    BY <1>1, <1>6, <2>1, <2>2
<1>7. Checked'
  BY <1>1, <1>s, <1>6 DEF Inv, Checked
<1> QED
  BY <1>4, <1>5, <1>7 DEF Inv

\* A lost file is recorded while a request is under way.
LEMMA LoseFileKeeps ==
  ASSUME Inv, NEW p \in Phases, NEW s \in FileStates, LoseFile(p, s)
  PROVE  Inv'
<1>1. /\ UNCHANGED <<active, rewound, done, stage, step, asked, first, dropped, stray>>
      /\ file' = [file EXCEPT ![p] = s] /\ stage # "completed"
      /\ lost' = IF asked = 0 THEN lost ELSE lost \cup {p}
  BY DEF LoseFile, profile
<1>2. Reached'
  BY <1>1 DEF Inv, Reached, Covered
<1>3. TypeOK'
  BY <1>1 DEF Inv, TypeOK
<1>4. \A q \in Phases : file'[q] = file[q] \/ q = p
  BY <1>1 DEF Inv, TypeOK
<1>5. ASSUME asked # 0, NEW q \in 1..asked PROVE file'[q] = "good" \/ q \in lost'
  BY SMT, <1>1, <1>4, <1>5, PhaseAssumption DEF Inv, TypeOK, Checked, Phases
<1>6. Checked'
  BY <1>1, <1>5 DEF Inv, Checked
<1> QED
  BY <1>2, <1>3, <1>6 DEF Inv

-----------------------------------------------------------------------------
\* The invariant of phased delivery: the active phase, the one to return to
\* after a rewind and every phase completed before are reached without leaving
\* one out, and an all_passed under way stands for files that QA has found.
THEOREM DeliveryInvariant == Spec => []Inv
<1>1. Init => Inv
  BY InitInv DEF Inv
<1>2. Inv /\ [Next]_vars => Inv'
  <2> SUFFICES ASSUME Inv, [Next]_vars PROVE Inv'
    OBVIOUS
  <2>1. CASE Agents
    BY <2>1, WorkKeeps, RewindsKeep, RepairKeeps, RequestKeeps DEF Agents
  <2>2. CASE Orchestrator
    BY <2>2, MarkKeeps, AdvanceKeeps, CompleteKeeps, FinishKeeps DEF Orchestrator
  <2>3. CASE SpecIndex
    BY <2>3, SpecIndexKeeps
  <2>4. CASE \E C \in Changes : ContractSync(C)
    BY <2>4, ContractKeeps, PhaseAssumption DEF Phases
  <2>5. CASE \E p \in Phases, s \in FileStates : LoseFile(p, s)
    BY <2>5, LoseFileKeeps
  <2>6. CASE UNCHANGED vars
    BY <2>6 DEF vars, profile, history, Inv, TypeOK, Reached, Covered, Checked
  <2> QED
    BY <2>1, <2>2, <2>3, <2>4, <2>5, <2>6 DEF Next
<1> QED
  BY <1>1, <1>2, PTL DEF Spec

\* The profile always names phases of the project: every advance, return,
\* fast-forward, re-index and contract change sets active_phase_id and
\* rewound_from_phase_id to a phase there is.
THEOREM DeliveryTypeOK == Spec => []TypeOK
<1>1. Inv => TypeOK
  BY DEF Inv
<1> QED
  BY <1>1, DeliveryInvariant, PTL

\* No phase is left out on the way from the first to the active one, whatever
\* is rewound, repeated, lost or generated again
\* (TryAdvanceDeliveryPhaseAfterQA, TryFastForwardDeliveryPhase,
\* performRewindToPhase).
THEOREM DeliverySkipsNothing == Spec => []NoPhaseSkipped
<1>1. Inv => NoPhaseSkipped
  BY DEF Inv, Reached, Covered, NoPhaseSkipped
<1> QED
  BY <1>1, DeliveryInvariant, PTL

\* A workflow that completes on the phase QA checked has all files of all
\* phases, but for those lost, or changed by a new contract, since that check
\* (validateQAArtifacts), for every set of contract changes.
THEOREM DeliveryIsBuilt == Spec => []CompletedIsBuilt
<1>1. Inv => CompletedIsBuilt
  BY PhaseAssumption DEF Inv, Checked, CompletedIsBuilt, Phases
<1> QED
  BY <1>1, DeliveryInvariant, PTL
=============================================================================
