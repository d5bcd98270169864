---------------------- MODULE SchedulerCapacity_proofs ----------------------
(***************************************************************************)
(* The scheduler's types and its capacity, for any number of beads,        *)
(* contexts, clients, dispatch cycles, direct slings, polecats and faults, *)
(* and for any scheduler.max_polecats and batch_size.                      *)
(*                                                                         *)
(* CapacityHeld is not inductive.  What makes it so is Room: the polecats  *)
(* that dispatch cycles have running, those a cycle did not see left       *)
(* aside, together with what the plan of a cycle still holds, fit          *)
(* scheduler.max_polecats; and OneCycle: the dispatch lock leaves no       *)
(* second plan that could be counted on top.                               *)
(***************************************************************************)
EXTENDS Scheduler_proofs

\* Zenon is the prover of every leaf that names no other.
USE Zenon

Entries == [ctx : Contexts \cup {0}, bead : Beads, fails : 0..(maxDispatchFailures - 1)]
JobStates == {"idle", "run", "hook", "start", "close", "save", "done"}
Jobs == [pc : JobStates, plan : Seq(Entries), pole : Polecats \cup {0},
         did : BOOLEAN, seen : BOOLEAN]

CtxRec == {r \in [bead : Beads \cup {None}, st : {"none", "open", "closed"},
                   fails : 0..maxDispatchFailures] : r.st = "open" => r.bead \in Beads}
BeadRec == [st : {"open", "hooked", "in_progress", "closed"}, who : Polecats \cup {None}]
PoleRec == [st : {"none", "spawned", "live"}, hook : Beads \cup {None}, by : Slings \cup {None}]
ClientRec == {r \in [pc : {"idle", "create", "convoy"}, bead : Beads \cup {None},
                      ctx : Contexts \cup {0}] : r.pc = "create" => r.bead \in Beads}

\* Every variable but job and spent has its type, and what is at work on a bead names it.
Data ==
    /\ ctx \in [Contexts -> CtxRec]
    /\ bead \in [Beads -> BeadRec]
    /\ pole \in [Polecats -> PoleRec]
    /\ paused \in BOOLEAN
    /\ client \in [Clients -> ClientRec]
    /\ witness \in {Watching} \cup [bead : Beads, who : Polecats]
    /\ faults \in 0..MaxFaults
    /\ misled \subseteq Beads

\* A process that slings is at an entry of its plan.
Ready(j) == j \in Jobs /\ (j.pc \in {"hook", "start", "close"} => j.plan # <<>>)
Planned == job \in [Slings -> Jobs] /\ \A q \in Slings : Ready(job[q])

Running == {p \in Live : pole[p].by \in Dispatchers}

\* The polecats that a dispatch cycle may still start.
Due(j) == IF j.pc \in {"run", "hook", "start"} THEN Len(j.plan)
          ELSE IF j.pc = "close" THEN Len(j.plan) - 1 ELSE 0

OneCycle == \A d, e \in Dispatchers : job[d].pc # "idle" /\ job[e].pc # "idle" => d = e

Room == /\ Cardinality(Running) <= MaxPolecats
        /\ \A d \in Dispatchers : Cardinality(Running) + Due(job[d]) <= MaxPolecats

CapInv == Data /\ Planned /\ OneCycle /\ Room

-----------------------------------------------------------------------------
(* Plans.                                                                  *)

\* The failure limit counts.
LEMMA LimitType == maxDispatchFailures \in Nat \ {0}
  BY SchedulerAssumption

\* The first entry of a plan and the rest of it.
LEMMA HeadAndTail ==
    ASSUME NEW S, NEW s \in Seq(S), s # <<>>
    PROVE  Head(s) \in S /\ Tail(s) \in Seq(S) /\ Len(s) \in Nat \ {0} /\ Len(Tail(s)) = Len(s) - 1
  BY SMT

Older(S, c) == Cardinality({e \in S : e < c})

\* In a finite set of numbers, the number of smaller members grows with the
\* member and takes every value below the size of the set: it is its rank.
LEMMA OlderIsRank ==
    ASSUME NEW S, S \subseteq Nat, IsFiniteSet(S)
    PROVE  /\ Cardinality(S) \in Nat
           /\ \A c \in S : Older(S, c) \in 0..(Cardinality(S) - 1)
           /\ \A c, d \in S : c < d => Older(S, c) < Older(S, d)
           /\ \A c, d \in S : Older(S, c) = Older(S, d) => c = d
           /\ \A i \in 0..(Cardinality(S) - 1) : \E c \in S : Older(S, c) = i
<1> DEFINE Before(c) == {e \in S : e < c}
<1>0. Cardinality(S) \in Nat
  BY FS_CardinalityType
<1>a. \A c : /\ Before(c) \in SUBSET S /\ IsFiniteSet(Before(c))
             /\ Older(S, c) = Cardinality(Before(c)) /\ Older(S, c) \in Nat
  <2>1. \A c : Before(c) \in SUBSET S /\ Older(S, c) = Cardinality(Before(c))
    BY DEF Older
  <2> HIDE DEF Before
  <2> QED
    BY <2>1, FS_Subset, FS_CardinalityType
<1>1. ASSUME NEW c \in S PROVE Older(S, c) \in 0..(Cardinality(S) - 1)
  <2>1. c \notin Before(c)
    BY SMT
  <2> HIDE DEF Before
  <2>2. Older(S, c) <= Cardinality(S) /\ Older(S, c) # Cardinality(S)
    BY <1>a, <2>1, FS_Subset
  <2> QED
    BY SMT, <1>0, <1>a, <2>2
<1>2. ASSUME NEW c \in S, NEW d \in S, c < d PROVE Older(S, c) < Older(S, d)
  <2>0. c \in Nat /\ d \in Nat /\ \A e \in S : e \in Nat /\ (e < c => e < d)
    BY SMT, <1>2
  <2>b. c \in Before(d) /\ c \notin Before(c)
    BY SMT, <1>2, <2>0
  <2>c. \A e \in Before(c) : e \in Before(d)
    BY <2>0
  <2>1. Before(c) \in SUBSET Before(d) /\ c \in Before(d) /\ c \notin Before(c)
    BY <2>b, <2>c
  <2> HIDE DEF Before
  <2>2. Older(S, c) <= Older(S, d) /\ Older(S, c) # Older(S, d)
    BY SMT, <1>a, <2>1, FS_Subset
  <2> QED
    BY SMT, <1>a, <2>2
<1> HIDE DEF Before
<1>3. ASSUME NEW c \in S, NEW d \in S, Older(S, c) = Older(S, d) PROVE c = d
  <2>1. c \in Nat /\ d \in Nat /\ Older(S, c) \in Nat /\ Older(S, d) \in Nat
    BY <1>a
  <2> QED
    BY SMT, <1>2, <1>3, <2>1
<1>4. ASSUME NEW i \in 0..(Cardinality(S) - 1) PROVE \E c \in S : Older(S, c) = i
  <2> DEFINE f == [c \in S |-> Older(S, c)]
             T == 0..(Cardinality(S) - 1)
  <2>1. f \in Injection(S, T)
    BY <1>1, <1>3 DEF Injection, IsInjective
  <2>2. IsFiniteSet(T) /\ Cardinality(T) = Cardinality(S)
    BY SMT, <1>0, FS_Interval
  <2> HIDE DEF T
  <2>3. f \in Surjection(S, T)
    BY <2>1, <2>2, FS_Injection
  <2> QED
    BY <2>3 DEF Surjection, T
<1> QED
  BY <1>0, <1>1, <1>2, <1>3, <1>4

\* What PlanDispatch takes, and the member of a set with a given rank.
Fitting(capacity, S) == {c \in S : Older(S, c) < capacity /\ Older(S, c) < BatchSize}
Nth(S, i) == CHOOSE c \in S : Older(S, c) = i - 1

\* The plan lists the contexts that fit, in the order of their ranks.
LEMMA PlanOf ==
    ASSUME NEW capacity, NEW cx
    PROVE  LET T == Fitting(capacity, Pending(cx))
           IN  PlanDispatch(capacity, cx) =
                 [i \in 1..Cardinality(T) |-> [ctx |-> Nth(T, i), bead |-> cx[Nth(T, i)].bead,
                                               fails |-> cx[Nth(T, i)].fails]]
  BY DEF PlanDispatch, Fitting, Nth, Older

\* The pending contexts are finitely many numbers.
LEMMA PendingFinite ==
    ASSUME NEW cx
    PROVE  Pending(cx) \subseteq Contexts /\ Pending(cx) \subseteq Nat /\ IsFiniteSet(Pending(cx))
<1>1. Pending(cx) \subseteq Contexts
  BY DEF Pending
<1>2. Contexts \subseteq Nat /\ IsFiniteSet(Contexts)
  <2>1. 1 \in Int /\ MaxContexts \in Int
    BY SMT, SchedulerAssumption
  <2> QED
    BY SMT, <2>1, FS_Interval DEF Contexts
<1> QED
  BY <1>1, <1>2, FS_Subset

\* The least of the free slots (none if negative), the batch size and the number
\* of pending contexts.
Fit(capacity, n) ==
    LET slots == IF capacity < 0 THEN 0 ELSE capacity
        most == IF slots < BatchSize THEN slots ELSE BatchSize
    IN  IF n < most THEN n ELSE most

\* As many contexts fit as there is room for.
LEMMA FittingSize ==
    ASSUME NEW capacity \in Int, NEW S, S \subseteq Nat, IsFiniteSet(S)
    PROVE  LET T == Fitting(capacity, S)
           IN  T \subseteq Nat /\ IsFiniteSet(T) /\ Cardinality(T) = Fit(capacity, Cardinality(S))
<1> DEFINE T == Fitting(capacity, S)
           m == Fit(capacity, Cardinality(S))
           f == [c \in T |-> Older(S, c)]
<1>1. T \in SUBSET S
  BY DEF Fitting
<1>a. \A c, d \in S : Older(S, c) = Older(S, d) => c = d
  BY OlderIsRank
<1>2. T \subseteq Nat /\ IsFiniteSet(T)
  BY <1>1, FS_Subset
<1>3. Cardinality(S) \in Nat /\ BatchSize \in Nat \ {0}
  BY OlderIsRank, SchedulerAssumption
<1>4. m \in Nat /\ m <= Cardinality(S)
      /\ \A i \in 0..(Cardinality(S) - 1) : i \in 0..(m - 1) <=> i < capacity /\ i < BatchSize
  BY SMT, <1>3 DEF Fit
<1> HIDE DEF m
<1>5. f \in Injection(T, 0..(m - 1))
  <2>1. \A c \in T : c \in S /\ Older(S, c) < capacity /\ Older(S, c) < BatchSize
    BY DEF Fitting
  <2>2. \A c \in T : Older(S, c) \in 0..(m - 1)
    BY <1>4, <2>1, OlderIsRank
  <2>3. \A c, d \in T : Older(S, c) = Older(S, d) => c = d
    BY <1>a, <2>1
  <2> HIDE DEF T
  <2> QED
    BY <2>2, <2>3 DEF Injection, IsInjective
<1>6. f \in Surjection(T, 0..(m - 1))
  <2>1. ASSUME NEW i \in 0..(m - 1) PROVE \E c \in T : Older(S, c) = i
    <3>1. i \in 0..(Cardinality(S) - 1) /\ i < capacity /\ i < BatchSize
      BY SMT, <1>3, <1>4
    <3>2. PICK c \in S : Older(S, c) = i
      BY <3>1, OlderIsRank
    <3> QED
      BY <3>1, <3>2 DEF Fitting
  <2>2. f \in [T -> 0..(m - 1)]
    BY <1>5 DEF Injection
  <2> HIDE DEF T
  <2> QED
    BY <2>1, <2>2 DEF Surjection
<1>7. IsFiniteSet(0..(m - 1)) /\ Cardinality(0..(m - 1)) = m
  <2>1. 0 \in Int /\ m - 1 \in Int /\ (IF 0 > m - 1 THEN 0 ELSE (m - 1) - 0 + 1) = m
    BY SMT, <1>4
  <2> QED
    BY <2>1, FS_Interval
<1> HIDE DEF T, f
<1>8. Cardinality(T) = m
  BY <1>5, <1>6, <1>7, FS_Injection
<1> QED
  BY <1>2, <1>8 DEF T, m

\* PlanDispatch is what its comment says: a plan has as many entries as the free
\* slots, the batch size and the pending contexts allow, it holds pending
\* contexts only, oldest first, and passes over none that is older than one it
\* holds.
THEOREM PlanTakesOldest ==
    ASSUME NEW capacity \in Int, NEW cx
    PROVE  LET plan == PlanDispatch(capacity, cx)
               n == Fit(capacity, Cardinality(Pending(cx)))
           IN  /\ n \in Nat /\ DOMAIN plan = 1..n
               /\ \A i \in 1..n : plan[i].ctx \in Pending(cx)
               /\ \A i, j \in 1..n : i < j => plan[i].ctx < plan[j].ctx
               /\ \A i \in 1..n, c \in Pending(cx) :
                    c < plan[i].ctx => \E j \in 1..n : plan[j].ctx = c
<1> DEFINE S == Pending(cx)
           T == Fitting(capacity, S)
           n == Fit(capacity, Cardinality(S))
           plan == PlanDispatch(capacity, cx)
<1>1. S \subseteq Nat /\ IsFiniteSet(S)
  BY PendingFinite
<1>2. T \subseteq Nat /\ IsFiniteSet(T) /\ Cardinality(T) = n /\ n \in Nat
  BY <1>1, FittingSize, FS_CardinalityType
<1>3. plan = [i \in 1..n |-> [ctx |-> Nth(T, i), bead |-> cx[Nth(T, i)].bead,
                              fails |-> cx[Nth(T, i)].fails]]
  BY <1>2, PlanOf
<1>4. \A c : c \in T <=> c \in S /\ Older(S, c) < capacity /\ Older(S, c) < BatchSize
  BY DEF Fitting
<1> HIDE DEF S, T, n, plan
<1>a. /\ \A c \in S : Older(S, c) \in Nat
      /\ \A c, d \in S : c < d => Older(S, c) < Older(S, d)
  <2>1. /\ Cardinality(S) \in Nat /\ \A c \in S : Older(S, c) \in 0..(Cardinality(S) - 1)
        /\ \A c, d \in S : c < d => Older(S, c) < Older(S, d)
    BY <1>1, OlderIsRank
  <2> QED
    BY SMT, <2>1
<1>b. /\ \A c, d \in T : c < d => Older(T, c) < Older(T, d)
      /\ \A c, d \in T : Older(T, c) = Older(T, d) => c = d
  BY <1>2, OlderIsRank
<1>5. \A i \in 1..n : Nth(T, i) \in T /\ Older(T, Nth(T, i)) = i - 1
  <2> SUFFICES ASSUME NEW i \in 1..n PROVE \E c \in T : Older(T, c) = i - 1
    BY DEF Nth
  <2>1. i - 1 \in 0..(Cardinality(T) - 1)
    BY SMT, <1>2
  <2> QED
    BY <1>2, <2>1, OlderIsRank
<1>6. DOMAIN plan = 1..n /\ \A i \in 1..n : plan[i].ctx = Nth(T, i)
  BY <1>3
<1>7. ASSUME NEW i \in 1..n, NEW j \in 1..n, i < j PROVE Nth(T, i) < Nth(T, j)
  <2>1. Nth(T, i) \in Nat /\ Nth(T, j) \in Nat
    BY <1>2, <1>5
  <2>2. ~(Nth(T, j) < Nth(T, i)) /\ Nth(T, i) # Nth(T, j)
    BY SMT, <1>b, <1>5, <1>7
  <2> QED
    BY SMT, <2>1, <2>2
<1>8. ASSUME NEW i \in 1..n, NEW c \in S, c < Nth(T, i) PROVE \E j \in 1..n : Nth(T, j) = c
  <2>1. Nth(T, i) \in S /\ Older(S, Nth(T, i)) < capacity /\ Older(S, Nth(T, i)) < BatchSize
    BY <1>4, <1>5
  <2>2. /\ Older(S, c) < Older(S, Nth(T, i))
        /\ Older(S, c) \in Nat /\ Older(S, Nth(T, i)) \in Nat
    BY <1>a, <1>8, <2>1
  <2>3. c \in T
    BY SMT, <1>4, <2>1, <2>2, SchedulerAssumption
  <2>4. Older(T, c) \in 0..(n - 1)
    BY <1>2, <2>3, OlderIsRank
  <2>5. Older(T, c) + 1 \in 1..n /\ (Older(T, c) + 1) - 1 = Older(T, c)
    BY SMT, <1>2, <2>4
  <2>6. Nth(T, Older(T, c) + 1) = c
    BY <1>b, <1>5, <2>3, <2>5
  <2> QED
    BY <2>5, <2>6
<1>9. \A i \in 1..n : Nth(T, i) \in S
  BY <1>4, <1>5
<1> QED
  BY <1>2, <1>6, <1>7, <1>8, <1>9 DEF S, n, plan

\* A plan is well formed and fits the free slots.
LEMMA PlanFits ==
    ASSUME NEW capacity \in Int, NEW cx \in [Contexts -> CtxRec]
    PROVE  /\ PlanDispatch(capacity, cx) \in Seq(Entries)
           /\ Len(PlanDispatch(capacity, cx)) \in Nat
           /\ Len(PlanDispatch(capacity, cx)) <= IF capacity < 0 THEN 0 ELSE capacity
<1> DEFINE plan == PlanDispatch(capacity, cx)
           n == Fit(capacity, Cardinality(Pending(cx)))
<1>1. n \in Nat /\ DOMAIN plan = 1..n /\ \A i \in 1..n : plan[i].ctx \in Pending(cx)
  BY PlanTakesOldest
<1>2. /\ plan = [i \in 1..n |-> plan[i]]
      /\ \A i \in 1..n : plan[i] = [ctx |-> plan[i].ctx, bead |-> cx[plan[i].ctx].bead,
                                    fails |-> cx[plan[i].ctx].fails]
  BY <1>1, PlanOf
<1>3. \A c \in Pending(cx) : /\ c \in Contexts /\ cx[c].bead \in Beads
                             /\ cx[c].fails \in 0..(maxDispatchFailures - 1)
  BY SMT, LimitType DEF Pending, CtxRec
<1> HIDE DEF plan
<1>4. \A i \in 1..n : plan[i] \in Entries
  BY SMT, <1>1, <1>2, <1>3 DEF Entries
<1>5. plan \in [1..n -> Entries]
  BY <1>2, <1>4
<1>6. n <= IF capacity < 0 THEN 0 ELSE capacity
  BY SMT, SchedulerAssumption, PendingFinite, FS_CardinalityType DEF Fit
<1> HIDE DEF n
<1>7. plan \in Seq(Entries) /\ Len(plan) = n
  BY SMT, <1>1, <1>5
<1> QED
  BY <1>1, <1>6, <1>7 DEF plan

-----------------------------------------------------------------------------
(* The jobs.                                                               *)

\* The entry a process is at.
LEMMA EntryType ==
    ASSUME NEW j \in Jobs, j.plan # <<>>
    PROVE  /\ Head(j.plan) \in Entries /\ Tail(j.plan) \in Seq(Entries)
           /\ Len(j.plan) \in Nat \ {0} /\ Len(Tail(j.plan)) = Len(j.plan) - 1
  BY HeadAndTail DEF Jobs

\* The job of a process that has not started, and of one that is over.
LEMMA RestingType == Resting \in Jobs /\ Done \in Jobs /\ Resting.pc = "idle" /\ Done.pc = "done"
<1> DEFINE b == FALSE
<1>1. b \in BOOLEAN
  OBVIOUS
<1>2. <<>> \in Seq(Entries)
  BY SMT
<1>3. Resting = [pc |-> "idle", plan |-> <<>>, pole |-> 0, did |-> b, seen |-> b]
  BY DEF Resting
<1> HIDE DEF b
<1>4. Resting \in Jobs /\ Resting.pc = "idle"
  BY <1>1, <1>2, <1>3 DEF Jobs, JobStates
<1> QED
  BY <1>4 DEF Done, Jobs, JobStates

\* A cycle that goes on to the next entry has one polecat less to start.
LEMMA AdvanceType ==
    ASSUME NEW j \in Jobs, j.plan # <<>>, NEW b \in BOOLEAN
    PROVE  /\ Advance(j, b) \in Jobs /\ Advance(j, b).pc = "run"
           /\ Due(Advance(j, b)) = Len(j.plan) - 1
<1> DEFINE c == j.did \/ b
<1>1. c \in BOOLEAN
  OBVIOUS
<1>2. Advance(j, b) = [Resting EXCEPT !.pc = "run", !.plan = Tail(j.plan), !.did = c]
  BY DEF Advance
<1> HIDE DEF c
<1>3. Tail(j.plan) \in Seq(Entries) /\ Len(Tail(j.plan)) = Len(j.plan) - 1
  BY HeadAndTail DEF Jobs
<1>4. /\ Advance(j, b) \in Jobs /\ Advance(j, b).pc = "run"
      /\ Advance(j, b).plan = Tail(j.plan)
  BY <1>1, <1>2, <1>3, RestingType DEF Jobs, JobStates
<1> QED
  BY <1>3, <1>4 DEF Due

\* What a cycle still has to start is a number.
LEMMA DueType ==
    ASSUME NEW j, Ready(j)
    PROVE  /\ Due(j) \in Nat
           /\ j.pc \in {"run", "hook", "start"} => Due(j) = Len(j.plan)
           /\ j.pc = "close" => Due(j) = Len(j.plan) - 1
<1>1. j.plan \in Seq(Entries) /\ Len(j.plan) \in Nat
  BY SMT DEF Ready, Jobs
<1>2. j.pc = "close" => Len(j.plan) \in Nat \ {0}
  BY EntryType DEF Ready
<1> QED
  BY SMT, <1>1, <1>2 DEF Due

\* A job that moves on, and in a dispatch cycle neither starts nor has more to do.
Moves(q, j) ==
    /\ Ready(j)
    /\ q \in Dispatchers =>
         /\ job[q].pc = "idle" => j.pc = "idle"
         /\ Due(j) <= Due(job[q])

\* A job that moves keeps the plans well formed and the cycle alone.
LEMMA JobMoves ==
    ASSUME Planned, OneCycle, NEW q \in Slings, NEW j, Moves(q, j), job' = [job EXCEPT ![q] = j]
    PROVE  /\ Planned' /\ OneCycle'
           /\ \A d \in Dispatchers : Due(job'[d]) \in Nat /\ Due(job'[d]) <= Due(job[d])
<1>1. \A r \in Slings : job'[r] = IF r = q THEN j ELSE job[r]
  BY DEF Planned
<1>2. Planned'
  <2>1. j \in Jobs /\ Ready(j) /\ job \in [Slings -> Jobs] /\ \A r \in Slings : Ready(job[r])
    BY DEF Moves, Ready, Planned
  <2>2. job' \in [Slings -> Jobs]
    BY <2>1
  <2>3. \A r \in Slings : Ready(job'[r])
    BY <1>1, <2>1
  <2> QED
    BY <2>2, <2>3 DEF Planned, Ready
<1>3. OneCycle'
  BY SMT, <1>1 DEF OneCycle, Moves, Slings
<1>4. ASSUME NEW d \in Dispatchers
      PROVE  Due(job'[d]) \in Nat /\ Due(job'[d]) <= Due(job[d])
  <2>1. d \in Slings /\ Ready(job[d]) /\ Ready(job'[d])
    BY <1>1 DEF Planned, Slings, Moves
  <2>2. Due(job[d]) \in Nat /\ Due(job'[d]) \in Nat
    BY <2>1, DueType
  <2>3. CASE d = q
    <3>1. job'[d] = j /\ job[d] = job[q] /\ Due(j) <= Due(job[q])
      BY <1>1, <2>1, <2>3 DEF Moves
    <3> QED
      BY <2>2, <3>1
  <2>4. CASE d # q
    BY SMT, <1>1, <2>1, <2>2, <2>4
  <2> QED
    BY <2>3, <2>4
<1> QED
  BY <1>2, <1>3, <1>4

-----------------------------------------------------------------------------
(* What keeps the invariant.                                               *)

\* The polecats are finitely many, so the running ones can be counted.
LEMMA RunningFinite ==
    /\ IsFiniteSet(Polecats) /\ Cardinality(Polecats) \in Nat
    /\ Running \in SUBSET Polecats /\ IsFiniteSet(Running) /\ Cardinality(Running) \in Nat
    /\ Running' \in SUBSET Polecats /\ IsFiniteSet(Running') /\ Cardinality(Running') \in Nat
<1>1. IsFiniteSet(Polecats)
  <2>1. 1 \in Int /\ NumPolecats \in Int
    BY SMT, SchedulerAssumption
  <2> QED
    BY <2>1, FS_Interval DEF Polecats
<1>2. Running \in SUBSET Polecats /\ Running' \in SUBSET Polecats
  BY DEF Running, Live
<1> HIDE DEF Running
<1> QED
  BY <1>1, <1>2, FS_Subset, FS_CardinalityType

\* No polecat more, and no cycle with more to start.
LEMMA RoomShrinks ==
    ASSUME Room, Planned, Running' \in SUBSET Running,
           \A d \in Dispatchers : Due(job'[d]) \in Nat /\ Due(job'[d]) <= Due(job[d])
    PROVE  Room'
<1>1. Cardinality(Running') <= Cardinality(Running)
  BY RunningFinite, FS_Subset
<1>2. Cardinality(Running) \in Nat /\ Cardinality(Running') \in Nat /\ MaxPolecats \in Nat
  BY RunningFinite, SchedulerAssumption
<1>3. \A d \in Dispatchers : Due(job[d]) \in Nat
  BY DueType DEF Planned, Slings
<1>4. Cardinality(Running') <= MaxPolecats
  BY SMT, <1>1, <1>2 DEF Room
<1>5. ASSUME NEW d \in Dispatchers PROVE Cardinality(Running') + Due(job'[d]) <= MaxPolecats
  <2>1. /\ Cardinality(Running) + Due(job[d]) <= MaxPolecats
        /\ Due(job[d]) \in Nat /\ Due(job'[d]) \in Nat /\ Due(job'[d]) <= Due(job[d])
    BY <1>3 DEF Room
  <2> QED
    BY SMT, <1>1, <1>2, <2>1
<1> HIDE DEF Running, Due
<1> QED
  BY <1>4, <1>5 DEF Room

\* A step that leaves the jobs alone.
LEMMA OthersStep ==
    ASSUME CapInv, Data', job' = job, Running' \in SUBSET Running
    PROVE  CapInv'
<1>1. \A d \in Dispatchers : Due(job'[d]) \in Nat /\ Due(job'[d]) <= Due(job[d])
  <2>1. \A d \in Dispatchers : Due(job[d]) \in Nat
    BY DueType DEF CapInv, Planned, Slings
  <2> QED
    BY SMT, <2>1
<1>2. Planned' /\ OneCycle'
  BY DEF CapInv, Planned, OneCycle, Ready
<1> QED
  BY <1>1, <1>2, RoomShrinks DEF CapInv

\* A step of one job.
LEMMA JobStep ==
    ASSUME CapInv, Data', Running' \in SUBSET Running,
           NEW q \in Slings, NEW j, Moves(q, j), job' = [job EXCEPT ![q] = j]
    PROVE  CapInv'
  BY JobMoves, RoomShrinks DEF CapInv

\* The polecats are left alone, or one is spawned or removed.
LEMMA PoleStep ==
    ASSUME Data, \/ pole' = pole
                 \/ \E p, r : r \in PoleRec /\ r.st # "live" /\ pole' = [pole EXCEPT ![p] = r]
    PROVE  pole' \in [Polecats -> PoleRec] /\ Running' \in SUBSET Running
<1>1. CASE pole' = pole
  BY <1>1 DEF Data, Running, Live
<1>2. ASSUME NEW p, NEW r \in PoleRec, r.st # "live", pole' = [pole EXCEPT ![p] = r]
      PROVE  pole' \in [Polecats -> PoleRec] /\ Running' \in SUBSET Running
  <2>1. pole' \in [Polecats -> PoleRec]
    BY <1>2 DEF Data
  <2>2. \A x \in Polecats : pole'[x] = r \/ pole'[x] = pole[x]
    BY <1>2 DEF Data
  <2>3. \A x \in Running' : x \in Running
    BY <1>2, <2>2 DEF Running, Live
  <2> QED
    BY <2>1, <2>3
<1> QED
  BY <1>1, <1>2

\* The records an action writes.
LEMMA RecordTypes ==
    /\ Gone \in CtxRec
    /\ Free \in PoleRec /\ Free.st # "live"
    /\ Unhooked \in BeadRec
    /\ [st |-> "closed", who |-> None] \in BeadRec
    /\ Away \in ClientRec
  BY SMT, LimitType DEF Gone, CtxRec, Free, PoleRec, Unhooked, BeadRec, Away, ClientRec

\* Closing contexts, and counting failed calls.
LEMMA ClosedType ==
    ASSUME Data, NEW S
    PROVE  Closed(S) \in [Contexts -> CtxRec]
  BY RecordTypes DEF Closed, Data

\* Faults stay within their bound.
LEMMA FailType ==
    ASSUME Data, NEW n \in Nat, Fail(n)
    PROVE  faults' \in 0..MaxFaults
  BY SMT, SchedulerAssumption DEF Fail, Data

\* The contexts that a clear fails to close can be counted.
LEMMA KeptNumber ==
    ASSUME NEW kept, kept \subseteq Contexts
    PROVE  Cardinality(kept) \in Nat
<1>1. 1 \in Int /\ MaxContexts \in Int
  BY SMT, SchedulerAssumption
<1>2. IsFiniteSet(Contexts)
  BY <1>1, FS_Interval DEF Contexts
<1> QED
  BY <1>2, FS_Subset, FS_CardinalityType

\* recordDispatchFailure keeps the count of a context within the limit.
LEMMA RecordFailureType ==
    ASSUME Data, NEW q \in Slings, job[q] \in Jobs, job[q].plan # <<>>,
           NEW before \in Nat, RecordFailure(q, before)
    PROVE  ctx' \in [Contexts -> CtxRec] /\ faults' \in 0..MaxFaults
<1> DEFINE e == Entry(q)
           n == e.fails + 1
<1>1. n \in 1..maxDispatchFailures
  <2>1. e \in Entries
    BY EntryType DEF Entry
  <2> HIDE DEF e
  <2> QED
    BY SMT, <2>1, LimitType DEF Entries
<1>2. PICK stored, closed \in BOOLEAN :
        /\ Fail(before + (IF stored THEN 0 ELSE 1)
                       + (IF n >= maxDispatchFailures /\ ~closed THEN 1 ELSE 0))
        /\ ctx' = [ctx EXCEPT ![e.ctx] =
                     IF closed \/ @.st = "closed" THEN Gone
                     ELSE IF stored THEN [@ EXCEPT !.fails = n] ELSE @]
  BY DEF RecordFailure
<1>3. before + (IF stored THEN 0 ELSE 1)
             + (IF n >= maxDispatchFailures /\ ~closed THEN 1 ELSE 0) \in Nat
  BY SMT
<1>4. faults' \in 0..MaxFaults
  BY <1>2, <1>3, FailType
<1>5. \A r \in CtxRec : [r EXCEPT !.fails = n] \in CtxRec
  BY SMT, <1>1 DEF CtxRec
<1> HIDE DEF e, n
<1>6. ctx' \in [Contexts -> CtxRec]
  <2>1. ctx \in [Contexts -> CtxRec]
    BY DEF Data
  <2> DEFINE r == IF closed \/ ctx[e.ctx].st = "closed" THEN Gone
                  ELSE IF stored THEN [ctx[e.ctx] EXCEPT !.fails = n] ELSE ctx[e.ctx]
  <2>2. ctx' = [ctx EXCEPT ![e.ctx] = r]
    BY <1>2
  <2>3. e.ctx \in Contexts => r \in CtxRec
    BY <1>5, <2>1, RecordTypes
  <2> HIDE DEF r
  <2> QED
    BY <2>1, <2>2, <2>3
<1> QED
  BY <1>4, <1>6

\* What the invariant says of the job of a process.
LEMMA JobOf ==
    ASSUME CapInv, NEW q \in Slings
    PROVE  /\ job \in [Slings -> Jobs] /\ job[q] \in Jobs /\ Ready(job[q])
           /\ Due(job[q]) \in Nat
           /\ job[q].plan # <<>> => Target(q) \in Beads
<1>1. job \in [Slings -> Jobs] /\ job[q] \in Jobs /\ Ready(job[q])
  BY DEF CapInv, Planned
<1>2. job[q].plan # <<>> => Head(job[q].plan) \in Entries
  BY <1>1, EntryType
<1>3. job[q].plan # <<>> => Target(q) \in Beads
  BY <1>2 DEF Target, Entry, Entries
<1> QED
  BY <1>1, <1>3, DueType

\* A process that ends, and one that goes on to the next entry.
LEMMA EndMoves ==
    ASSUME CapInv, NEW q \in Slings
    PROVE  /\ Moves(q, Resting)
           /\ q \notin Dispatchers => Moves(q, Done)
           /\ \A b \in BOOLEAN :
                job[q].plan # <<>> /\ job[q].pc \in {"run", "hook", "start", "close"}
                => Moves(q, Advance(job[q], b))
<1>1. job[q] \in Jobs /\ Ready(job[q]) /\ Due(job[q]) \in Nat
  BY JobOf
<1>2. Ready(Resting) /\ Ready(Done) /\ Due(Resting) = 0
  BY RestingType DEF Ready, Due
<1>3. Moves(q, Resting) /\ (q \notin Dispatchers => Moves(q, Done))
  BY SMT, <1>1, <1>2, RestingType DEF Moves
<1>4. ASSUME NEW b \in BOOLEAN, job[q].plan # <<>>,
             job[q].pc \in {"run", "hook", "start", "close"}
      PROVE  Moves(q, Advance(job[q], b))
  <2>1. /\ Advance(job[q], b) \in Jobs /\ Advance(job[q], b).pc = "run"
        /\ Due(Advance(job[q], b)) = Len(job[q].plan) - 1
        /\ Len(job[q].plan) \in Nat
    BY <1>1, <1>4, AdvanceType, EntryType
  <2>2. Due(job[q]) \in {Len(job[q].plan), Len(job[q].plan) - 1}
    BY <1>1, <1>4, DueType
  <2>3. Ready(Advance(job[q], b))
    BY <2>1 DEF Ready
  <2>4. Due(Advance(job[q], b)) <= Due(job[q])
    BY SMT, <2>1, <2>2
  <2>5. job[q].pc # "idle"
    BY <1>4
  <2> QED
    BY <2>3, <2>4, <2>5, Zenon DEF Moves
<1> QED
  BY <1>3, <1>4

\* A failed sling.
LEMMA FailedStep ==
    ASSUME CapInv, NEW q \in Slings, job[q].plan # <<>>, job[q].pc \in {"run", "hook", "start"},
           SlingFailed(q), bead' \in [Beads -> BeadRec],
           pole' \in [Polecats -> PoleRec], Running' \in SUBSET Running,
           UNCHANGED <<paused, client, witness, misled>>
    PROVE  CapInv'
<1>1. job[q] \in Jobs /\ 0 \in Nat /\ Data /\ FALSE \in BOOLEAN
  BY JobOf DEF CapInv
<1>2. CASE q \in Dispatchers
  <2>1. RecordFailure(q, 0) /\ job' = [job EXCEPT ![q] = Advance(job[q], FALSE)]
    BY <1>2 DEF SlingFailed
  <2>2. ctx' \in [Contexts -> CtxRec] /\ faults' \in 0..MaxFaults
    BY <1>1, <2>1, RecordFailureType
  <2>3. Data'
    BY <1>1, <2>2 DEF Data
  <2>4. Moves(q, Advance(job[q], FALSE))
    BY <1>1, EndMoves
  <2> QED
    BY <2>1, <2>3, <2>4, JobStep
<1>3. CASE q \notin Dispatchers
  <2>1. job' = [job EXCEPT ![q] = Done] /\ ctx' = ctx /\ faults' = faults
    BY <1>3 DEF SlingFailed
  <2>2. Data'
    BY <1>1, <2>1 DEF Data
  <2> QED
    BY <1>3, <2>1, <2>2, EndMoves, JobStep
<1> QED
  BY <1>2, <1>3

-----------------------------------------------------------------------------
(* One lemma per action.                                                   *)

\* gt sling to the scheduler starts no polecat and plans none.
LEMMA ScheduleStep ==
    ASSUME CapInv, NEW k \in Clients, Schedule(k)
    PROVE  CapInv'
<1>1. Data /\ pole' = pole /\ job' = job /\ Running' \in SUBSET Running
      /\ UNCHANGED <<bead, pole, paused, witness, faults, misled>>
  BY DEF CapInv, Schedule, ScheduleChecks, ScheduleCreates, ScheduleConvoy, Running, Live
<1>2. client[k] \in ClientRec /\ client \in [Clients -> ClientRec]
  BY <1>1 DEF Data
<1>3. SUFFICES ctx' \in [Contexts -> CtxRec] /\ client' \in [Clients -> ClientRec]
  <2>1. Data'
    BY <1>1, <1>3 DEF Data
  <2> QED
    BY <1>1, <2>1, OthersStep
<1>4. CASE \E b \in Beads : ScheduleChecks(k, b)
  <2>1. PICK b \in Beads : ScheduleChecks(k, b)
    BY <1>4
  <2>2. [Away EXCEPT !.pc = "create", !.bead = b] \in ClientRec
    BY DEF Away, ClientRec
  <2> QED
    BY <1>1, <1>2, <2>1, <2>2 DEF ScheduleChecks, Data
<1>5. CASE ScheduleCreates(k)
  <2>1. PICK c \in Contexts :
          /\ ctx' = [ctx EXCEPT ![c] = [bead |-> client[k].bead, st |-> "open", fails |-> 0]]
          /\ client' = [client EXCEPT ![k].pc = "convoy", ![k].ctx = c]
    BY <1>5 DEF ScheduleCreates
  <2>2. client[k].bead \in Beads
    BY <1>2, <1>5 DEF ScheduleCreates, ClientRec
  <2>3. [bead |-> client[k].bead, st |-> "open", fails |-> 0] \in CtxRec
    BY SMT, <2>2, LimitType DEF CtxRec
  <2>4. [client[k] EXCEPT !.pc = "convoy", !.ctx = c] \in ClientRec
    BY <1>2 DEF ClientRec
  <2>5. client' = [client EXCEPT ![k] = [client[k] EXCEPT !.pc = "convoy", !.ctx = c]]
    BY <1>2, <2>1 DEF ClientRec
  <2>6. client' \in [Clients -> ClientRec]
    BY <1>2, <2>4, <2>5
  <2>7. ctx' \in [Contexts -> CtxRec]
    BY <1>1, <2>1, <2>3 DEF Data
  <2> QED
    BY <2>6, <2>7
<1>6. CASE ScheduleConvoy(k)
  <2>1. client' \in [Clients -> ClientRec]
    BY <1>2, <1>6, RecordTypes DEF ScheduleConvoy
  <2>2. \A r \in CtxRec : [r EXCEPT !.fails = 0] \in CtxRec
    BY SMT, LimitType DEF CtxRec
  <2>3. ctx' = ctx \/ ctx' = [ctx EXCEPT ![client[k].ctx] = [ctx[client[k].ctx] EXCEPT !.fails = 0]]
    BY <1>6 DEF ScheduleConvoy
  <2>4. ctx' \in [Contexts -> CtxRec]
    BY SMT, <1>1, <2>2, <2>3 DEF Data
  <2> QED
    BY <2>1, <2>4
<1> QED
  BY <1>4, <1>5, <1>6 DEF Schedule

\* gt scheduler clear closes contexts and touches no plan.
LEMMA ClearStep ==
    ASSUME CapInv, NEW B, Clear(B)
    PROVE  CapInv'
<1>1. PICK kept \in SUBSET {c \in Open : ctx[c].bead \in B} :
        Fail(Cardinality(kept)) /\ \E S : ctx' = Closed(S)
  BY DEF Clear
<1>2. Data /\ kept \subseteq Contexts
  BY DEF CapInv, Open
<1>3. faults' \in 0..MaxFaults /\ ctx' \in [Contexts -> CtxRec]
  BY <1>1, <1>2, KeptNumber, FailType, ClosedType
<1>4. UNCHANGED <<bead, pole, paused, client, job, witness, misled>> /\ Running' \in SUBSET Running
  BY DEF Clear, Running, Live
<1>5. Data'
  BY <1>2, <1>3, <1>4 DEF Data
<1> QED
  BY <1>4, <1>5, OthersStep

\* Pausing or resuming the scheduler leaves the cycle under way as it is.
LEMMA PauseStep ==
    ASSUME CapInv, NEW f \in BOOLEAN, SetPaused(f)
    PROVE  CapInv'
<1>1. Data /\ paused' \in BOOLEAN
      /\ UNCHANGED <<ctx, bead, pole, client, job, witness, faults, misled>>
      /\ Running' \in SUBSET Running
  BY DEF CapInv, SetPaused, Running, Live
<1>2. Data'
  BY <1>1 DEF Data
<1> QED
  BY <1>1, <1>2, OthersStep

\* The same entry at another place of executeSling.
LEMMA PcMoves ==
    ASSUME CapInv, NEW q \in Slings, job[q].plan # <<>>, NEW p \in Polecats \cup {0},
           NEW pc \in {"hook", "start", "close"}, job[q].pc \in {"run", "hook", "start"},
           NEW j, j = [job[q] EXCEPT !.pc = pc, !.pole = p]
    PROVE  /\ Moves(q, j) /\ Len(job[q].plan) \in Nat \ {0} /\ Due(job[q]) = Len(job[q].plan)
           /\ pc = "close" => Due(j) = Len(job[q].plan) - 1
<1>1. job[q] \in Jobs /\ Ready(job[q]) /\ Due(job[q]) = Len(job[q].plan)
  BY JobOf, DueType
<1>2. Len(job[q].plan) \in Nat \ {0}
  BY <1>1, EntryType
<1>3. j \in Jobs /\ j.pc = pc /\ j.plan = job[q].plan
  BY <1>1 DEF Jobs, JobStates
<1>4. Ready(j)
  BY <1>3 DEF Ready
<1>5. Due(j) \in {Len(job[q].plan), Len(job[q].plan) - 1}
      /\ (pc = "close" => Due(j) = Len(job[q].plan) - 1)
  BY <1>3, <1>4, DueType
<1>6. Due(j) <= Due(job[q]) /\ job[q].pc # "idle"
  BY SMT, <1>1, <1>2, <1>5
<1>7. Moves(q, j)
  BY <1>4, <1>6, Zenon DEF Moves
<1> QED
  BY <1>1, <1>2, <1>5, <1>7

\* A spawned polecat is not live yet: the entry it is spawned for stays due.
LEMMA SpawnStep ==
    ASSUME CapInv, NEW q \in Slings, SlingSpawns(q)
    PROVE  CapInv'
<1>1. PICK p \in Polecats :
        /\ pole' = [pole EXCEPT ![p] = [st |-> "spawned", hook |-> Target(q), by |-> q]]
        /\ job' = [job EXCEPT ![q].pc = "hook", ![q].pole = p]
  BY DEF SlingSpawns
<1>2. Data /\ job[q].pc = "run" /\ job[q].plan # <<>>
      /\ UNCHANGED <<ctx, bead, paused, client, witness, faults, misled>>
  BY DEF CapInv, SlingSpawns
<1>3. Target(q) \in Beads /\ job \in [Slings -> Jobs]
  BY <1>2, JobOf
<1> DEFINE r == [st |-> "spawned", hook |-> Target(q), by |-> q]
           j == [job[q] EXCEPT !.pc = "hook", !.pole = p]
<1>4. r \in PoleRec /\ r.st # "live"
  BY <1>3 DEF PoleRec
<1>5. pole' \in [Polecats -> PoleRec] /\ Running' \in SUBSET Running
  <2>1. pole' = [pole EXCEPT ![p] = r]
    BY <1>1
  <2> HIDE DEF r
  <2> QED
    BY <1>2, <1>4, <2>1, PoleStep
<1>6. Data'
  BY <1>2, <1>5 DEF Data
<1>7. job' = [job EXCEPT ![q] = j]
  BY <1>1, <1>3
<1>8. Moves(q, j)
  BY <1>2, PcMoves
<1> HIDE DEF j
<1> QED
  BY <1>5, <1>6, <1>7, <1>8, JobStep

\* A refused sling starts nothing and gives up its entry.
LEMMA RefusedStep ==
    ASSUME CapInv, NEW q \in Slings, SlingRefused(q)
    PROVE  CapInv'
<1>1. /\ job[q].pc = "run" /\ job[q].plan # <<>> /\ SlingFailed(q) /\ Data
      /\ UNCHANGED <<pole, paused, client, witness, misled>>
      /\ bead' = bead \/ bead' = [bead EXCEPT ![Target(q)] = Unhooked]
  BY DEF SlingRefused, CapInv
<1>2. bead' \in [Beads -> BeadRec]
  BY <1>1, RecordTypes DEF Data
<1>3. pole' \in [Polecats -> PoleRec] /\ Running' \in SUBSET Running
  BY <1>1, PoleStep
<1> QED
  BY <1>1, <1>2, <1>3, FailedStep

\* A process that slings holds a polecat (Holds).
LEMMA HeldPolecat ==
    ASSUME Inv, CapInv, NEW q \in Slings, job[q].pc \in {"hook", "start"}
    PROVE  /\ job[q].pole \in Polecats /\ job[q].plan # <<>> /\ Data
           /\ pole[job[q].pole] = [st |-> "spawned", hook |-> Target(q), by |-> q]
<1>1. Ready(job[q])
  BY JobOf
<1> QED
  BY <1>1 DEF Inv, Holds, Slinging, Ready, CapInv

\* Hooking the bead starts nothing; a hook that fails gives up the entry.
LEMMA HookStep ==
    ASSUME Inv, CapInv, NEW q \in Slings, SlingHooks(q)
    PROVE  CapInv'
<1> DEFINE p == job[q].pole
           hooked == [bead EXCEPT ![Target(q)] = [st |-> "hooked", who |-> p]]
<1>1. job[q].pc = "hook" /\ UNCHANGED <<paused, client, witness, misled>>
  BY DEF SlingHooks
<1>2. p \in Polecats /\ job[q].plan # <<>> /\ Data
  BY <1>1, HeldPolecat
<1>3. hooked \in [Beads -> BeadRec] /\ bead \in [Beads -> BeadRec]
  <2>1. [st |-> "hooked", who |-> p] \in BeadRec
    BY <1>2 DEF BeadRec
  <2> QED
    BY <1>2, <2>1 DEF Data
<1>4. CASE bead' = hooked /\ job' = [job EXCEPT ![q].pc = "start"] /\ UNCHANGED <<ctx, pole, faults>>
  <2> DEFINE j == [job[q] EXCEPT !.pc = "start", !.pole = p]
  <2>1. job[q] \in Jobs /\ job \in [Slings -> Jobs]
    BY JobOf
  <2>2. j = [job[q] EXCEPT !.pc = "start"]
    BY <2>1 DEF Jobs
  <2>3. job' = [job EXCEPT ![q] = j]
    BY <1>4, <2>1, <2>2
  <2>4. Moves(q, j)
    BY <1>1, <1>2, PcMoves
  <2>5. pole' \in [Polecats -> PoleRec] /\ Running' \in SUBSET Running
    BY <1>2, <1>4, PoleStep
  <2>6. Data'
    BY <1>1, <1>2, <1>3, <1>4, <2>5 DEF Data
  <2> HIDE DEF j
  <2> QED
    BY <2>3, <2>4, <2>5, <2>6, JobStep
<1>5. CASE bead' \in {bead, hooked} /\ pole' = [pole EXCEPT ![p] = Free] /\ SlingFailed(q)
  <2>1. pole' \in [Polecats -> PoleRec] /\ Running' \in SUBSET Running
    BY <1>2, <1>5, RecordTypes, PoleStep
  <2>2. bead' \in [Beads -> BeadRec]
    BY <1>3, <1>5
  <2> QED
    BY <1>1, <1>2, <1>5, <2>1, <2>2, FailedStep
<1> QED
  BY <1>4, <1>5 DEF SlingHooks

\* A session that a dispatch cycle starts was counted in its plan.
LEMMA StartedStep ==
    ASSUME Inv, CapInv, NEW q \in Slings, job[q].pc = "start",
           pole' = [pole EXCEPT ![job[q].pole].st = "live"], SlingSucceeded(q),
           UNCHANGED <<ctx, bead, faults, paused, client, witness, misled>>
    PROVE  CapInv'
<1> DEFINE p == job[q].pole
           j == [job[q] EXCEPT !.pc = "close", !.pole = p]
<1>1. /\ p \in Polecats /\ job[q].plan # <<>> /\ Data
      /\ pole[p] = [st |-> "spawned", hook |-> Target(q), by |-> q]
  BY HeldPolecat
<1>2. /\ pole' \in [Polecats -> PoleRec]
      /\ pole' = [pole EXCEPT ![p] = [st |-> "live", hook |-> Target(q), by |-> q]]
  <2>1. pole \in [Polecats -> PoleRec] /\ Target(q) \in Beads
    BY <1>1, JobOf DEF Data
  <2>2. [pole[p] EXCEPT !.st = "live"] = [st |-> "live", hook |-> Target(q), by |-> q]
    BY SMT, <1>1
  <2>3. [st |-> "live", hook |-> Target(q), by |-> q] \in PoleRec
    BY <2>1 DEF PoleRec
  <2>4. pole' = [pole EXCEPT ![p] = [st |-> "live", hook |-> Target(q), by |-> q]]
    BY <2>2
  <2> QED
    BY <2>1, <2>3, <2>4
<1>3. Data'
  BY <1>1, <1>2 DEF Data
<1>4. \A x \in Polecats : pole'[x] = IF x = p THEN [st |-> "live", hook |-> Target(q), by |-> q]
                                   ELSE pole[x]
  BY <1>1, <1>2 DEF Data
<1>5. CASE q \notin Dispatchers
  <2>1. job' = [job EXCEPT ![q] = Done]
    BY <1>5 DEF SlingSucceeded
  <2>2. \A x \in Running' : x \in Running
    BY SMT, <1>4, <1>5 DEF Running, Live
  <2>3. Running' \in SUBSET Running
    BY <2>2
  <2> QED
    BY <1>3, <1>5, <2>1, <2>3, EndMoves, JobStep
<1>6. CASE q \in Dispatchers
  <2>1. job[q] \in Jobs /\ job \in [Slings -> Jobs]
    BY JobOf
  <2>2. job' = [job EXCEPT ![q] = j]
    <3>1. j = [job[q] EXCEPT !.pc = "close"]
      BY <2>1 DEF Jobs
    <3> QED
      BY <1>6, <2>1, <3>1 DEF SlingSucceeded
  <2>3. /\ Moves(q, j) /\ Len(job[q].plan) \in Nat \ {0}
        /\ Due(job[q]) = Len(job[q].plan) /\ Due(j) = Len(job[q].plan) - 1
    BY <1>1, PcMoves
  <2>4. job'[q] = j
    BY <2>1, <2>2
  <2> HIDE DEF j
  <2>5. /\ Planned' /\ OneCycle'
        /\ \A d \in Dispatchers : Due(job'[d]) \in Nat /\ Due(job'[d]) <= Due(job[d])
    BY <2>2, <2>3, JobMoves DEF CapInv
  <2>6. p \notin Running /\ Running' = Running \cup {p}
    <3>1. p \notin Running
      BY SMT, <1>1 DEF Running, Live
    <3>2. \A x \in Polecats : x \in Running' <=> x \in Running \/ x = p
      BY SMT, <1>1, <1>4, <1>6 DEF Running, Live
    <3>3. Running' \subseteq Polecats /\ Running \cup {p} \subseteq Polecats
      BY <1>1, RunningFinite
    <3> QED
      BY <3>1, <3>2, <3>3
  <2>7. Cardinality(Running') = Cardinality(Running) + 1 /\ Cardinality(Running) \in Nat
    BY <2>6, RunningFinite, FS_AddElement
  <2>8. Cardinality(Running) + Len(job[q].plan) <= MaxPolecats /\ MaxPolecats \in Nat
    BY <1>6, <2>3, SchedulerAssumption DEF CapInv, Room
  <2>9. ASSUME NEW d \in Dispatchers
        PROVE  Cardinality(Running') + Due(job'[d]) <= MaxPolecats
    <3>1. CASE d = q
      BY SMT, <2>3, <2>4, <2>7, <2>8, <3>1
    <3>2. CASE d # q
      <4>1. job[d].pc = "idle"
        BY <1>6, <3>2 DEF CapInv, OneCycle
      <4>2. Due(job[d]) = 0
        BY <4>1 DEF Due
      <4>3. Due(job'[d]) = 0
        BY SMT, <2>5, <4>2
      <4> QED
        BY SMT, <2>3, <2>7, <2>8, <4>3
    <3> QED
      BY <3>1, <3>2
  <2>10. Cardinality(Running') <= MaxPolecats
    BY SMT, <2>3, <2>7, <2>8
  <2> HIDE DEF Running, Due
  <2> QED
    BY <1>3, <2>5, <2>9, <2>10 DEF CapInv, Room
<1> QED
  BY <1>5, <1>6

\* Starting the session trades one due entry for one running polecat.
LEMMA StartStep ==
    ASSUME Inv, CapInv, NEW q \in Slings, SlingStarts(q)
    PROVE  CapInv'
<1> DEFINE p == job[q].pole
<1>1. job[q].pc = "start" /\ UNCHANGED <<paused, client, witness, misled>>
  BY DEF SlingStarts
<1>2. CASE /\ pole' = [pole EXCEPT ![p].st = "live"] /\ SlingSucceeded(q)
           /\ UNCHANGED <<ctx, bead, faults>>
  BY <1>1, <1>2, StartedStep
<1>3. CASE /\ bead' \in {bead, [bead EXCEPT ![Target(q)] = Unhooked]}
           /\ pole' = [pole EXCEPT ![p] = Free] /\ SlingFailed(q)
  <2>1. p \in Polecats /\ job[q].plan # <<>> /\ Data
    BY <1>1, HeldPolecat
  <2>2. pole' \in [Polecats -> PoleRec] /\ Running' \in SUBSET Running
    BY <1>3, <2>1, RecordTypes, PoleStep
  <2>3. bead' \in [Beads -> BeadRec]
    BY <1>3, <2>1, RecordTypes DEF Data
  <2> QED
    BY <1>1, <1>3, <2>1, <2>2, <2>3, FailedStep
<1> QED
  BY <1>2, <1>3 DEF SlingStarts

\* A direct sling starts no polecat that counts against a dispatch cycle.
LEMMA DirectStep ==
    ASSUME CapInv, NEW q \in Slingers, NEW b \in Beads, DirectSling(q, b)
    PROVE  CapInv'
<1> DEFINE plan == <<[ctx |-> 0, bead |-> b, fails |-> 0]>>
           j == [job[q] EXCEPT !.pc = "run", !.plan = plan]
<1>1. q \in Slings /\ q \notin Dispatchers /\ Data
  BY SchedulerAssumption DEF Slings, CapInv
<1>2. job[q] \in Jobs /\ job \in [Slings -> Jobs]
  BY <1>1, JobOf
<1>3. plan \in Seq(Entries)
  <2>1. [ctx |-> 0, bead |-> b, fails |-> 0] \in Entries
    BY SMT, LimitType DEF Entries
  <2> QED
    BY SMT, <2>1
<1> HIDE DEF plan
<1>4. j \in Jobs /\ j.pc = "run"
  BY <1>2, <1>3 DEF Jobs, JobStates
<1>5. job' = [job EXCEPT ![q] = j] /\ UNCHANGED <<ctx, bead, pole, paused, client, witness, faults, misled>>
  BY <1>1, <1>2 DEF DirectSling, plan
<1> HIDE DEF j
<1>6. Moves(q, j)
  BY <1>1, <1>4 DEF Moves, Ready
<1>7. Data' /\ Running' \in SUBSET Running
  BY <1>1, <1>5 DEF Data, Running, Live
<1> QED
  BY <1>1, <1>5, <1>6, <1>7, JobStep

\* A cycle starts while no other one runs, and plans for the slots that are free.
LEMMA DispatchStartsStep ==
    ASSUME CapInv, NEW d \in Dispatchers, DispatchStarts(d)
    PROVE  CapInv'
<1>1. PICK kept \in SUBSET Stale, seen \in SUBSET Live :
        /\ Fail(Cardinality(kept) + MiscountFaults(seen))
        /\ ctx' = Closed(Stale \ kept)
        /\ job' = [job EXCEPT ![d].pc = "run",
                     ![d].plan = PlanDispatch(MaxPolecats - Cardinality(seen), ctx')]
        /\ pole' = [p \in Polecats |-> IF p \in Live \ seen
                                      THEN [pole[p] EXCEPT !.by = None] ELSE pole[p]]
  BY DEF DispatchStarts
<1>2. /\ \A e \in Dispatchers : job[e].pc = "idle"
      /\ UNCHANGED <<bead, paused, client, witness, misled>>
      /\ Data /\ kept \subseteq Contexts /\ d \in Slings
      /\ seen \in SUBSET Polecats /\ Live \ seen \in SUBSET Polecats
  BY DEF DispatchStarts, CapInv, Stale, Open, Slings, Live
<1>3. faults' \in 0..MaxFaults /\ ctx' \in [Contexts -> CtxRec]
  <2>1. Cardinality(kept) \in Nat /\ MiscountFaults(seen) \in Nat
    <3>1. Cardinality(Live \ seen) \in Nat
      BY <1>2, RunningFinite, FS_Subset, FS_CardinalityType
    <3>2. MiscountFaults(seen) \in {1, Cardinality(Live \ seen)}
      BY DEF MiscountFaults
    <3>3. 1 \in Nat
      BY SMT
    <3> QED
      BY <1>2, <3>1, <3>2, <3>3, KeptNumber
  <2>2. Cardinality(kept) + MiscountFaults(seen) \in Nat
    BY SMT, <2>1
  <2> QED
    BY <1>1, <1>2, <2>2, FailType, ClosedType
<1>4. Data' /\ Running' \in SUBSET Running /\ Running' \in SUBSET seen
  <2>1. \A r \in PoleRec : /\ [r EXCEPT !.by = None] \in PoleRec
                           /\ [r EXCEPT !.by = None].by = None
                           /\ [r EXCEPT !.by = None].st = r.st
    BY DEF PoleRec
  <2>2. ASSUME NEW p \in Polecats
        PROVE  /\ pole'[p] \in PoleRec /\ pole'[p].st = pole[p].st
               /\ pole'[p].by \in Dispatchers /\ p \in Live => p \in seen /\ pole'[p] = pole[p]
    <3>1. pole[p] \in PoleRec /\ pole'[p] = IF p \in Live \ seen
                                           THEN [pole[p] EXCEPT !.by = None] ELSE pole[p]
      BY <1>1, <1>2 DEF Data
    <3>2. None \notin Dispatchers
      BY SchedulerAssumption DEF Slings
    <3> QED
      BY <2>1, <3>1, <3>2
  <2>3. pole' \in [Polecats -> PoleRec]
    BY <1>1, <2>2
  <2>4. \A p \in Running' : p \in Running /\ p \in seen
    BY <2>2 DEF Running, Live
  <2> QED
    BY <1>2, <1>3, <2>3, <2>4 DEF Data
<1> DEFINE capacity == MaxPolecats - Cardinality(seen)
           plan == PlanDispatch(capacity, ctx')
           j == [job[d] EXCEPT !.pc = "run", !.plan = plan]
<1>5. /\ MaxPolecats \in Nat /\ Cardinality(seen) \in Nat /\ Cardinality(Running') \in Nat
      /\ Cardinality(Running') <= Cardinality(seen)
      /\ Cardinality(Running') <= MaxPolecats
  <2>1. IsFiniteSet(seen)
    BY <1>2, RunningFinite, FS_Subset
  <2>2. /\ MaxPolecats \in Nat /\ Cardinality(seen) \in Nat /\ Cardinality(Running') \in Nat
        /\ Cardinality(Running) \in Nat
        /\ Cardinality(Running') <= Cardinality(seen)
        /\ Cardinality(Running') <= Cardinality(Running)
    BY <1>4, <2>1, RunningFinite, FS_Subset, FS_CardinalityType, SchedulerAssumption
  <2>3. Cardinality(Running) <= MaxPolecats
    BY DEF CapInv, Room
  <2> QED
    BY SMT, <2>2, <2>3
<1>6. capacity \in Int
  BY SMT, <1>5
<1>7. plan \in Seq(Entries) /\ Len(plan) \in Nat /\ Len(plan) <= IF capacity < 0 THEN 0 ELSE capacity
  BY <1>3, <1>6, PlanFits
<1>8. job[d] \in Jobs /\ job \in [Slings -> Jobs] /\ \A r \in Slings : Ready(job[r])
  BY <1>2 DEF CapInv, Planned
<1>9. job' = [job EXCEPT ![d] = j]
  BY <1>1, <1>2, <1>8
<1> HIDE DEF plan
<1>10. j \in Jobs /\ j.pc = "run" /\ j.plan = plan
  BY <1>7, <1>8 DEF Jobs, JobStates
<1> HIDE DEF j
<1>11. Ready(j) /\ Due(j) = Len(plan)
  BY <1>10 DEF Ready, Due
<1>12. \A r \in Slings : job'[r] = IF r = d THEN j ELSE job[r]
  BY <1>8, <1>9
<1>13. Planned'
  <2>1. job' \in [Slings -> Jobs]
    BY <1>8, <1>9, <1>10
  <2>2. \A r \in Slings : Ready(job'[r])
    BY <1>8, <1>11, <1>12
  <2> QED
    BY <2>1, <2>2 DEF Planned, Ready
<1>14. OneCycle'
  BY <1>2, <1>12 DEF OneCycle, Slings
<1>15. ASSUME NEW e \in Dispatchers PROVE Cardinality(Running') + Due(job'[e]) <= MaxPolecats
  <2>1. e \in Slings
    BY DEF Slings
  <2>2. CASE e = d
    <3>1. Due(job'[e]) = Len(plan)
      BY <1>11, <1>12, <2>1, <2>2
    <3> QED
      BY SMT, <1>5, <1>7, <3>1
  <2>3. CASE e # d
    <3>1. job'[e].pc = "idle"
      BY <1>2, <1>12, <2>1, <2>3
    <3>2. Due(job'[e]) = 0
      BY <3>1 DEF Due
    <3> QED
      BY SMT, <1>5, <3>2
  <2> QED
    BY <2>2, <2>3
<1> HIDE DEF Running, Due
<1>16. Room'
  BY <1>5, <1>15 DEF Room
<1> QED
  BY <1>4, <1>13, <1>14, <1>16 DEF CapInv

\* Closing the context of a dispatched bead goes on to the next entry.
LEMMA DispatchClosesStep ==
    ASSUME CapInv, NEW d \in Dispatchers, DispatchCloses(d)
    PROVE  CapInv'
<1>1. job[d].pc = "close" /\ UNCHANGED <<bead, pole, paused, client, witness, misled>>
      /\ Data /\ d \in Slings /\ 1 \in Nat
  BY DEF DispatchCloses, CapInv, Slings
<1>2. job[d] \in Jobs /\ job[d].plan # <<>>
  BY <1>1, JobOf DEF Ready
<1>3. /\ ctx' \in [Contexts -> CtxRec] /\ faults' \in 0..MaxFaults
      /\ \E b \in BOOLEAN : job' = [job EXCEPT ![d] = Advance(job[d], b)]
  <2>1. CASE /\ ctx' = Closed({Entry(d).ctx})
             /\ \E counted \in BOOLEAN : job' = [job EXCEPT ![d] = Advance(job[d], counted)]
             /\ UNCHANGED faults
    BY <1>1, <2>1, ClosedType DEF Data
  <2>2. CASE RecordFailure(d, 1) /\ job' = [job EXCEPT ![d] = Advance(job[d], FALSE)]
    BY <1>1, <1>2, <2>2, RecordFailureType
  <2> QED
    BY <2>1, <2>2 DEF DispatchCloses
<1>4. Data'
  BY <1>1, <1>3 DEF Data
<1>5. Running' \in SUBSET Running
  BY <1>1, PoleStep
<1>6. PICK b \in BOOLEAN : job' = [job EXCEPT ![d] = Advance(job[d], b)]
  BY <1>3
<1>7. Moves(d, Advance(job[d], b))
  BY <1>1, <1>2, EndMoves
<1> QED
  BY <1>1, <1>4, <1>5, <1>6, <1>7, JobStep

\* A cycle that ends has nothing left to start.
LEMMA DispatchEndsStep ==
    ASSUME CapInv, NEW d \in Dispatchers, DispatchEnds(d) \/ DispatchSaves(d)
    PROVE  CapInv'
<1>1. UNCHANGED <<ctx, bead, pole, client, witness, faults, misled>> /\ Data /\ d \in Slings
  BY DEF DispatchEnds, DispatchSaves, CapInv, Slings
<1>2. job[d] \in Jobs /\ Due(job[d]) \in Nat
  BY <1>1, JobOf
<1>3. paused' \in BOOLEAN
  BY <1>1, <1>2 DEF DispatchEnds, DispatchSaves, Data, Jobs
<1>4. Data' /\ Running' \in SUBSET Running
  BY <1>1, <1>3 DEF Data, Running, Live
<1> DEFINE j == [Resting EXCEPT !.pc = "save", !.seen = paused]
<1>5. \/ job' = [job EXCEPT ![d] = Resting]
      \/ job[d].pc # "idle" /\ job' = [job EXCEPT ![d] = j]
  BY DEF DispatchEnds, DispatchSaves
<1>6. j \in Jobs /\ j.pc = "save"
  BY <1>1, RestingType DEF Data, Jobs, JobStates
<1> HIDE DEF j
<1>7. Ready(j) /\ Due(j) = 0
  BY <1>6 DEF Ready, Due
<1>8. job[d].pc # "idle" => Moves(d, j)
  BY SMT, <1>2, <1>7 DEF Moves
<1> QED
  BY <1>1, <1>4, <1>5, <1>8, EndMoves, JobStep

\* A process that is killed starts nothing any more.
LEMMA KilledStep ==
    ASSUME CapInv, NEW q \in Slings, Killed(q)
    PROVE  CapInv'
<1>1. UNCHANGED <<ctx, bead, pole, paused, client, witness, misled>> /\ Data /\ Fail(1) /\ 1 \in Nat
      /\ job' = [job EXCEPT ![q] = IF q \in Dispatchers THEN Resting ELSE Done]
  BY DEF Killed, CapInv
<1>2. Data'
  BY <1>1, FailType DEF Data
<1>3. Running' \in SUBSET Running
  BY <1>1, PoleStep
<1> QED
  BY <1>1, <1>2, <1>3, EndMoves, JobStep

\* A polecat that claims, finishes or is gone adds none to the running.
LEMMA PolecatStep ==
    ASSUME CapInv, NEW p \in Polecats, PolecatClaims(p) \/ PolecatFinishes(p) \/ PolecatGone(p)
    PROVE  CapInv'
<1> DEFINE b == pole[p].hook
<1>1. UNCHANGED <<ctx, paused, client, job, witness, faults, misled>> /\ Data
  BY DEF PolecatClaims, PolecatFinishes, PolecatGone, CapInv
<1>2. pole' \in [Polecats -> PoleRec] /\ Running' \in SUBSET Running
  <2>1. pole' = pole \/ pole' = [pole EXCEPT ![p] = Free]
    BY DEF PolecatClaims, PolecatFinishes, PolecatGone
  <2> QED
    BY <1>1, <2>1, RecordTypes, PoleStep
<1>3. bead' \in [Beads -> BeadRec]
  <2>1. \/ bead' = bead
        \/ bead' = [bead EXCEPT ![b] = [st |-> "closed", who |-> None]]
        \/ bead' = [bead EXCEPT ![b] = [bead[b] EXCEPT !.st = "in_progress"]]
    BY DEF PolecatClaims, PolecatFinishes, PolecatGone
  <2>2. \A r \in BeadRec : [r EXCEPT !.st = "in_progress"] \in BeadRec
    BY DEF BeadRec
  <2> HIDE DEF b
  <2> QED
    BY SMT, <1>1, <2>1, <2>2, RecordTypes DEF Data
<1>4. Data'
  BY <1>1, <1>2, <1>3 DEF Data
<1> QED
  BY <1>1, <1>2, <1>4, OthersStep

\* The witness resets beads and starts nothing.
LEMMA WitnessStep ==
    ASSUME CapInv, (\E b \in Beads : WitnessDecides(b)) \/ WitnessActs
    PROVE  CapInv'
<1>1. UNCHANGED <<ctx, pole, paused, client, job>> /\ Data /\ Running' \in SUBSET Running
  BY DEF WitnessDecides, WitnessActs, CapInv, Running, Live
<1>2. CASE \E b \in Beads : WitnessDecides(b)
  <2>1. witness' \in [bead : Beads, who : Polecats] /\ UNCHANGED <<bead, faults, misled>>
    BY SMT, <1>2 DEF WitnessDecides
  <2>2. Data'
    BY <1>1, <2>1 DEF Data
  <2> QED
    BY <1>1, <2>2, OthersStep
<1>3. CASE WitnessActs
  <2>1. witness # Watching /\ witness' = Watching /\ 1 \in Nat
        /\ misled' \in {misled, misled \cup {witness.bead}}
        /\ (faults' = faults \/ Fail(1))
        /\ \/ bead' = bead \/ bead' = [bead EXCEPT ![witness.bead] = Unhooked]
           \/ bead' = [bead EXCEPT ![witness.bead] = [st |-> "closed", who |-> None]]
    BY <1>3 DEF WitnessActs
  <2>2. witness.bead \in Beads
    BY <1>1, <2>1 DEF Data
  <2>3. bead' \in [Beads -> BeadRec]
    BY <1>1, <2>1, <2>2, RecordTypes DEF Data
  <2>4. faults' \in 0..MaxFaults
    BY <1>1, <2>1, FailType DEF Data
  <2>5. Data'
    BY <1>1, <2>1, <2>2, <2>3, <2>4 DEF Data
  <2> QED
    BY <1>1, <2>5, OthersStep
<1> QED
  BY <1>2, <1>3

-----------------------------------------------------------------------------
(* The theorems.                                                           *)

\* Nothing runs and nothing is planned at the start.
LEMMA CapInit == Init => CapInv
<1> SUFFICES ASSUME Init PROVE CapInv
  OBVIOUS
<1>1. Data
  <2>1. [bead |-> None, st |-> "none", fails |-> 0] \in CtxRec
    BY SMT, LimitType DEF CtxRec
  <2>2. ctx \in [Contexts -> CtxRec] /\ bead \in [Beads -> BeadRec]
        /\ pole \in [Polecats -> PoleRec] /\ client \in [Clients -> ClientRec]
    BY <2>1, RecordTypes DEF Init
  <2>3. paused \in BOOLEAN
    BY Zenon DEF Init
  <2>4. faults \in 0..MaxFaults
    BY SMT, SchedulerAssumption DEF Init
  <2>5. witness = Watching /\ misled = {}
    BY DEF Init
  <2> QED
    BY <2>2, <2>3, <2>4, <2>5 DEF Data
<1>2. /\ job \in [Slings -> Jobs] /\ \A q \in Slings : job[q] = Resting
  BY RestingType DEF Init
<1>3. Ready(Resting) /\ Due(Resting) = 0 /\ Resting.pc = "idle"
  BY RestingType DEF Ready, Due
<1>4. Planned
  BY <1>2, <1>3 DEF Planned
<1>5. OneCycle
  BY <1>2, <1>3 DEF OneCycle, Slings
<1>6. Room
  <2>1. Running = {}
    <3>1. \A p \in Polecats : pole[p].st = "none"
      BY DEF Init, Free
    <3> QED
      BY <3>1 DEF Running, Live
  <2>2. Cardinality(Running) = 0 /\ MaxPolecats \in Nat
    BY <2>1, FS_EmptySet, SchedulerAssumption
  <2>3. \A d \in Dispatchers : Due(job[d]) = 0
    BY <1>2, <1>3 DEF Slings
  <2> HIDE DEF Running, Due
  <2> QED
    BY SMT, <2>2, <2>3 DEF Room
<1> QED
  BY <1>1, <1>4, <1>5, <1>6 DEF CapInv

\* Every step keeps the invariant; it rests on the one of OneWorker.
LEMMA CapNext == Inv /\ CapInv /\ [Next]_vars => CapInv'
<1> SUFFICES ASSUME Inv, CapInv, [Next]_vars PROVE CapInv'
  OBVIOUS
<1>1. CASE \E k \in Clients : Schedule(k)
  BY <1>1, ScheduleStep
<1>2. CASE (\E b \in Beads : Clear({b})) \/ Clear(Beads)
  BY <1>2, ClearStep
<1>3. CASE \E f \in BOOLEAN : SetPaused(f)
  BY <1>3, PauseStep
<1>4. CASE \E q \in Slings : Sling(q) \/ Killed(q)
  BY <1>4, SpawnStep, RefusedStep, HookStep, StartStep, KilledStep DEF Sling
<1>5. CASE \E d \in Dispatchers : Dispatch(d)
  BY <1>5, DispatchStartsStep, DispatchClosesStep, DispatchEndsStep DEF Dispatch
<1>6. CASE \E q \in Slingers, b \in Beads : DirectSling(q, b)
  BY <1>6, DirectStep
<1>7. CASE \E p \in Polecats : PolecatClaims(p) \/ PolecatFinishes(p) \/ PolecatGone(p)
  BY <1>7, PolecatStep
<1>8. CASE (\E b \in Beads : WitnessDecides(b)) \/ WitnessActs
  BY <1>8, WitnessStep
<1>9. CASE (\E b \in Beads : RespawnReset(b)) \/ UNCHANGED vars
  <2>1. Data' /\ job' = job /\ Running' \in SUBSET Running
    BY <1>9 DEF RespawnReset, vars, CapInv, Data, Running, Live
  <2> QED
    BY <2>1, OthersStep
<1> QED
  BY <1>1, <1>2, <1>3, <1>4, <1>5, <1>6, <1>7, <1>8, <1>9, Zenon DEF Next

\* However clients, clears, dispatch cycles, direct slings, kills, polecats and
\* the witness interleave: the variables have their types, one dispatch cycle runs
\* at a time, and the polecats its plan may still start fit in beside those that
\* earlier entries and cycles have running.
THEOREM CapacityInvariant == Spec => []CapInv
  BY CapInit, CapNext, SchedulerInvariant, PTL DEF Spec

\* Only beads are counted as respawned.
SpentType == spent \subseteq Beads

\* So it stays.
LEMMA SpentNext == SpentType /\ [Next]_vars => SpentType'
<1> SUFFICES ASSUME spent \subseteq Beads, [Next]_vars PROVE spent' \subseteq Beads
  BY DEF SpentType
<1>1. ASSUME NEW b, RecordBeadRespawn(b) PROVE spent' \subseteq Beads
  BY <1>1, SchedulerAssumption DEF RecordBeadRespawn
<1>2. ASSUME NEW b, CountRespawn(b) PROVE spent' \subseteq Beads
  BY <1>1, <1>2 DEF CountRespawn
<1>3. ASSUME NEW q \in Slings, Sling(q) \/ Killed(q) PROVE spent' \subseteq Beads
  BY <1>2, <1>3 DEF Sling, SlingSpawns, SlingRefused, SlingHooks, SlingStarts, Killed
<1>4. CASE WitnessActs
  BY <1>1, <1>4 DEF WitnessActs
<1>5. CASE \E b \in Beads : RespawnReset(b)
  BY <1>5 DEF RespawnReset
<1>6. CASE \/ \E k \in Clients : Schedule(k)
           \/ \E b \in Beads : Clear({b})
           \/ Clear(Beads)
           \/ \E f \in BOOLEAN : SetPaused(f)
           \/ \E q \in Slingers, b \in Beads : DirectSling(q, b)
  BY <1>6 DEF Schedule, ScheduleChecks, ScheduleCreates, ScheduleConvoy, Clear, SetPaused, DirectSling
<1>7. CASE \E d \in Dispatchers : Dispatch(d)
  BY <1>7 DEF Dispatch, DispatchStarts, DispatchCloses, DispatchEnds, DispatchSaves
<1>8. CASE \/ \E p \in Polecats : PolecatClaims(p) \/ PolecatFinishes(p) \/ PolecatGone(p)
           \/ \E b \in Beads : WitnessDecides(b)
           \/ UNCHANGED vars
  BY <1>8 DEF PolecatClaims, PolecatFinishes, PolecatGone, WitnessDecides, vars
<1> QED
  BY <1>3, <1>4, <1>5, <1>6, <1>7, <1>8, Zenon DEF Next

\* Type correctness of the scheduler: contexts, beads, polecats and plans stay
\* well formed, and recordDispatchFailure never counts past the failure limit,
\* whatever that limit is.
THEOREM SchedulerTypeOK == Spec => []TypeOK
<1>1. CapInv /\ SpentType => TypeOK
  <2> SUFFICES ASSUME CapInv, spent \subseteq Beads PROVE TypeOK
    BY DEF SpentType
  <2>1. Data /\ Planned
    BY DEF CapInv
  <2>2. /\ ctx \in [Contexts -> [bead : Beads \cup {None}, st : {"none", "open", "closed"},
                                 fails : 0..maxDispatchFailures]]
        /\ client \in [Clients -> [pc : {"idle", "create", "convoy"},
                                   bead : Beads \cup {None}, ctx : Contexts \cup {0}]]
    BY <2>1 DEF Data, CtxRec, ClientRec
  <2>3. witness \in [bead : Beads \cup {None}, who : Polecats \cup {None}]
    BY SMT, <2>1 DEF Data, Watching
  <2>4. ASSUME NEW q \in Slings
        PROVE  /\ job[q].pc \in {"idle", "run", "hook", "start", "close", "save", "done"}
               /\ job[q].pole \in Polecats \cup {0}
               /\ \A i \in DOMAIN job[q].plan : job[q].plan[i].bead \in Beads
    <3>1. job[q] \in Jobs
      BY <2>1 DEF Planned
    <3>2. job[q].plan \in Seq(Entries) /\ job[q].pc \in JobStates /\ job[q].pole \in Polecats \cup {0}
      BY <3>1 DEF Jobs
    <3>3. \A i \in DOMAIN job[q].plan : job[q].plan[i] \in Entries
      BY SMT, <3>2
    <3> QED
      BY <3>2, <3>3 DEF JobStates, Entries
  <2> QED
    BY <2>1, <2>2, <2>3, <2>4 DEF Data, BeadRec, PoleRec, TypeOK
<1>2. Init => SpentType
  BY DEF Init, SpentType
<1> QED
  BY <1>1, <1>2, SpentNext, CapacityInvariant, PTL DEF Spec

\* Dispatch cycles never have more polecats running than scheduler.max_polecats
\* (AvailableCapacity, PlanDispatch, dispatchScheduledWork), for every
\* max_polecats and batch_size, whatever is killed or slung directly meanwhile,
\* but for the polecats that countWorkingPolecats did not see.
THEOREM SchedulerCapacityHeld == Spec => []CapacityHeld
<1>1. CapInv => CapacityHeld
  BY DEF CapInv, Room, Running, CapacityHeld
<1> QED
  BY <1>1, CapacityInvariant, PTL
=============================================================================
