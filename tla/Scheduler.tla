------------------------------ MODULE Scheduler ------------------------------
(***************************************************************************)
(* The capacity scheduler: `gt sling` in deferred mode opens a sling       *)
(* context for a work bead (scheduleBead), and every heartbeat of the      *)
(* daemon, or an operator, runs a dispatch cycle (dispatchScheduledWork):  *)
(* close the stale contexts, plan what fits the free polecat slots, and    *)
(* for each planned bead spawn a polecat, hook the bead to it, start its   *)
(* session (executeSling) and close the context.  A failed attempt is      *)
(* counted in the context, which is given up at the third failure.  Beside *)
(* them run polecats that finish or die, a witness that reopens the beads  *)
(* of dead polecats, and slings that do not go through the scheduler.      *)
(*                                                                         *)
(* Contexts are numbered in the order of their creation, which is the      *)
(* order of enqueued_at; polecats in the order of the name pool.           *)
(***************************************************************************)
EXTENDS Integers, Sequences, FiniteSets

CONSTANTS Beads,        \* the work beads
          Foreign,      \* those whose prefix is not the target rig's
          Clients,      \* processes running `gt sling` in deferred mode
          Dispatchers,  \* processes running `gt scheduler run`
          Slingers,     \* processes that call executeSling directly, once each
          None,
          MaxContexts,  \* bound: sling contexts ever created
          NumPolecats,  \* bound: names in the polecat pool
          MaxPolecats,  \* scheduler.max_polecats
          BatchSize,    \* scheduler.batch_size
          maxDispatchFailures,  \* failures that break a context: 3 in the code
          Capped,       \* bound: beads whose respawns may reach the limit
          MaxFaults     \* bound: killed processes, failed bd and tmux calls

Contexts == 1..MaxContexts
Polecats == 1..NumPolecats
Slings == Dispatchers \cup Slingers

ASSUME SchedulerAssumption ==
    /\ Foreign \subseteq Beads /\ Capped \subseteq Beads
    /\ Dispatchers \cap Slingers = {}
    /\ None \notin Beads \cup Slings
    /\ {MaxContexts, NumPolecats, MaxFaults} \subseteq Nat
    /\ {MaxPolecats, BatchSize, maxDispatchFailures} \subseteq Nat \ {0}

VARIABLES ctx,      \* per context: its bead, state and dispatch_failures
          bead,     \* per work bead: status and assignee
          pole,     \* per polecat: session, hooked bead and who started it (by:
                    \* history, None once a dispatch cycle did not count it)
          paused,   \* the flag in scheduler-state.json
          client,   \* per client: where its scheduleBead is
          job,      \* per sling process: where it is, its plan, its polecat
          witness,  \* the bead and dead polecat the witness has decided about
          spent,    \* beads whose respawn count has reached the limit
          faults,
          \* history, read by the properties only:
          misled    \* beads the witness reopened after they got a new polecat

vars == <<ctx, bead, pole, paused, client, job, witness, spent, faults, misled>>

\* A closed context: nobody reads its fields again.
Gone == [bead |-> None, st |-> "closed", fails |-> 0]
Free == [st |-> "none", hook |-> None, by |-> None]
Unhooked == [st |-> "open", who |-> None]
Resting == [pc |-> "idle", plan |-> <<>>, pole |-> 0, did |-> FALSE, seen |-> FALSE]
Away == [pc |-> "idle", bead |-> None, ctx |-> 0]
Watching == [bead |-> None, who |-> None]

Init ==
    /\ ctx = [c \in Contexts |-> [bead |-> None, st |-> "none", fails |-> 0]]
    /\ bead = [b \in Beads |-> Unhooked]
    /\ pole = [p \in Polecats |-> Free]
    /\ paused = FALSE
    /\ client = [c \in Clients |-> Away]
    /\ job = [q \in Slings |-> Resting]
    /\ witness = Watching
    /\ spent = {}
    /\ faults = 0
    /\ misled = {}

\* n bd calls fail.
Fail(n) == faults + n <= MaxFaults /\ faults' = faults + n

Open == {c \in Contexts : ctx[c].st = "open"}
Closed(S) == [c \in Contexts |-> IF c \in S THEN Gone ELSE ctx[c]]
Live == {p \in Polecats : pole[p].st = "live"}

-----------------------------------------------------------------------------
(* scheduleBead *)

\* getBeadInfo and FindOpenSlingContext: nothing to do when a context is open,
\* refused when the bead is already taken.
ScheduleChecks(k, b) ==
    /\ client[k].pc = "idle"
    /\ \E c \in Contexts : ctx[c].st = "none"
    /\ \A c \in Open : ctx[c].bead # b
    /\ bead[b].st \notin {"hooked", "in_progress"}
    /\ client' = [client EXCEPT ![k] = [Away EXCEPT !.pc = "create", !.bead = b]]
    /\ UNCHANGED <<ctx, bead, pole, paused, job, witness, spent, faults, misled>>

\* CreateSlingContext.  Nothing repeats the check, so two clients may each
\* open a context for the same bead.
ScheduleCreates(k) ==
    /\ client[k].pc = "create"
    /\ \E c \in Contexts :
         /\ ctx[c].st = "none"
         /\ \A d \in 1..(c - 1) : ctx[d].st # "none"
         /\ ctx' = [ctx EXCEPT ![c] = [bead |-> client[k].bead,
                                       st |-> "open", fails |-> 0]]
         /\ client' = [client EXCEPT ![k].pc = "convoy", ![k].ctx = c]
    /\ UNCHANGED <<bead, pole, paused, job, witness, spent, faults, misled>>

\* createAutoConvoy, then the client writes the fields it built when it
\* created the context: dispatch_failures goes back to 0.  The write is
\* skipped when the bead is already tracked or the convoy cannot be created.
ScheduleConvoy(k) ==
    /\ client[k].pc = "convoy"
    /\ \/ UNCHANGED ctx
       \/ ctx' = [ctx EXCEPT ![client[k].ctx].fails = 0]
    /\ client' = [client EXCEPT ![k] = Away]
    /\ UNCHANGED <<bead, pole, paused, job, witness, spent, faults, misled>>

\* gt scheduler clear, with or without --bead: close every open context of
\* the beads in B, but for the closes that fail.
Clear(B) ==
    LET mine == {c \in Open : ctx[c].bead \in B}
    IN /\ \E kept \in SUBSET mine :
            /\ kept # mine
            /\ Fail(Cardinality(kept))
            /\ ctx' = Closed(mine \ kept)
       /\ UNCHANGED <<bead, pole, paused, client, job, witness, spent, misled>>

\* gt scheduler pause and resume.
SetPaused(f) ==
    /\ paused # f
    /\ paused' = f
    /\ UNCHANGED <<ctx, bead, pole, client, job, witness, spent, faults, misled>>

-----------------------------------------------------------------------------
(* executeSling: the part a dispatch cycle and a direct sling share *)

\* The entry of the plan that q is at.
Entry(q) == Head(job[q].plan)
Target(q) == Entry(q).bead

\* tryAcquireSlingBeadLock: the flock is held from the guards to the end.
BeadLocked(b) ==
    \E q \in Slings : job[q].pc \in {"hook", "start"} /\ Target(q) = b

\* A mutant: the assignee's session is not looked at.
SlingableForced(b) == ~BeadLocked(b) /\ bead[b].st # "closed"

\* The guards: a closed bead is refused, a taken one too unless the session
\* of its assignee is dead.
Slingable(b) ==
    /\ ~BeadLocked(b)
    /\ bead[b].st # "closed"
    /\ bead[b].st \in {"hooked", "in_progress"} =>
         bead[b].who \in Polecats /\ pole[bead[b].who].st # "live"

\* Validate, which only a dispatch cycle calls: the cross-rig prefix guard.
Valid(q) == q \in Dispatchers => Target(q) \notin Foreign

\* What follows a successful sling and a failed one: a direct sling is over,
\* a dispatch cycle closes the context or records the failure.
Done == [Resting EXCEPT !.pc = "done"]
Advance(j, counted) == [Resting EXCEPT !.pc = "run", !.plan = Tail(j.plan),
                                       !.did = j.did \/ counted]

\* recordDispatchFailure: the count read when the cycle was planned plus one
\* is written back, and at the limit the context is closed.  Either bd call
\* may fail, after the `before` calls that failed already.
RecordFailure(q, before) ==
    LET e == Entry(q)
        n == e.fails + 1
    IN \E stored, closed \in BOOLEAN :
         /\ closed => n >= maxDispatchFailures
         /\ Fail(before + (IF stored THEN 0 ELSE 1)
                         + (IF n >= maxDispatchFailures /\ ~closed THEN 1 ELSE 0))
         /\ ctx' = [ctx EXCEPT ![e.ctx] =
                      IF closed \/ @.st = "closed" THEN Gone
                      ELSE IF stored THEN [@ EXCEPT !.fails = n] ELSE @]

SlingFailed(q) ==
    IF q \in Dispatchers
    THEN RecordFailure(q, 0) /\ job' = [job EXCEPT ![q] = Advance(@, FALSE)]
    ELSE /\ job' = [job EXCEPT ![q] = Done]
         /\ UNCHANGED <<ctx, faults>>

SlingSucceeded(q) ==
    job' = [job EXCEPT ![q] = IF q \in Dispatchers THEN [@ EXCEPT !.pc = "close"]
                                                   ELSE Done]

\* ShouldBlockRespawn and RecordBeadRespawn: the respawn count of a bead lives in
\* a file, and any respawn recorded may be the one that reaches the limit.
RecordBeadRespawn(b) ==
    b \notin spent /\ spent' \in {spent, spent \cup ({b} \cap Capped)}

\* A taken bead, whose polecat is dead, is slung with Force: nothing is counted.
CountRespawn(b) == IF bead[b].st = "open" THEN RecordBeadRespawn(b) ELSE UNCHANGED spent

\* The guards pass and a polecat is spawned: a free name of the pool, whose
\* agent bead points at the work bead from the start.
SlingSpawns(q) ==
    /\ job[q].pc = "run"
    /\ job[q].plan # <<>>
    /\ Valid(q)
    /\ Slingable(Target(q))
    /\ CountRespawn(Target(q))
    /\ \E p \in Polecats :
         /\ pole[p].st = "none"
         /\ \A r \in 1..(p - 1) : pole[r].st # "none"
         /\ pole' = [pole EXCEPT ![p] = [st |-> "spawned", hook |-> Target(q),
                                         by |-> q]]
         /\ job' = [job EXCEPT ![q].pc = "hook", ![q].pole = p]
    /\ UNCHANGED <<ctx, bead, paused, client, witness, faults, misled>>

\* Validate refuses a foreign bead, a guard or the respawn limit refuses this
\* one, or the spawn fails, after the respawn was counted.  When it is the formula
\* that fails, which only a dispatch cycle treats as fatal, the rollback also
\* unhooks the bead, which a dead polecat may still have held.
SlingRefused(q) ==
    /\ job[q].pc = "run"
    /\ job[q].plan # <<>>
    /\ SlingFailed(q)
    /\ \/ UNCHANGED <<bead, spent>>
       \/ /\ Valid(q) /\ Slingable(Target(q))
          /\ CountRespawn(Target(q))
          /\ \/ UNCHANGED bead
             \/ /\ q \in Dispatchers
                /\ bead' = [bead EXCEPT ![Target(q)] = Unhooked]
    /\ UNCHANGED <<pole, paused, client, witness, misled>>

\* hookBeadWithRetry.  It may also fail, with the hook written (the check
\* after the write failed) or not; the polecat is then removed.
SlingHooks(q) ==
    LET p == job[q].pole
        hooked == [bead EXCEPT ![Target(q)] = [st |-> "hooked", who |-> p]]
    IN /\ job[q].pc = "hook"
       /\ \/ /\ bead' = hooked
             /\ job' = [job EXCEPT ![q].pc = "start"]
             /\ UNCHANGED <<ctx, pole, faults>>
          \/ /\ bead' \in {bead, hooked}
             /\ pole' = [pole EXCEPT ![p] = Free]
             /\ SlingFailed(q)
       /\ UNCHANGED <<paused, client, witness, spent, misled>>

\* StartSession.  When it fails, rollbackSlingArtifacts unhooks the bead
\* (best effort) and removes the polecat.
SlingStarts(q) ==
    LET p == job[q].pole
    IN /\ job[q].pc = "start"
       /\ \/ /\ pole' = [pole EXCEPT ![p].st = "live"]
             /\ SlingSucceeded(q)
             /\ UNCHANGED <<ctx, bead, faults>>
          \/ /\ bead' \in {bead, [bead EXCEPT ![Target(q)] = Unhooked]}
             /\ pole' = [pole EXCEPT ![p] = Free]
             /\ SlingFailed(q)
       /\ UNCHANGED <<paused, client, witness, spent, misled>>

\* A batch sling, or one started before deferred mode was switched on.
DirectSling(q, b) ==
    /\ job[q].pc = "idle"
    /\ job' = [job EXCEPT ![q].pc = "run",
                          ![q].plan = <<[ctx |-> 0, bead |-> b, fails |-> 0]>>]
    /\ UNCHANGED <<ctx, bead, pole, paused, client, witness, spent, faults, misled>>

-----------------------------------------------------------------------------
(* dispatchScheduledWork *)

\* A mutant: the contexts at the failure limit are not closed.
StaleUnbroken == {c \in Open : bead[ctx[c].bead].st \in {"hooked", "closed"}}

\* cleanupStaleContexts: what it tries to close.
Stale == {c \in Open : \/ ctx[c].fails >= maxDispatchFailures
                       \/ bead[ctx[c].bead].st \in {"hooked", "closed"}}

\* A mutant: no circuit breaker filter.
PendingUnfiltered(cx) ==
    LET Eligible == {c \in Contexts : cx[c].st = "open" /\ bead[cx[c].bead].st = "open"}
    IN {c \in Eligible : \A e \in Eligible : cx[e].bead = cx[c].bead => c <= e}

\* getReadySlingContexts: below the failure limit, the bead ready, and of the
\* contexts of one bead the oldest.
Pending(cx) ==
    LET Eligible == {c \in Contexts : /\ cx[c].st = "open"
                                      /\ cx[c].fails < maxDispatchFailures
                                      /\ bead[cx[c].bead].st = "open"}
    IN {c \in Eligible : \A e \in Eligible : cx[e].bead = cx[c].bead => c <= e}

\* A mutant: the batch size alone bounds the plan.
PlanDispatchUncapped(capacity, cx) ==
    LET older(S, c) == Cardinality({e \in S : e < c})
        taken == {c \in Pending(cx) : older(Pending(cx), c) < BatchSize}
        nth(i) == CHOOSE c \in taken : older(taken, c) = i - 1
    IN [i \in 1..Cardinality(taken) |->
          [ctx |-> nth(i), bead |-> cx[nth(i)].bead, fails |-> cx[nth(i)].fails]]

\* PlanDispatch: the oldest min(capacity, batch size, ready).
PlanDispatch(capacity, cx) ==
    LET older(S, c) == Cardinality({e \in S : e < c})
        taken == {c \in Pending(cx) : /\ older(Pending(cx), c) < capacity
                                      /\ older(Pending(cx), c) < BatchSize}
        nth(i) == CHOOSE c \in taken : older(taken, c) = i - 1
    IN [i \in 1..Cardinality(taken) |->
          [ctx |-> nth(i), bead |-> cx[nth(i)].bead, fails |-> cx[nth(i)].fails]]

\* countWorkingPolecats counts the polecats in `seen`: one whose agent bead cannot
\* be read, or shows no hook, counts as idle, and a failing list-sessions as
\* nobody.  This is how many calls fail.
MiscountFaults(seen) ==
    IF seen = {} /\ Live # {} THEN 1 ELSE Cardinality(Live \ seen)

\* TryLock on scheduler-dispatch.lock (the cycle that is not idle holds it),
\* the pause flag, the cleanup, of which some closes may fail, and the plan:
\* AvailableCapacity counts the polecats at work now, and the plan keeps the
\* contexts as they are now.
DispatchStarts(d) ==
    /\ \A e \in Dispatchers : job[e].pc = "idle"
    /\ ~paused
    /\ \E kept \in SUBSET Stale, seen \in SUBSET Live :
         /\ Fail(Cardinality(kept) + MiscountFaults(seen))
         /\ ctx' = Closed(Stale \ kept)
         /\ job' = [job EXCEPT ![d].pc = "run",
                      ![d].plan = PlanDispatch(MaxPolecats - Cardinality(seen), ctx')]
         /\ pole' = [p \in Polecats |-> IF p \in Live \ seen
                                       THEN [pole[p] EXCEPT !.by = None] ELSE pole[p]]
    /\ UNCHANGED <<bead, paused, client, witness, spent, misled>>

\* OnSuccess closes the context, retried; if that fails, a last resort closes
\* it without counting the dispatch; if that fails too, the dispatch is
\* recorded as a failure of the context.
DispatchCloses(d) ==
    /\ job[d].pc = "close"
    /\ \/ /\ ctx' = Closed({Entry(d).ctx})
          /\ \E counted \in BOOLEAN :
               job' = [job EXCEPT ![d] = Advance(@, counted)]
          /\ UNCHANGED faults
       \/ /\ RecordFailure(d, 1)
          /\ job' = [job EXCEPT ![d] = Advance(@, FALSE)]
    /\ UNCHANGED <<bead, pole, paused, client, witness, spent, misled>>

\* The plan is done.  After a dispatch the state file is read afresh ...
DispatchEnds(d) ==
    /\ job[d].pc = "run"
    /\ job[d].plan = <<>>
    /\ job' = [job EXCEPT ![d] = IF @.did
                                 THEN [Resting EXCEPT !.pc = "save", !.seen = paused]
                                 ELSE Resting]
    /\ UNCHANGED <<ctx, bead, pole, paused, client, witness, spent, faults, misled>>

\* ... and written back, with the pause flag as it was read, unless that fails.
DispatchSaves(d) ==
    /\ job[d].pc = "save"
    /\ paused' \in {paused, job[d].seen}
    /\ job' = [job EXCEPT ![d] = Resting]
    /\ UNCHANGED <<ctx, bead, pole, client, witness, spent, faults, misled>>

\* The daemon kills a cycle after five minutes, and a process may die: the
\* locks go with it, the polecat and the hook stay.
Killed(q) ==
    /\ job[q].pc \notin {"idle", "done"}
    /\ Fail(1)
    /\ job' = [job EXCEPT ![q] = IF q \in Dispatchers THEN Resting ELSE Done]
    /\ UNCHANGED <<ctx, bead, pole, paused, client, witness, spent, misled>>

-----------------------------------------------------------------------------
(* The polecats and the witness *)

\* The agent claims its hooked bead.
PolecatClaims(p) ==
    LET b == pole[p].hook
    IN /\ pole[p].st = "live"
       /\ bead[b] = [st |-> "hooked", who |-> p]
       /\ bead' = [bead EXCEPT ![b].st = "in_progress"]
       /\ UNCHANGED <<ctx, pole, paused, client, job, witness, spent, faults, misled>>

\* The agent finishes: its bead is closed if it is still its own.
PolecatFinishes(p) ==
    LET b == pole[p].hook
    IN /\ pole[p].st = "live"
       /\ bead' = IF bead[b].who = p
                  THEN [bead EXCEPT ![b] = [st |-> "closed", who |-> None]]
                  ELSE bead
       /\ pole' = [pole EXCEPT ![p] = Free]
       /\ UNCHANGED <<ctx, paused, client, job, witness, spent, faults, misled>>

\* The session dies, or a polecat that a killed sling left behind is removed.
PolecatGone(p) ==
    /\ \/ pole[p].st = "live"
       \/ pole[p].st = "spawned" /\ \A q \in Slings : job[q].pole # p
    /\ pole' = [pole EXCEPT ![p] = Free]
    /\ UNCHANGED <<ctx, bead, paused, client, job, witness, spent, faults, misled>>

\* DetectOrphanedBeads and the status check of resetAbandonedBead: the bead is
\* taken and its polecat is gone.
WitnessDecides(b) ==
    /\ witness = Watching
    /\ bead[b].st \in {"hooked", "in_progress"}
    /\ bead[b].who \in Polecats /\ pole[bead[b].who].st = "none"
    /\ witness' = [bead |-> b, who |-> bead[b].who]
    /\ UNCHANGED <<ctx, bead, pole, paused, client, job, spent, faults, misled>>

\* resetAbandonedBead: the bead is closed if the polecat's commit is on the main
\* branch; left, with a SPAWN_BLOCKED mail, at the respawn limit; else the respawn
\* is counted and the bead reopened.  Either update may fail.  Nothing looks at
\* the bead again before it.
WitnessActs ==
    LET b == witness.bead
        late == bead[b].who # witness.who \/ pole[witness.who].hook = b
    IN /\ witness # Watching
       /\ \/ /\ bead' = [bead EXCEPT ![b] = [st |-> "closed", who |-> None]]
             /\ UNCHANGED <<spent, faults>>
          \/ UNCHANGED <<bead, spent>> /\ Fail(1)
          \/ b \in spent /\ UNCHANGED <<bead, spent, faults>>
          \/ /\ RecordBeadRespawn(b)
             /\ \/ bead' = [bead EXCEPT ![b] = Unhooked] /\ UNCHANGED faults
                \/ UNCHANGED bead /\ Fail(1)
       /\ misled' = IF late /\ bead' # bead THEN misled \cup {b} ELSE misled
       /\ witness' = Watching
       /\ UNCHANGED <<ctx, pole, paused, client, job>>

\* gt sling respawn-reset, what the mail asks the operator for.
RespawnReset(b) ==
    /\ b \in spent
    /\ spent' = spent \ {b}
    /\ UNCHANGED <<ctx, bead, pole, paused, client, job, witness, faults, misled>>

-----------------------------------------------------------------------------
Schedule(k) == (\E b \in Beads : ScheduleChecks(k, b)) \/ ScheduleCreates(k) \/ ScheduleConvoy(k)
Sling(q) == SlingSpawns(q) \/ SlingRefused(q) \/ SlingHooks(q) \/ SlingStarts(q)
Dispatch(d) == \/ DispatchStarts(d) \/ DispatchCloses(d)
               \/ DispatchEnds(d) \/ DispatchSaves(d)

Next ==
    \/ \E k \in Clients : Schedule(k)
    \/ \E b \in Beads : Clear({b})
    \/ Clear(Beads)
    \/ \E f \in BOOLEAN : SetPaused(f)
    \/ \E q \in Slings : Sling(q) \/ Killed(q)
    \/ \E d \in Dispatchers : Dispatch(d)
    \/ \E q \in Slingers, b \in Beads : DirectSling(q, b)
    \/ \E p \in Polecats : PolecatClaims(p) \/ PolecatFinishes(p) \/ PolecatGone(p)
    \/ \E b \in Beads : WitnessDecides(b)
    \/ WitnessActs
    \/ \E b \in Beads : RespawnReset(b)

Spec == Init /\ [][Next]_vars

\* The daemon starts a cycle at every heartbeat, a process that runs goes on,
\* polecats end their work, and every patrol of the witness goes through all the
\* beads.  Nobody has to schedule, clear, pause, resume, sling or reset a count.
Fairness ==
    /\ \A k \in Clients : WF_vars(ScheduleCreates(k) \/ ScheduleConvoy(k))
    /\ \A q \in Slings : WF_vars(Sling(q))
    /\ \A d \in Dispatchers : WF_vars(Dispatch(d))
    /\ \A p \in Polecats : WF_vars(PolecatFinishes(p) \/ PolecatGone(p))
    /\ \A b \in Beads : SF_vars(WitnessDecides(b))
    /\ WF_vars(WitnessActs)

FairSpec == Spec /\ Fairness

-----------------------------------------------------------------------------
\* Every variable has its shape.  The count of an open context stays within the
\* failure limit: the query leaves a context at the limit alone, even when no
\* close of it succeeds.
TypeOK ==
    /\ ctx \in [Contexts -> [bead : Beads \cup {None}, st : {"none", "open", "closed"},
                             fails : 0..maxDispatchFailures]]
    /\ bead \in [Beads -> [st : {"open", "hooked", "in_progress", "closed"},
                           who : Polecats \cup {None}]]
    /\ pole \in [Polecats -> [st : {"none", "spawned", "live"},
                              hook : Beads \cup {None}, by : Slings \cup {None}]]
    /\ paused \in BOOLEAN
    /\ client \in [Clients -> [pc : {"idle", "create", "convoy"},
                               bead : Beads \cup {None}, ctx : Contexts \cup {0}]]
    /\ \A q \in Slings :
         /\ job[q].pc \in {"idle", "run", "hook", "start", "close", "save", "done"}
         /\ job[q].pole \in Polecats \cup {0}
         /\ \A i \in DOMAIN job[q].plan : job[q].plan[i].bead \in Beads
    /\ witness \in [bead : Beads \cup {None}, who : Polecats \cup {None}]
    /\ spent \subseteq Beads
    /\ faults \in 0..MaxFaults
    /\ misled \subseteq Beads

\* Two polecats never work on one bead, however dispatch cycles, direct slings,
\* kills, rollbacks and the witness overlap: the per-bead lock and the guards of
\* executeSling let a bead go only when it is free or its polecat is dead.  The
\* one exception is a bead the witness reopened on a decision that a new sling
\* had overtaken.
OneWorker ==
    \A b \in Beads \ misled :
        Cardinality({p \in Live : pole[p].hook = b}) <= 1

\* Dispatch cycles never have more polecats running than scheduler.max_polecats,
\* the polecats left aside that a cycle did not count because tmux or bd failed it
\* (countWorkingPolecats takes them for idle): the capacity is counted once per
\* cycle, for a plan of several beads, but the dispatch lock keeps the next cycle
\* from counting before this one has started its last session.
CapacityHeld ==
    Cardinality({p \in Live : pole[p].by \in Dispatchers}) <= MaxPolecats

\* Every open context is closed in the end: dispatched, broken, stale or cleared.
\* No context blocks the ones behind it for good, whatever fails finitely often.
\* This needs two things of the operators: that they pause the scheduler no more
\* from some time on and leave it running, and that a bead at the respawn limit, which the
\* witness leaves in_progress behind a dead polecat and the cleanup of contexts
\* passes over, has its count reset.
EveryContextCloses ==
    /\ <>[](~paused)
    /\ \A b \in Capped : []<>(b \notin spent)
    => \A c \in Contexts : (ctx[c].st = "open") ~> (ctx[c].st = "closed")
=============================================================================
