-------------------------- MODULE Scheduler_proofs --------------------------
(***************************************************************************)
(* Two polecats never work on one bead, for any number of beads, contexts, *)
(* clients, dispatch cycles, direct slings, polecats and faults.           *)
(*                                                                         *)
(* OneWorker is not inductive.  What makes it so is that a working polecat *)
(* is the assignee of its bead (Own), that a sling between its guards and  *)
(* its end is alone with the bead (Lock, Alone), holds a polecat of its    *)
(* own (Holds), and from the hook on has the bead assigned to it (Start).  *)
(***************************************************************************)
EXTENDS Scheduler, FiniteSetTheorems, TLAPS

\* Zenon is the prover of every leaf that names no other.
USE Zenon

IsJob(j) ==
    \E pc, plan, p, did, seen :
        j = [pc |-> pc, plan |-> plan, pole |-> p, did |-> did, seen |-> seen]
IsBead(r) == \E st, who : r = [st |-> st, who |-> who]
IsPole(r) == \E st, hook, by : r = [st |-> st, hook |-> hook, by |-> by]

Shape ==
    /\ job = [q \in Slings |-> job[q]] /\ \A q \in Slings : IsJob(job[q])
    /\ bead = [b \in Beads |-> bead[b]] /\ \A b \in Beads : IsBead(bead[b])
    /\ pole = [p \in Polecats |-> pole[p]] /\ \A p \in Polecats : IsPole(pole[p])

Slinging(q) == job[q].pc \in {"hook", "start"}
Taken(b) == bead[b].st \in {"hooked", "in_progress"}

Holds ==
    \A q \in Slings : Slinging(q) =>
        /\ job[q].pole \in Polecats
        /\ pole[job[q].pole] = [st |-> "spawned", hook |-> Target(q), by |-> q]

Lock ==
    \A q, r \in Slings : Slinging(q) /\ Slinging(r) /\ Target(q) = Target(r) => q = r

Alone ==
    \A q \in Slings : Slinging(q) /\ Target(q) \in Beads \ misled =>
        \A p \in Polecats : pole[p].st = "live" => pole[p].hook # Target(q)

Start ==
    \A q \in Slings : job[q].pc = "start" /\ Target(q) \in Beads \ misled =>
        Taken(Target(q)) /\ bead[Target(q)].who = job[q].pole

Own ==
    \A p \in Polecats : pole[p].st = "live" /\ pole[p].hook \in Beads \ misled =>
        Taken(pole[p].hook) /\ bead[pole[p].hook].who = p

Inv == Shape /\ Holds /\ Lock /\ Alone /\ Start /\ Own

-----------------------------------------------------------------------------
\* At the start nothing is slung and no polecat runs.
LEMMA InitInv == Init => Inv
<1> SUFFICES ASSUME Init PROVE Inv
  OBVIOUS
<1>1. IsJob(Resting) /\ Resting.pc = "idle"
  BY DEF IsJob, Resting
<1>2. IsBead(Unhooked) /\ IsPole(Free) /\ Free.st = "none"
  BY DEF IsBead, IsPole, Unhooked, Free
<1>3. /\ job = [q \in Slings |-> Resting]
      /\ bead = [b \in Beads |-> Unhooked]
      /\ pole = [p \in Polecats |-> Free]
  BY DEF Init
<1>4. Shape
  BY <1>1, <1>2, <1>3 DEF Shape
<1>5. /\ \A q \in Slings : job[q].pc = "idle"
      /\ \A p \in Polecats : pole[p].st = "none"
  BY <1>1, <1>2, <1>3
<1> QED
  BY <1>4, <1>5 DEF Inv, Holds, Lock, Alone, Start, Own, Slinging

\* No polecat comes, goes or changes hands: at most a working one is forgotten to
\* have been started by a dispatch cycle.
SamePolecats ==
    /\ pole' = [p \in Polecats |-> pole'[p]]
    /\ \A p \in Polecats :
         \/ pole'[p] = pole[p]
         \/ /\ pole[p].st = "live" /\ IsPole(pole'[p])
            /\ pole'[p].st = "live" /\ pole'[p].hook = pole[p].hook

\* A step that leaves beads, polecats and the slings under way as they are
\* keeps the invariant.
LEMMA QuietInv ==
    ASSUME Inv, bead' = bead, SamePolecats, misled' = misled,
           job' = [q \in Slings |-> job'[q]], \A q \in Slings : IsJob(job'[q]),
           \A q \in Slings : job'[q].pc \in {"hook", "start"} => job'[q] = job[q]
    PROVE  Inv'
<1> USE DEF Inv
<1>1. Shape'
  <2>1. \A b \in Beads : IsBead(bead'[b])
    BY DEF Shape
  <2>2. \A p \in Polecats : IsPole(pole'[p])
    BY DEF Shape, SamePolecats
  <2> QED BY <2>1, <2>2, Zenon DEF Shape, IsJob, IsBead, IsPole, SamePolecats
<1>2. \A q \in Slings : Slinging(q)' =>
        job'[q] = job[q] /\ Slinging(q) /\ Target(q)' = Target(q)
  BY DEF Slinging, Target, Entry
<1>3. \A p \in Polecats :
        /\ pole[p].st # "live" => pole'[p] = pole[p]
        /\ pole'[p].st = "live" => pole[p].st = "live" /\ pole'[p].hook = pole[p].hook
  BY DEF SamePolecats
<1>4. Holds'
  <2> SUFFICES ASSUME NEW q \in Slings, Slinging(q)'
               PROVE  /\ job'[q].pole \in Polecats
                      /\ pole'[job'[q].pole]
                           = [st |-> "spawned", hook |-> Target(q)', by |-> q]
    BY DEF Holds
  <2>1. /\ job[q].pole \in Polecats
        /\ pole[job[q].pole] = [st |-> "spawned", hook |-> Target(q), by |-> q]
    BY <1>2, Zenon DEF Holds
  <2>2. pole[job[q].pole].st # "live"
    BY SMT, <2>1
  <2> QED BY <1>2, <1>3, <2>1, <2>2
<1>5. Lock' /\ Alone'
  BY SMT, <1>2, <1>3 DEF Lock, Alone
<1>6. Start'
  BY <1>2 DEF Start, Taken, Slinging
<1>7. Own'
  BY SMT, <1>3 DEF Own, Taken
<1> QED BY <1>1, <1>4, <1>5, <1>6, <1>7

\* Most steps leave every polecat exactly as it is.
LEMMA UnchangedPolecats == ASSUME Inv, pole' = pole PROVE SamePolecats
BY DEF Inv, Shape, SamePolecats

\* Advance moves a cycle on to the rest of its plan.
LEMMA AdvanceFacts ==
    ASSUME NEW j, NEW c
    PROVE  IsJob(Advance(j, c)) /\ Advance(j, c).pc = "run"
<1> DEFINE rest == Tail(j.plan)
           done == j.did \/ c
<1>1. Advance(j, c) = [Resting EXCEPT !.pc = "run", !.plan = rest, !.did = done]
  BY DEF Advance
<1> HIDE DEF rest, done
<1>2. Advance(j, c) = [pc |-> "run", plan |-> rest, pole |-> 0, did |-> done, seen |-> FALSE]
  BY <1>1 DEF Resting
<1>3. Advance(j, c).pc = "run"
  BY SMT, <1>2
<1>4. IsJob(Advance(j, c))
  BY <1>2, Zenon DEF IsJob
<1> QED
  BY <1>3, <1>4

\* A direct sling that has ended.
LEMMA DoneFacts == IsJob(Done) /\ Done.pc = "done"
<1> DEFINE none == <<>>
<1>0. Done = [[pc |-> "idle", plan |-> none, pole |-> 0, did |-> FALSE, seen |-> FALSE]
                EXCEPT !.pc = "done"]
  BY DEF Done, Resting
<1> HIDE DEF none
<1>1. Done = [pc |-> "done", plan |-> none, pole |-> 0, did |-> FALSE, seen |-> FALSE]
  BY <1>0
<1>2. IsJob(Done)
  BY <1>1, Zenon DEF IsJob
<1> QED
  BY <1>1, <1>2

\* A failed sling is over.
LEMMA SlingFailedFacts ==
    ASSUME Shape, NEW q \in Slings, SlingFailed(q)
    PROVE  /\ job' = [job EXCEPT ![q] = job'[q]]
           /\ IsJob(job'[q])
           /\ job'[q].pc \notin {"hook", "start"}
<1> USE DEF Shape
<1>1. CASE q \in Dispatchers
  <2>1. job' = [job EXCEPT ![q] = Advance(job[q], FALSE)]
    BY <1>1 DEF SlingFailed
  <2>2. IsJob(Advance(job[q], FALSE)) /\ Advance(job[q], FALSE).pc = "run"
    BY AdvanceFacts
  <2> QED BY <2>1, <2>2 DEF Slings
<1>2. CASE q \notin Dispatchers
  <2>1. job' = [job EXCEPT ![q] = Done]
    BY <1>2 DEF SlingFailed
  <2>2. IsJob(Done) /\ Done.pc = "done"
    BY DoneFacts
  <2> QED BY <2>1, <2>2 DEF Slings
<1> QED BY <1>1, <1>2

-----------------------------------------------------------------------------
\* Nobody but q is between the guards and the end of a sling of bead b, and no
\* polecat works on b.
NobodyElse(q, b) ==
    /\ \A r \in Slings \ {q} : Slinging(r) => Target(r) # b
    /\ b \in Beads \ misled =>
         \A p \in Polecats : pole[p].st = "live" => pole[p].hook # b

\* The lock and the assignee keep every other process off the bead of a sling
\* that is under way ...
LEMMA SlingingClear ==
    ASSUME Inv, NEW q \in Slings, Slinging(q)
    PROVE  NobodyElse(q, Target(q))
BY DEF Inv, Lock, Alone, NobodyElse

\* ... and off a bead that passes the guards.
LEMMA SlingableClear ==
    ASSUME Inv, NEW q \in Slings, NEW b, Slingable(b)
    PROVE  NobodyElse(q, b)
BY DEF Inv, Own, NobodyElse, Slingable, BeadLocked, Slinging, Taken

\* A sling that ends keeps the invariant: it changes no bead but its own, and
\* removes no polecat but its own.
LEMMA EndInv ==
    ASSUME Inv, NEW q \in Slings, NEW b, NEW p,
           job' = [job EXCEPT ![q] = job'[q]], IsJob(job'[q]),
           job'[q].pc \notin {"hook", "start"},
           \/ bead' = bead
           \/ /\ bead' = [bead EXCEPT ![b] = bead'[b]]
              /\ b \in Beads => IsBead(bead'[b])
              /\ NobodyElse(q, b),
           \/ pole' = pole
           \/ /\ pole' = [pole EXCEPT ![p] = Free]
              /\ \A r \in Slings \ {q} : Slinging(r) => job[r].pole # p,
           misled' = misled
    PROVE  Inv'
<1>1. IsPole(Free) /\ Free.st = "none"
  BY DEF IsPole, Free
<1> USE DEF Inv
<1>2. Shape'
  <2>1. job' = [r \in Slings |-> job'[r]] /\ \A r \in Slings : IsJob(job'[r])
    BY DEF Shape
  <2>2. bead' = [x \in Beads |-> bead'[x]] /\ \A x \in Beads : IsBead(bead'[x])
    BY DEF Shape
  <2>3. pole' = [x \in Polecats |-> pole'[x]] /\ \A x \in Polecats : IsPole(pole'[x])
    BY <1>1 DEF Shape
  <2> QED BY <2>1, <2>2, <2>3, Zenon DEF Shape, IsJob, IsBead, IsPole
<1>3. \A r \in Slings : Slinging(r)' =>
        /\ r # q
        /\ job'[r] = job[r] /\ Slinging(r) /\ Target(r)' = Target(r)
  BY DEF Slinging, Target, Entry, Shape
<1>4. \A x \in Polecats : pole'[x].st # "none" => pole'[x] = pole[x]
  BY <1>1 DEF Shape
<1>5. \A x \in Beads : bead'[x] # bead[x] => x = b /\ NobodyElse(q, b)
  BY DEF Shape
<1>6. Holds'
  BY SMT, <1>3 DEF Holds, Shape
<1>7. Lock'
  BY <1>3 DEF Lock
<1>8. Alone'
  BY SMT, <1>3, <1>4 DEF Alone
<1>9. Start'
  BY SMT, <1>3, <1>5 DEF Start, Taken, NobodyElse, Slinging
<1>10. Own'
  BY SMT, <1>4, <1>5 DEF Own, Taken, NobodyElse
<1> QED
  BY <1>2, <1>6, <1>7, <1>8, <1>9, <1>10

-----------------------------------------------------------------------------
\* The guards admit a bead nobody works on, and the polecat is a fresh one.
LEMMA SpawnInv == ASSUME Inv, NEW q \in Slings, SlingSpawns(q) PROVE Inv'
<1> USE DEF Inv
<1>1. PICK p \in Polecats :
        /\ pole[p].st = "none"
        /\ pole' = [pole EXCEPT ![p] = [st |-> "spawned", hook |-> Target(q), by |-> q]]
        /\ job' = [job EXCEPT ![q].pc = "hook", ![q].pole = p]
  BY DEF SlingSpawns
<1>2. bead' = bead /\ misled' = misled /\ NobodyElse(q, Target(q))
  BY SlingableClear DEF SlingSpawns
<1>3. PICK pc, plan, w, did, seen :
        job[q] = [pc |-> pc, plan |-> plan, pole |-> w, did |-> did, seen |-> seen]
  BY DEF Shape, IsJob
<1>4. job'[q] = [pc |-> "hook", plan |-> plan, pole |-> p, did |-> did, seen |-> seen]
  <2>1. job'[q] = [job[q] EXCEPT !.pc = "hook", !.pole = p]
    BY <1>1 DEF Shape
  <2> DEFINE i == job[q]
             j == job'[q]
  <2>2. j = [i EXCEPT !.pc = "hook", !.pole = p]
    BY <2>1
  <2>3. i = [pc |-> pc, plan |-> plan, pole |-> w, did |-> did, seen |-> seen]
    BY <1>3
  <2> HIDE DEF i, j
  <2>4. j = [pc |-> "hook", plan |-> plan, pole |-> p, did |-> did, seen |-> seen]
    BY ONLY Zenon, <2>2, <2>3
  <2> QED BY <2>4 DEF j
<1>5. IsJob(job'[q])
  BY <1>4, Zenon DEF IsJob
<1>6. job'[q].pc = "hook" /\ job'[q].pole = p /\ Target(q)' = Target(q)
  BY SMT, <1>3, <1>4 DEF Target, Entry
<1>7. \A r \in Slings \ {q} : job'[r] = job[r] /\ Target(r)' = Target(r)
  BY <1>1 DEF Shape, Target, Entry
<1>8. pole'[p] = [st |-> "spawned", hook |-> Target(q), by |-> q] /\ IsPole(pole'[p])
  BY <1>1 DEF Shape, IsPole
<1>9. \A x \in Polecats \ {p} : pole'[x] = pole[x]
  BY <1>1 DEF Shape
<1>10. Shape'
  <2>1. job' = [r \in Slings |-> job'[r]] /\ \A r \in Slings : IsJob(job'[r])
    <3>1. job' = [r \in Slings |-> job'[r]]
      BY <1>1 DEF Shape
    <3> QED BY <3>1, <1>5, <1>7 DEF Shape
  <2>2. bead' = [x \in Beads |-> bead'[x]] /\ \A x \in Beads : IsBead(bead'[x])
    BY <1>2 DEF Shape
  <2>3. pole' = [x \in Polecats |-> pole'[x]] /\ \A x \in Polecats : IsPole(pole'[x])
    BY <1>1, <1>8, <1>9 DEF Shape
  <2> QED BY <2>1, <2>2, <2>3, Zenon DEF Shape, IsJob, IsBead, IsPole
<1>11. Holds'
  <2> SUFFICES ASSUME NEW r \in Slings, Slinging(r)'
               PROVE  /\ job'[r].pole \in Polecats
                      /\ pole'[job'[r].pole]
                           = [st |-> "spawned", hook |-> Target(r)', by |-> r]
    BY DEF Holds
  <2>1. CASE r = q
    BY <2>1, <1>6, <1>8
  <2>2. CASE r # q
    <3>1. Slinging(r) /\ job'[r] = job[r] /\ Target(r)' = Target(r)
      BY <2>2, <1>7 DEF Slinging
    <3>2. /\ job[r].pole \in Polecats
          /\ pole[job[r].pole] = [st |-> "spawned", hook |-> Target(r), by |-> r]
      BY <3>1, Zenon DEF Holds
    <3>3. job[r].pole # p
      BY SMT, <3>2, <1>1
    <3> QED BY <3>1, <3>2, <3>3, <1>9
  <2> QED BY <2>1, <2>2
<1>12. Lock'
  BY SMT, <1>2, <1>6, <1>7 DEF Lock, NobodyElse, Slinging
<1>13. \A x \in Polecats : pole'[x].st = "live" => pole'[x] = pole[x]
  BY SMT, <1>8, <1>9
<1>14. Alone'
  BY SMT, <1>2, <1>6, <1>7, <1>13 DEF Alone, NobodyElse, Slinging
<1>15. Start'
  BY <1>2, <1>6, <1>7 DEF Start, Taken
<1>16. Own'
  BY <1>2, <1>13 DEF Own, Taken
<1> QED
  BY <1>10, <1>11, <1>12, <1>14, <1>15, <1>16

\* A refused sling ends; if it unhooks the bead, the guards had admitted it.
LEMMA RefusedInv == ASSUME Inv, NEW q \in Slings, SlingRefused(q) PROVE Inv'
<1>1. Shape /\ SlingFailed(q) /\ pole' = pole /\ misled' = misled
  BY DEF SlingRefused, Inv
<1>2. /\ job' = [job EXCEPT ![q] = job'[q]]
      /\ IsJob(job'[q])
      /\ job'[q].pc \notin {"hook", "start"}
  BY <1>1, SlingFailedFacts
<1>3. CASE bead' = bead
  BY <1>1, <1>2, <1>3, EndInv
<1>4. CASE Slingable(Target(q)) /\ bead' = [bead EXCEPT ![Target(q)] = Unhooked]
  <2>1. NobodyElse(q, Target(q))
    BY <1>4, SlingableClear
  <2>2. bead' = [bead EXCEPT ![Target(q)] = bead'[Target(q)]]
    BY <1>1, <1>4 DEF Shape
  <2>3. Target(q) \in Beads => IsBead(bead'[Target(q)])
    BY <1>1, <1>4 DEF Shape, IsBead, Unhooked
  <2> QED BY <1>1, <1>2, <2>1, <2>2, <2>3, EndInv
<1> QED BY <1>3, <1>4 DEF SlingRefused

\* A sling that fails once it has its polecat: the bead may change, and the
\* polecat goes.
LEMMA RollbackInv ==
    ASSUME Inv, NEW q \in Slings, Slinging(q), SlingFailed(q),
           NEW r, IsBead(r),
           bead' \in {bead, [bead EXCEPT ![Target(q)] = r]},
           pole' = [pole EXCEPT ![job[q].pole] = Free], misled' = misled
    PROVE  Inv'
<1>1. Shape /\ Holds
  BY DEF Inv
<1>2. /\ job' = [job EXCEPT ![q] = job'[q]]
      /\ IsJob(job'[q])
      /\ job'[q].pc \notin {"hook", "start"}
  BY <1>1, SlingFailedFacts
<1>3. NobodyElse(q, Target(q))
  BY SlingingClear
<1>4. \/ bead' = bead
      \/ /\ bead' = [bead EXCEPT ![Target(q)] = bead'[Target(q)]]
         /\ Target(q) \in Beads => IsBead(bead'[Target(q)])
  BY <1>1 DEF Shape
<1>5. \A s \in Slings \ {q} : Slinging(s) => job[s].pole # job[q].pole
  <2> SUFFICES ASSUME NEW s \in Slings \ {q}, Slinging(s), job[s].pole = job[q].pole
               PROVE FALSE
    OBVIOUS
  <2>1. pole[job[s].pole] = [st |-> "spawned", hook |-> Target(s), by |-> s]
    BY <1>1, Zenon DEF Holds
  <2>2. pole[job[q].pole] = [st |-> "spawned", hook |-> Target(q), by |-> q]
    BY <1>1, Zenon DEF Holds
  <2> QED BY SMT, <2>1, <2>2
<1> QED BY <1>2, <1>3, <1>4, <1>5, EndInv

\* A job whose position alone changes.
LEMMA MovedFacts ==
    ASSUME Shape, NEW q \in Slings, NEW pc2,
           job' = [job EXCEPT ![q] = [job[q] EXCEPT !.pc = pc2]]
    PROVE  /\ IsJob(job'[q])
           /\ job'[q].pc = pc2 /\ job'[q].pole = job[q].pole /\ Target(q)' = Target(q)
           /\ \A r \in Slings \ {q} : job'[r] = job[r] /\ Target(r)' = Target(r)
           /\ job' = [r \in Slings |-> job'[r]]
<1> DEFINE i == job[q]
           j == job'[q]
<1>1. j = [i EXCEPT !.pc = pc2]
  BY DEF Shape
<1>2. PICK pc, plan, w, did, seen :
        i = [pc |-> pc, plan |-> plan, pole |-> w, did |-> did, seen |-> seen]
  BY DEF Shape, IsJob
<1>3. \A r \in Slings \ {q} : job'[r] = job[r]
  BY DEF Shape
<1>4. job' = [r \in Slings |-> job'[r]]
  BY DEF Shape
<1> HIDE DEF i, j
<1>5. j = [pc |-> pc2, plan |-> plan, pole |-> w, did |-> did, seen |-> seen]
  BY ONLY <1>1, <1>2
<1>6. IsJob(j)
  BY ONLY <1>5, Zenon DEF IsJob
<1>7. j.pc = pc2 /\ j.pole = i.pole /\ j.plan = i.plan
  BY ONLY <1>2, <1>5
<1> QED
  BY <1>3, <1>4, <1>6, <1>7 DEF i, j, Target, Entry

\* The hook assigns the bead to the polecat of the sling.
LEMMA HooksInv == ASSUME Inv, NEW q \in Slings, SlingHooks(q) PROVE Inv'
<1> DEFINE mine == [st |-> "hooked", who |-> job[q].pole]
<1>1. Slinging(q) /\ job[q].pc = "hook" /\ misled' = misled
  BY DEF SlingHooks, Slinging
<1>2. IsBead(mine) /\ mine.st = "hooked" /\ mine.who = job[q].pole
  BY DEF IsBead
<1>3. \/ /\ bead' = [bead EXCEPT ![Target(q)] = mine]
         /\ job' = [job EXCEPT ![q] = [job[q] EXCEPT !.pc = "start"]]
         /\ pole' = pole
      \/ /\ bead' \in {bead, [bead EXCEPT ![Target(q)] = mine]}
         /\ pole' = [pole EXCEPT ![job[q].pole] = Free]
         /\ SlingFailed(q)
  BY DEF SlingHooks
<1> HIDE DEF mine
<1>4. CASE /\ bead' \in {bead, [bead EXCEPT ![Target(q)] = mine]}
           /\ pole' = [pole EXCEPT ![job[q].pole] = Free]
           /\ SlingFailed(q)
  BY <1>1, <1>2, <1>4, RollbackInv
<1>5. CASE /\ bead' = [bead EXCEPT ![Target(q)] = mine]
           /\ job' = [job EXCEPT ![q] = [job[q] EXCEPT !.pc = "start"]]
           /\ pole' = pole
  <2> USE DEF Inv
  <2>1. /\ IsJob(job'[q])
        /\ job'[q].pc = "start" /\ job'[q].pole = job[q].pole /\ Target(q)' = Target(q)
        /\ \A r \in Slings \ {q} : job'[r] = job[r] /\ Target(r)' = Target(r)
        /\ job' = [r \in Slings |-> job'[r]]
    BY <1>5, MovedFacts
  <2>2. NobodyElse(q, Target(q))
    BY <1>1, SlingingClear
  <2>3. \A b \in Beads : bead'[b] = IF b = Target(q) THEN mine ELSE bead[b]
    BY <1>5 DEF Shape
  <2>4. \A r \in Slings : Slinging(r)' => Slinging(r) /\ Target(r)' = Target(r)
    BY <1>1, <2>1 DEF Slinging
  <2>5. Shape'
    <3>1. bead' = [x \in Beads |-> bead'[x]] /\ \A x \in Beads : IsBead(bead'[x])
      BY <1>2, <1>5, <2>3 DEF Shape
    <3>2. \A r \in Slings : IsJob(job'[r])
      BY <2>1 DEF Shape
    <3>3. pole' = [x \in Polecats |-> pole'[x]] /\ \A x \in Polecats : IsPole(pole'[x])
      BY <1>5 DEF Shape
    <3> QED BY <2>1, <3>1, <3>2, <3>3, Zenon DEF Shape, IsJob, IsBead, IsPole
  <2>6. Holds'
    BY SMT, <1>5, <2>1, <2>4 DEF Holds
  <2>7. Lock'
    BY <2>4 DEF Lock
  <2>8. Alone'
    BY <1>1, <1>5, <2>4 DEF Alone
  <2>9. Start'
    BY SMT, <1>1, <1>2, <2>1, <2>2, <2>3 DEF Start, NobodyElse, Taken, Slinging
  <2>10. Own'
    BY SMT, <1>1, <1>5, <2>2, <2>3 DEF Own, NobodyElse, Taken
  <2> QED BY <2>5, <2>6, <2>7, <2>8, <2>9, <2>10
<1> QED BY <1>3, <1>4, <1>5

\* The session starts: the polecat is the assignee of a bead nobody works on.
LEMMA StartsInv == ASSUME Inv, NEW q \in Slings, SlingStarts(q) PROVE Inv'
<1> DEFINE p == job[q].pole
<1>1. Slinging(q) /\ job[q].pc = "start" /\ misled' = misled
  BY DEF SlingStarts, Slinging
<1>2. IsBead(Unhooked)
  BY DEF IsBead, Unhooked
<1>3. CASE /\ bead' \in {bead, [bead EXCEPT ![Target(q)] = Unhooked]}
           /\ pole' = [pole EXCEPT ![p] = Free]
           /\ SlingFailed(q)
  BY <1>1, <1>2, <1>3, RollbackInv
<1>4. CASE /\ pole' = [pole EXCEPT ![p].st = "live"]
           /\ SlingSucceeded(q)
           /\ bead' = bead
  <2> USE DEF Inv
  <2>1. /\ p \in Polecats
        /\ pole[p] = [st |-> "spawned", hook |-> Target(q), by |-> q]
    BY <1>1, Zenon DEF Holds
  <2>2. pole'[p] = [[st |-> "spawned", hook |-> Target(q), by |-> q] EXCEPT !.st = "live"]
    BY <1>4, <2>1 DEF Shape
  <2>3. pole'[p] = [st |-> "live", hook |-> Target(q), by |-> q]
    BY <2>2
  <2>4. IsPole(pole'[p]) /\ pole'[p].hook = Target(q) /\ pole'[p].st = "live"
    <3>1. IsPole(pole'[p])
      BY <2>3, Zenon DEF IsPole
    <3>2. pole'[p].hook = Target(q) /\ pole'[p].st = "live"
      BY SMT, <2>3
    <3> QED BY <3>1, <3>2
  <2>5. \A x \in Polecats \ {p} : pole'[x] = pole[x]
    BY <1>4 DEF Shape
  <2>6. /\ job' = [job EXCEPT ![q] = job'[q]]
        /\ IsJob(job'[q])
        /\ job'[q].pc \notin {"hook", "start"}
    <3>1. CASE q \in Dispatchers
      <4>1. job' = [job EXCEPT ![q] = [job[q] EXCEPT !.pc = "close"]]
        BY <1>4, <3>1 DEF SlingSucceeded
      <4>2. IsJob(job'[q]) /\ job'[q].pc = "close"
        BY <4>1, MovedFacts
      <4> QED BY <4>1, <4>2 DEF Shape
    <3>2. CASE q \notin Dispatchers
      <4>1. job' = [job EXCEPT ![q] = Done]
        BY <1>4, <3>2 DEF SlingSucceeded
      <4> QED BY <4>1, DoneFacts DEF Shape
    <3> QED BY <3>1, <3>2
  <2>7. \A r \in Slings : Slinging(r)' =>
          r # q /\ job'[r] = job[r] /\ Slinging(r) /\ Target(r)' = Target(r)
    BY <2>6 DEF Slinging, Target, Entry, Shape
  <2>8. Shape'
    <3>1. job' = [r \in Slings |-> job'[r]] /\ \A r \in Slings : IsJob(job'[r])
      BY <2>6 DEF Shape
    <3>2. bead' = [x \in Beads |-> bead'[x]] /\ \A x \in Beads : IsBead(bead'[x])
      BY <1>4 DEF Shape
    <3>3. pole' = [x \in Polecats |-> pole'[x]]
      BY <1>4 DEF Shape
    <3>4. \A x \in Polecats : IsPole(pole'[x])
      BY <2>4, <2>5 DEF Shape
    <3> QED BY <3>1, <3>2, <3>3, <3>4, Zenon DEF Shape, IsJob, IsBead, IsPole
  <2>9. Holds'
    <3> SUFFICES ASSUME NEW r \in Slings, Slinging(r)'
                 PROVE  /\ job'[r].pole \in Polecats
                        /\ pole'[job'[r].pole]
                             = [st |-> "spawned", hook |-> Target(r)', by |-> r]
      BY DEF Holds
    <3>1. r # q /\ job'[r] = job[r] /\ Slinging(r) /\ Target(r)' = Target(r)
      BY <2>7
    <3>2. /\ job[r].pole \in Polecats
          /\ pole[job[r].pole] = [st |-> "spawned", hook |-> Target(r), by |-> r]
      BY <3>1, Zenon DEF Holds
    <3>3. job[r].pole # p
      BY SMT, <3>1, <3>2, <2>1
    <3> QED BY <3>1, <3>2, <3>3, <2>5
  <2>10. Lock'
    BY <2>7 DEF Lock
  <2>11. Alone'
    BY SMT, <1>1, <2>4, <2>5, <2>7 DEF Alone, Lock
  <2>12. Start'
    BY <1>1, <1>4, <2>7 DEF Start, Taken, Slinging
  <2>13. Own'
    BY SMT, <1>1, <1>4, <2>1, <2>4, <2>5 DEF Own, Start, Taken
  <2> QED BY <2>8, <2>9, <2>10, <2>11, <2>12, <2>13
<1> QED BY <1>3, <1>4 DEF SlingStarts

-----------------------------------------------------------------------------
\* The polecat of a sling under way has no session yet.
LEMMA HeldFacts ==
    ASSUME Inv
    PROVE  \A q \in Slings : Slinging(q) => pole[job[q].pole].st = "spawned"
<1> SUFFICES ASSUME NEW q \in Slings, Slinging(q)
             PROVE  pole[job[q].pole].st = "spawned"
  OBVIOUS
<1>1. pole[job[q].pole] = [st |-> "spawned", hook |-> Target(q), by |-> q]
  BY Zenon DEF Inv, Holds
<1> QED BY SMT, <1>1

\* A polecat that ends and that no sling holds; its bead is closed at most
\* when it is the assignee.
LEMMA PolecatEndInv ==
    ASSUME Inv, NEW p \in Polecats, pole' = [pole EXCEPT ![p] = Free],
           \A q \in Slings : Slinging(q) => job[q].pole # p,
           NEW b, NEW r, IsBead(r),
           \/ bead' = bead
           \/ /\ bead' = [bead EXCEPT ![b] = r]
              /\ bead[b].who = p,
           job' = job, misled' = misled
    PROVE  Inv'
<1> USE DEF Inv
<1>1. IsPole(Free) /\ Free.st = "none"
  BY DEF IsPole, Free
<1>2. \A x \in Polecats : pole'[x] = IF x = p THEN Free ELSE pole[x]
  BY DEF Shape
<1>3. \A x \in Beads : bead'[x] # bead[x] => bead[x].who = p
  BY DEF Shape
<1>4. \A q \in Slings : (Slinging(q)' <=> Slinging(q)) /\ Target(q)' = Target(q)
  BY DEF Slinging, Target, Entry
<1>5. Shape'
  <2>1. job' = [q \in Slings |-> job'[q]] /\ \A q \in Slings : IsJob(job'[q])
    BY DEF Shape
  <2>2. bead' = [x \in Beads |-> bead'[x]] /\ \A x \in Beads : IsBead(bead'[x])
    BY DEF Shape
  <2>3. pole' = [x \in Polecats |-> pole'[x]] /\ \A x \in Polecats : IsPole(pole'[x])
    BY <1>1 DEF Shape
  <2> QED BY <2>1, <2>2, <2>3, Zenon DEF Shape, IsJob, IsBead, IsPole
<1>6. Holds'
  BY <1>2, <1>4 DEF Holds
<1>7. Lock'
  BY <1>4 DEF Lock
<1>8. Alone'
  BY SMT, <1>1, <1>2, <1>4 DEF Alone
<1>9. Start'
  BY <1>3, <1>4 DEF Start, Taken, Slinging
<1>10. Own'
  BY SMT, <1>1, <1>2, <1>3 DEF Own, Taken
<1> QED BY <1>5, <1>6, <1>7, <1>8, <1>9, <1>10

\* Claiming changes the status of a taken bead only.
LEMMA ClaimsInv == ASSUME Inv, NEW p \in Polecats, PolecatClaims(p) PROVE Inv'
<1> DEFINE b == pole[p].hook
           r == [st |-> "in_progress", who |-> p]
<1> USE DEF Inv
<1>1. /\ bead[b] = [st |-> "hooked", who |-> p]
      /\ bead' = [bead EXCEPT ![b] = [bead[b] EXCEPT !.st = "in_progress"]]
      /\ job' = job /\ pole' = pole /\ misled' = misled
  BY DEF PolecatClaims
<1> HIDE DEF b
<1>2. [bead[b] EXCEPT !.st = "in_progress"] = r
  BY SMT, <1>1
<1>3. IsBead(r) /\ r.st = "in_progress" /\ r.who = p
  BY DEF IsBead
<1> HIDE DEF r
<1>4. \A x \in Beads : bead'[x] = IF x = b THEN r ELSE bead[x]
  BY <1>1, <1>2 DEF Shape
<1>5. \A x \in Beads : bead'[x].who = bead[x].who /\ (Taken(x) => Taken(x)')
  BY SMT, <1>1, <1>3, <1>4 DEF Taken
<1>6. Shape'
  <2>1. bead' = [x \in Beads |-> bead'[x]] /\ \A x \in Beads : IsBead(bead'[x])
    BY <1>1, <1>3, <1>4 DEF Shape
  <2>2. job' = [q \in Slings |-> job'[q]] /\ \A q \in Slings : IsJob(job'[q])
    BY <1>1 DEF Shape
  <2>3. pole' = [x \in Polecats |-> pole'[x]] /\ \A x \in Polecats : IsPole(pole'[x])
    BY <1>1 DEF Shape
  <2> QED BY <2>1, <2>2, <2>3, Zenon DEF Shape, IsJob, IsBead, IsPole
<1>7. \A q \in Slings : (Slinging(q)' <=> Slinging(q)) /\ Target(q)' = Target(q)
  BY <1>1 DEF Slinging, Target, Entry
<1>8. Holds' /\ Lock' /\ Alone'
  BY SMT, <1>1, <1>7 DEF Holds, Lock, Alone
<1>9. Start'
  BY <1>1, <1>5, <1>7 DEF Start
<1>10. Own'
  BY <1>1, <1>5 DEF Own
<1> QED BY <1>6, <1>8, <1>9, <1>10

\* A live polecat is held by no sling, and closes a bead of its own at most.
LEMMA FinishesInv == ASSUME Inv, NEW p \in Polecats, PolecatFinishes(p) PROVE Inv'
<1> DEFINE b == pole[p].hook
           r == [st |-> "closed", who |-> None]
<1>1. IsBead(r)
  BY DEF IsBead
<1>2. /\ pole' = [pole EXCEPT ![p] = Free] /\ pole[p].st = "live"
      /\ bead' = bead \/ (bead' = [bead EXCEPT ![b] = r] /\ bead[b].who = p)
      /\ job' = job /\ misled' = misled
  BY DEF PolecatFinishes
<1>3. \A q \in Slings : Slinging(q) => job[q].pole # p
  BY <1>2, HeldFacts
<1> HIDE DEF r
<1> QED BY <1>1, <1>2, <1>3, PolecatEndInv

\* So is one whose session dies, or one a killed sling left behind.
LEMMA GoneInv == ASSUME Inv, NEW p \in Polecats, PolecatGone(p) PROVE Inv'
<1>1. IsBead(Unhooked)
  BY DEF IsBead, Unhooked
<1>2. /\ pole' = [pole EXCEPT ![p] = Free]
      /\ bead' = bead /\ job' = job /\ misled' = misled
  BY DEF PolecatGone
<1>3. \A q \in Slings : Slinging(q) => job[q].pole # p
  BY HeldFacts DEF PolecatGone
<1> QED BY <1>1, <1>2, <1>3, PolecatEndInv

\* The witness changes a bead that has a worker or a sling only when it is
\* late, and then the bead joins the misled ones.
LEMMA WitnessInv == ASSUME Inv, WitnessActs PROVE Inv'
<1> DEFINE b == witness.bead
           w == witness.who
           shut == [st |-> "closed", who |-> None]
<1> USE DEF Inv
<1>1. IsBead(Unhooked) /\ IsBead(shut)
  BY DEF IsBead, Unhooked
<1>2. /\ \/ bead' = bead
         \/ bead' = [bead EXCEPT ![b] = Unhooked]
         \/ bead' = [bead EXCEPT ![b] = shut]
      /\ bead' # bead /\ b \notin misled' => bead[b].who = w /\ pole[w].hook # b
      /\ misled \subseteq misled'
      /\ job' = job /\ pole' = pole
  BY DEF WitnessActs
<1> HIDE DEF b, w, shut
<1>3. Shape'
  <2>1. bead' = [x \in Beads |-> bead'[x]] /\ \A x \in Beads : IsBead(bead'[x])
    BY <1>1, <1>2 DEF Shape
  <2>2. job' = [q \in Slings |-> job'[q]] /\ \A q \in Slings : IsJob(job'[q])
    BY <1>2 DEF Shape
  <2>3. pole' = [x \in Polecats |-> pole'[x]] /\ \A x \in Polecats : IsPole(pole'[x])
    BY <1>2 DEF Shape
  <2> QED BY <2>1, <2>2, <2>3, Zenon DEF Shape, IsJob, IsBead, IsPole
<1>4. \A x \in Beads \ misled' : bead'[x] = bead[x] \/ pole[bead[x].who].hook # x
  BY <1>2 DEF Shape
<1>5. \A q \in Slings : (Slinging(q)' <=> Slinging(q)) /\ Target(q)' = Target(q)
  BY <1>2 DEF Slinging, Target, Entry
<1>6. Holds' /\ Lock' /\ Alone'
  BY SMT, <1>2, <1>5 DEF Holds, Lock, Alone
<1>7. Start'
  <2> SUFFICES ASSUME NEW q \in Slings, job[q].pc = "start", Target(q) \in Beads \ misled'
               PROVE  Taken(Target(q))' /\ bead'[Target(q)].who = job[q].pole
    BY <1>2, <1>5 DEF Start
  <2>1. Taken(Target(q)) /\ bead[Target(q)].who = job[q].pole
    BY <1>2 DEF Start
  <2>2. pole[job[q].pole] = [st |-> "spawned", hook |-> Target(q), by |-> q]
    BY Zenon DEF Holds, Slinging
  <2>3. pole[job[q].pole].hook = Target(q)
    BY SMT, <2>2
  <2>4. bead'[Target(q)] = bead[Target(q)]
    BY <1>4, <2>1, <2>3
  <2> QED BY <1>5, <2>1, <2>4 DEF Taken
<1>8. Own'
  <2> SUFFICES ASSUME NEW p \in Polecats, pole[p].st = "live", pole[p].hook \in Beads \ misled'
               PROVE  Taken(pole[p].hook)' /\ bead'[pole[p].hook].who = p
    BY <1>2 DEF Own, Taken
  <2>1. Taken(pole[p].hook) /\ bead[pole[p].hook].who = p
    BY <1>2 DEF Own
  <2>2. bead'[pole[p].hook] = bead[pole[p].hook]
    BY <1>4, <2>1
  <2> QED BY <2>1, <2>2, <1>2 DEF Taken
<1> QED BY <1>3, <1>6, <1>7, <1>8

\* A process that starts, ends or moves on outside a sling.
LEMMA JobInv ==
    ASSUME Inv, NEW q \in Slings, job' = [job EXCEPT ![q] = job'[q]], IsJob(job'[q]),
           job'[q].pc \notin {"hook", "start"},
           bead' = bead, SamePolecats, misled' = misled
    PROVE  Inv'
BY QuietInv DEF Inv, Shape

\* A plan is set: the cycle, or the direct sling, is about to run it.
LEMMA PlannedInv ==
    ASSUME Inv, NEW q \in Slings, NEW plan2,
           job' = [job EXCEPT ![q] = [job[q] EXCEPT !.pc = "run", !.plan = plan2]],
           bead' = bead, SamePolecats, misled' = misled
    PROVE  Inv'
<1> DEFINE i == job[q]
           j == job'[q]
<1>1. j = [i EXCEPT !.pc = "run", !.plan = plan2]
  BY DEF Inv, Shape
<1>2. PICK pc, plan, w, did, seen :
        i = [pc |-> pc, plan |-> plan, pole |-> w, did |-> did, seen |-> seen]
  BY DEF Inv, Shape, IsJob
<1>3. job' = [job EXCEPT ![q] = j]
  BY DEF Inv, Shape
<1> HIDE DEF i, j
<1>4. j = [pc |-> "run", plan |-> plan2, pole |-> w, did |-> did, seen |-> seen]
  BY ONLY Zenon, <1>1, <1>2
<1>5. IsJob(j)
  BY ONLY <1>4, Zenon DEF IsJob
<1>6. j.pc = "run"
  BY ONLY <1>4
<1> QED BY <1>3, <1>5, <1>6, JobInv DEF j

\* DispatchCloses moves the cycle on to the next bead.
LEMMA ClosesInv == ASSUME Inv, NEW d \in Dispatchers, DispatchCloses(d) PROVE Inv'
<1>1. d \in Slings /\ bead' = bead /\ pole' = pole /\ misled' = misled
  BY DEF DispatchCloses, Slings
<1>2. PICK c : job' = [job EXCEPT ![d] = Advance(job[d], c)]
  BY Zenon DEF DispatchCloses
<1> QED BY <1>1, <1>2, AdvanceFacts, UnchangedPolecats, JobInv DEF Inv, Shape

\* Resting, and the cycle that is about to save the state.
LEMMA RestingFacts ==
    ASSUME NEW f
    PROVE  /\ IsJob(Resting) /\ Resting.pc = "idle"
           /\ IsJob([Resting EXCEPT !.pc = "save", !.seen = f])
           /\ [Resting EXCEPT !.pc = "save", !.seen = f].pc = "save"
<1> DEFINE none == <<>>
           j == [Resting EXCEPT !.pc = "save", !.seen = f]
<1>1. Resting = [pc |-> "idle", plan |-> none, pole |-> 0, did |-> FALSE, seen |-> FALSE]
  BY DEF Resting
<1>2. j = [Resting EXCEPT !.pc = "save", !.seen = f]
  OBVIOUS
<1>3. j = [[pc |-> "idle", plan |-> none, pole |-> 0, did |-> FALSE, seen |-> FALSE]
             EXCEPT !.pc = "save", !.seen = f]
  BY DEF Resting
<1> HIDE DEF none, j
<1>4. IsJob(Resting)
  BY <1>1, Zenon DEF IsJob
<1>5. Resting.pc = "idle"
  BY <1>1
<1>6. j = [pc |-> "save", plan |-> none, pole |-> 0, did |-> FALSE, seen |-> f]
  BY ONLY Zenon, <1>3
<1>7. IsJob(j)
  BY <1>6, Zenon DEF IsJob
<1>8. j.pc = "save"
  BY <1>6
<1> QED BY <1>4, <1>5, <1>7, <1>8 DEF j

\* DispatchEnds, DispatchSaves and Killed leave no sling under way.
LEMMA EndsInv ==
    ASSUME Inv, NEW q \in Slings, DispatchEnds(q) \/ DispatchSaves(q) \/ Killed(q)
    PROVE  Inv'
<1>1. bead' = bead /\ pole' = pole /\ misled' = misled
  BY DEF DispatchEnds, DispatchSaves, Killed
<1>2. PICK j : job' = [job EXCEPT ![q] = j] /\ IsJob(j) /\ j.pc \notin {"hook", "start"}
  <2> DEFINE save == [Resting EXCEPT !.pc = "save", !.seen = paused]
  <2>1. /\ IsJob(Resting) /\ Resting.pc = "idle" /\ IsJob(save) /\ save.pc = "save"
        /\ IsJob(Done) /\ Done.pc = "done"
    BY RestingFacts, DoneFacts
  <2>2. CASE DispatchEnds(q)
    <3>1. job' = [job EXCEPT ![q] = IF job[q].did THEN save ELSE Resting]
      BY <2>2 DEF DispatchEnds
    <3> HIDE DEF save
    <3> QED BY <2>1, <3>1
  <2> HIDE DEF save
  <2>3. CASE DispatchSaves(q)
    BY <2>1, <2>3 DEF DispatchSaves
  <2>4. CASE Killed(q)
    BY <2>1, <2>4 DEF Killed
  <2> QED BY <2>2, <2>3, <2>4
<1> QED BY <1>1, <1>2, UnchangedPolecats, JobInv DEF Inv, Shape

\* Steps of the clients, of an operator and of the witness's first half touch
\* no bead, polecat or sling.
LEMMA AsideInv == ASSUME Inv, bead' = bead, pole' = pole, misled' = misled, job' = job PROVE Inv'
BY UnchangedPolecats, QuietInv DEF Inv, Shape

\* A cycle that does not count a polecat leaves it at work on its bead.
LEMMA MiscountFacts == ASSUME Inv, NEW d, DispatchStarts(d) PROVE SamePolecats
<1>1. PICK missed \in SUBSET Live :
        pole' = [p \in Polecats |-> IF p \in missed
                                   THEN [pole[p] EXCEPT !.by = None] ELSE pole[p]]
  BY DEF DispatchStarts
<1>2. pole' = [p \in Polecats |-> pole'[p]]
  BY <1>1
<1>3. ASSUME NEW p \in Polecats
      PROVE  \/ pole'[p] = pole[p]
             \/ /\ pole[p].st = "live" /\ IsPole(pole'[p])
                /\ pole'[p].st = "live" /\ pole'[p].hook = pole[p].hook
  <2>1. CASE p \in missed
    <3> DEFINE i == pole[p]
               j == pole'[p]
    <3>1. i.st = "live" /\ j = [i EXCEPT !.by = None]
      BY <1>1, <2>1 DEF Live
    <3>2. PICK st, hook, by : i = [st |-> st, hook |-> hook, by |-> by]
      BY DEF Inv, Shape, IsPole
    <3> HIDE DEF i, j
    <3>3. j = [st |-> st, hook |-> hook, by |-> None]
      BY ONLY Zenon, <3>1, <3>2
    <3>4. IsPole(j)
      BY ONLY Zenon, <3>3 DEF IsPole
    <3>5. j.st = i.st /\ j.hook = i.hook
      BY ONLY SMT, <3>2, <3>3
    <3> QED BY <3>1, <3>4, <3>5 DEF i, j
  <2>2. CASE p \notin missed
    BY <1>1, <2>2
  <2> QED BY <2>1, <2>2
<1> QED BY <1>2, <1>3 DEF SamePolecats

\* Every action keeps the invariant.
LEMMA NextInv == Inv /\ [Next]_vars => Inv'
<1> SUFFICES ASSUME Inv, [Next]_vars PROVE Inv'
  OBVIOUS
<1>1. CASE \E k \in Clients : Schedule(k)
  <2>1. bead' = bead /\ pole' = pole /\ misled' = misled /\ job' = job
    BY <1>1 DEF Schedule, ScheduleChecks, ScheduleCreates, ScheduleConvoy
  <2> QED BY <2>1, AsideInv
<1>2. CASE (\E b \in Beads : Clear({b})) \/ Clear(Beads)
  <2>1. bead' = bead /\ pole' = pole /\ misled' = misled /\ job' = job
    BY <1>2, Zenon DEF Clear
  <2> QED BY <2>1, AsideInv
<1>3. CASE \E f \in BOOLEAN : SetPaused(f)
  <2>1. bead' = bead /\ pole' = pole /\ misled' = misled /\ job' = job
    BY <1>3 DEF SetPaused
  <2> QED BY <2>1, AsideInv
<1>4. CASE \E q \in Slings : Sling(q) \/ Killed(q)
  BY <1>4, SpawnInv, RefusedInv, HooksInv, StartsInv, EndsInv DEF Sling
<1>5. CASE \E d \in Dispatchers : Dispatch(d)
  <2>1. PICK d \in Dispatchers : Dispatch(d)
    BY <1>5
  <2>2. d \in Slings
    BY DEF Slings
  <2>3. CASE DispatchStarts(d)
    <3>1. PICK plan2 : job' = [job EXCEPT ![d] = [job[d] EXCEPT !.pc = "run", !.plan = plan2]]
      BY <2>3 DEF DispatchStarts
    <3>2. bead' = bead /\ misled' = misled
      BY <2>3 DEF DispatchStarts
    <3> QED BY <2>2, <2>3, <3>1, <3>2, MiscountFacts, PlannedInv
  <2>4. CASE DispatchCloses(d)
    BY <2>4, ClosesInv
  <2>5. CASE DispatchEnds(d) \/ DispatchSaves(d)
    BY <2>2, <2>5, EndsInv
  <2> QED BY <2>1, <2>3, <2>4, <2>5 DEF Dispatch
<1>6. CASE \E q \in Slingers, b \in Beads : DirectSling(q, b)
  <2>1. PICK q \in Slingers, b \in Beads : DirectSling(q, b)
    BY <1>6
  <2>2. q \in Slings
    BY DEF Slings
  <2>3. PICK plan2 : job' = [job EXCEPT ![q] = [job[q] EXCEPT !.pc = "run", !.plan = plan2]]
    BY <2>1 DEF DirectSling
  <2> QED BY <2>1, <2>2, <2>3, UnchangedPolecats, PlannedInv DEF DirectSling
<1>7. CASE \E p \in Polecats : PolecatClaims(p) \/ PolecatFinishes(p) \/ PolecatGone(p)
  BY <1>7, ClaimsInv, FinishesInv, GoneInv
<1>8. CASE \E b \in Beads : WitnessDecides(b)
  <2>1. bead' = bead /\ pole' = pole /\ misled' = misled /\ job' = job
    BY <1>8 DEF WitnessDecides
  <2> QED BY <2>1, AsideInv
<1>9. CASE WitnessActs
  BY <1>9, WitnessInv
<1>10. CASE \E b \in Beads : RespawnReset(b)
  <2>1. bead' = bead /\ pole' = pole /\ misled' = misled /\ job' = job
    BY <1>10 DEF RespawnReset
  <2> QED BY <2>1, AsideInv
<1>11. CASE UNCHANGED vars
  BY <1>11, AsideInv DEF vars
<1> QED
  BY <1>1, <1>2, <1>3, <1>4, <1>5, <1>6, <1>7, <1>8, <1>9, <1>10, <1>11, Zenon DEF Next

\* A bead with a worker is assigned to that worker, and to no other.
LEMMA InvOneWorker == Inv => OneWorker
<1> SUFFICES ASSUME Inv, NEW b \in Beads \ misled
             PROVE  Cardinality({p \in Live : pole[p].hook = b}) <= 1
  BY DEF OneWorker
<1> DEFINE workers == {p \in Live : pole[p].hook = b}
<1>1. workers \subseteq {bead[b].who}
  BY DEF Inv, Own, Live
<1>2. workers = {} \/ workers = {bead[b].who}
  BY <1>1
<1> HIDE DEF workers
<1>3. Cardinality(workers) = 0 \/ Cardinality(workers) = 1
  BY <1>2, FS_EmptySet, FS_Singleton
<1> QED
  BY SMT, <1>3 DEF workers

\* However schedules, dispatch cycles, direct slings, kills, polecats and the
\* witness interleave, a working polecat is the assignee of its bead and a
\* sling under way is alone with its bead.
THEOREM SchedulerInvariant == Spec => []Inv
<1>1. Init => Inv
  BY InitInv
<1>2. Inv /\ [Next]_vars => Inv'
  BY NextInv
<1> QED
  BY <1>1, <1>2, PTL DEF Spec

\* Two polecats never work on one bead (dispatchScheduledWork, executeSling),
\* but for a bead that the witness reopened on an overtaken decision.
THEOREM SchedulerOneWorker == Spec => []OneWorker
BY SchedulerInvariant, InvOneWorker, PTL
=============================================================================
