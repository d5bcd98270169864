----------------------- MODULE WorkflowRegistry_proofs -----------------------
(***************************************************************************)
(* Proofs for the registry of workflow instances, for any number of        *)
(* servers, offline tools, templates and rigs.                             *)
(***************************************************************************)
EXTENDS WorkflowRegistry, TLAPS

\* Zenon is the prover of every leaf that names no other.
USE Zenon

(***************************************************************************)
(* One registry in itself: no birth appears under two ids, none lies in    *)
(* the future, and no two workflows of one template and rig have run since *)
(* their start.                                                            *)
(***************************************************************************)
Running(r, i) == i \in Present(r) /\ r.inst[i].status = "running"

Sound(r, n) ==
    /\ \A i \in Present(r) : i <= r.seq /\ r.inst[i].born \in 1..n
    /\ \A i, j \in Present(r) : i # j => r.inst[i].born # r.inst[j].born
    /\ \A i, j \in Ids :
          /\ Running(r, i) /\ Running(r, j) /\ i # j
          /\ r.inst[i].tpl = r.inst[j].tpl
          => r.inst[i].rig # r.inst[j].rig

(***************************************************************************)
(* What an up-to-date registry keeps of the answered requests: ids are     *)
(* used up, and name the workflow the caller was told about or none.       *)
(***************************************************************************)
Keeps(r, A, G, D) ==
    /\ \A a \in A :
          /\ a[1] <= r.seq
          /\ r.inst[a[1]] # None => r.inst[a[1]].born = a[2]
          /\ a[2] \in G \/ r.inst[a[1]] # None
    /\ \A i \in Present(r) : r.inst[i].born \notin D

UpToDate == Up \ behind

Inv ==
    /\ TypeOK
    /\ gone \subseteq 1..births
    /\ behind \subseteq Up
    /\ Sound(disk, births)
    /\ \A p \in Managers : Sound(mem[p], births)
    /\ ~diverged => Keeps(disk, acked, gone, dropped)
    /\ ~diverged => \A p \in UpToDate :
                         Keeps(mem[p], acked, gone, dropped) /\ disk.seq <= mem[p].seq

(***************************************************************************)
(* The operations on one registry.                                         *)
(***************************************************************************)
\* Setting a status changes nothing else.
LEMMA SetStatusFacts ==
    ASSUME NEW r \in Registries, NEW i \in Present(r), NEW s \in Statuses
    PROVE  /\ SetStatus(r, i, s) \in Registries
           /\ SetStatus(r, i, s).seq = r.seq
           /\ Present(SetStatus(r, i, s)) = Present(r)
           /\ \A j \in Present(r) :
                 /\ SetStatus(r, i, s).inst[j].born = r.inst[j].born
                 /\ SetStatus(r, i, s).inst[j].tpl = r.inst[j].tpl
                 /\ SetStatus(r, i, s).inst[j].rig = r.inst[j].rig
                 /\ SetStatus(r, i, s).inst[j].status =
                       IF j = i THEN s ELSE r.inst[j].status
<1> DEFINE w == [r.inst[i] EXCEPT !.status = s]
           q == SetStatus(r, i, s)
<1>1. i \in Ids /\ r.inst[i] \in Instances
  BY DEF Present, Registries
<1>2. /\ w \in Instances /\ w.born = r.inst[i].born /\ w.tpl = r.inst[i].tpl
      /\ w.rig = r.inst[i].rig /\ w.status = s
  BY <1>1 DEF Instances
<1>3. q = [inst |-> [r.inst EXCEPT ![i] = w], seq |-> r.seq]
  BY SMT DEF Registries, SetStatus
<1>4. q \in Registries /\ q.seq = r.seq
  BY SMT, <1>1, <1>2, <1>3 DEF Registries
<1>5. \A j \in Ids : q.inst[j] = IF j = i THEN w ELSE r.inst[j]
  BY SMT, <1>1, <1>3 DEF Registries
<1>6. Present(q) = Present(r)
  BY <1>1, <1>2, <1>5, RegistryAssumption DEF Present
<1> QED
  BY <1>2, <1>4, <1>5, <1>6 DEF Present

\* In particular ids and births stay.
LEMMA SetStatusBirths ==
    ASSUME NEW r \in Registries, NEW i \in Present(r), NEW s \in Statuses
    PROVE  /\ SetStatus(r, i, s) \in Registries
           /\ SetStatus(r, i, s).seq = r.seq
           /\ Present(SetStatus(r, i, s)) = Present(r)
           /\ \A j \in Present(r) : SetStatus(r, i, s).inst[j].born = r.inst[j].born
BY SetStatusFacts, ZenonT(30)

\* More births leave a registry sound.
LEMMA SoundMonotone ==
    ASSUME NEW r, NEW n \in Nat, NEW m \in Nat, n <= m, Sound(r, n)
    PROVE  Sound(r, m)
BY SMT DEF Sound

\* The empty registry, of a process that does not run, is sound.
LEMMA EmptySound ==
    ASSUME NEW n
    PROVE  Empty \in Registries /\ Present(Empty) = {} /\ Sound(Empty, n)
<1>1. Empty.inst = [i \in Ids |-> None] /\ Empty.seq = 0 /\ 0 \in 0..MaxSeq
  BY SMT, RegistryAssumption DEF Empty
<1>2. Empty \in Registries
  BY <1>1 DEF Empty, Registries
<1>3. Present(Empty) = {}
  BY <1>1 DEF Present
<1> QED BY <1>2, <1>3 DEF Sound, Running

\* Loading a sound file takes it over as it is.
LEMMA LoadedFacts ==
    ASSUME NEW r \in Registries, NEW n, Sound(r, n)
    PROVE  Loaded(r) = r
<1>1. CASE r.seq # 0
  BY <1>1 DEF Loaded
<1>2. CASE r.seq = 0
  <2>1. Present(r) = {}
    BY SMT, <1>2, RegistryAssumption DEF Sound, Present, Ids
  <2>2. r = [inst |-> r.inst, seq |-> 0]
    BY <1>2 DEF Registries
  <2> QED BY <1>2, <2>1, <2>2 DEF Loaded, MaxInstanceSeq
<1> QED BY <1>1, <1>2

\* A status other than "running", or the one it had, keeps a registry sound.
LEMMA SetStatusSound ==
    ASSUME NEW r \in Registries, NEW i \in Present(r), NEW s \in Statuses,
           NEW n, Sound(r, n),
           s = "running" => r.inst[i].status = "running"
    PROVE  Sound(SetStatus(r, i, s), n)
<1> DEFINE q == SetStatus(r, i, s)
<1>1. /\ q.seq = r.seq /\ Present(q) = Present(r)
      /\ \A j \in Present(r) :
            /\ q.inst[j].born = r.inst[j].born /\ q.inst[j].tpl = r.inst[j].tpl
            /\ q.inst[j].rig = r.inst[j].rig
            /\ q.inst[j].status = IF j = i THEN s ELSE r.inst[j].status
  BY SMT, SetStatusFacts
<1> HIDE DEF q
<1>2. \A j \in Ids : Running(q, j) => Running(r, j)
  BY <1>1 DEF Running
<1>3. Sound(q, n)
  BY SMT, <1>1, <1>2 DEF Sound, Running
<1> QED BY <1>3 DEF q

\* Pausing what runs for a rig changes statuses only.
LEMMA PausedRigFacts ==
    ASSUME NEW r \in Registries, NEW g, NEW n, Sound(r, n)
    PROVE  LET q == PausedRig(r, g) IN
           /\ q \in Registries /\ q.seq = r.seq /\ Present(q) = Present(r)
           /\ \A j \in Present(r) : q.inst[j].born = r.inst[j].born
           /\ Sound(q, n)
<1> DEFINE q == PausedRig(r, g)
           w(j) == [r.inst[j] EXCEPT !.status = "paused"]
<1>1. q = [inst |-> [j \in Ids |-> IF j \in RunningFor(r, g) THEN w(j) ELSE r.inst[j]],
           seq |-> r.seq]
  BY SMT DEF PausedRig, Registries
<1>2. \A j \in RunningFor(r, g) :
         /\ j \in Present(r) /\ r.inst[j] \in Instances
         /\ w(j) \in Instances /\ w(j).born = r.inst[j].born /\ w(j).status = "paused"
  BY DEF RunningFor, Present, Registries, Instances, Statuses, Active
<1>3. \A j \in Ids : q.inst[j] = IF j \in RunningFor(r, g) THEN w(j) ELSE r.inst[j]
  BY SMT, <1>1
<1>4. q \in Registries /\ q.seq = r.seq
  BY SMT, <1>1, <1>2 DEF Registries
<1>5. Present(q) = Present(r)
  <2>1. None \notin Instances
    BY RegistryAssumption
  <2>2. \A j \in RunningFor(r, g) : r.inst[j] # None /\ w(j) # None
    BY <1>2, <2>1
  <2> HIDE DEF q, w
  <2> QED BY <1>3, <2>2 DEF Present
<1>6. \A j \in Present(r) : q.inst[j].born = r.inst[j].born
  BY <1>2, <1>3 DEF Present
<1>7. \A j \in Ids : Running(q, j) => Running(r, j) /\ q.inst[j] = r.inst[j]
  BY <1>2, <1>3, <1>5 DEF Running
<1>8. Sound(q, n)
  <2> HIDE DEF q
  <2> QED BY SMT, <1>4, <1>5, <1>6, <1>7 DEF Sound, Running
<1> QED BY <1>4, <1>5, <1>6, <1>8

\* A new running workflow is sound if no other one of its template and rig runs.
LEMMA StartedFacts ==
    ASSUME NEW r \in Registries, NEW t \in Templates, NEW g \in Rigs \cup {NoRig},
           births \in Nat, births < MaxBirths, r.seq < MaxSeq,
           Sound(r, births), ~HasActive(r, t, g)
    PROVE  LET q == Started(r, t, g)
               k == r.seq + 1 IN
           /\ q \in Registries /\ k \in Ids /\ q.seq = k
           /\ k \in Present(q) /\ q.inst[k].born = births + 1
           /\ \A j \in Ids \ {k} : q.inst[j] = r.inst[j]
           /\ Sound(q, births + 1)
<1> DEFINE q == Started(r, t, g)
           k == r.seq + 1
           w == [tpl |-> t, rig |-> g, status |-> "running", born |-> births + 1]
<1>1. k \in Ids /\ k \in Nat
  BY SMT, RegistryAssumption DEF Registries, Ids
<1>2. w \in Instances /\ w # None
  BY SMT, RegistryAssumption DEF Instances, Statuses, Active
<1>3. q = [inst |-> [r.inst EXCEPT ![k] = w], seq |-> k]
  BY DEF Started
<1>4. q \in Registries /\ q.seq = k
  BY SMT, <1>1, <1>2, <1>3 DEF Registries, Ids
<1>5. \A j \in Ids : q.inst[j] = IF j = k THEN w ELSE r.inst[j]
  BY SMT, <1>1, <1>3 DEF Registries
<1>6. /\ w.born = births + 1 /\ w.tpl = t /\ w.rig = g
  OBVIOUS
<1>7. \A j \in Ids : Running(r, j) /\ r.inst[j].tpl = t => r.inst[j].rig # g
  BY DEF HasActive, Running, Active
<1> HIDE DEF q, w
<1>8. Present(q) = Present(r) \cup {k}
  BY <1>1, <1>2, <1>5 DEF Present
<1>9. \A j \in Present(r) : j # k
  BY SMT, RegistryAssumption DEF Sound, Registries, Present, Ids
<1>10. \A j \in Ids \ {k} : q.inst[j] = r.inst[j] /\ (Running(q, j) => Running(r, j))
  BY <1>5, <1>8 DEF Running
<1>11. \A j \in Present(q) : j <= q.seq /\ q.inst[j].born \in 1..(births + 1)
  <2>1. \A j \in Present(r) : j <= r.seq /\ r.inst[j].born \in 1..births /\ j \in Nat
    BY SMT, RegistryAssumption DEF Sound, Present, Ids
  <2>2. r.seq \in Nat
    BY SMT, RegistryAssumption DEF Registries
  <2>3. \A j \in Present(r) : q.inst[j] = r.inst[j]
    BY <1>9, <1>10 DEF Present
  <2> HIDE DEF k
  <2>4. k = r.seq + 1
    BY DEF k
  <2>5. q.inst[k].born = births + 1
    BY <1>1, <1>5, <1>6
  <2> QED BY SMT, <1>1, <1>4, <1>8, <2>1, <2>2, <2>3, <2>4, <2>5
<1>12. \A i, j \in Present(q) : i # j => q.inst[i].born # q.inst[j].born
  <2>1. \A j \in Present(r) : q.inst[j] = r.inst[j] /\ r.inst[j].born \in 1..births
    BY <1>9, <1>10 DEF Present, Sound
  <2>2. q.inst[k].born = births + 1
    BY <1>1, <1>5, <1>6
  <2> HIDE DEF k
  <2> QED BY SMT, <1>8, <2>1, <2>2 DEF Sound
<1>13. ASSUME NEW i \in Ids, NEW j \in Ids, Running(q, i), Running(q, j), i # j,
              q.inst[i].tpl = q.inst[j].tpl
       PROVE  q.inst[i].rig # q.inst[j].rig
  <2>1. CASE i # k /\ j # k
    BY <1>10, <1>13, <2>1 DEF Sound
  <2>2. CASE i = k
    BY <1>5, <1>6, <1>7, <1>10, <1>13, <2>2
  <2>3. CASE j = k
    BY <1>5, <1>6, <1>7, <1>10, <1>13, <2>3
  <2> QED BY <2>1, <2>2, <2>3
<1>14. Sound(q, births + 1)
  BY <1>11, <1>12, <1>13 DEF Sound
<1>15. q.inst[k].born = births + 1
  BY <1>1, <1>5, <1>6
<1> QED BY <1>1, <1>4, <1>8, <1>10, <1>14, <1>15 DEF q

\* Deleting an instance takes its birth out of the registry.
LEMMA DeletedFacts ==
    ASSUME NEW r \in Registries, NEW i \in Present(r), NEW n, Sound(r, n)
    PROVE  LET q == [r EXCEPT !.inst[i] = None] IN
           /\ q \in Registries /\ q.seq = r.seq
           /\ Present(q) = Present(r) \ {i}
           /\ \A j \in Present(q) : q.inst[j] = r.inst[j]
           /\ \A j \in Present(q) : q.inst[j].born # r.inst[i].born
           /\ Sound(q, n)
<1> DEFINE q == [r EXCEPT !.inst[i] = None]
<1>1. q = [inst |-> [r.inst EXCEPT ![i] = None], seq |-> r.seq]
  BY SMT DEF Registries
<1>2. \A j \in Ids : q.inst[j] = IF j = i THEN None ELSE r.inst[j]
  BY <1>1 DEF Registries, Present
<1>3. q \in Registries /\ q.seq = r.seq
  BY <1>1 DEF Registries, Present
<1> HIDE DEF q
<1>4. Present(q) = Present(r) \ {i} /\ \A j \in Present(q) : q.inst[j] = r.inst[j]
  BY <1>2 DEF Present
<1>5. \A j \in Present(q) : q.inst[j].born # r.inst[i].born
  BY <1>4 DEF Sound
<1>6. Sound(q, n)
  BY SMT, <1>3, <1>4 DEF Sound, Running
<1> QED BY <1>3, <1>4, <1>5, <1>6 DEF q

(***************************************************************************)
(* What an operation has to show for Save to preserve the invariant.       *)
(***************************************************************************)
Proper(r, new, out) ==
    /\ disk.seq <= r.seq
    /\ Keeps(r, acked, gone \cup out, dropped \cup out)
    /\ \A a \in new : /\ a[1] <= r.seq
                      /\ r.inst[a[1]] # None /\ r.inst[a[1]].born = a[2]

\* An operation of a manager, saved or not (persistLocked), keeps the invariant if
\* its outcome is sound and drops no answered start.
LEMMA SaveInv ==
    ASSUME Inv, NEW p \in Managers, pc[p] \in {"ready", "deleting"},
           NEW r \in Registries, NEW ok \in BOOLEAN,
           NEW new \in SUBSET (Ids \X (1..MaxBirths)), NEW out \in SUBSET (1..births'),
           Save(p, r, ok, new, out),
           births' \in 0..MaxBirths, births <= births',
           Sound(r, births'),
           ~diverged /\ p \in UpToDate => Proper(r, new, out)
    PROVE  Inv'
<1> USE RegistryAssumption
<1>1. TypeOK /\ p \in Up /\ births \in Nat /\ births' \in Nat
  BY SMT DEF Inv, TypeOK, Up
<1>2. TypeOK' /\ (gone \subseteq 1..births)'
  <2>1. (disk \in Registries)' /\ (mem \in [Managers -> Registries])'
    BY <1>1, EmptySound DEF Save, TypeOK
  <2>2. (pc \in [Managers -> {"off", "checked", "fallback", "spawned", "loaded",
                              "ready", "deleting"}])'
    BY <1>1 DEF Save, TypeOK
  <2>3. (faults \in 0..MaxFaults)'
    BY SMT, <1>1 DEF Save, TypeOK, Fault
  <2>4. (acked \subseteq Ids \X (1..MaxBirths))'
    BY <1>1 DEF Save, TypeOK, Tracked
  <2>5. (gone \subseteq 1..births)' /\ (gone \subseteq 1..MaxBirths)'
    <3>1. gone' = {} \/ gone' = gone \cup out
      BY Zenon DEF Save, Tracked
    <3>2. 1..births \subseteq 1..births' /\ 1..births' \subseteq 1..MaxBirths
      BY SMT, <1>1
    <3>3. gone \subseteq 1..births
      BY DEF Inv
    <3> QED BY <3>1, <3>2, <3>3
  <2>6. (dropped \subseteq gone)'
    BY <1>1 DEF Save, TypeOK, Tracked
  <2>7. (behind \subseteq Managers)' /\ (diverged \in BOOLEAN)'
    BY <1>1 DEF Save, TypeOK, Up
  <2> QED BY <1>1, <2>1, <2>2, <2>3, <2>4, <2>5, <2>6, <2>7 DEF Save, TypeOK
<1>3. (behind \subseteq Up)'
  BY SMT, <1>1 DEF Save, Inv, TypeOK, Up
<1>4. Sound(disk, births)' /\ (\A q \in Managers : Sound(mem[q], births))'
  <2>1. Sound(disk, births') /\ \A q \in Managers : Sound(mem[q], births')
    BY <1>1, SoundMonotone DEF Inv
  <2>2. mem' = [mem EXCEPT ![p] = Empty] \/ mem' = [mem EXCEPT ![p] = r]
    BY DEF Save
  <2>3. disk' = disk \/ disk' = r
    BY DEF Save
  <2>4. \A q \in Managers : mem'[q] = mem[q] \/ mem'[q] = Empty \/ mem'[q] = r
    BY <1>1, <2>2 DEF TypeOK
  <2> QED BY <2>1, <2>3, <2>4, EmptySound
<1>5. ASSUME ~diverged'
      PROVE  /\ Keeps(disk, acked, gone, dropped)'
             /\ (\A q \in UpToDate : Keeps(mem[q], acked, gone, dropped) /\ disk.seq <= mem[q].seq)'
  <2>1. ~diverged /\ p \in UpToDate /\ Proper(r, new, out)
    BY <1>1, <1>5 DEF Save, UpToDate
  <2>2. /\ gone' = gone \cup out
        /\ \/ acked' = acked /\ dropped' = dropped
           \/ ok /\ acked' = acked \cup new /\ dropped' = dropped \cup out
    <3>1. gone' = gone \cup out
      BY <1>5, Zenon DEF Save, Tracked
    <3>2. PICK answered \in {ok /\ new \cup out # {}, FALSE} :
             /\ acked' = (IF answered THEN acked \cup new ELSE acked)
             /\ dropped' = (IF answered THEN dropped \cup out ELSE dropped)
      BY <1>5, Zenon DEF Save, Tracked
    <3>3. CASE answered = (ok /\ new \cup out # {})
      BY <3>1, <3>2, <3>3, Zenon
    <3>4. CASE answered = FALSE
      BY <3>1, <3>2, <3>4, Zenon
    <3> QED BY <3>2, <3>3, <3>4, Zenon
  <2>3. Keeps(r, acked', gone', dropped')
    BY <2>1, <2>2 DEF Proper, Keeps
  <2>4. CASE ok
    <3>1. disk' = r /\ UpToDate' \subseteq {p}
      BY <1>1, <2>4 DEF Save, UpToDate, Up, TypeOK
    <3>2. p \in UpToDate' => mem'[p] = r
      BY <1>1 DEF Save, UpToDate, Up, TypeOK
    <3>3. r.seq <= r.seq
      BY SMT DEF Registries
    <3> QED BY <2>3, <3>1, <3>2, <3>3
  <2>5. CASE ~ok
    <3>1. /\ disk' = disk /\ acked' = acked /\ dropped' = dropped /\ gone' = gone \cup out
      BY <2>2, <2>5 DEF Save
    <3>2. Keeps(disk, acked, gone, dropped)'
      BY <2>1, <3>1 DEF Inv, Keeps
    <3>3. ASSUME NEW q \in UpToDate'
          PROVE  Keeps(mem'[q], acked', gone', dropped') /\ disk'.seq <= mem'[q].seq
      <4>1. CASE q = p
        <5>1. mem'[p] = r
          BY <1>1, <3>3, <4>1 DEF Save, UpToDate, Up, TypeOK
        <5> QED BY <2>1, <2>3, <3>1, <4>1, <5>1 DEF Proper
      <4>2. CASE q # p
        <5>1. q \in UpToDate /\ mem'[q] = mem[q]
          BY <1>1, <2>5, <3>3, <4>2 DEF Save, UpToDate, Up, TypeOK
        <5>2. Keeps(mem[q], acked, gone, dropped) /\ disk.seq <= mem[q].seq
          BY <2>1, <5>1 DEF Inv
        <5> QED BY <3>1, <5>1, <5>2 DEF Keeps
      <4> QED BY <4>1, <4>2
    <3> QED BY <3>2, <3>3
  <2> QED BY <2>4, <2>5
<1> QED BY <1>2, <1>3, <1>4, <1>5 DEF Inv

\* An operation that keeps ids and births is proper.
LEMMA SameBirthsProper ==
    ASSUME Inv, ~diverged, NEW p \in UpToDate, NEW r \in Registries,
           r.seq = mem[p].seq, Present(r) = Present(mem[p]),
           \A j \in Present(r) : r.inst[j].born = mem[p].inst[j].born
    PROVE  Proper(r, {}, {})
<1>1. Keeps(mem[p], acked, gone, dropped) /\ disk.seq <= mem[p].seq
  BY DEF Inv
<1>2. \A a \in acked : a[1] \in Ids
  BY DEF Inv, TypeOK
<1>3. \A j \in Ids : (r.inst[j] # None) <=> (mem[p].inst[j] # None)
  BY DEF Present
<1>4. \A j \in Ids : r.inst[j] # None => r.inst[j].born = mem[p].inst[j].born
  BY DEF Present
<1> QED BY <1>1, <1>2, <1>3, <1>4 DEF Proper, Keeps, Present

\* Steps of the processes around the registry: they load it, or leave it alone.
LEMMA FrameInv ==
    ASSUME Inv, TypeOK', (behind \subseteq Up)',
           UNCHANGED <<disk, births, acked, gone, dropped, diverged>>,
           \A q \in Managers : mem'[q] = mem[q] \/ mem'[q] = Empty \/ mem'[q] = disk,
           \A q \in UpToDate' : \/ q \in UpToDate /\ mem'[q] = mem[q]
                                \/ mem'[q] = disk
    PROVE  Inv'
<1>1. (gone \subseteq 1..births)' /\ Sound(disk, births)'
  BY DEF Inv
<1>2. (\A q \in Managers : Sound(mem[q], births))'
  BY EmptySound DEF Inv
<1>3. disk.seq \in Nat
  BY SMT, RegistryAssumption DEF Inv, TypeOK, Registries
<1>4. ASSUME ~diverged'
      PROVE  /\ Keeps(disk, acked, gone, dropped)'
             /\ (\A q \in UpToDate : Keeps(mem[q], acked, gone, dropped) /\ disk.seq <= mem[q].seq)'
  <2>1. /\ Keeps(disk, acked, gone, dropped)
        /\ \A q \in UpToDate : Keeps(mem[q], acked, gone, dropped) /\ disk.seq <= mem[q].seq
    BY <1>4 DEF Inv
  <2>2. ASSUME NEW q \in UpToDate'
        PROVE  Keeps(mem'[q], acked, gone, dropped) /\ disk.seq <= mem'[q].seq
    BY SMT, <1>3, <2>1, <2>2
  <2> QED BY <2>1, <2>2
<1> QED BY <1>1, <1>2, <1>4 DEF Inv

\* At the start no manager runs and the file is empty.
LEMMA InitInv == Init => Inv
<1> SUFFICES ASSUME Init PROVE Inv
  OBVIOUS
<1> USE RegistryAssumption
<1>1. Empty \in Registries /\ Present(Empty) = {} /\ Sound(Empty, births)
  BY EmptySound
<1>2. TypeOK /\ Up = {}
  <2>1. pc \in [Managers -> {"off"}] /\ mem \in [Managers -> Registries]
    BY <1>1 DEF Init
  <2>2. Up = {}
    BY <2>1 DEF Up
  <2>3. births \in 0..MaxBirths /\ faults \in 0..MaxFaults
    BY SMT DEF Init
  <2> QED BY <1>1, <2>1, <2>2, <2>3 DEF Init, TypeOK
<1>3. Keeps(disk, acked, gone, dropped)
  BY <1>1 DEF Init, Keeps
<1> QED BY <1>1, <1>2, <1>3 DEF Init, Inv, UpToDate

(***************************************************************************)
(* The operations.                                                         *)
(***************************************************************************)
\* StartWorkflow checks that no workflow of the template and rig runs, takes a
\* fresh id and saves before it answers.
LEMMA StartWorkflowInv ==
    ASSUME Inv, NEW p \in Servers, NEW t \in Templates, NEW g \in Rigs \cup {NoRig},
           StartWorkflow(p, t, g)
    PROVE  Inv'
<1> DEFINE r == Started(mem[p], t, g)
           k == mem[p].seq + 1
           new == {<<k, births + 1>>}
<1>1. /\ p \in Managers /\ mem[p] \in Registries /\ births \in Nat /\ mem[p].seq \in Nat
      /\ births < MaxBirths /\ mem[p].seq < MaxSeq /\ births' = births + 1
      /\ Sound(mem[p], births)
      /\ ~HasActive(mem[p], t, g) /\ pc[p] = "ready" /\ p \in Up
  BY RegistryAssumption, SMTT(30) DEF Inv, TypeOK, StartWorkflow, Managers, Registries, Up
<1>2. PICK ok \in BOOLEAN : Save(p, r, ok, new, {})
  BY DEF StartWorkflow
<1>3. /\ r \in Registries /\ k \in Ids /\ r.seq = k
      /\ k \in Present(r) /\ r.inst[k].born = births + 1
      /\ \A j \in Ids \ {k} : r.inst[j] = mem[p].inst[j]
      /\ Sound(r, births + 1)
  BY <1>1, RegistryAssumption, StartedFacts
<1> HIDE DEF r
<1>4. new \in SUBSET (Ids \X (1..MaxBirths))
  <2>1. births \in Nat /\ births < MaxBirths /\ MaxBirths \in Nat
    BY <1>1, RegistryAssumption
  <2>2. births + 1 \in 1..MaxBirths
    BY SMT, <2>1
  <2>3. k \in Ids
    BY <1>3
  <2> QED BY SMT, <2>2, <2>3
<1>5. ASSUME ~diverged, p \in UpToDate
      PROVE  Proper(r, new, {})
  <2>1. Keeps(mem[p], acked, gone, dropped) /\ disk.seq <= mem[p].seq
    BY <1>5 DEF Inv
  <2>2. disk.seq <= r.seq
    BY SMT, <1>1, <1>3, <2>1 DEF Inv, TypeOK, Registries
  <2>3. \A a \in acked : a[1] \in Ids /\ a[1] # k /\ a[1] <= r.seq
    <3>1. \A a \in acked : a[1] \in Ids
      BY DEF Inv, TypeOK
    <3>2. \A a \in acked : a[1] <= mem[p].seq
      BY <2>1 DEF Keeps
    <3>3. mem[p].seq \in Nat /\ r.seq = mem[p].seq + 1 /\ k = mem[p].seq + 1
      BY <1>1, <1>3
    <3>4. ASSUME NEW n \in Ids, n <= mem[p].seq
          PROVE  n # k /\ n <= r.seq
      <4>1. n \in Nat
        BY SMT, RegistryAssumption DEF Ids
      <4> QED BY SMT, <3>3, <3>4, <4>1
    <3> HIDE DEF k
    <3> QED BY <3>1, <3>2, <3>4
  <2>4. births + 1 \notin dropped
    BY SMT, <1>1 DEF Inv, TypeOK
  <2>5. \A j \in Present(r) : r.inst[j].born \notin dropped
    BY <1>3, <2>1, <2>4 DEF Keeps, Present
  <2>6. Keeps(r, acked, gone, dropped)
    BY <1>3, <2>1, <2>3, <2>5 DEF Keeps
  <2>7. r.inst[k] # None /\ r.inst[k].born = births + 1
    BY <1>3 DEF Present
  <2>8. k <= r.seq
    BY <1>1, <1>3, SMTT(30)
  <2>9. gone \cup {} = gone /\ dropped \cup {} = dropped
    OBVIOUS
  <2>10. \A a \in new : a[1] = k /\ a[2] = births + 1
    BY SMT
  <2> HIDE DEF new, k
  <2>11. \A a \in new : a[1] <= r.seq /\ r.inst[a[1]] # None /\ r.inst[a[1]].born = a[2]
    BY <2>7, <2>8, <2>10
  <2> QED BY <2>2, <2>6, <2>9, <2>11 DEF Proper
<1>6. births' \in 0..MaxBirths /\ births <= births'
  <2>1. births \in Nat /\ births < MaxBirths /\ MaxBirths \in Nat /\ births' = births + 1
    BY <1>1, RegistryAssumption
  <2> QED BY SMT, <2>1
<1>7. Sound(r, births')
  BY <1>1, <1>3
<1> HIDE DEF new, k
<1> QED BY <1>1, <1>2, <1>3, <1>4, <1>5, <1>6, <1>7, SaveInv

\* Saving a changed status keeps the invariant.
LEMMA SetStatusInv ==
    ASSUME Inv, NEW p \in Managers, pc[p] = "ready", NEW i \in Present(mem[p]),
           NEW s \in Statuses, NEW ok \in BOOLEAN,
           Save(p, SetStatus(mem[p], i, s), ok, {}, {}), UNCHANGED births,
           s = "running" => mem[p].inst[i].status = "running"
    PROVE  Inv'
<1> DEFINE r == SetStatus(mem[p], i, s)
<1> USE RegistryAssumption
<1>1. mem[p] \in Registries /\ births \in 0..MaxBirths
  BY DEF Inv, TypeOK
<1>2. /\ r \in Registries /\ r.seq = mem[p].seq /\ Present(r) = Present(mem[p])
      /\ \A j \in Present(mem[p]) : r.inst[j].born = mem[p].inst[j].born
  BY <1>1, SetStatusBirths, ZenonT(30)
<1>3. Sound(mem[p], births')
  <2>1. Sound(mem[p], births)
    BY DEF Inv
  <2>2. births \in Nat /\ births' = births /\ births <= births'
    BY SMT, <1>1
  <2> QED BY <1>1, <2>1, <2>2, SoundMonotone
<1>4. Sound(r, births')
  BY <1>1, <1>3, SetStatusSound
<1> HIDE DEF r
<1>5. ~diverged /\ p \in UpToDate => Proper(r, {}, {})
  BY <1>2, SameBirthsProper
<1>6. Save(p, r, ok, {}, {})
  BY DEF r
<1>7. /\ {} \in SUBSET (Ids \X (1..MaxBirths)) /\ {} \in SUBSET (1..births')
      /\ births' \in 0..MaxBirths /\ births <= births'
  BY SMT, <1>1
<1> QED BY <1>2, <1>4, <1>5, <1>6, <1>7, SaveInv

\* DeleteWorkflow takes one instance out and leaves next_seq alone.
LEMMA DeleteInv ==
    ASSUME Inv, NEW p \in Managers, NEW i \in Ids, DeleteWorkflow(p, i)
    PROVE  Inv'
<1> DEFINE r == [mem[p] EXCEPT !.inst[i] = None]
           b == mem[p].inst[i].born
<1> USE RegistryAssumption
<1>1. /\ mem[p] \in Registries /\ births \in 0..MaxBirths /\ i \in Present(mem[p])
      /\ UNCHANGED births /\ pc[p] \in {"ready", "deleting"}
      /\ Sound(mem[p], births)
  BY DEF Inv, TypeOK, DeleteWorkflow
<1>2. PICK ok \in BOOLEAN : Save(p, r, ok, {}, {b})
  BY DEF DeleteWorkflow
<1>3. /\ r \in Registries /\ r.seq = mem[p].seq
      /\ Present(r) = Present(mem[p]) \ {i}
      /\ \A j \in Present(r) : r.inst[j] = mem[p].inst[j]
      /\ \A j \in Present(r) : r.inst[j].born # b
      /\ Sound(r, births)
  BY <1>1, DeletedFacts
<1>4. b \in 1..births
  BY <1>1 DEF Sound
<1> HIDE DEF r
<1>5. ASSUME ~diverged, p \in UpToDate
      PROVE  Proper(r, {}, {b})
  <2>1. Keeps(mem[p], acked, gone, dropped) /\ disk.seq <= mem[p].seq
    BY <1>5 DEF Inv
  <2>2. \A a \in acked : a[1] \in Ids
    BY DEF Inv, TypeOK
  <2>3. \A j \in Ids : r.inst[j] # None => j \in Present(r)
    BY DEF Present
  <2>4. \A j \in Ids : j \notin Present(r) /\ mem[p].inst[j] # None => j = i
    BY <1>3 DEF Present
  <2>5. \A j \in Present(r) : r.inst[j] # None /\ mem[p].inst[j] # None
    BY <1>3 DEF Present
  <2>6. ASSUME NEW a \in acked
        PROVE  /\ a[1] <= r.seq
               /\ r.inst[a[1]] # None => r.inst[a[1]].born = a[2]
               /\ a[2] \in gone \cup {b} \/ r.inst[a[1]] # None
    BY <1>3, <2>1, <2>2, <2>3, <2>4, <2>5 DEF Keeps
  <2>7. \A j \in Present(r) : r.inst[j].born \notin dropped \cup {b}
    BY <1>3, <2>1 DEF Keeps
  <2> QED BY <1>3, <2>1, <2>6, <2>7 DEF Proper, Keeps
<1>6. /\ {} \in SUBSET (Ids \X (1..MaxBirths)) /\ {b} \in SUBSET (1..births')
      /\ births' \in 0..MaxBirths /\ births <= births'
  BY SMT, <1>1, <1>4 DEF Inv, TypeOK
<1>7. Sound(r, births')
  BY <1>1, <1>3
<1> HIDE DEF b
<1> QED BY <1>1, <1>2, <1>3, <1>5, <1>6, <1>7, SaveInv

\* PauseRunningWorkflowsForRig only pauses.
LEMMA PauseRigInv ==
    ASSUME Inv, NEW p \in Managers, NEW g \in Rigs, PauseRunningWorkflowsForRig(p, g)
    PROVE  Inv'
<1> DEFINE r == PausedRig(mem[p], g)
<1> USE RegistryAssumption
<1>1. /\ mem[p] \in Registries /\ births \in 0..MaxBirths
      /\ UNCHANGED births /\ pc[p] = "ready"
      /\ Sound(mem[p], births)
  BY DEF Inv, TypeOK, PauseRunningWorkflowsForRig
<1>2. PICK ok \in BOOLEAN : Save(p, r, ok, {}, {})
  BY DEF PauseRunningWorkflowsForRig
<1>3. /\ r \in Registries /\ r.seq = mem[p].seq /\ Present(r) = Present(mem[p])
      /\ \A j \in Present(mem[p]) : r.inst[j].born = mem[p].inst[j].born
      /\ Sound(r, births)
  BY <1>1, PausedRigFacts
<1> HIDE DEF r
<1>4. ~diverged /\ p \in UpToDate => Proper(r, {}, {})
  BY <1>3, SameBirthsProper
<1>5. /\ {} \in SUBSET (Ids \X (1..MaxBirths)) /\ {} \in SUBSET (1..births')
      /\ births' \in 0..MaxBirths /\ births <= births'
  BY SMT, <1>1
<1> QED BY <1>1, <1>2, <1>3, <1>4, <1>5, SaveInv

\* A completion that is refused after it has moved the instance in memory.
LEMMA UnsavedInv ==
    ASSUME Inv, NEW p \in Servers, pc[p] = "ready", NEW i \in Present(mem[p]),
           NEW s \in Statuses, s = "running" => mem[p].inst[i].status = "running",
           mem' = [mem EXCEPT ![p] = SetStatus(mem[p], i, s)],
           diverged' = (diverged \/ p \in behind),
           Fault,
           UNCHANGED <<disk, pc, pidFile, unrecorded, births, acked, gone, dropped, behind>>
    PROVE  Inv'
<1> DEFINE r == SetStatus(mem[p], i, s)
<1>1. mem[p] \in Registries /\ p \in Managers /\ Sound(mem[p], births)
  BY DEF Inv, TypeOK, Managers
<1>2. /\ r \in Registries /\ r.seq = mem[p].seq /\ Present(r) = Present(mem[p])
      /\ \A j \in Present(mem[p]) : r.inst[j].born = mem[p].inst[j].born
  BY <1>1, SetStatusBirths, ZenonT(30)
<1>3. Sound(r, births)
  BY <1>1, SetStatusSound
<1> HIDE DEF r
<1>4. mem' = [mem EXCEPT ![p] = r]
  BY DEF r
<1>5. \A q \in Managers : mem'[q] = IF q = p THEN r ELSE mem[q]
  BY <1>1, <1>4 DEF Inv, TypeOK
<1>6. diverged' \in BOOLEAN
  OBVIOUS
<1>7. TypeOK'
  <2>1. (mem \in [Managers -> Registries])'
    BY <1>2, <1>4 DEF Inv, TypeOK
  <2>2. (faults \in 0..MaxFaults)'
    BY SMT, RegistryAssumption DEF Inv, TypeOK, Fault
  <2> QED BY <1>6, <2>1, <2>2 DEF Inv, TypeOK
<1>8. (behind \subseteq Up)' /\ UpToDate' = UpToDate /\ UpToDate \subseteq Managers
  BY DEF Inv, Up, UpToDate
<1>9. ASSUME ~diverged'
      PROVE  /\ Keeps(disk, acked, gone, dropped)
             /\ \A q \in UpToDate : Keeps(mem'[q], acked, gone, dropped) /\ disk.seq <= mem'[q].seq
  <2>1. /\ Keeps(disk, acked, gone, dropped)
        /\ \A q \in UpToDate : Keeps(mem[q], acked, gone, dropped) /\ disk.seq <= mem[q].seq
    BY <1>9 DEF Inv
  <2>2. p \in UpToDate => Proper(r, {}, {})
    BY <1>2, <1>9, SameBirthsProper
  <2>3. p \in UpToDate => Keeps(r, acked, gone, dropped) /\ disk.seq <= r.seq
    BY <2>2 DEF Proper, Keeps
  <2> QED BY <1>5, <1>8, <2>1, <2>3
<1> QED BY <1>3, <1>5, <1>7, <1>8, <1>9 DEF Inv

\* CompleteTask ends or keeps an instance, saved or refused half-way.
LEMMA CompleteInv ==
    ASSUME Inv, NEW p \in Servers, NEW i \in Ids, CompleteTask(p, i)
    PROVE  Inv'
<1>1. /\ pc[p] = "ready" /\ i \in Present(mem[p]) /\ mem[p].inst[i].status \in Active
      /\ UNCHANGED births /\ p \in Managers
  BY DEF CompleteTask, Managers
<1>2. PICK s \in {mem[p].inst[i].status, "paused", "ended"} :
         \/ \E ok \in BOOLEAN : Save(p, SetStatus(mem[p], i, s), ok, {}, {})
         \/ /\ mem' = [mem EXCEPT ![p] = SetStatus(mem[p], i, s)]
            /\ diverged' = (diverged \/ p \in behind)
            /\ Fault
            /\ UNCHANGED <<disk, pc, pidFile, unrecorded, behind, acked, gone, dropped>>
  BY DEF CompleteTask
<1>3. s \in Statuses /\ (s = "running" => mem[p].inst[i].status = "running")
  BY <1>1 DEF Statuses
<1>4. CASE \E ok \in BOOLEAN : Save(p, SetStatus(mem[p], i, s), ok, {}, {})
  BY <1>1, <1>3, <1>4, SetStatusInv
<1>5. CASE /\ mem' = [mem EXCEPT ![p] = SetStatus(mem[p], i, s)]
           /\ diverged' = (diverged \/ p \in behind)
           /\ Fault
           /\ UNCHANGED <<disk, pc, pidFile, unrecorded, behind, acked, gone, dropped>>
  BY <1>1, <1>3, <1>5, UnsavedInv
<1> QED BY <1>2, <1>4, <1>5

\* PauseWorkflow only pauses.
LEMMA PauseInv ==
    ASSUME Inv, NEW p \in Managers, NEW i \in Ids, PauseWorkflow(p, i)
    PROVE  Inv'
<1>1. "paused" \in Statuses
  BY DEF Statuses
<1> QED BY <1>1, SetStatusInv DEF PauseWorkflow

\* ResumeWorkflow and ResetWorkflow make an instance run again without the check;
\* it has not run since its start.
LEMMA ReviveInv ==
    ASSUME Inv, NEW p \in Managers, NEW i \in Ids,
           ResumeWorkflow(p, i) \/ ResetWorkflow(p, i)
    PROVE  Inv'
<1>1. pc[p] = "ready" /\ i \in Present(mem[p]) /\ Revive(p, i)
  BY DEF ResumeWorkflow, ResetWorkflow
<1>2. "revived" \in Statuses /\ UNCHANGED births
  BY <1>1 DEF Statuses, Active, Revive
<1>3. PICK ok \in BOOLEAN : Save(p, SetStatus(mem[p], i, "revived"), ok, {}, {})
  BY <1>1 DEF Revive
<1> QED BY <1>1, <1>2, <1>3, SetStatusInv

(***************************************************************************)
(* The processes.                                                          *)
(***************************************************************************)
Process(p) ==
    \/ StartChecks(p) \/ StartSpawns(p) \/ StartRecords(p) \/ LoadInstances(p)
    \/ ListenNATS(p) \/ Crash(p) \/ ToolChecks(p) \/ ToolFallsBack(p) \/ ToolExits(p)

\* A process that ends takes its copy of the registry with it.
LEMMA ExitsInv ==
    ASSUME Inv, NEW p \in Managers, Exits(p), UNCHANGED <<disk, births, history, diverged>>,
           (pidFile \in Servers \cup {None})', (faults \in 0..MaxFaults)'
    PROVE  Inv'
<1>1. TypeOK'
  BY EmptySound DEF Inv, TypeOK, Exits, Become, history
<1>2. (behind \subseteq Up)'
  BY DEF Inv, TypeOK, Exits, Become, Up
<1>3. \A q \in Managers : mem'[q] = mem[q] \/ mem'[q] = Empty \/ mem'[q] = disk
  BY DEF Inv, TypeOK, Exits
<1>4. \A q \in UpToDate' : q \in UpToDate /\ mem'[q] = mem[q]
  BY DEF Inv, TypeOK, Exits, Become, Up, UpToDate
<1> QED BY <1>1, <1>2, <1>3, <1>4, FrameInv DEF history

\* Starting, loading, listening, crashing, and the offline tools.
LEMMA ProcessInv ==
    ASSUME Inv, NEW p \in Managers, Process(p)
    PROVE  Inv'
<1> USE RegistryAssumption DEF history, Unchanged, Become
<1>1. CASE Crash(p)
  BY <1>1, ExitsInv, SMTT(30) DEF Crash, Fault, Inv, TypeOK
<1>2. CASE ToolExits(p)
  BY <1>2, ExitsInv DEF ToolExits, Inv, TypeOK
<1>3. CASE LoadInstances(p)
  <2>1. Loaded(disk) = disk
    BY LoadedFacts DEF Inv, TypeOK
  <2>2. /\ \A q \in Managers : q # p => mem'[q] = mem[q]
        /\ \/ mem'[p] = disk /\ behind' = behind
           \/ mem'[p] = Empty /\ behind' = behind \cup {p}
    BY <1>3, <2>1 DEF LoadInstances, Inv, TypeOK
  <2>3. TypeOK'
    <3>1. (faults \in 0..MaxFaults)'
      BY SMT, <1>3 DEF LoadInstances, Fault, Inv, TypeOK
    <3>2. (mem \in [Managers -> Registries])'
      <4>1. mem' = [mem EXCEPT ![p] = disk] \/ mem' = [mem EXCEPT ![p] = Empty]
        BY <1>3, <2>1 DEF LoadInstances
      <4>2. disk \in Registries /\ Empty \in Registries /\ mem \in [Managers -> Registries]
        BY EmptySound DEF Inv, TypeOK
      <4> QED BY <4>1, <4>2
    <3>3. (behind \subseteq Managers)'
      BY <2>2 DEF Inv, TypeOK
    <3> QED BY <1>3, <3>1, <3>2, <3>3 DEF LoadInstances, Inv, TypeOK
  <2>4. /\ (behind \subseteq Up)'
        /\ \A q \in UpToDate' :
              \/ q # p /\ q \in UpToDate
              \/ q = p /\ mem'[p] = disk
    <3>1. p \in Up' /\ \A q \in Managers : q # p => (q \in Up' <=> q \in Up)
      BY <1>3 DEF LoadInstances, Inv, TypeOK, Up
    <3>2. behind \subseteq Managers
      BY DEF Inv, TypeOK
    <3>3. behind \subseteq Up /\ Up' \subseteq Managers
      BY DEF Inv, Up
    <3>4. behind' \subseteq Up'
      BY <2>2, <3>1, <3>2, <3>3
    <3>5. ASSUME NEW q \in UpToDate'
          PROVE  \/ q # p /\ q \in UpToDate
                 \/ q = p /\ mem'[p] = disk
      BY <2>2, <3>1, <3>3 DEF UpToDate
    <3> QED BY <3>4, <3>5
  <2>5. UpToDate' \subseteq Managers
    BY DEF UpToDate, Up
  <2>6. UNCHANGED <<disk, births, acked, gone, dropped, diverged>>
    BY <1>3 DEF LoadInstances
  <2> QED BY <2>2, <2>3, <2>4, <2>5, <2>6, FrameInv
<1>4. CASE StartChecks(p) \/ StartSpawns(p) \/ StartRecords(p) \/ ListenNATS(p)
             \/ ToolChecks(p) \/ ToolFallsBack(p)
  <2> USE DEF StartChecks, StartSpawns, StartRecords, ListenNATS, ToolChecks, ToolFallsBack
  <2>1. UNCHANGED <<disk, mem, births, acked, gone, dropped, behind, diverged, faults>>
    BY <1>4
  <2>2. TypeOK'
    BY <1>4, <2>1 DEF Inv, TypeOK
  <2>3. Up' = Up
    BY <1>4, <2>1 DEF Inv, TypeOK, Up
  <2>4. (behind \subseteq Up)' /\ UpToDate' = UpToDate
    BY <2>1, <2>3 DEF Inv, UpToDate
  <2> QED BY <2>1, <2>2, <2>4, FrameInv
<1> QED BY <1>1, <1>2, <1>3, <1>4 DEF Process

\* Every step keeps the invariant.
LEMMA NextInv == Inv /\ [Next]_vars => Inv'
<1> SUFFICES ASSUME Inv, [Next]_vars PROVE Inv'
  OBVIOUS
<1>1. CASE UNCHANGED vars
  BY <1>1, FrameInv DEF vars, history, Inv, TypeOK, Up, UpToDate
<1>2. CASE Stop
  <2>1. pidFile \in Managers /\ Exits(pidFile) /\ pidFile' = None
    BY <1>2 DEF Stop, IsRunning, Inv, TypeOK, Managers
  <2> QED BY <1>2, <2>1, ExitsInv DEF Stop, Unchanged, Inv, TypeOK
<1>3. CASE \E p \in Managers : Process(p)
  BY <1>3, ProcessInv
<1>4. CASE Next /\ ~Stop /\ ~\E p \in Managers : Process(p)
  BY <1>4, StartWorkflowInv, CompleteInv, PauseInv, ReviveInv, DeleteInv, PauseRigInv
     DEF Next, Process
<1> QED BY <1>1, <1>2, <1>3, <1>4

(***************************************************************************)
(* The results.                                                            *)
(***************************************************************************)
\* Every reachable state satisfies the invariant above.
THEOREM RegistryInvariant == Spec => []Inv
BY InitInv, NextInv, PTL DEF Spec

\* StartWorkflow, LoadInstances, ResumeWorkflow, ResetWorkflow: two running
\* workflows of one template and rig include one that was revived.
THEOREM RegistryOneRunning == Spec => []OneRunning
<1>1. Inv => OneRunning
  <2> SUFFICES ASSUME Inv PROVE OneRunning
    OBVIOUS
  <2>1. \A p \in Managers : Sound(mem[p], births)
    BY DEF Inv
  <2>2. \A p \in Managers : Present(mem[p]) \subseteq Ids
    BY DEF Present
  <2> QED BY <2>1, <2>2 DEF OneRunning, Sound, Running, Active
<1> QED BY <1>1, RegistryInvariant, PTL

\* persistLocked precedes the reply: answered starts and deletes are on disk
\* unless a manager worked on a copy that is not the file's, outdated or
\* empty after a failing load.
THEOREM RegistryAckedIsOnDisk == Spec => []AckedIsOnDisk
<1>1. Inv => AckedIsOnDisk
  BY DEF Inv, AckedIsOnDisk, Keeps
<1> QED BY <1>1, RegistryInvariant, PTL

\* allocateWorkflowID with the saved next_seq: an id given to a caller names
\* no other workflow unless a manager worked on a copy that is not the file's,
\* outdated or empty after a failing load.
THEOREM RegistryIdNamesOne == Spec => []IdNamesOne
<1>1. Inv => IdNamesOne
  BY DEF Inv, IdNamesOne, Keeps, UpToDate
<1> QED BY <1>1, RegistryInvariant, PTL
=============================================================================
