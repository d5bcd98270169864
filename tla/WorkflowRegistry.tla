-------------------------- MODULE WorkflowRegistry --------------------------
(***************************************************************************)
(* The registry of workflow instances: what every orchestrator.Manager     *)
(* keeps in memory (instances, nextSeq) and saves as a whole, by rename,   *)
(* in instances.json.                                                      *)
(*                                                                         *)
(* Two kinds of process hold a Manager.  An orchestrator server loads the  *)
(* file once, subscribes to NATS and executes the requests it receives one *)
(* at a time; clients that lose a reply send the request again, so any     *)
(* request may be executed at any time, more than once.  A `gt` command    *)
(* that finds no orchestrator running loads the file itself, applies its   *)
(* one operation and saves the file.  Nothing locks the file: the PID file *)
(* is all that keeps the managers apart.                                   *)
(*                                                                         *)
(* An instance is what the operations tell apart: its template, its rig,   *)
(* its status and, to tell two workflows of one id apart, its birth.       *)
(***************************************************************************)
EXTENDS Naturals, FiniteSets

CONSTANTS Templates, Rigs,
          NoRig,      \* a workflow started without a rig variable
          Servers,    \* orchestrator processes
          Tools,      \* gt commands that may work offline
          None,       \* no instance, no process
          MaxSeq,     \* bound: workflow ids
          MaxBirths,  \* bound: workflows ever created
          MaxFaults   \* bound: crashes, failing loads and saves, refused completions

Managers == Servers \cup Tools
Ids      == 1..MaxSeq
\* The code's status "running" is "running" since the start and "revived" since a
\* resume or a reset; "ended" is completed or failed.
Active   == {"running", "revived"}
Statuses == Active \cup {"paused", "ended"}
Instances == [tpl : Templates, rig : Rigs \cup {NoRig}, status : Statuses,
              born : 1..MaxBirths]

ASSUME RegistryAssumption ==
    /\ Servers \cap Tools = {}
    /\ NoRig \notin Rigs
    /\ None \notin Servers \cup Instances
    /\ MaxSeq \in Nat
    /\ MaxBirths \in Nat
    /\ MaxFaults \in Nat

VARIABLES disk,       \* instances.json: [inst, seq]
          mem,        \* per manager: its copy, [inst, seq]
          pc,         \* per manager: how far its process is
          pidFile,    \* the process in the PID file, or None
          unrecorded, \* servers spawned whose PID is not yet written
          births, faults,
          \* history, read by the properties only:
          acked,      \* <<id, birth>> of every start that was answered
          gone,       \* births that a delete has taken from a memory
          dropped,    \* births of every delete that was answered
          behind,     \* managers whose copy is not the file's: another one has
                      \* saved since, or loading it failed
          diverged    \* a manager that was behind has operated

history == <<acked, gone, dropped>>
vars == <<disk, mem, pc, pidFile, unrecorded, births, faults, history,
          behind, diverged>>

Empty == [inst |-> [i \in Ids |-> None], seq |-> 0]

Present(r) == {i \in Ids : r.inst[i] # None}
Alive(p)   == pc[p] \in {"spawned", "loaded", "ready"}
Up         == {p \in Managers : pc[p] \in {"loaded", "ready", "deleting"}}

Fault == faults < MaxFaults /\ faults' = faults + 1

Init ==
    /\ disk = Empty
    /\ mem = [p \in Managers |-> Empty]
    /\ pc = [p \in Managers |-> "off"]
    /\ pidFile = None /\ unrecorded = {}
    /\ births = 0 /\ faults = 0
    /\ acked = {} /\ gone = {} /\ dropped = {}
    /\ behind = {} /\ diverged = FALSE

(***************************************************************************)
(* What the operations compute.                                            *)
(***************************************************************************)
MaxInstanceSeq(r) ==
    IF Present(r) = {} THEN 0
    ELSE CHOOSE i \in Present(r) : \A j \in Present(r) : j <= i

\* Mutant of Loaded: the sequence number in the file is not trusted.
LoadedRecounted(r) == [r EXCEPT !.seq = MaxInstanceSeq(r)]

\* LoadInstances: a file without a sequence number continues at its highest id.
Loaded(r) == IF r.seq = 0 THEN [r EXCEPT !.seq = MaxInstanceSeq(r)] ELSE r

\* Mutant of HasActive: workflows without a rig are not looked for.
HasActiveRigged(r, t, g) ==
    \E i \in Present(r) :
        /\ r.inst[i].status \in Active /\ r.inst[i].tpl = t
        /\ g # NoRig /\ r.inst[i].rig = g

\* hasActiveWorkflowLocked: only running instances count; without a rig, the
\* running instances of every rig do.
HasActive(r, t, g) ==
    \E i \in Present(r) :
        /\ r.inst[i].status \in Active /\ r.inst[i].tpl = t
        /\ g = NoRig \/ r.inst[i].rig = g

SetStatus(r, i, s) == [r EXCEPT !.inst[i].status = s]

RunningFor(r, g) == {i \in Present(r) : r.inst[i].status \in Active
                                        /\ r.inst[i].rig = g}

PausedRig(r, g) ==
    [r EXCEPT !.inst = [i \in Ids |-> IF i \in RunningFor(r, g)
                                     THEN [r.inst[i] EXCEPT !.status = "paused"]
                                     ELSE r.inst[i]]]

(***************************************************************************)
(* Manager p has changed its memory to r and persists it; the operation    *)
(* started the workflows new and deleted those born out.  If persisting    *)
(* fails, the change stays in memory and the operation returns an error.   *)
(* The reply may be lost.  A tool ends here.                               *)
(***************************************************************************)
\* The properties on replies say nothing once a manager has diverged.
Tracked(S) == IF diverged' THEN {} ELSE S

Save(p, r, ok, new, out) ==
    /\ diverged' = (diverged \/ p \in behind)
    /\ IF ok
       THEN disk' = r /\ behind' = Up \ {p} /\ UNCHANGED faults
       ELSE disk' = disk /\ behind' = behind \ (Tools \cap {p}) /\ Fault
    /\ IF p \in Tools
       THEN mem' = [mem EXCEPT ![p] = Empty] /\ pc' = [pc EXCEPT ![p] = "off"]
       ELSE mem' = [mem EXCEPT ![p] = r] /\ UNCHANGED pc
    /\ \E answered \in {ok /\ new \cup out # {}, FALSE} :
          /\ acked' = Tracked(IF answered THEN acked \cup new ELSE acked)
          /\ dropped' = Tracked(IF answered THEN dropped \cup out ELSE dropped)
    /\ gone' = Tracked(gone \cup out)
    /\ UNCHANGED <<pidFile, unrecorded>>

Started(r, t, g) ==
    [inst |-> [r.inst EXCEPT ![r.seq + 1] =
                 [tpl |-> t, rig |-> g, status |-> "running", born |-> births + 1]],
     seq |-> r.seq + 1]

\* Mutant of StartWorkflow: the next operation will save the new instance.
StartWorkflowUnsaved(p, t, g) ==
    /\ pc[p] = "ready"
    /\ mem[p].seq < MaxSeq /\ births < MaxBirths
    /\ ~HasActive(mem[p], t, g)
    /\ births' = births + 1
    /\ mem' = [mem EXCEPT ![p] = Started(mem[p], t, g)]
    /\ diverged' = (diverged \/ p \in behind)
    /\ acked' = Tracked(acked \cup {<<mem[p].seq + 1, births + 1>>})
    /\ UNCHANGED <<disk, pc, pidFile, unrecorded, faults, gone, dropped, behind>>

\* StartWorkflow is only ever called on a server.
StartWorkflow(p, t, g) ==
    /\ pc[p] = "ready"
    /\ mem[p].seq < MaxSeq /\ births < MaxBirths
    /\ ~HasActive(mem[p], t, g)
    /\ births' = births + 1
    /\ \E ok \in BOOLEAN :
          Save(p, Started(mem[p], t, g), ok, {<<mem[p].seq + 1, births + 1>>}, {})

\* CompleteTask moves a running instance on; some of its error returns leave
\* the new state in memory without saving it.
CompleteTask(p, i) ==
    /\ pc[p] = "ready"
    /\ i \in Present(mem[p]) /\ mem[p].inst[i].status \in Active
    /\ \E s \in {mem[p].inst[i].status, "paused", "ended"} :
          \/ \E ok \in BOOLEAN : Save(p, SetStatus(mem[p], i, s), ok, {}, {})
          \/ /\ mem' = [mem EXCEPT ![p] = SetStatus(mem[p], i, s)]
             /\ diverged' = (diverged \/ p \in behind)
             /\ Fault
             /\ UNCHANGED <<disk, pc, pidFile, unrecorded, behind,
                            acked, gone, dropped>>
    /\ UNCHANGED births

(***************************************************************************)
(* The operations that a server executes on request and a tool offline.    *)
(***************************************************************************)
PauseWorkflow(p, i) ==
    /\ pc[p] = "ready"
    /\ i \in Present(mem[p]) /\ mem[p].inst[i].status # "ended"
    /\ \E ok \in BOOLEAN : Save(p, SetStatus(mem[p], i, "paused"), ok, {}, {})
    /\ UNCHANGED births

PauseRunningWorkflowsForRig(p, g) ==
    /\ pc[p] = "ready"
    /\ RunningFor(mem[p], g) # {}
    /\ \E ok \in BOOLEAN : Save(p, PausedRig(mem[p], g), ok, {}, {})
    /\ UNCHANGED births

\* Resume and reset make a workflow run again without looking for another one.
Revive(p, i) ==
    /\ \E ok \in BOOLEAN : Save(p, SetStatus(mem[p], i, "revived"), ok, {}, {})
    /\ UNCHANGED births

ResumeWorkflow(p, i) ==
    /\ pc[p] = "ready"
    /\ i \in Present(mem[p]) /\ mem[p].inst[i].status = "paused"
    /\ Revive(p, i)

ResetWorkflow(p, i) ==
    /\ pc[p] = "ready" /\ i \in Present(mem[p])
    /\ Revive(p, i)

DeleteWorkflow(p, i) ==
    /\ pc[p] \in {"ready", "deleting"}
    /\ i \in Present(mem[p])
    /\ \E ok \in BOOLEAN :
          Save(p, [mem[p] EXCEPT !.inst[i] = None], ok, {}, {mem[p].inst[i].born})
    /\ UNCHANGED births

(***************************************************************************)
(* Processes.  `gt` looks at the PID file, then spawns the orchestrator,   *)
(* then writes the PID file; the orchestrator loads the file and           *)
(* subscribes.                                                             *)
(***************************************************************************)
IsRunning == pidFile # None /\ Alive(pidFile)

Become(p, s) == pc' = [pc EXCEPT ![p] = s]

Unchanged == UNCHANGED <<disk, births, history, diverged>>

StartChecks(p) ==
    /\ p \in Servers /\ pc[p] = "off" /\ ~IsRunning
    /\ Become(p, "checked")
    /\ UNCHANGED <<mem, pidFile, unrecorded, faults, behind>> /\ Unchanged

\* A new process: a PID file that named an earlier one does not name it.
StartSpawns(p) ==
    /\ p \in Servers /\ pc[p] = "checked"
    /\ Become(p, "spawned")
    /\ pidFile' = IF pidFile = p THEN None ELSE pidFile
    /\ unrecorded' = unrecorded \cup {p}
    /\ UNCHANGED <<mem, faults, behind>> /\ Unchanged

StartRecords(p) ==
    /\ p \in unrecorded
    /\ pidFile' = p
    /\ unrecorded' = unrecorded \ {p}
    /\ UNCHANGED <<mem, pc, faults, behind>> /\ Unchanged

\* NewManager ignores the error of a load: the manager then starts with no
\* instance and at sequence number 0, and its next save replaces the file.
LoadInstances(p) ==
    /\ Become(p, CASE pc[p] = "spawned"  -> "loaded"
                  [] pc[p] = "fallback" -> "deleting"
                  [] OTHER              -> "ready")
    /\ pc[p] \in IF p \in Servers THEN {"spawned"} ELSE {"checked", "fallback"}
    /\ \/ /\ mem' = [mem EXCEPT ![p] = Loaded(disk)]
          /\ UNCHANGED <<faults, behind>>
       \/ /\ mem' = [mem EXCEPT ![p] = Empty]
          /\ behind' = behind \cup {p}
          /\ Fault
    /\ UNCHANGED <<pidFile, unrecorded>> /\ Unchanged

ListenNATS(p) ==
    /\ p \in Servers /\ pc[p] = "loaded"
    /\ Become(p, "ready")
    /\ UNCHANGED <<mem, pidFile, unrecorded, faults, behind>> /\ Unchanged

Exits(p) ==
    /\ Become(p, "off")
    /\ mem' = [mem EXCEPT ![p] = Empty]
    /\ unrecorded' = unrecorded \ {p}
    /\ behind' = behind \ {p}

\* Stop signals the recorded process and removes the PID file.
Stop ==
    /\ IsRunning
    /\ Exits(pidFile)
    /\ pidFile' = None
    /\ UNCHANGED faults /\ Unchanged

Crash(p) ==
    /\ p \in Servers /\ Alive(p)
    /\ Exits(p) /\ Fault
    /\ UNCHANGED pidFile /\ Unchanged

\* A gt command finds no orchestrator running and becomes a manager itself.
ToolChecks(p) ==
    /\ p \in Tools /\ pc[p] = "off" /\ ~IsRunning
    /\ Become(p, "checked")
    /\ UNCHANGED <<mem, pidFile, unrecorded, faults, behind>> /\ Unchanged

\* A delete works offline as well when nobody answers on NATS.
ToolFallsBack(p) ==
    /\ p \in Tools /\ pc[p] = "off" /\ IsRunning
    /\ \A q \in Servers : pc[q] # "ready"
    /\ Become(p, "fallback")
    /\ UNCHANGED <<mem, pidFile, unrecorded, faults, behind>> /\ Unchanged

\* Its operation was refused, or it was killed.
ToolExits(p) ==
    /\ p \in Tools /\ pc[p] # "off"
    /\ Exits(p)
    /\ UNCHANGED <<pidFile, faults>> /\ Unchanged

Next ==
    \/ \E p \in Servers, t \in Templates, g \in Rigs \cup {NoRig} :
          StartWorkflow(p, t, g)
    \/ \E p \in Servers, i \in Ids : CompleteTask(p, i)
    \/ \E p \in Managers, i \in Ids :
          PauseWorkflow(p, i) \/ ResumeWorkflow(p, i) \/ ResetWorkflow(p, i)
             \/ DeleteWorkflow(p, i)
    \/ \E p \in Managers, g \in Rigs : PauseRunningWorkflowsForRig(p, g)
    \/ \E p \in Managers :
          StartChecks(p) \/ StartSpawns(p) \/ StartRecords(p) \/ LoadInstances(p)
             \/ ListenNATS(p) \/ Crash(p) \/ ToolChecks(p) \/ ToolFallsBack(p)
             \/ ToolExits(p)
    \/ Stop

Spec == Init /\ [][Next]_vars
-----------------------------------------------------------------------------
Registries == [inst : [Ids -> Instances \cup {None}], seq : 0..MaxSeq]

TypeOK ==
    /\ disk \in Registries
    /\ mem \in [Managers -> Registries]
    /\ pc \in [Managers -> {"off", "checked", "fallback", "spawned", "loaded",
                            "ready", "deleting"}]
    /\ pidFile \in Servers \cup {None}
    /\ unrecorded \subseteq Servers
    /\ births \in 0..MaxBirths /\ faults \in 0..MaxFaults
    /\ acked \subseteq Ids \X (1..MaxBirths)
    /\ gone \subseteq 1..MaxBirths
    /\ dropped \subseteq gone
    /\ behind \subseteq Managers /\ diverged \in BOOLEAN

\* StartWorkflow's ErrWorkflowAlreadyActive: no manager runs two workflows of
\* one template and rig unless a resume or a reset revived one of them, however
\* often a start is sent again, whatever fails to be saved and whoever restarts.
OneRunning ==
    \A p \in Managers : \A i, j \in Present(mem[p]) :
        LET a == mem[p].inst[i]
            b == mem[p].inst[j] IN
        /\ i # j
        /\ a.status \in Active /\ b.status \in Active
        /\ a.tpl = b.tpl /\ a.rig = b.rig
        => a.status = "revived" \/ b.status = "revived"

\* persistLocked before the reply: a workflow whose start was answered is in
\* instances.json until a delete takes it out, and one whose delete was
\* answered is not, through every crash and failing save, until a manager
\* operates on a copy that is not the file's: one that another manager's save
\* has outdated, or the empty one that a failing load leaves.
AckedIsOnDisk ==
    ~diverged =>
        /\ \A a \in acked :
              \/ a[2] \in gone
              \/ disk.inst[a[1]] # None /\ disk.inst[a[1]].born = a[2]
        /\ \A i \in Present(disk) : disk.inst[i].born \notin dropped

\* allocateWorkflowID and the saved next_seq: the id a caller was given never
\* comes to name another workflow, not even after a delete and a restart,
\* neither in instances.json nor in a manager that is up to date with it, until
\* a manager operates on a copy that is not the file's (AckedIsOnDisk): one whose
\* load failed gives the ids out again.
IdNamesOne ==
    ~diverged =>
        \A a \in acked :
            /\ disk.inst[a[1]] # None => disk.inst[a[1]].born = a[2]
            /\ \A p \in Up \ behind :
                  mem[p].inst[a[1]] # None => mem[p].inst[a[1]].born = a[2]
=============================================================================
