----------------------------- MODULE AgentLock -----------------------------
(***************************************************************************)
(* The identity lock of one worker directory (internal/lock/lock.go), as    *)
(* it is used: `gt prime` processes call Acquire (cmd/prime.go), `gt doctor *)
(* --fix` and `gt agents fix` call CleanStaleLocks, and Check is exported   *)
(* for any process to call.                                                 *)
(*                                                                          *)
(* The lock file .runtime/agent.lock is `lockFile`: the process whose PID   *)
(* it records (its session_id is IdOf of that process), or NoLock.          *)
(* Acquire runs under the advisory lock agent.lock.flock (`flock`); Check   *)
(* and CleanStaleLocks take no advisory lock.  A step is one file-system    *)
(* operation, so every window between two of them is visible.  A process is *)
(* one run of a program: its PID is not reused.                             *)
(***************************************************************************)
EXTENDS FiniteSets

CONSTANTS Prime,      \* runs of `gt prime` (one PID each)
          Checker,    \* processes that call Lock.Check
          Cleaner,    \* runs of CleanStaleLocks
          Session,    \* tmux sessions
          SessionOf,  \* the session a `gt prime` runs in
          Id,         \* session identifiers as text
          IdOf,       \* what a `gt prime` records: $TMUX_PANE
          Names,      \* the identifiers the listing gives for a session
          NoLock      \* absence of the lock file, or of a flock holder

Process == Prime \cup Checker \cup Cleaner

ASSUME LockAssumption ==
  /\ SessionOf \in [Prime -> Session]
  /\ IdOf \in [Prime -> Id] /\ Names \in [Session -> SUBSET Id]
  /\ Prime \cap Checker = {} /\ Prime \cap Cleaner = {} /\ Checker \cap Cleaner = {}
  /\ NoLock \notin Process

VARIABLES lockFile,  \* agent.lock: the recorded process, or NoLock
          flock,     \* holder of agent.lock.flock, or NoLock
          alive,     \* processes whose PID exists
          sessions,  \* live tmux sessions
          pc,        \* where each process stands
          seen,      \* the lock a cleaner found
          listed,    \* the session identifiers a cleaner listed
          claimed    \* the `gt prime`s whose last Acquire returned nil

vars == <<lockFile, flock, alive, sessions, pc, seen, listed, claimed>>

Where == {"new", "flock", "read", "stale", "write", "held", "refused",
          "scanned", "listed", "remove", "done"}

TypeOK ==
  /\ lockFile \in Prime \cup {NoLock}
  /\ flock \in Prime \cup {NoLock}
  /\ alive \subseteq Process
  /\ sessions \subseteq Session
  /\ pc \in [Process -> Where]
  /\ seen \in [Cleaner -> Prime \cup {NoLock}]
  /\ listed \in [Cleaner -> SUBSET Id]
  /\ claimed \subseteq Prime

Init ==
  /\ lockFile = NoLock
  /\ flock = NoLock
  /\ alive = {}
  /\ sessions = Session
  /\ pc = [p \in Process |-> "new"]
  /\ seen = [p \in Cleaner |-> NoLock]
  /\ listed = [p \in Cleaner |-> {}]
  /\ claimed = {}

\* LockInfo.IsStale: the recorded process no longer exists.
IsStale(info) == info \notin alive

At(p, l) == p \in alive /\ pc[p] = l

Go(p, l) == pc' = [pc EXCEPT ![p] = l]

----------------------------------------------------------------------------
(* Acquire, called by acquireIdentityLock. *)

\* A `gt prime` starts in a live session and reaches Acquire.
StartPrime(p) ==
  /\ pc[p] = "new"
  /\ SessionOf[p] \in sessions
  /\ alive' = alive \cup {p}
  /\ Go(p, "flock")
  /\ UNCHANGED <<lockFile, flock, sessions, seen, listed, claimed>>

\* Mutant of FlockAcquire: Acquire without the advisory lock.
FlockAcquireSkipped(p) ==
  /\ At(p, "flock")
  /\ flock' = p
  /\ Go(p, "read")
  /\ UNCHANGED <<lockFile, alive, sessions, seen, listed, claimed>>

\* flockAcquire: LOCK_EX blocks until the advisory lock is free.
FlockAcquire(p) ==
  /\ At(p, "flock")
  /\ flock = NoLock
  /\ flock' = p
  /\ Go(p, "read")
  /\ UNCHANGED <<lockFile, alive, sessions, seen, listed, claimed>>

\* Mutant of AcquireRead: the ErrLocked return misses the deferred unlock.
AcquireReadLeak(p) ==
  /\ At(p, "read")
  /\ \/ lockFile \in {NoLock, p} /\ Go(p, "write") /\ UNCHANGED claimed
     \/ /\ lockFile \notin {NoLock, p} /\ IsStale(lockFile)
        /\ Go(p, "stale") /\ UNCHANGED claimed
     \/ /\ lockFile \notin {NoLock, p} /\ ~IsStale(lockFile)
        /\ Go(p, "refused") /\ claimed' = claimed \ {p}
  /\ UNCHANGED <<lockFile, flock, alive, sessions, seen, listed>>

\* Acquire reads the lock file and decides: free or our own PID - write it;
\* stale - remove it first; another live process - return ErrLocked (the
\* deferred unlock runs).
AcquireRead(p) ==
  /\ At(p, "read")
  /\ \/ lockFile \in {NoLock, p} /\ Go(p, "write") /\ UNCHANGED <<flock, claimed>>
     \/ /\ lockFile \notin {NoLock, p} /\ IsStale(lockFile)
        /\ Go(p, "stale") /\ UNCHANGED <<flock, claimed>>
     \/ /\ lockFile \notin {NoLock, p} /\ ~IsStale(lockFile)
        /\ Go(p, "refused") /\ flock' = NoLock /\ claimed' = claimed \ {p}
  /\ UNCHANGED <<lockFile, alive, sessions, seen, listed>>

\* The removal or the write fails: Acquire returns the error and unlocks.
AcquireFails(p) ==
  /\ At(p, "stale") \/ At(p, "write")
  /\ Go(p, "refused")
  /\ flock' = NoLock
  /\ claimed' = claimed \ {p}
  /\ UNCHANGED <<lockFile, alive, sessions, seen, listed>>

\* Acquire's stale branch: Release removes whatever file is there now.
AcquireRemoveStale(p) ==
  /\ At(p, "stale")
  /\ lockFile' = NoLock
  /\ Go(p, "write")
  /\ UNCHANGED <<flock, alive, sessions, seen, listed, claimed>>

\* Mutant of AcquireWrite: the unlock runs before the rename.
AcquireWriteUnlockedFirst(p) ==
  \/ /\ At(p, "write") /\ flock = p
     /\ flock' = NoLock
     /\ UNCHANGED <<lockFile, alive, sessions, pc, seen, listed, claimed>>
  \/ /\ At(p, "write") /\ flock # p
     /\ lockFile' = p
     /\ Go(p, "held")
     /\ claimed' = claimed \cup {p}
     /\ UNCHANGED <<flock, alive, sessions, seen, listed>>

\* write: temp file and rename, then the deferred unlock.
AcquireWrite(p) ==
  /\ At(p, "write")
  /\ lockFile' = p
  /\ flock' = NoLock
  /\ Go(p, "held")
  /\ claimed' = claimed \cup {p}
  /\ UNCHANGED <<alive, sessions, seen, listed>>

\* A holder calls Acquire again ("We already hold it - refresh").
Refresh(p) ==
  /\ At(p, "held")
  /\ Go(p, "flock")
  /\ UNCHANGED <<lockFile, flock, alive, sessions, seen, listed, claimed>>

----------------------------------------------------------------------------
(* Check and CleanStaleLocks: no advisory lock. *)

StartUnlocked(p) ==
  /\ pc[p] = "new"
  /\ alive' = alive \cup {p}
  /\ Go(p, "read")
  /\ UNCHANGED <<lockFile, flock, sessions, seen, listed, claimed>>

\* Check reads; only a stale lock leads to a removal.
CheckRead(p) ==
  /\ At(p, "read")
  /\ Go(p, IF lockFile # NoLock /\ IsStale(lockFile) THEN "remove" ELSE "done")
  /\ UNCHANGED <<lockFile, flock, alive, sessions, seen, listed, claimed>>

\* FindAllLocks: the cleaner's snapshot of the lock file.
CleanScan(p) ==
  /\ At(p, "read")
  /\ seen' = [seen EXCEPT ![p] = lockFile]
  /\ Go(p, IF lockFile = NoLock THEN "done" ELSE "scanned")
  /\ UNCHANGED <<lockFile, flock, alive, sessions, listed, claimed>>

\* getActiveTmuxSessions: the names and numbers of the live sessions, or
\* nothing when tmux fails.
CleanListSessions(p) ==
  /\ At(p, "scanned")
  /\ \E ids \in {UNION {Names[s] : s \in sessions}, {}} :
       listed' = [listed EXCEPT ![p] = ids]
  /\ Go(p, "listed")
  /\ UNCHANGED <<lockFile, flock, alive, sessions, seen, claimed>>

\* IsStale of the snapshot, and its session_id not listed.
CleanJudge(p) ==
  /\ At(p, "listed")
  /\ Go(p, IF IsStale(seen[p]) /\ IdOf[seen[p]] \notin listed[p]
           THEN "remove" ELSE "done")
  /\ UNCHANGED <<lockFile, flock, alive, sessions, seen, listed, claimed>>

\* Release: os.Remove of whatever lock file is there now.
Release(p) ==
  /\ At(p, "remove")
  /\ lockFile' = NoLock
  /\ Go(p, "done")
  /\ UNCHANGED <<flock, alive, sessions, seen, listed, claimed>>

----------------------------------------------------------------------------
(* The environment: processes exit, sessions end. *)

\* A process ends, normally or killed; the kernel drops its advisory lock.
Exit(p) ==
  /\ p \in alive
  /\ alive' = alive \ {p}
  /\ flock' = IF flock = p THEN NoLock ELSE flock
  /\ UNCHANGED <<lockFile, sessions, pc, seen, listed, claimed>>

\* A tmux session ends, and with it the processes in it.
SessionEnd(s) ==
  /\ s \in sessions
  /\ sessions' = sessions \ {s}
  /\ alive' = alive \ {p \in Prime : SessionOf[p] = s}
  /\ flock' = IF flock \in Prime /\ SessionOf[flock] = s THEN NoLock ELSE flock
  /\ UNCHANGED <<lockFile, pc, seen, listed, claimed>>

AcquireStep(p) ==
  \/ FlockAcquire(p)
  \/ AcquireRead(p)
  \/ AcquireRemoveStale(p)
  \/ AcquireWrite(p)
  \/ AcquireFails(p)

CleanStep(p) ==
  \/ CleanScan(p)
  \/ CleanListSessions(p)
  \/ CleanJudge(p)
  \/ Release(p)

Next ==
  \/ \E p \in Prime : StartPrime(p) \/ AcquireStep(p) \/ Refresh(p)
  \/ \E p \in Checker : StartUnlocked(p) \/ CheckRead(p) \/ Release(p)
  \/ \E p \in Cleaner : StartUnlocked(p) \/ CleanStep(p)
  \/ \E p \in Process : Exit(p)
  \/ \E s \in Session : SessionEnd(s)

Spec == Init /\ [][Next]_vars

\* A running Acquire keeps running; the kernel grants a blocking flock that
\* becomes free again and again to every waiter in the end.
FairSpec ==
  /\ Spec
  /\ \A p \in Prime : SF_vars(FlockAcquire(p)) /\ WF_vars(AcquireStep(p))

----------------------------------------------------------------------------
(* Properties. *)

\* Until the first Check or CleanStaleLocks, the lock file records every
\* running process that Acquire told it holds the identity (lock.go Acquire:
\* "Returns ErrLocked if another live process holds the lock").  So there is
\* at most one such process.  Check and CleanStaleLocks take no advisory lock
\* and may remove a newer record than the one they judged.
OnlyAcquire == \A r \in Checker \cup Cleaner : pc[r] = "new"
LiveHolderRecorded == OnlyAcquire => \A p \in claimed \cap alive : lockFile = p

\* Acquire itself never removes or replaces the record of another process
\* that is still running, whatever Check and CleanStaleLocks do meanwhile:
\* the decision taken on the read is still right at the removal and at the
\* write, because the advisory lock keeps other writers out.
AcquireNeverEvicts ==
  [][\A p \in Prime :
       AcquireStep(p) /\ lockFile' # lockFile => lockFile \notin alive \ {p}]_vars

\* A call of Acquire returns (or its process ends), also when processes die
\* while they hold the advisory lock and when other calls fail.
AcquireReturns ==
  \A p \in Prime :
    (pc[p] = "flock") ~> (pc[p] \in {"held", "refused"} \/ p \notin alive)
============================================================================
