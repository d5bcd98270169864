-------------------------- MODULE AgentLock_proofs --------------------------
(***************************************************************************)
(* Proofs about AgentLock, for any sets of processes and sessions.          *)
(*                                                                          *)
(* LockInv is the inductive invariant: between its read and its write a     *)
(* running Acquire owns the advisory lock, so no other Acquire can change   *)
(* the file, and what it concluded from the read still holds.               *)
(***************************************************************************)
EXTENDS AgentLock, TLAPS

\* Zenon is the prover of every leaf that names no other.
USE Zenon

LockInv ==
  /\ TypeOK
  /\ lockFile \in Prime => pc[lockFile] # "new"
  /\ \A p \in Prime :
       /\ At(p, "read") \/ At(p, "stale") \/ At(p, "write") => flock = p
       /\ At(p, "stale") => lockFile \notin alive
       /\ At(p, "write") => lockFile \in {NoLock, p}

\* The actions of Next that only touch what Check and CleanStaleLocks own.
CleanerMove(p) ==
  \/ StartUnlocked(p)
  \/ CheckRead(p)
  \/ CleanScan(p)
  \/ CleanListSessions(p)
  \/ CleanJudge(p)

\* Every step of the lock keeps its variables in their types.
LEMMA TypePreserved == TypeOK /\ [Next]_vars => TypeOK'
<1> SUFFICES ASSUME TypeOK, [Next]_vars PROVE TypeOK'
  OBVIOUS
<1> USE LockAssumption DEF TypeOK, Process, Where, Go, At
<1>1. ASSUME NEW p \in Prime, StartPrime(p) PROVE TypeOK'
  BY <1>1 DEF StartPrime
<1>2. ASSUME NEW p \in Prime, AcquireStep(p) PROVE TypeOK'
  <2>1. CASE FlockAcquire(p)
    BY <2>1 DEF FlockAcquire
  <2>2. CASE AcquireRead(p)
    BY SMT, <2>2 DEF AcquireRead
  <2>3. CASE AcquireRemoveStale(p)
    BY <2>3 DEF AcquireRemoveStale
  <2>4. CASE AcquireWrite(p)
    BY <2>4 DEF AcquireWrite
  <2>5. CASE AcquireFails(p)
    BY <2>5 DEF AcquireFails
  <2> QED
    BY <1>2, <2>1, <2>2, <2>3, <2>4, <2>5 DEF AcquireStep
<1>3. ASSUME NEW p \in Prime, Refresh(p) PROVE TypeOK'
  BY <1>3 DEF Refresh
<1>4. ASSUME NEW p \in Checker \cup Cleaner, StartUnlocked(p) PROVE TypeOK'
  BY <1>4 DEF StartUnlocked
<1>5. ASSUME NEW p \in Checker, CheckRead(p) PROVE TypeOK'
  BY <1>5 DEF CheckRead
<1>6. ASSUME NEW p \in Checker \cup Cleaner, Release(p) PROVE TypeOK'
  BY <1>6 DEF Release
<1>7. ASSUME NEW p \in Cleaner, CleanScan(p) PROVE TypeOK'
  BY <1>7 DEF CleanScan
<1>8. ASSUME NEW p \in Cleaner, CleanListSessions(p) PROVE TypeOK'
  BY SMT, <1>8 DEF CleanListSessions
<1>9. ASSUME NEW p \in Cleaner, CleanJudge(p) PROVE TypeOK'
  BY <1>9 DEF CleanJudge
<1>10. ASSUME NEW p \in Process, Exit(p) PROVE TypeOK'
  BY <1>10 DEF Exit
<1>11. ASSUME NEW s \in Session, SessionEnd(s) PROVE TypeOK'
  BY <1>11 DEF SessionEnd
<1>12. CASE UNCHANGED vars
  BY <1>12 DEF vars
<1> QED
  BY <1>1, <1>2, <1>3, <1>4, <1>5, <1>6, <1>7, <1>8, <1>9, <1>10, <1>11, <1>12
     DEF Next, CleanStep

\* LockInv holds initially.
LEMMA LockInvInit == Init => LockInv
BY LockAssumption DEF Init, LockInv, TypeOK, Process, Where, At

\* Every step keeps LockInv: only a running Acquire that owns the advisory
\* lock writes the file, and the cleaners only make the file absent.
LEMMA LockInvPreserved == LockInv /\ [Next]_vars => LockInv'
<1> SUFFICES ASSUME LockInv, [Next]_vars PROVE LockInv'
  OBVIOUS
<1>0. TypeOK /\ TypeOK'
  BY TypePreserved DEF LockInv
<1> USE <1>0, LockAssumption DEF LockInv, TypeOK, Process, Go, At
<1>1. ASSUME NEW p \in Prime, StartPrime(p) PROVE LockInv'
  BY <1>1 DEF StartPrime
<1>2. ASSUME NEW p \in Prime, AcquireStep(p) PROVE LockInv'
  <2>1. CASE FlockAcquire(p)
    BY <2>1 DEF FlockAcquire
  <2>2. CASE AcquireRead(p)
    BY SMT, <2>2 DEF AcquireRead, IsStale
  <2>3. CASE AcquireRemoveStale(p)
    BY <2>3 DEF AcquireRemoveStale
  <2>4. CASE AcquireWrite(p)
    BY <2>4 DEF AcquireWrite
  <2>5. CASE AcquireFails(p)
    BY <2>5 DEF AcquireFails
  <2> QED
    BY <1>2, <2>1, <2>2, <2>3, <2>4, <2>5 DEF AcquireStep
<1>3. ASSUME NEW p \in Prime, Refresh(p) PROVE LockInv'
  BY <1>3 DEF Refresh
<1>4. ASSUME NEW p \in Checker \cup Cleaner, CleanerMove(p) PROVE LockInv'
  <2>1. CASE StartUnlocked(p)
    BY <1>4, <2>1 DEF StartUnlocked
  <2>2. CASE CheckRead(p)
    BY <1>4, <2>2 DEF CheckRead
  <2>3. CASE CleanScan(p)
    BY <1>4, <2>3 DEF CleanScan
  <2>4. CASE CleanListSessions(p)
    BY <1>4, <2>4 DEF CleanListSessions
  <2>5. CASE CleanJudge(p)
    BY <1>4, <2>5 DEF CleanJudge
  <2> QED
    BY <1>4, <2>1, <2>2, <2>3, <2>4, <2>5 DEF CleanerMove
<1>5. ASSUME NEW p \in Checker \cup Cleaner, Release(p) PROVE LockInv'
  BY <1>5 DEF Release
<1>6. ASSUME NEW p \in Process, Exit(p) PROVE LockInv'
  BY <1>6 DEF Exit
<1>7. ASSUME NEW s \in Session, SessionEnd(s) PROVE LockInv'
  BY <1>7 DEF SessionEnd
<1>8. CASE UNCHANGED vars
  BY <1>8 DEF vars
<1> QED
  BY <1>1, <1>2, <1>3, <1>4, <1>5, <1>6, <1>7, <1>8 DEF Next, CleanStep, CleanerMove

\* The lock's state is well typed and a running Acquire owns the advisory
\* lock from its read to its write (lock.go Acquire).
THEOREM LockInvariant == Spec => []LockInv
BY LockInvInit, LockInvPreserved, PTL DEF Spec

\* lock.go Acquire never removes or replaces the record of another running
\* process, however many other processes call Acquire, Check and
\* CleanStaleLocks, and wherever they die.
THEOREM AcquireNeverEvictsHolds == Spec => AcquireNeverEvicts
<1>1. LockInv /\ [Next]_vars =>
        [\A p \in Prime :
           AcquireStep(p) /\ lockFile' # lockFile => lockFile \notin alive \ {p}]_vars
  <2> SUFFICES ASSUME LockInv, NEW p \in Prime, AcquireStep(p), lockFile' # lockFile
               PROVE  lockFile \notin alive \ {p}
    OBVIOUS
  <2>1. CASE AcquireRemoveStale(p)
    BY <2>1 DEF AcquireRemoveStale, LockInv
  <2>2. CASE AcquireWrite(p)
    BY <2>2, LockAssumption DEF AcquireWrite, LockInv, TypeOK
  <2>3. CASE FlockAcquire(p) \/ AcquireRead(p) \/ AcquireFails(p)
    BY <2>3 DEF FlockAcquire, AcquireRead, AcquireFails
  <2> QED
    BY <2>1, <2>2, <2>3 DEF AcquireStep
<1> QED
  BY <1>1, LockInvariant, PTL DEF AcquireNeverEvicts, Spec

\* Until the first Check or CleanStaleLocks, the lock file names every running
\* process that Acquire told it holds the identity, so two running processes
\* never both hold it (lock.go Acquire: "prevent TOCTOU races where two
\* processes could both see no lock and both write one").
THEOREM LiveHolderRecordedHolds == Spec => []LiveHolderRecorded
<1> DEFINE Inv == LockInv /\ LiveHolderRecorded /\ \A q \in claimed : pc[q] # "new"
<1>1. Init => Inv
  BY LockInvInit DEF Init, LiveHolderRecorded
<1>2. Inv /\ [Next]_vars => Inv'
  <2> SUFFICES ASSUME Inv, [Next]_vars PROVE LiveHolderRecorded' /\ \A q \in claimed' : pc'[q] # "new"
    BY LockInvPreserved
  <2> USE LockAssumption DEF LockInv, TypeOK, Process, OnlyAcquire, LiveHolderRecorded, Go, At
  <2>1. ASSUME NEW p \in Prime, StartPrime(p) \/ AcquireStep(p) \/ Refresh(p)
        PROVE  LiveHolderRecorded' /\ \A q \in claimed' : pc'[q] # "new"
    <3>1. CASE StartPrime(p)
      BY <3>1 DEF StartPrime
    <3>2. CASE FlockAcquire(p)
      BY <3>2 DEF FlockAcquire
    <3>3. CASE AcquireRead(p)
      BY SMT, <3>3 DEF AcquireRead
    <3>4. CASE AcquireRemoveStale(p)
      BY SMT, <3>4 DEF AcquireRemoveStale
    <3>5. CASE AcquireWrite(p)
      BY SMT, <3>5 DEF AcquireWrite
    <3>6. CASE Refresh(p)
      BY <3>6 DEF Refresh
    <3>7. CASE AcquireFails(p)
      BY <3>7 DEF AcquireFails
    <3> QED
      BY <2>1, <3>1, <3>2, <3>3, <3>4, <3>5, <3>6, <3>7 DEF AcquireStep
  <2>2. ASSUME NEW p \in Process, Exit(p)
        PROVE  LiveHolderRecorded' /\ \A q \in claimed' : pc'[q] # "new"
    BY <2>2 DEF Exit
  <2>3. ASSUME NEW s \in Session, SessionEnd(s)
        PROVE  LiveHolderRecorded' /\ \A q \in claimed' : pc'[q] # "new"
    BY <2>3 DEF SessionEnd
  <2>4. ASSUME NEW p \in Checker, StartUnlocked(p) \/ CheckRead(p) \/ Release(p)
        PROVE  LiveHolderRecorded' /\ \A q \in claimed' : pc'[q] # "new"
    BY <2>4 DEF StartUnlocked, CheckRead, Release
  <2>5. ASSUME NEW p \in Cleaner, StartUnlocked(p) \/ CleanStep(p)
        PROVE  LiveHolderRecorded' /\ \A q \in claimed' : pc'[q] # "new"
    BY SMT, <2>5 DEF StartUnlocked, CleanStep, CleanScan, CleanListSessions, CleanJudge, Release
  <2>6. CASE UNCHANGED vars
    BY <2>6 DEF vars
  <2> QED
    BY <2>1, <2>2, <2>3, <2>4, <2>5, <2>6 DEF Next
<1>3. Inv => LiveHolderRecorded
  OBVIOUS
<1> QED
  BY <1>1, <1>2, <1>3, PTL DEF Spec
=============================================================================
