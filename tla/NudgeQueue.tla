----------------------------- MODULE NudgeQueue -----------------------------
(***************************************************************************)
(* The nudge queue of one session: a directory in which every queued nudge *)
(* is a file.  Senders write files (Enqueue), any number of drainers (the  *)
(* turn hook, the poller, the idle watcher, the ACP propeller) list the    *)
(* directory, claim each file by renaming it, read it and remove it        *)
(* (Drain), and a reply removes the reminders it makes pointless           *)
(* (RemoveKindByThread).  No process holds a lock: the file names carry    *)
(* the whole protocol, and any process may stop between two system calls.  *)
(*                                                                         *)
(* A file is <<n, k>>: the k-th file written for nudge n.  The numbers of  *)
(* the nudges are their timestamps, by which Drain sorts.  A claim is the  *)
(* file renamed to a fresh random suffix, so the name of a claim that has  *)
(* ended never comes back: the listings that still hold it lose it.        *)
(*                                                                         *)
(* Time is three facts that only ever become true: a file is stale (its    *)
(* modification time, which renaming keeps, is older than the claim        *)
(* threshold), a nudge is due, a nudge has expired.                        *)
(***************************************************************************)
EXTENDS Naturals, FiniteSets

CONSTANTS Nudges,      \* 1..n, in the order of their timestamps
          Reminders,   \* the nudges that carry DeliverAfter and a thread
          Expiring,    \* the nudges whose ExpiresAt may pass
          Senders,     \* processes calling Enqueue
          Drainers,    \* processes calling Drain
          Hooks,       \* the drainers that start at every turn
          Propellers,  \* the drainers that Requeue what they cannot deliver
          MaxDepth,    \* MaxQueueDepth
          MaxFiles,    \* bound: files written for one nudge
          MaxFaults    \* bound: crashes and failed system calls

ASSUME QueueAssumption ==
    /\ Nudges \subseteq Nat
    /\ Reminders \subseteq Nudges
    /\ Expiring \subseteq Nudges
    /\ Hooks \subseteq Drainers
    /\ Propellers \subseteq Drainers
    /\ Senders \cap Drainers = {}
    /\ {"none", "json"} \cap Drainers = {}
    /\ MaxDepth \in Nat
    /\ MaxFiles \in Nat
    /\ MaxFaults \in Nat

VARIABLES at,        \* per file: "none", "json", or the drainer that claimed it
          whole,     \* the files whose content is completely written
          stale,     \* the files older than the claim threshold
          files,     \* per nudge: files written for it so far
          sent,      \* the nudges some sender has taken up
          wpc,       \* per writer: "idle", "create" or "finish"
          wfile,     \* per writer: the file of its Enqueue
          pc,        \* per drainer: where its Drain is
          todo,      \* per drainer: listed .json names not yet tried
          sweeps,    \* per drainer: listed stale claims, <<file, claimer>>
          cur,       \* per drainer: the file it has claimed
          batch,     \* per drainer: the nudges its Drain will return
          now,       \* per drainer: due and expired as of the Drain's clock
          due, expired,
          faults,    \* crashes and failed system calls so far
          \* history, read by the properties only:
          acked,     \* Enqueue returned nil
          delivered, \* per nudge: times it reached the agent (2 = more than once)
          removed,   \* taken out by RemoveKindByThread
          excused,   \* lost in one of the ways the code admits
          doubtful   \* its claim was swept from a running drainer, or stayed behind

fileVars  == <<at, whole, stale, files>>
writeVars == <<sent, wpc, wfile>>
drainVars == <<pc, todo, sweeps, cur, batch, now>>
timeVars  == <<due, expired>>
history   == <<acked, delivered, removed, excused, doubtful>>
vars      == <<fileVars, writeVars, drainVars, timeVars, faults, history>>

Files   == Nudges \X (1..MaxFiles)
NoFile  == <<0, 0>>
NoTime  == [due |-> {}, expired |-> {}]
Writers == Senders \cup Propellers
Nudge(f) == f[1]

Queued  == {f \in Files : at[f] = "json"}
Claims  == {f \in Files : at[f] \in Drainers}

\* One crash or failed system call, out of a bounded number.
Fault == faults < MaxFaults /\ faults' = faults + 1

Init ==
    /\ at = [f \in Files |-> "none"]
    /\ whole = {} /\ stale = {}
    /\ files = [n \in Nudges |-> 0]
    /\ sent = {}
    /\ wpc = [w \in Writers |-> "idle"]
    /\ wfile = [w \in Writers |-> NoFile]
    /\ pc = [d \in Drainers |-> "idle"]
    /\ todo = [d \in Drainers |-> {}]
    /\ sweeps = [d \in Drainers |-> {}]
    /\ cur = [d \in Drainers |-> NoFile]
    /\ batch = [d \in Drainers |-> {}]
    /\ now = [d \in Drainers |-> NoTime]
    /\ due = Nudges \ Reminders /\ expired = {}
    /\ faults = 0
    /\ acked = {} /\ removed = {} /\ excused = {} /\ doubtful = {}
    /\ delivered = [n \in Nudges |-> 0]

(***************************************************************************)
(* Enqueue: count the pending files, then create the file in place, then   *)
(* finish writing it.                                                      *)
(***************************************************************************)
Full == Cardinality(Queued) >= MaxDepth

\* The depth check passed: choose the file name.
Admit(w, n) ==
    /\ ~Full
    /\ files[n] < MaxFiles
    /\ files' = [files EXCEPT ![n] = @ + 1]
    /\ wfile' = [wfile EXCEPT ![w] = <<n, files[n] + 1>>]
    /\ wpc' = [wpc EXCEPT ![w] = "create"]

\* A sender takes up the next nudge.  A full queue is an error to the caller
\* and changes nothing.
Enqueue(s, n) ==
    /\ wpc[s] = "idle"
    /\ n \notin sent
    /\ \A m \in Nudges \ sent : n <= m
    /\ sent' = sent \cup {n}
    /\ Admit(s, n)
    /\ UNCHANGED <<at, whole, stale, drainVars, timeVars, faults, history>>

\* os.WriteFile creates the .json name before it has written the content.
CreateFile(w) ==
    /\ wpc[w] = "create"
    /\ at' = [at EXCEPT ![wfile[w]] = "json"]
    /\ wpc' = [wpc EXCEPT ![w] = "finish"]
    /\ UNCHANGED <<whole, stale, files, sent, wfile, drainVars, timeVars,
                   faults, history>>

\* The content is complete and Enqueue returns nil; the writer holds the
\* open file, so it neither knows nor minds that the name has moved.
FinishFile(w) ==
    /\ wpc[w] = "finish"
    /\ whole' = whole \cup {wfile[w]}
    /\ wpc' = [wpc EXCEPT ![w] = "idle"]
    /\ wfile' = [wfile EXCEPT ![w] = NoFile]
    /\ acked' = acked \cup {Nudge(wfile[w])}
    /\ batch' = IF w \in Drainers
                THEN [batch EXCEPT ![w] = @ \ {Nudge(wfile[w])}] ELSE batch
    /\ UNCHANGED <<at, stale, files, sent, pc, todo, sweeps, cur, now,
                   timeVars, faults, delivered, removed, excused, doubtful>>

(***************************************************************************)
(* Drain: list, sweep stale claims, then per listed name claim, read,      *)
(* settle.                                                                 *)
(***************************************************************************)
\* Mutant of StartDrain: claims left by crashed drainers are not listed for the sweep.
StartDrainUnswept(d) ==
    /\ pc[d] = "idle"
    /\ Queued \cup Claims # {}
    /\ pc' = [pc EXCEPT ![d] = "scan"]
    /\ todo' = [todo EXCEPT ![d] = Queued]
    /\ now' = [now EXCEPT ![d] = [due |-> due, expired |-> expired]]
    /\ UNCHANGED <<fileVars, writeVars, sweeps, cur, batch, timeVars, faults, history>>

\* os.ReadDir, and the clock that the whole Drain uses.
StartDrain(d) ==
    /\ pc[d] = "idle"
    /\ Queued \cup Claims # {}
    /\ pc' = [pc EXCEPT ![d] = "scan"]
    /\ todo' = [todo EXCEPT ![d] = Queued]
    /\ sweeps' = [sweeps EXCEPT ![d] = {<<f, at[f]>> : f \in Claims \cap stale}]
    /\ now' = [now EXCEPT ![d] = [due |-> due, expired |-> expired]]
    /\ UNCHANGED <<fileVars, writeVars, cur, batch, timeVars, faults, history>>

\* The claim of file f ends: its name is gone from every listing.
EndClaim(f, place) ==
    /\ at' = [at EXCEPT ![f] = place]
    /\ stale' = IF place = "none" THEN stale \ {f} ELSE stale
    /\ sweeps' = [x \in Drainers |-> sweeps[x] \ {<<f, at[f]>>}]

Holds(d, f) == cur[d] = f /\ pc[d] \in {"claimed", "discard", "unclaim", "keep"}

\* Mutant of Sweep: the sweep removes an orphaned claim, as the comment on
\* staleClaimThreshold still describes it.
SweepRemoves(d) ==
    /\ pc[d] = "scan"
    /\ \E c \in sweeps[d] :
          /\ EndClaim(c[1], "none")
          /\ doubtful' = IF Holds(c[2], c[1])
                         THEN doubtful \cup {Nudge(c[1])} ELSE doubtful
    /\ UNCHANGED <<whole, files, writeVars, pc, todo, cur, batch, now,
                   timeVars, faults, acked, delivered, removed, excused>>

\* A stale claim gets its .json name back, whoever made it.
Sweep(d) ==
    /\ pc[d] = "scan"
    /\ \E c \in sweeps[d] :
          /\ EndClaim(c[1], "json")
          /\ doubtful' = IF Holds(c[2], c[1])
                         THEN doubtful \cup {Nudge(c[1])} ELSE doubtful
    /\ UNCHANGED <<whole, files, writeVars, pc, todo, cur, batch, now,
                   timeVars, faults, acked, delivered, removed, excused>>

\* Rename the oldest listed name to a claim.  A name that is no longer there
\* belongs to another drainer, or has been removed.
Claim(d) ==
    /\ pc[d] = "scan" /\ sweeps[d] = {}
    /\ \E f \in todo[d] :
          /\ \A g \in todo[d] : Nudge(f) <= Nudge(g)
          /\ todo' = [todo EXCEPT ![d] = @ \ {f}]
          /\ \/ /\ at[f] = "json"
                /\ at' = [at EXCEPT ![f] = d]
                /\ cur' = [cur EXCEPT ![d] = f]
                /\ pc' = [pc EXCEPT ![d] = "claimed"]
             \/ /\ at[f] # "json"
                /\ UNCHANGED <<at, cur, pc>>
    /\ UNCHANGED <<whole, stale, files, writeVars, sweeps, batch, now,
                   timeVars, faults, history>>

\* What Drain does with the file it has read.
Verdict(d, f) ==
    IF f \notin whole THEN "discard"
    ELSE IF Nudge(f) \in now[d].expired THEN "discard"
    ELSE IF Nudge(f) \notin now[d].due THEN "unclaim"
    ELSE "keep"

\* Read the claimed file; it has vanished if a sweep took it.
ReadClaim(d) ==
    /\ pc[d] = "claimed"
    /\ LET f == cur[d] IN
          IF at[f] # d
          THEN /\ pc' = [pc EXCEPT ![d] = "scan"]
               /\ cur' = [cur EXCEPT ![d] = NoFile]
               /\ UNCHANGED batch
          ELSE /\ pc' = [pc EXCEPT ![d] = Verdict(d, f)]
               /\ UNCHANGED cur
               /\ batch' = IF Verdict(d, f) = "keep"
                           THEN [batch EXCEPT ![d] = @ \cup {Nudge(f)}]
                           ELSE batch
    /\ UNCHANGED <<fileVars, writeVars, todo, sweeps, now, timeVars, faults,
                   history>>

\* Mutant of Settle: the claim of a nudge that is returned to the caller stays behind.
SettleForgetful(d) ==
    LET f == cur[d]
        torn == pc[d] = "discard" /\ Nudge(f) \notin now[d].expired IN
    /\ pc[d] \in {"discard", "unclaim", "keep"}
    /\ IF at[f] = d /\ pc[d] # "keep"
       THEN /\ EndClaim(f, IF pc[d] = "unclaim" THEN "json" ELSE "none")
            /\ excused' = IF torn THEN excused \cup {Nudge(f)} ELSE excused
       ELSE UNCHANGED <<at, stale, sweeps, excused>>
    /\ pc' = [pc EXCEPT ![d] = "scan"]
    /\ cur' = [cur EXCEPT ![d] = NoFile]
    /\ UNCHANGED <<whole, files, writeVars, todo, batch, now,
                   timeVars, faults, acked, delivered, removed, doubtful>>

\* Remove the claim, or give the file its name back.  Either fails silently
\* when a sweep has moved the claim in the meantime.
Settle(d) ==
    LET f == cur[d]
        torn == pc[d] = "discard" /\ Nudge(f) \notin now[d].expired IN
    /\ pc[d] \in {"discard", "unclaim", "keep"}
    /\ IF at[f] = d
       THEN /\ EndClaim(f, IF pc[d] = "unclaim" THEN "json" ELSE "none")
            /\ excused' = IF torn THEN excused \cup {Nudge(f)} ELSE excused
       ELSE UNCHANGED <<at, stale, sweeps, excused>>
    /\ pc' = [pc EXCEPT ![d] = "scan"]
    /\ cur' = [cur EXCEPT ![d] = NoFile]
    /\ UNCHANGED <<whole, files, writeVars, todo, batch, now,
                   timeVars, faults, acked, delivered, removed, doubtful>>

\* Drain returns, with a batch for its caller or with nothing.
Return(d) ==
    /\ pc[d] = "scan" /\ sweeps[d] = {} /\ todo[d] = {}
    /\ pc' = [pc EXCEPT ![d] = IF batch[d] = {} THEN "idle" ELSE "deliver"]
    /\ now' = [now EXCEPT ![d] = NoTime]
    /\ UNCHANGED <<fileVars, writeVars, todo, sweeps, cur, batch, timeVars,
                   faults, history>>

(***************************************************************************)
(* What the caller of Drain does with the batch.                           *)
(***************************************************************************)
Deliver(d) ==
    /\ pc[d] = "deliver"
    /\ delivered' = [n \in Nudges |-> IF n \in batch[d] /\ delivered[n] < 2
                                      THEN delivered[n] + 1 ELSE delivered[n]]
    /\ pc' = [pc EXCEPT ![d] = "idle"]
    /\ batch' = [batch EXCEPT ![d] = {}]
    /\ UNCHANGED <<fileVars, writeVars, todo, sweeps, cur, now, timeVars,
                   faults, acked, removed, excused, doubtful>>

\* Delivery fails: the propeller requeues, every other caller only logs.
DeliverFails(d) ==
    /\ pc[d] = "deliver"
    /\ Fault
    /\ IF d \in Propellers
       THEN /\ pc' = [pc EXCEPT ![d] = "requeue"]
            /\ UNCHANGED <<batch, excused>>
       ELSE /\ pc' = [pc EXCEPT ![d] = "idle"]
            /\ batch' = [batch EXCEPT ![d] = {}]
            /\ excused' = excused \cup batch[d]
    /\ UNCHANGED <<fileVars, writeVars, todo, sweeps, cur, now, timeVars,
                   acked, delivered, removed, doubtful>>

\* Requeue: oldest first; expired nudges are skipped; a full queue ends it
\* with the rest of the batch unwritten.
Requeue(d) ==
    /\ pc[d] = "requeue" /\ wpc[d] = "idle"
    /\ \/ /\ batch[d] = {}
          /\ pc' = [pc EXCEPT ![d] = "idle"]
          /\ UNCHANGED <<files, wpc, wfile, batch, excused>>
       \/ \E n \in batch[d] :
             /\ \A m \in batch[d] : n <= m
             /\ \/ /\ n \in expired
                   /\ batch' = [batch EXCEPT ![d] = @ \ {n}]
                   /\ UNCHANGED <<files, wpc, wfile, pc, excused>>
                \/ /\ n \notin expired
                   /\ Admit(d, n)
                   /\ UNCHANGED <<pc, batch, excused>>
                \/ /\ n \notin expired /\ Full
                   /\ pc' = [pc EXCEPT ![d] = "idle"]
                   /\ batch' = [batch EXCEPT ![d] = {}]
                   /\ excused' = excused \cup batch[d]
                   /\ UNCHANGED <<files, wpc, wfile>>
    /\ UNCHANGED <<at, whole, stale, sent, todo, sweeps, cur, now, timeVars,
                   faults, acked, delivered, removed, doubtful>>

(***************************************************************************)
(* RemoveKindByThread, for one name of its listing: a queued reminder that *)
(* can be read is removed, claimed files are left alone.  Every reminder   *)
(* has a thread of its own.  Reading and removing are a single step: a     *)
(* claim in between makes the removal fail as if the claim had come first. *)
(***************************************************************************)
RemoveKindByThread(f) ==
    /\ at[f] = "json" /\ f \in whole /\ Nudge(f) \in Reminders
    /\ at' = [at EXCEPT ![f] = "none"]
    /\ stale' = stale \ {f}
    /\ removed' = removed \cup {Nudge(f)}
    /\ UNCHANGED <<whole, files, writeVars, drainVars, timeVars,
                   faults, acked, delivered, excused, doubtful>>

(***************************************************************************)
(* Time, crashes, and system calls that fail.                              *)
(***************************************************************************)
\* Clocks are read for nudges that are still somewhere.
Around(n) ==
    \/ \E f \in Files : Nudge(f) = n /\ at[f] # "none"
    \/ \E d \in Drainers : n \in batch[d]

GoesStale(f) ==
    /\ f \in whole \ stale /\ at[f] # "none"
    /\ stale' = stale \cup {f}
    /\ UNCHANGED <<at, whole, files, writeVars, drainVars, timeVars, faults,
                   history>>

FallsDue(n) ==
    /\ n \notin due /\ Around(n)
    /\ due' = due \cup {n}
    /\ UNCHANGED <<fileVars, writeVars, drainVars, expired, faults, history>>

Expires(n) ==
    /\ n \in Expiring \ expired /\ Around(n)
    /\ expired' = expired \cup {n}
    /\ UNCHANGED <<fileVars, writeVars, drainVars, due, faults, history>>

\* A draining process dies; its claims stay on disk, its batch is gone.
CrashDrainer(d) ==
    /\ Fault
    /\ pc[d] # "idle"
    /\ pc' = [pc EXCEPT ![d] = "idle"]
    /\ todo' = [todo EXCEPT ![d] = {}]
    /\ sweeps' = [sweeps EXCEPT ![d] = {}]
    /\ cur' = [cur EXCEPT ![d] = NoFile]
    /\ batch' = [batch EXCEPT ![d] = {}]
    /\ now' = [now EXCEPT ![d] = NoTime]
    /\ excused' = excused \cup
          {n \in batch[d] : ~(pc[d] = "keep" /\ n = Nudge(cur[d]))}
    /\ IF d \in Writers
       THEN /\ wpc' = [wpc EXCEPT ![d] = "idle"]
            /\ wfile' = [wfile EXCEPT ![d] = NoFile]
       ELSE UNCHANGED <<wpc, wfile>>
    /\ UNCHANGED <<fileVars, sent, timeVars, acked, delivered, removed,
                   doubtful>>

\* A sender dies before its Enqueue returns.
CrashSender(s) ==
    /\ Fault
    /\ wpc[s] # "idle"
    /\ wpc' = [wpc EXCEPT ![s] = "idle"]
    /\ wfile' = [wfile EXCEPT ![s] = NoFile]
    /\ UNCHANGED <<fileVars, sent, drainVars, timeVars, history>>

\* A system call on the claim fails although the claim is there.  After a
\* failed read the file gets its name back; after a failed removal or rename
\* the claim stays behind for a later sweep.
ClaimCallFails(d) ==
    /\ Fault
    /\ pc[d] \in {"claimed", "discard", "unclaim", "keep"} /\ at[cur[d]] = d
    /\ IF pc[d] = "claimed"
       THEN EndClaim(cur[d], "json") ELSE UNCHANGED <<at, stale, sweeps>>
    /\ doubtful' = IF pc[d] = "keep"
                   THEN doubtful \cup {Nudge(cur[d])} ELSE doubtful
    /\ pc' = [pc EXCEPT ![d] = "scan"]
    /\ cur' = [cur EXCEPT ![d] = NoFile]
    /\ UNCHANGED <<whole, files, writeVars, todo, batch, now,
                   timeVars, acked, delivered, removed, excused>>

\* The sweep cannot give a stale claim its name back and removes it instead.
SweepCallFails(d) ==
    /\ Fault
    /\ pc[d] = "scan"
    /\ \E c \in sweeps[d] :
          /\ EndClaim(c[1], "none")
          /\ excused' = excused \cup {Nudge(c[1])}
    /\ UNCHANGED <<whole, files, writeVars, pc, todo, cur, batch, now,
                   timeVars, acked, delivered, removed, doubtful>>

\* A Drain under way, and what its caller does with the result.
Proceed(d) ==
    \/ Sweep(d) \/ Claim(d) \/ ReadClaim(d) \/ Settle(d)
    \/ Return(d) \/ Deliver(d) \/ Requeue(d)

Drain(d) == StartDrain(d) \/ Proceed(d)

Write(w) == CreateFile(w) \/ FinishFile(w)

Next ==
    \/ \E s \in Senders, n \in Nudges : Enqueue(s, n)
    \/ \E w \in Writers : Write(w)
    \/ \E d \in Drainers : Drain(d) \/ DeliverFails(d)
    \/ \E d \in Drainers : CrashDrainer(d) \/ ClaimCallFails(d) \/ SweepCallFails(d)
    \/ \E s \in Senders : CrashSender(s)
    \/ \E f \in Files : RemoveKindByThread(f) \/ GoesStale(f)
    \/ \E n \in Nudges : FallsDue(n) \/ Expires(n)

Spec == Init /\ [][Next]_vars

(***************************************************************************)
(* Processes that run keep running, and time passes.  The turn hook drains *)
(* at every turn, whatever it finds.  The propeller waits for events on    *)
(* the directory, and the poller and the idle watcher look for a queued    *)
(* file first, so nothing is assumed of when they start.  Strong fairness  *)
(* of a read that finds its claim: the window between rename and read is   *)
(* not hit by another drainer's sweep for ever.  Nothing makes a nudge     *)
(* expire, a process crash or a call fail.                                 *)
(***************************************************************************)
ReadsHeld(n) ==
    \E d \in Drainers :
        /\ pc[d] = "claimed" /\ Nudge(cur[d]) = n /\ at[cur[d]] = d
        /\ ReadClaim(d)

Fairness ==
    /\ \A w \in Writers : WF_vars(Write(w))
    /\ \A d \in Drainers : WF_vars(Proceed(d))
    /\ \A d \in Hooks : WF_vars(StartDrain(d))
    /\ \A f \in Files : WF_vars(GoesStale(f))
    /\ \A n \in Nudges : WF_vars(FallsDue(n)) /\ SF_vars(ReadsHeld(n))

FairSpec == Spec /\ Fairness
-----------------------------------------------------------------------------
\* Drain's claim by rename "prevents double-delivery": a nudge reaches the
\* agent twice only if a sweep took its claim from a drainer that was still
\* working on it, or its claim could not be removed.
AtMostOnce == \A n \in Nudges : delivered[n] > 1 => n \in doubtful

\* A nudge that Enqueue acknowledged is in a file, in the hands of a running
\* drainer, delivered, expired or removed by a reply.  The code gives it up
\* in these ways only: its batch died with its drainer, failed to be
\* delivered by a caller that does not requeue, or did not fit back in the
\* queue; it was claimed before it was completely written; or the sweep
\* could neither restore nor keep its claim.
NoSilentLoss ==
    \A n \in acked \ excused :
        \/ Around(n)
        \/ delivered[n] > 0
        \/ n \in expired \cup removed

\* Every acknowledged nudge is eventually delivered, unless it expires, a
\* reply removes it or it is given up as above: the claim of a drainer that
\* crashed goes stale, is swept back and is delivered by a later Drain.
EveryNudgeSettles ==
    \A n \in Nudges :
        n \in acked ~> \/ delivered[n] > 0
                       \/ n \in expired \cup removed \cup excused

\* What the comments on Drain claim outright: a nudge is never delivered twice.
DeliveredOnce == \A n \in Nudges : delivered[n] <= 1
=============================================================================
