-------------------------- MODULE NudgeQueue_proofs --------------------------
(***************************************************************************)
(* No acknowledged nudge is lost silently and none is delivered twice but  *)
(* in the ways the code admits, for any number of nudges, files, senders,  *)
(* drainers and faults and any queue depth.                                *)
(*                                                                         *)
(* NoSilentLoss is not inductive.  A drainer that has read a file but not  *)
(* yet removed its claim may die, and then the batch it leaves does not    *)
(* count: only the file does, or whoever has swept it (Kept).  And a nudge *)
(* is acknowledged by a writer whose file may have been claimed and thrown *)
(* away before it was whole (Written).                                     *)
(*                                                                         *)
(* AtMostOnce is not inductive: a second delivery is prepared long before  *)
(* it happens.  What makes it so is that a nudge that is not doubtful has  *)
(* one copy at most (Once): one file, or one batch, or one delivery, where *)
(* a batch and a file may both hold it only while the drainer of the batch *)
(* is about to remove that very file, or is writing it.  A drainer that    *)
(* works on a claim knows that nobody else has it (Firm), because a        *)
(* listing of stale claims names claims that still stand (Listed) and the  *)
(* name of a new file was never used (Used, Unsent).                       *)
(***************************************************************************)
EXTENDS NudgeQueue, TLAPS

\* Zenon is the prover of every leaf that names no other.
USE Zenon

DrainSteps == {"idle", "scan", "claimed", "discard", "unclaim", "keep", "deliver", "requeue"}

Shape ==
    /\ at \in [Files -> Drainers \cup {"none", "json"}]
    /\ files \in [Nudges -> Nat]
    /\ wpc \in [Writers -> {"idle", "create", "finish"}]
    /\ wfile \in [Writers -> Files \cup {NoFile}]
    /\ pc \in [Drainers -> DrainSteps]
    /\ todo \in [Drainers -> SUBSET Files]
    /\ sweeps \in [Drainers -> SUBSET (Files \X Drainers)]
    /\ cur \in [Drainers -> Files \cup {NoFile}]
    /\ batch \in [Drainers -> SUBSET Nudges]
    /\ now \in [Drainers -> [due : SUBSET Nudges, expired : SUBSET Nudges]]
    /\ delivered \in [Nudges -> Nat]
    /\ acked \subseteq Nudges /\ due \subseteq Nudges /\ expired \subseteq Nudges

\* A drainer that holds a claim knows the file; what it decided still holds.
Held ==
    \A d \in Drainers :
        /\ pc[d] \in {"claimed", "discard", "unclaim", "keep"} => cur[d] \in Files
        /\ pc[d] = "keep" => cur[d] \in whole /\ Nudge(cur[d]) \in batch[d]
        /\ now[d].expired \subseteq expired

\* A drainer writes files only while it requeues.
Requeues ==
    \A d \in Drainers :
        /\ pc[d] = "requeue" => d \in Propellers
        /\ d \in Propellers /\ wpc[d] # "idle" => pc[d] = "requeue"

\* Every file name is chosen once, and a file is whole only when its writer has
\* finished; a file that went before that was given up or had expired.
Written ==
    /\ \A f \in whole : f \in Files /\ f[2] <= files[f[1]]
    /\ \A w \in Writers : wpc[w] # "idle" =>
         wfile[w] \in Files /\ wfile[w] \notin whole /\ wfile[w][2] <= files[wfile[w][1]]
    /\ \A v, w \in Writers :
         wpc[v] # "idle" /\ wpc[w] # "idle" /\ wfile[v] = wfile[w] => v = w
    /\ \A w \in Writers : wpc[w] = "finish" =>
         at[wfile[w]] # "none" \/ Nudge(wfile[w]) \in excused \cup expired

\* The nudges that drainer d has finished taking out of the queue.
Carries(d, n) == n \in batch[d] /\ ~(pc[d] = "keep" /\ n = Nudge(cur[d]))

Accounted(n) ==
    \/ \E f \in Files : Nudge(f) = n /\ at[f] # "none"
    \/ \E d \in Drainers : Carries(d, n)
    \/ delivered[n] > 0
    \/ n \in expired \cup removed

Kept == \A n \in acked \ excused : Accounted(n)

\* A file that is there, or that its writer is about to create.
Live(f) == at[f] # "none" \/ \E w \in Writers : wpc[w] = "create" /\ wfile[w] = f

\* File f and the batch of drainer d hold one and the same copy of a nudge.
Backs(f, d) ==
    \/ at[f] = d /\ cur[d] = f /\ pc[d] = "keep"
    \/ d \in Propellers /\ wpc[d] # "idle" /\ wfile[d] = f

Once(n) ==
    /\ \A f, g \in Files : Nudge(f) = n /\ Nudge(g) = n /\ Live(f) /\ Live(g) => f = g
    /\ \A f \in Files, d \in Drainers : Nudge(f) = n /\ Live(f) /\ n \in batch[d] => Backs(f, d)
    /\ \A d, e \in Drainers : n \in batch[d] /\ n \in batch[e] => d = e
    /\ delivered[n] > 0 => /\ \A f \in Files : Nudge(f) = n => ~Live(f)
                           /\ \A d \in Drainers : n \notin batch[d]
    /\ delivered[n] <= 1

Sole == \A n \in Nudges \ doubtful : Once(n)

\* A listing names claims that still stand.
Listed == \A d \in Drainers : \A c \in sweeps[d] : at[c[1]] = c[2]

\* A file that is there or held has had its name chosen, and one about to be
\* created is neither.
Used ==
    /\ \A f \in Files : at[f] # "none" => f[2] <= files[f[1]]
    /\ \A d \in Drainers, f \in Files : Holds(d, f) => f[2] <= files[f[1]]
    /\ \A w \in Writers : wpc[w] = "create" =>
         at[wfile[w]] = "none" /\ \A d \in Drainers : ~Holds(d, wfile[w])

\* Of a nudge that nobody has sent there is nothing.
Unsent ==
    \A n \in Nudges \ sent :
        files[n] = 0 /\ delivered[n] = 0 /\ \A d \in Drainers : n \notin batch[d]

\* A claim under way is the drainer's own, or has been removed under it.
Firm ==
    \A d \in Drainers, f \in Files :
        Holds(d, f) /\ Nudge(f) \notin doubtful => at[f] \in {d, "none"}

LossInv == Held /\ Requeues /\ Written /\ Kept
OnceInv == Sole /\ Listed /\ Used /\ Unsent /\ Firm
Inv == Shape /\ LossInv /\ OnceInv

-----------------------------------------------------------------------------
(* What several steps have in common.                                      *)

\* The names of the drainers are no places of a file.
LEMMA Places ==
    /\ \A d \in Drainers : d # "none" /\ d # "json"
    /\ \A s \in Senders : s \notin Drainers /\ s \notin Propellers /\ s \in Writers
    /\ \A d \in Propellers : d \in Drainers /\ d \in Writers
    /\ \A f \in Files : f \in Nudges \X (1..MaxFiles) /\ Nudge(f) = f[1] /\ Nudge(f) \in Nudges
BY QueueAssumption DEF Files, Nudge, Writers

\* A step that starts no file and completes none: it must only answer for the
\* unfinished files it removes.
LEMMA WrittenSame ==
    ASSUME Written, files' = files, whole' = whole,
           \A v \in Writers : wpc'[v] # "idle" => wpc'[v] = wpc[v] /\ wfile'[v] = wfile[v],
           excused \subseteq excused', expired \subseteq expired',
           \A f \in Files \ whole : at[f] # "none" =>
               at'[f] # "none" \/ Nudge(f) \in excused' \cup expired'
    PROVE  Written'
BY SMT DEF Written, Nudge

\* A step that acknowledges nothing: it must answer for the files it removes and
\* for what drainers no longer carry.
LEMMA KeptSame ==
    ASSUME Shape, Kept, acked' = acked, excused \subseteq excused', expired \subseteq expired',
           removed \subseteq removed',
           \A n \in Nudges : delivered[n] > 0 => delivered'[n] > 0,
           \A f \in Files : at[f] # "none" =>
               \/ at'[f] # "none" \/ Nudge(f) \in excused' \cup expired' \cup removed'
               \/ \E d \in Drainers : Carries(d, Nudge(f))',
           \A d \in Drainers, n \in Nudges : Carries(d, n) =>
               \/ Carries(d, n)' \/ n \in excused' \cup expired' \/ delivered'[n] > 0
               \/ \E f \in Files : Nudge(f) = n /\ at'[f] # "none"
    PROVE  Kept'
<1> SUFFICES ASSUME NEW n \in acked \ excused' PROVE Accounted(n)'
  BY DEF Kept
<1>1. n \in Nudges /\ Accounted(n)
  BY DEF Shape, Kept
<1> QED
  BY SMT, <1>1 DEF Accounted, Nudge

\* A step that makes no copy of a nudge, and keeps the file that backs a batch.
LEMMA OnceShrinks ==
    ASSUME NEW n, Once(n), delivered'[n] = delivered[n],
           \A f \in Files : Nudge(f) = n /\ Live(f)' => Live(f),
           \A d \in Drainers : n \in batch'[d] => n \in batch[d],
           \A f \in Files, d \in Drainers :
               Nudge(f) = n /\ n \in batch'[d] /\ Live(f)' /\ Backs(f, d) => Backs(f, d)'
    PROVE  Once(n)'
<1>1. \A f, g \in Files : Nudge(f) = n /\ Nudge(g) = n /\ Live(f)' /\ Live(g)' => f = g
  BY DEF Once
<1>2. \A f \in Files, d \in Drainers : Nudge(f) = n /\ Live(f)' /\ n \in batch'[d] => Backs(f, d)'
  BY DEF Once
<1>3. delivered'[n] > 0 => /\ \A f \in Files : Nudge(f) = n => ~Live(f)'
                           /\ \A d \in Drainers : n \notin batch'[d]
  BY DEF Once
<1> QED
  BY <1>1, <1>2, <1>3 DEF Once, Nudge

\* A step that moves no file and adds to no batch; a batch that still holds a
\* nudge is still backed by the file that backed it.
LEMMA LetGoStep ==
    ASSUME Inv, Listed', UNCHANGED <<at, files, delivered, doubtful, sent>>,
           \A x \in Drainers : batch'[x] \subseteq batch[x],
           \A x \in Drainers, g \in Files : Holds(x, g)' => Holds(x, g),
           \A v \in Writers : wpc'[v] = "create" => wpc[v] = "create" /\ wfile'[v] = wfile[v],
           \A g \in Files, x \in Drainers : Nudge(g) \in batch'[x] /\ Backs(g, x) => Backs(g, x)'
    PROVE  OnceInv'
<1>1. Used'
  <2>1. \A x \in Drainers, g \in Files : Holds(x, g)' => g[2] <= files'[g[1]]
    BY DEF Inv, OnceInv, Used
  <2>2. ASSUME NEW v \in Writers, wpc'[v] = "create"
        PROVE  at'[wfile'[v]] = "none" /\ \A x \in Drainers : ~Holds(x, wfile[v])'
    <3>1. PICK g \in Files : g = wfile[v] /\ g = wfile'[v] /\ at[g] = "none"
      BY <2>2 DEF Inv, OnceInv, Used, LossInv, Written
    <3>2. \A x \in Drainers : ~Holds(x, g)
      BY <2>2, <3>1 DEF Inv, OnceInv, Used
    <3> QED
      BY <3>1, <3>2 DEF Holds
  <2> QED
    BY <2>1, <2>2 DEF Inv, OnceInv, Used, Holds
<1>2. Unsent'
  BY DEF Inv, OnceInv, Unsent
<1>3. Firm'
  <2>1. \A x \in Drainers, g \in Files : Holds(x, g)' /\ Nudge(g) \notin doubtful =>
          at[g] \in {x, "none"}
    BY DEF Inv, OnceInv, Firm
  <2> QED
    BY <2>1 DEF Firm, Nudge, Holds
<1>4. Sole'
  <2> SUFFICES ASSUME NEW n \in Nudges \ doubtful PROVE Once(n)'
    BY DEF Sole
  <2>1. Once(n) /\ \A g \in Files : Live(g)' => Live(g)
    BY DEF Inv, OnceInv, Sole, Live
  <2> QED
    BY <2>1, OnceShrinks
<1> QED
  BY <1>1, <1>2, <1>3, <1>4 DEF OnceInv

\* A step that puts file f somewhere else, or removes it, takes up no claim and
\* leaves alone, or removes, the files that drainers are about to remove.
LEMMA MoveStep ==
    ASSUME Inv, Listed', NEW f \in Files, at[f] = "none" => at'[f] = "none",
           UNCHANGED <<files, wpc, wfile, delivered, sent, batch>>, doubtful \subseteq doubtful',
           \A g \in Files \ {f} : at'[g] = at[g],
           \A x \in Drainers, g \in Files : Holds(x, g)' => Holds(x, g),
           \A x \in Drainers, g \in Files :
               Nudge(g) \notin doubtful' /\ at[g] = x /\ cur[x] = g /\ pc[x] = "keep" =>
                   at'[g] = "none" \/ (at'[g] = x /\ cur'[x] = g /\ pc'[x] = "keep"),
           \A x \in Drainers : Nudge(f) \notin doubtful' /\ Holds(x, f)' => at'[f] \in {x, "none"}
    PROVE  OnceInv'
<1>1. /\ \A g \in Files : at'[g] # "none" => at[g] # "none"
      /\ \A w \in Writers : wpc[w] = "create" => wfile[w] \in Files /\ at'[wfile[w]] = "none"
  BY SMT DEF Inv, OnceInv, Used, LossInv, Written
<1>2. Used'
  <2>1. \A g \in Files : at'[g] # "none" \/ (\E x \in Drainers : Holds(x, g)') => g[2] <= files[g[1]]
    BY <1>1 DEF Inv, OnceInv, Used
  <2>2. \A w \in Writers : wpc[w] = "create" =>
          at'[wfile[w]] = "none" /\ \A x \in Drainers : ~Holds(x, wfile[w])'
    BY <1>1 DEF Inv, OnceInv, Used
  <2> QED
    BY <2>1, <2>2 DEF Used, Holds
<1>3. Unsent'
  BY DEF Inv, OnceInv, Unsent
<1>4. Firm'
  <2>1. \A x \in Drainers, g \in Files : Holds(x, g)' /\ Nudge(g) \notin doubtful' =>
          at'[g] \in {x, "none"}
    BY SMT DEF Inv, OnceInv, Firm
  <2> QED
    BY <2>1 DEF Firm, Nudge, Holds
<1>5. Sole'
  <2> SUFFICES ASSUME NEW n \in Nudges \ doubtful' PROVE Once(n)'
    BY DEF Sole
  <2>1. Once(n) /\ \A g \in Files : Live(g)' => Live(g)
    BY <1>1 DEF Inv, OnceInv, Sole, Live
  <2>2. ASSUME NEW g \in Files, NEW x \in Drainers, Nudge(g) = n, Live(g)', Backs(g, x)
        PROVE  Backs(g, x)'
    <3>1. CASE x \in Propellers /\ wpc[x] # "idle" /\ wfile[x] = g
      BY <3>1 DEF Backs
    <3>2. CASE at[g] = x /\ cur[x] = g /\ pc[x] = "keep"
      <4>1. at'[g] # "none"
        BY SMT, <2>2, <3>2, Places DEF Inv, OnceInv, Used, Live
      <4> QED
        BY <2>2, <3>2, <4>1 DEF Backs
    <3> QED
      BY <2>2, <3>1, <3>2 DEF Backs
  <2> QED
    BY <2>1, <2>2, OnceShrinks
<1> QED
  BY <1>2, <1>3, <1>4, <1>5 DEF OnceInv

\* A claim that ends leaves every listing.
LEMMA ListedEnd ==
    ASSUME Shape, Listed, NEW f \in Files, NEW place \in {"none", "json"}, EndClaim(f, place)
    PROVE  /\ Listed'
           /\ at' \in [Files -> Drainers \cup {"none", "json"}]
           /\ sweeps' \in [Drainers -> SUBSET (Files \X Drainers)]
           /\ \A g \in Files : at'[g] = IF g = f THEN place ELSE at[g]
<1>1. at' = [at EXCEPT ![f] = place] /\ sweeps' = [x \in Drainers |-> sweeps[x] \ {<<f, at[f]>>}]
  BY DEF EndClaim
<1>2. /\ \A g \in Files : at'[g] = IF g = f THEN place ELSE at[g]
      /\ at' \in [Files -> Drainers \cup {"none", "json"}]
      /\ sweeps' \in [Drainers -> SUBSET (Files \X Drainers)]
  BY <1>1 DEF Shape
<1>3. ASSUME NEW d \in Drainers, NEW c \in sweeps'[d]
      PROVE  at'[c[1]] = c[2]
  <2>1. c \in sweeps[d] /\ c # <<f, at[f]>> /\ c \in Files \X Drainers
    BY <1>1 DEF Shape
  <2>2. c[1] \in Files \ {f} /\ at[c[1]] = c[2]
    BY SMT, <2>1 DEF Listed
  <2> QED
    BY <1>2, <2>2
<1> QED
  BY <1>2, <1>3 DEF Listed

\* A file that is claimed by nobody is in no listing.
LEMMA Unlisted ==
    ASSUME Shape, Listed, NEW f \in Files, at[f] \notin Drainers, sweeps' = sweeps,
           \A g \in Files \ {f} : at'[g] = at[g]
    PROVE  Listed'
BY SMT DEF Shape, Listed

-----------------------------------------------------------------------------
(* One lemma per step: the shape, what a loss is made of, and the copies.  *)

\* Listing the directory finds the claims where they are.
LEMMA StartInv == ASSUME Inv, NEW d \in Drainers, StartDrain(d) PROVE Inv'
<1>1. /\ UNCHANGED <<at, whole, files, wpc, wfile, cur, delivered, doubtful, sent, batch>>
      /\ UNCHANGED <<due, expired, acked, removed, excused>>
      /\ pc[d] = "idle" /\ pc' = [pc EXCEPT ![d] = "scan"] /\ todo' = [todo EXCEPT ![d] = Queued]
      /\ sweeps' = [sweeps EXCEPT ![d] = {<<f, at[f]>> : f \in Claims \cap stale}]
      /\ now' = [now EXCEPT ![d] = [due |-> due, expired |-> expired]]
  BY DEF StartDrain, fileVars, writeVars, timeVars, history
<1>2. \A x \in Drainers : pc'[x] = IF x = d THEN "scan" ELSE pc[x]
  BY <1>1 DEF Inv, Shape
<1>3. Shape' /\ Listed'
  <2> DEFINE new == {<<f, at[f]>> : f \in Claims \cap stale}
  <2>1. \A c \in new : c \in Files \X Drainers /\ at[c[1]] = c[2]
    BY SMT DEF Claims
  <2>2. sweeps' = [sweeps EXCEPT ![d] = new]
    BY <1>1
  <2> HIDE DEF new
  <2> QED
    BY <1>1, <2>1, <2>2 DEF Inv, OnceInv, Shape, Listed, Queued, DrainSteps
<1>4. Held' /\ Requeues'
  BY <1>1, <1>2 DEF Inv, LossInv, Shape, Held, Requeues, Nudge
<1>5. Written' /\ Kept'
  BY SMT, <1>1, <1>2, WrittenSame, KeptSame DEF Inv, LossInv, Carries
<1>6. OnceInv'
  BY SMT, <1>1, <1>2, <1>3, LetGoStep DEF Holds, Backs
<1> QED
  BY <1>3, <1>4, <1>5, <1>6 DEF Inv, LossInv

\* Drain returns with the batch it has.
LEMMA ReturnInv == ASSUME Inv, NEW d \in Drainers, Return(d) PROVE Inv'
<1>1. /\ UNCHANGED <<at, whole, files, wpc, wfile, cur, delivered, doubtful, sent, batch, sweeps>>
      /\ UNCHANGED <<todo, due, expired, acked, removed, excused>>
      /\ pc[d] = "scan" /\ pc' = [pc EXCEPT ![d] = IF batch[d] = {} THEN "idle" ELSE "deliver"]
      /\ now' = [now EXCEPT ![d] = NoTime]
  BY DEF Return, fileVars, writeVars, timeVars, history
<1>2. Shape' /\ Listed'
  BY <1>1 DEF Inv, OnceInv, Shape, Listed, DrainSteps, NoTime
<1>3. \A x \in Drainers : /\ x # d => pc'[x] = pc[x] /\ now'[x] = now[x]
                          /\ pc'[d] \in {"idle", "deliver"} /\ now'[d].expired = {}
  BY <1>1 DEF Inv, Shape, NoTime
<1>4. Held' /\ Requeues'
  BY <1>1, <1>3 DEF Inv, LossInv, Held, Requeues, Nudge
<1>5. Written' /\ Kept'
  BY <1>1, <1>3, WrittenSame, KeptSame DEF Inv, LossInv, Carries
<1>6. OnceInv'
  BY <1>1, <1>2, <1>3, LetGoStep DEF Holds, Backs
<1> QED
  BY <1>2, <1>4, <1>5, <1>6 DEF Inv, LossInv

\* A batch that cannot be delivered is requeued or given up.
LEMMA DeliverFailsInv == ASSUME Inv, NEW d \in Drainers, DeliverFails(d) PROVE Inv'
<1>1. /\ UNCHANGED <<at, whole, files, wpc, wfile, cur, delivered, doubtful, sent, sweeps>>
      /\ UNCHANGED <<todo, now, due, expired, acked, removed>>
      /\ pc[d] = "deliver"
      /\ \/ /\ d \in Propellers /\ pc' = [pc EXCEPT ![d] = "requeue"]
            /\ batch' = batch /\ excused' = excused
         \/ /\ d \notin Propellers /\ pc' = [pc EXCEPT ![d] = "idle"]
            /\ batch' = [batch EXCEPT ![d] = {}] /\ excused' = excused \cup batch[d]
  BY DEF DeliverFails, fileVars, writeVars, timeVars
<1>2. Shape' /\ Listed'
  BY <1>1 DEF Inv, OnceInv, Shape, Listed, DrainSteps
<1>3. /\ \A x \in Drainers \ {d} : pc'[x] = pc[x] /\ batch'[x] = batch[x]
      /\ pc'[d] = IF d \in Propellers THEN "requeue" ELSE "idle"
      /\ \A x \in Drainers : batch'[x] \subseteq batch[x]
      /\ \A n \in batch[d] : n \in batch'[d] \/ n \in excused'
      /\ excused \subseteq excused'
  BY <1>1 DEF Inv, Shape
<1>4. Held' /\ Requeues'
  BY <1>1, <1>3 DEF Inv, LossInv, Held, Requeues, Nudge
<1>5. Written' /\ Kept'
  BY <1>1, <1>3, WrittenSame, KeptSame DEF Inv, LossInv, Carries
<1>6. OnceInv'
  BY <1>1, <1>2, <1>3, LetGoStep DEF Holds, Backs
<1> QED
  BY <1>2, <1>4, <1>5, <1>6 DEF Inv, LossInv

\* Time moves nothing; a nudge that expires is accounted for.
LEMMA TimeInv ==
    ASSUME Inv, \/ \E f \in Files : GoesStale(f)
                \/ \E n \in Nudges : FallsDue(n) \/ Expires(n)
                \/ UNCHANGED vars
    PROVE  Inv'
<1>1. /\ UNCHANGED <<at, whole, files, wpc, wfile, cur, delivered, doubtful, sent, sweeps, pc>>
      /\ UNCHANGED <<batch, todo, now, acked, removed, excused>>
      /\ due' \subseteq Nudges /\ expired \subseteq expired' /\ expired' \subseteq Nudges
  BY DEF GoesStale, FallsDue, Expires, vars, fileVars, writeVars, drainVars, timeVars, history,
         Inv, Shape
<1>2. Shape' /\ Listed'
  BY <1>1 DEF Inv, OnceInv, Shape, Listed
<1>3. Held' /\ Requeues'
  BY <1>1 DEF Inv, LossInv, Held, Requeues, Nudge
<1>4. Written' /\ Kept'
  BY <1>1, WrittenSame, KeptSame DEF Inv, LossInv, Carries
<1>5. OnceInv'
  BY <1>1, <1>2, LetGoStep DEF Holds, Backs
<1> QED
  BY <1>2, <1>3, <1>4, <1>5 DEF Inv, LossInv

\* A swept claim is queued again.  No drainer was at work on it, or the nudge is
\* doubtful.
LEMMA SweepInv == ASSUME Inv, NEW d \in Drainers, Sweep(d) PROVE Inv'
<1>1. PICK c \in sweeps[d] :
        /\ EndClaim(c[1], "json")
        /\ doubtful' = IF Holds(c[2], c[1]) THEN doubtful \cup {Nudge(c[1])} ELSE doubtful
  BY DEF Sweep
<1>2. /\ UNCHANGED <<whole, files, wpc, wfile, delivered, sent, batch, cur, pc>>
      /\ UNCHANGED <<todo, now, due, expired, acked, removed, excused>>
  BY DEF Sweep, writeVars, timeVars
<1>3. PICK f \in Files, x \in Drainers : f = c[1] /\ x = c[2] /\ at[f] = x
  BY SMT DEF Inv, Shape, OnceInv, Listed
<1>4. /\ Listed' /\ \A g \in Files : at'[g] = IF g = f THEN "json" ELSE at[g]
      /\ at' \in [Files -> Drainers \cup {"none", "json"}]
      /\ sweeps' \in [Drainers -> SUBSET (Files \X Drainers)]
  BY <1>1, <1>3, ListedEnd DEF Inv, OnceInv
<1>5. Shape'
  BY <1>2, <1>4 DEF Inv, Shape
<1>6. Held' /\ Requeues'
  BY <1>2 DEF Inv, LossInv, Held, Requeues, Nudge
<1>7. Written' /\ Kept'
  BY <1>2, <1>4, WrittenSame, KeptSame DEF Inv, LossInv, Carries
<1>8. doubtful \subseteq doubtful' /\ (Nudge(f) \notin doubtful' => ~Holds(x, f))
  BY <1>1, <1>3
<1>9. \A y \in Drainers : Nudge(f) \notin doubtful' => ~Holds(y, f)
  <2>1. \A y \in Drainers : Nudge(f) \notin doubtful' /\ Holds(y, f) => at[f] \in {y, "none"}
    BY <1>8 DEF Inv, OnceInv, Firm
  <2> QED
    BY <1>3, <1>8, <2>1, Places
<1>10. \A y \in Drainers, g \in Files :
         Nudge(g) \notin doubtful' /\ at[g] = y /\ cur[y] = g /\ pc[y] = "keep" =>
             at'[g] = y /\ cur'[y] = g /\ pc'[y] = "keep"
  BY <1>2, <1>4, <1>9 DEF Holds
<1>11. \A y \in Drainers, g \in Files : Holds(y, g)' <=> Holds(y, g)
  BY <1>2 DEF Holds
<1>12. OnceInv'
  BY SMT, <1>2, <1>3, <1>4, <1>8, <1>9, <1>10, <1>11, Places, MoveStep
<1> QED
  BY <1>5, <1>6, <1>7, <1>12 DEF Inv, LossInv

\* A claim that is removed instead is given up: one copy less.
LEMMA SweepCallInv == ASSUME Inv, NEW d \in Drainers, SweepCallFails(d) PROVE Inv'
<1>1. PICK c \in sweeps[d] : EndClaim(c[1], "none") /\ excused' = excused \cup {Nudge(c[1])}
  BY DEF SweepCallFails
<1>2. /\ UNCHANGED <<whole, files, wpc, wfile, delivered, sent, batch, cur, pc, doubtful>>
      /\ UNCHANGED <<todo, now, due, expired, acked, removed>>
  BY DEF SweepCallFails, writeVars, timeVars
<1>3. PICK f \in Files : f = c[1] /\ at[f] \in Drainers
  BY SMT DEF Inv, Shape, OnceInv, Listed
<1>4. /\ Listed' /\ \A g \in Files : at'[g] = IF g = f THEN "none" ELSE at[g]
      /\ at' \in [Files -> Drainers \cup {"none", "json"}]
      /\ sweeps' \in [Drainers -> SUBSET (Files \X Drainers)]
  BY <1>1, <1>3, ListedEnd DEF Inv, OnceInv
<1>5. Shape'
  BY <1>2, <1>4 DEF Inv, Shape
<1>6. Held' /\ Requeues'
  BY <1>2 DEF Inv, LossInv, Held, Requeues, Nudge
<1>7. Written' /\ Kept'
  BY <1>1, <1>2, <1>3, <1>4, WrittenSame, KeptSame DEF Inv, LossInv, Carries
<1>8. \A y \in Drainers, g \in Files : Holds(y, g)' <=> Holds(y, g)
  BY <1>2 DEF Holds
<1>9. OnceInv'
  BY <1>2, <1>3, <1>4, <1>8, MoveStep
<1> QED
  BY <1>5, <1>6, <1>7, <1>9 DEF Inv, LossInv

\* A reply removes a whole file that nobody has claimed.
LEMMA RemoveInv == ASSUME Inv, NEW f \in Files, RemoveKindByThread(f) PROVE Inv'
<1>1. /\ UNCHANGED <<whole, files, wpc, wfile, delivered, sent, batch, cur, pc, doubtful, sweeps>>
      /\ UNCHANGED <<todo, now, due, expired, acked, excused>>
      /\ at[f] = "json" /\ f \in whole /\ at' = [at EXCEPT ![f] = "none"]
      /\ removed' = removed \cup {Nudge(f)}
  BY DEF RemoveKindByThread, writeVars, drainVars, timeVars
<1>2. Shape' /\ \A g \in Files : at'[g] = IF g = f THEN "none" ELSE at[g]
  BY <1>1 DEF Inv, Shape
<1>3. Held' /\ Requeues'
  BY <1>1 DEF Inv, LossInv, Held, Requeues, Nudge
<1>4. Written' /\ Kept'
  BY <1>1, <1>2, WrittenSame, KeptSame DEF Inv, LossInv, Carries
<1>5. Listed'
  BY <1>1, <1>2, Places, Unlisted DEF Inv, OnceInv
<1>6. \A y \in Drainers, g \in Files : Holds(y, g)' <=> Holds(y, g)
  BY <1>1 DEF Holds
<1>7. OnceInv'
  BY <1>1, <1>2, <1>5, <1>6, MoveStep
<1> QED
  BY <1>2, <1>3, <1>4, <1>7 DEF Inv, LossInv

\* The claim goes once the nudge is in the batch, has expired or is given up; a
\* claim that is given back is nobody's any more.
LEMMA SettleInv == ASSUME Inv, NEW d \in Drainers, Settle(d) PROVE Inv'
<1> DEFINE place == IF pc[d] = "unclaim" THEN "json" ELSE "none"
<1>1. /\ UNCHANGED <<whole, files, wpc, wfile, delivered, sent, batch, doubtful>>
      /\ UNCHANGED <<todo, now, due, expired, acked, removed>>
      /\ pc[d] \in {"discard", "unclaim", "keep"}
      /\ pc' = [pc EXCEPT ![d] = "scan"] /\ cur' = [cur EXCEPT ![d] = NoFile]
      /\ IF at[cur[d]] = d THEN EndClaim(cur[d], place) ELSE UNCHANGED <<at, sweeps>>
      /\ excused \subseteq excused'
      /\ at[cur[d]] = d /\ pc[d] = "discard" => Nudge(cur[d]) \in excused' \cup now[d].expired
  BY DEF Settle, writeVars, timeVars
<1>2. PICK f \in Files : f = cur[d]
  BY <1>1 DEF Inv, LossInv, Held
<1>3. \A x \in Drainers : /\ x # d => pc'[x] = pc[x] /\ cur'[x] = cur[x]
                          /\ x = d => pc'[x] = "scan"
  BY <1>1 DEF Inv, Shape
<1>4. place \in {"none", "json"} /\ (place = "none" <=> pc[d] # "unclaim")
  OBVIOUS
<1>5. /\ Listed' /\ \A g \in Files : at'[g] = IF g = f /\ at[f] = d THEN place ELSE at[g]
      /\ at' \in [Files -> Drainers \cup {"none", "json"}]
      /\ sweeps' \in [Drainers -> SUBSET (Files \X Drainers)]
  <2>1. CASE at[f] = d
    <3>1. EndClaim(f, place)
      BY <1>1, <1>2, <2>1 DEF EndClaim
    <3> HIDE DEF place
    <3> QED
      BY SMT, <1>4, <2>1, <3>1, ListedEnd DEF Inv, OnceInv
  <2>2. CASE at[f] # d
    BY <1>1, <1>2, <2>2 DEF Inv, Shape, OnceInv, Listed
  <2> QED
    BY <2>1, <2>2
<1> HIDE DEF place
<1>6. Shape'
  BY <1>1, <1>5 DEF Inv, Shape, DrainSteps
<1>7. Held' /\ Requeues'
  BY SMT, <1>1, <1>3 DEF Inv, LossInv, Held, Requeues, Nudge
<1>8. at[f] = d /\ pc[d] # "unclaim" =>
        \/ pc[d] = "keep" /\ f \in whole /\ Nudge(f) \in batch[d]
        \/ Nudge(f) \in excused' \cup expired
  BY <1>1, <1>2 DEF Inv, LossInv, Held
<1>9. Written'
  BY <1>1, <1>3, <1>4, <1>5, <1>8, WrittenSame DEF Inv, LossInv
<1>10. Kept'
  BY <1>1, <1>3, <1>4, <1>5, <1>8, KeptSame DEF Inv, LossInv, Carries
<1>11. \A x \in Drainers, g \in Files : Holds(x, g)' => x # d /\ Holds(x, g)
  BY <1>3 DEF Holds
<1>12. \A x \in Drainers, g \in Files : at[g] = x /\ cur[x] = g /\ pc[x] = "keep" =>
         at'[g] = "none" \/ (at'[g] = x /\ cur'[x] = g /\ pc'[x] = "keep")
  BY SMT, <1>2, <1>3, <1>4, <1>5
<1>13. \A x \in Drainers : Nudge(f) \notin doubtful' /\ Holds(x, f)' => at'[f] \in {x, "none"}
  <2>1. \A x \in Drainers : Nudge(f) \notin doubtful /\ Holds(x, f)' =>
          x # d /\ at[f] \in {x, "none"}
    BY <1>11 DEF Inv, OnceInv, Firm
  <2> QED
    BY <1>1, <1>5, <2>1, Places
<1>14. at[f] = "none" => at'[f] = "none"
  BY <1>5, Places
<1>15. OnceInv'
  BY SMT, <1>1, <1>5, <1>11, <1>12, <1>13, <1>14, MoveStep
<1> QED
  BY <1>6, <1>7, <1>9, <1>10, <1>15 DEF Inv, LossInv

\* A claim that cannot be read is queued again; one that cannot be removed after
\* its nudge went into the batch makes the nudge doubtful.
LEMMA ClaimCallInv == ASSUME Inv, NEW d \in Drainers, ClaimCallFails(d) PROVE Inv'
<1>1. /\ UNCHANGED <<whole, files, wpc, wfile, delivered, sent, batch>>
      /\ UNCHANGED <<todo, now, due, expired, acked, removed, excused>>
      /\ pc[d] \in {"claimed", "discard", "unclaim", "keep"} /\ at[cur[d]] = d
      /\ pc' = [pc EXCEPT ![d] = "scan"] /\ cur' = [cur EXCEPT ![d] = NoFile]
      /\ IF pc[d] = "claimed" THEN EndClaim(cur[d], "json") ELSE UNCHANGED <<at, sweeps>>
      /\ doubtful' = IF pc[d] = "keep" THEN doubtful \cup {Nudge(cur[d])} ELSE doubtful
  BY DEF ClaimCallFails, writeVars, timeVars
<1>2. PICK f \in Files : f = cur[d]
  BY <1>1 DEF Inv, LossInv, Held
<1>3. \A x \in Drainers : /\ x # d => pc'[x] = pc[x] /\ cur'[x] = cur[x]
                          /\ x = d => pc'[x] = "scan"
  BY <1>1 DEF Inv, Shape
<1>4. /\ Listed' /\ \A g \in Files : at'[g] = IF g = f /\ pc[d] = "claimed" THEN "json" ELSE at[g]
      /\ at' \in [Files -> Drainers \cup {"none", "json"}]
      /\ sweeps' \in [Drainers -> SUBSET (Files \X Drainers)]
  <2>1. CASE pc[d] = "claimed"
    <3>1. EndClaim(f, "json")
      BY <1>1, <1>2, <2>1 DEF EndClaim
    <3> QED
      BY <2>1, <3>1, ListedEnd DEF Inv, OnceInv
  <2>2. CASE pc[d] # "claimed"
    BY <1>1, <2>2 DEF Inv, Shape, OnceInv, Listed
  <2> QED
    BY <2>1, <2>2
<1>5. Shape'
  BY <1>1, <1>4 DEF Inv, Shape, DrainSteps
<1>6. Held' /\ Requeues'
  BY SMT, <1>1, <1>3 DEF Inv, LossInv, Held, Requeues, Nudge
<1>7. Written' /\ Kept'
  BY <1>1, <1>3, <1>4, WrittenSame, KeptSame DEF Inv, LossInv, Carries
<1>8. \A x \in Drainers, g \in Files : Holds(x, g)' => x # d /\ Holds(x, g)
  BY <1>3 DEF Holds
<1>9. doubtful \subseteq doubtful' /\ (pc[d] = "keep" => Nudge(f) \in doubtful')
  BY <1>1, <1>2
<1>10. \A x \in Drainers, g \in Files :
         Nudge(g) \notin doubtful' /\ at[g] = x /\ cur[x] = g /\ pc[x] = "keep" =>
             at'[g] = x /\ cur'[x] = g /\ pc'[x] = "keep"
  BY SMT, <1>1, <1>2, <1>3, <1>4, <1>9
<1>11. \A x \in Drainers : ~(Nudge(f) \notin doubtful' /\ Holds(x, f)')
  <2>1. \A x \in Drainers : Nudge(f) \notin doubtful' /\ Holds(x, f)' =>
          x # d /\ at[f] \in {x, "none"}
    BY <1>8, <1>9 DEF Inv, OnceInv, Firm
  <2> QED
    BY <1>1, <1>2, <2>1, Places
<1>12. at[f] # "none"
  BY <1>1, <1>2, Places
<1>13. OnceInv'
  BY <1>1, <1>4, <1>8, <1>9, <1>10, <1>11, <1>12, MoveStep
<1> QED
  BY <1>5, <1>6, <1>7, <1>13 DEF Inv, LossInv

\* Renaming a queued file makes the claimer its only holder.
LEMMA ClaimInv == ASSUME Inv, NEW d \in Drainers, Claim(d) PROVE Inv'
<1>1. PICK f \in todo[d] :
        /\ todo' = [todo EXCEPT ![d] = @ \ {f}]
        /\ \/ /\ at[f] = "json"
              /\ at' = [at EXCEPT ![f] = d]
              /\ cur' = [cur EXCEPT ![d] = f]
              /\ pc' = [pc EXCEPT ![d] = "claimed"]
           \/ UNCHANGED <<at, cur, pc>>
  BY DEF Claim
<1>2. /\ UNCHANGED <<whole, files, wpc, wfile, delivered, sent, batch, doubtful, sweeps>>
      /\ UNCHANGED <<now, due, expired, acked, removed, excused>>
      /\ pc[d] = "scan" /\ f \in Files
  BY DEF Claim, writeVars, timeVars, history, Inv, Shape
<1>3. Shape'
  <2>1. todo' \in [Drainers -> SUBSET Files]
    BY SMT, <1>1 DEF Inv, Shape
  <2>2. at' \in [Files -> Drainers \cup {"none", "json"}]
    BY SMT, <1>1, <1>2 DEF Inv, Shape
  <2>3. pc' \in [Drainers -> DrainSteps] /\ cur' \in [Drainers -> Files \cup {NoFile}]
    BY SMT, <1>1, <1>2 DEF Inv, Shape, DrainSteps
  <2> QED
    BY <1>2, <2>1, <2>2, <2>3 DEF Inv, Shape
<1>4. CASE UNCHANGED <<at, cur, pc>>
  <2>1. Listed' /\ Held' /\ Requeues'
    BY <1>2, <1>4 DEF Inv, OnceInv, LossInv, Listed, Held, Requeues, Nudge
  <2>2. Written' /\ Kept'
    BY <1>2, <1>4, WrittenSame, KeptSame DEF Inv, LossInv, Carries
  <2>3. OnceInv'
    BY <1>2, <1>4, <2>1, LetGoStep DEF Holds, Backs
  <2> QED
    BY <1>3, <2>1, <2>2, <2>3 DEF Inv, LossInv
<1>5. CASE /\ at[f] = "json"
           /\ at' = [at EXCEPT ![f] = d]
           /\ cur' = [cur EXCEPT ![d] = f]
           /\ pc' = [pc EXCEPT ![d] = "claimed"]
  <2>1. /\ \A g \in Files : at'[g] = IF g = f THEN d ELSE at[g]
        /\ \A x \in Drainers : /\ pc'[x] = IF x = d THEN "claimed" ELSE pc[x]
                               /\ cur'[x] = IF x = d THEN f ELSE cur[x]
    BY <1>2, <1>5 DEF Inv, Shape
  <2>2. Held' /\ Requeues'
    BY <1>2, <2>1 DEF Inv, LossInv, Held, Requeues, Nudge
  <2>3. Written' /\ Kept'
    BY <1>2, <2>1, Places, WrittenSame, KeptSame DEF Inv, LossInv, Carries
  <2>4. Listed'
    BY <1>2, <1>5, <2>1, Places, Unlisted DEF Inv, OnceInv
  <2>5. \A x \in Drainers : \A g : Holds(x, g)' <=> IF x = d THEN g = f ELSE Holds(x, g)
    BY <2>1 DEF Holds
  <2>6. Used'
    <3>1. \A g \in Files : at'[g] # "none" \/ (\E x \in Drainers : Holds(x, g)') => g[2] <= files[g[1]]
      BY SMT, <1>2, <1>5, <2>1, <2>5 DEF Inv, OnceInv, Used
    <3>2. ASSUME NEW w \in Writers, wpc[w] = "create"
          PROVE  at'[wfile[w]] = "none" /\ \A x \in Drainers : ~Holds(x, wfile[w])'
      <4>1. PICK g \in Files : g = wfile[w] /\ g # f /\ at[g] = "none" /\ wfile' = wfile
        BY <1>2, <1>5, <3>2 DEF Inv, OnceInv, Used, LossInv, Written
      <4>2. \A x \in Drainers : ~Holds(x, g)
        BY <3>2, <4>1 DEF Inv, OnceInv, Used
      <4>3. \A x \in Drainers : ~Holds(x, g)'
        BY <2>5, <4>1, <4>2
      <4> QED
        BY <2>1, <4>1, <4>3 DEF Holds
    <3> QED
      BY <1>2, <3>1, <3>2 DEF Used, Holds
  <2>7. Unsent'
    BY <1>2 DEF Inv, OnceInv, Unsent
  <2>8. Firm'
    <3>1. \A x \in Drainers, g \in Files : Holds(x, g)' /\ Nudge(g) \notin doubtful =>
            at'[g] \in {x, "none"}
      BY SMT, <1>5, <2>1, <2>5, Places DEF Inv, OnceInv, Firm
    <3> QED
      BY <1>2, <3>1 DEF Firm, Nudge, Holds
  <2>9. Sole'
    <3> SUFFICES ASSUME NEW n \in Nudges \ doubtful PROVE Once(n)'
      BY <1>2 DEF Sole
    <3>1. Once(n) /\ \A g \in Files : Live(g)' => Live(g)
      BY <1>2, <1>5, <2>1 DEF Inv, OnceInv, Sole, Live
    <3>2. \A g \in Files, x \in Drainers : Backs(g, x) => Backs(g, x)'
      BY <1>2, <1>5, <2>1, Places DEF Backs
    <3> QED
      BY <1>2, <3>1, <3>2, OnceShrinks
  <2> QED
    BY <1>3, <2>2, <2>3, <2>4, <2>6, <2>7, <2>8, <2>9 DEF Inv, LossInv, OnceInv
<1> QED
  BY <1>1, <1>4, <1>5

\* A nudge that is to be kept is in the batch while its claim is on disk, and in
\* no other batch.
LEMMA ReadInv == ASSUME Inv, NEW d \in Drainers, ReadClaim(d) PROVE Inv'
<1>1. /\ UNCHANGED <<at, whole, files, wpc, wfile, delivered, sent, doubtful, sweeps>>
      /\ UNCHANGED <<todo, now, due, expired, acked, removed, excused>>
      /\ pc[d] = "claimed"
  BY DEF ReadClaim, fileVars, writeVars, timeVars, history
<1>2. PICK f \in Files : f = cur[d]
  BY <1>1 DEF Inv, LossInv, Held
<1>3. \/ /\ pc' = [pc EXCEPT ![d] = "scan"] /\ cur' = [cur EXCEPT ![d] = NoFile] /\ batch' = batch
      \/ /\ at[f] = d /\ cur' = cur /\ pc' = [pc EXCEPT ![d] = "keep"] /\ f \in whole
         /\ batch' = [batch EXCEPT ![d] = @ \cup {Nudge(f)}]
      \/ /\ at[f] = d /\ cur' = cur /\ batch' = batch
         /\ pc' = [pc EXCEPT ![d] = "discard"] \/ pc' = [pc EXCEPT ![d] = "unclaim"]
  BY <1>2 DEF ReadClaim, Verdict
<1>4. Shape' /\ Listed'
  <2>1. batch' \in [Drainers -> SUBSET Nudges]
    <3>1. batch[d] \cup {Nudge(f)} \in SUBSET Nudges
      BY Places DEF Inv, Shape
    <3> QED
      BY <1>3, <3>1 DEF Inv, Shape
  <2>2. pc' \in [Drainers -> DrainSteps] /\ cur' \in [Drainers -> Files \cup {NoFile}]
    BY <1>3 DEF Inv, Shape, DrainSteps
  <2> QED
    BY <1>1, <2>1, <2>2 DEF Inv, Shape, OnceInv, Listed
<1>5. /\ \A x \in Drainers : x # d => pc'[x] = pc[x] /\ cur'[x] = cur[x] /\ batch'[x] = batch[x]
      /\ pc'[d] = "scan" \/ (pc'[d] \in {"discard", "unclaim", "keep"} /\ cur'[d] = cur[d])
      /\ pc'[d] = "keep" => f \in whole /\ Nudge(f) \in batch'[d] /\ at[f] = d
      /\ batch[d] \subseteq batch'[d]
  BY SMT, <1>3 DEF Inv, Shape
<1>6. Held' /\ Requeues'
  BY <1>1, <1>2, <1>5 DEF Inv, LossInv, Held, Requeues, Nudge
<1>7. Written'
  BY <1>1, WrittenSame DEF Inv, LossInv
<1>8. Kept'
  BY SMT, <1>1, <1>2, <1>5, Places, KeptSame DEF Inv, LossInv, Carries
<1>9. \A x \in Drainers, g \in Files : Holds(x, g)' => Holds(x, g)
  BY <1>1, <1>5 DEF Holds
<1>10. \A x \in Drainers, g \in Files : at[g] = x /\ cur[x] = g /\ pc[x] = "keep" =>
        cur'[x] = g /\ pc'[x] = "keep"
  BY <1>1, <1>5
<1>11. CASE batch' = batch
  <2>1. \A x \in Drainers : Nudge(f) \notin doubtful' /\ Holds(x, f)' => at'[f] \in {x, "none"}
    BY <1>1, <1>9 DEF Inv, OnceInv, Firm
  <2>2. OnceInv'
    BY <1>1, <1>4, <1>9, <1>10, <1>11, <2>1, MoveStep
  <2> QED
    BY <1>4, <1>6, <1>7, <1>8, <2>2 DEF Inv, LossInv
<1>12. CASE /\ at[f] = d /\ cur' = cur /\ pc' = [pc EXCEPT ![d] = "keep"] /\ f \in whole
            /\ batch' = [batch EXCEPT ![d] = @ \cup {Nudge(f)}]
  <2> DEFINE m == Nudge(f)
  <2>1. /\ \A x \in Drainers : pc'[x] = IF x = d THEN "keep" ELSE pc[x]
        /\ \A x \in Drainers : batch'[x] = IF x = d THEN batch[x] \cup {m} ELSE batch[x]
    BY <1>12 DEF Inv, Shape
  <2>2. \A x \in Drainers : \A g : Holds(x, g)' <=> Holds(x, g)
    BY <1>1, <1>12, <2>1 DEF Holds
  <2>3. Used' /\ Firm'
    BY <1>1, <2>2 DEF Inv, OnceInv, Used, Firm, Nudge
  <2>4. m \in sent
    <3>1. f[2] <= files[m] /\ f[2] \in 1..MaxFiles /\ m \in Nudges
      BY <1>12, Places DEF Inv, OnceInv, Used
    <3>2. files[m] # 0
      BY SMT, <3>1, QueueAssumption
    <3> QED
      BY <3>1, <3>2 DEF Inv, OnceInv, Unsent
  <2>5. Unsent'
    <3> HIDE DEF m
    <3>1. \A n \in Nudges \ sent : n # m /\ \A x \in Drainers : n \notin batch[x]
      BY <2>4 DEF Inv, OnceInv, Unsent
    <3>2. \A n \in Nudges \ sent, x \in Drainers : n \notin batch'[x]
      BY <2>1, <3>1
    <3> QED
      BY <1>1, <3>2 DEF Inv, OnceInv, Unsent
  <2>6. \A g : Live(g)' <=> Live(g)
    BY <1>1 DEF Live
  <2>7. \A g \in Files, x \in Drainers : Backs(g, x) => Backs(g, x)'
    BY <1>1, <1>10 DEF Backs
  <2>8. Backs(f, d)' /\ Live(f)
    BY <1>1, <1>2, <1>12, <2>1, Places DEF Backs, Live
  <2>9. Sole'
    <3> SUFFICES ASSUME NEW n \in Nudges \ doubtful PROVE Once(n)'
      BY <1>1 DEF Sole
    <3>1. Once(n)
      BY DEF Inv, OnceInv, Sole
    <3>2. CASE n # m
      BY <1>1, <2>1, <2>6, <2>7, <3>1, <3>2, OnceShrinks
    <3>3. CASE n = m
      <4>1. \A x \in Drainers : ~Backs(f, x)
        <5>1. \A x \in Writers : wpc[x] # "idle" => wfile[x] # f
          BY <1>12 DEF Inv, LossInv, Written
        <5> QED
          BY <1>1, <1>12, <5>1, Places DEF Backs
      <4>2. /\ \A x \in Drainers : n \notin batch[x]
            /\ \A g \in Files : Nudge(g) = n /\ Live(g) => g = f
            /\ ~(delivered[n] > 0) /\ delivered[n] <= 1
        BY <2>8, <3>1, <3>3, <4>1 DEF Once
      <4>3. \A x \in Drainers : n \in batch'[x] => x = d
        BY <2>1, <4>2
      <4>4. \A g \in Files, x \in Drainers :
              Nudge(g) = n /\ Live(g)' /\ n \in batch'[x] => Backs(g, x)'
        BY <2>6, <2>8, <4>2, <4>3
      <4>5. \A g, h \in Files : Nudge(g) = n /\ Nudge(h) = n /\ Live(g)' /\ Live(h)' => g = h
        BY <2>6, <4>2
      <4> QED
        BY <1>1, <4>2, <4>3, <4>4, <4>5 DEF Once, Nudge
    <3> QED
      BY <3>2, <3>3
  <2> QED
    BY <1>4, <1>6, <1>7, <1>8, <2>3, <2>5, <2>9 DEF Inv, LossInv, OnceInv
<1> QED
  BY <1>3, <1>11, <1>12

\* The whole batch reaches the agent; what is delivered has no other copy, and
\* none is left.
LEMMA DeliverInv == ASSUME Inv, NEW d \in Drainers, Deliver(d) PROVE Inv'
<1>1. /\ UNCHANGED <<at, whole, files, wpc, wfile, cur, sent, doubtful, sweeps>>
      /\ UNCHANGED <<todo, now, due, expired, acked, removed, excused>>
      /\ pc[d] = "deliver" /\ pc' = [pc EXCEPT ![d] = "idle"]
      /\ batch' = [batch EXCEPT ![d] = {}]
      /\ delivered' = [n \in Nudges |-> IF n \in batch[d] /\ delivered[n] < 2
                                        THEN delivered[n] + 1 ELSE delivered[n]]
  BY DEF Deliver, fileVars, writeVars, timeVars
<1>2. /\ \A x \in Drainers : pc'[x] = IF x = d THEN "idle" ELSE pc[x]
      /\ \A x \in Drainers : batch'[x] = IF x = d THEN {} ELSE batch[x]
  BY <1>1 DEF Inv, Shape
<1>3. /\ \A n \in Nudges : n \notin batch[d] => delivered'[n] = delivered[n]
      /\ \A n \in Nudges : n \in batch[d] \/ delivered[n] > 0 => delivered'[n] > 0
      /\ \A n \in Nudges : delivered[n] = 0 => delivered'[n] <= 1
      /\ \A n \in Nudges : delivered[n] \in Nat /\ delivered'[n] \in Nat
  BY SMT, <1>1 DEF Inv, Shape
<1>4. Shape'
  BY <1>1, <1>3 DEF Inv, Shape, DrainSteps
<1>5. Held' /\ Requeues'
  BY SMT, <1>1, <1>2 DEF Inv, LossInv, Held, Requeues, Nudge
<1>6. Written' /\ Kept'
  BY SMT, <1>1, <1>2, <1>3, WrittenSame, KeptSame DEF Inv, LossInv, Carries
<1>7. \A x \in Drainers : \A g : Holds(x, g)' <=> Holds(x, g)
  BY SMT, <1>1, <1>2 DEF Holds
<1>8. \A g : Live(g)' <=> Live(g)
  BY <1>1 DEF Live
<1>9. \A g, x : x \in Drainers => (Backs(g, x)' <=> Backs(g, x))
  BY SMT, <1>1, <1>2 DEF Backs
<1>10. Listed' /\ Used' /\ Firm'
  BY <1>1, <1>7 DEF Inv, OnceInv, Listed, Used, Firm, Nudge
<1>11. Unsent'
  BY SMT, <1>1, <1>2, <1>3 DEF Inv, OnceInv, Unsent
<1>12. Sole'
  <2> SUFFICES ASSUME NEW n \in Nudges \ doubtful PROVE Once(n)'
    BY <1>1 DEF Sole
  <2>1. Once(n)
    BY DEF Inv, OnceInv, Sole
  <2>2. CASE n \notin batch[d]
    BY <1>2, <1>3, <1>8, <1>9, <2>1, <2>2, OnceShrinks
  <2>3. CASE n \in batch[d]
    <3>1. \A x \in Drainers : n \notin batch'[x]
      BY <1>2, <2>1, <2>3 DEF Once
    <3>2. \A g \in Files : ~Backs(g, d)
      BY <1>1, Places DEF Backs, Inv, LossInv, Requeues
    <3>3. \A g \in Files : Nudge(g) = n => ~Live(g)'
      BY <1>8, <2>1, <2>3, <3>2 DEF Once
    <3>4. delivered'[n] <= 1
      BY SMT, <1>3, <2>1, <2>3 DEF Once
    <3> QED
      BY <3>1, <3>3, <3>4 DEF Once, Nudge
  <2> QED
    BY <2>2, <2>3
<1> QED
  BY <1>4, <1>5, <1>6, <1>10, <1>11, <1>12 DEF Inv, LossInv, OnceInv

\* A new file of a nudge that has no other, and that no other batch holds; its
\* name was never used.
LEMMA AdmitStep ==
    ASSUME Inv, NEW w \in Writers, NEW n \in Nudges, wpc[w] = "idle", Admit(w, n),
           UNCHANGED <<at, whole, cur, pc, batch, delivered, doubtful, sweeps, todo, now>>,
           UNCHANGED <<due, expired, acked, removed, excused>>,
           sent \subseteq sent', n \in sent',
           w \in Drainers => w \in Propellers /\ pc[w] = "requeue",
           n \notin doubtful =>
             /\ \A g \in Files : Nudge(g) = n => ~Live(g)
             /\ \A x \in Drainers : n \in batch[x] => x = w
             /\ ~(delivered[n] > 0)
    PROVE  Inv'
<1> DEFINE new == <<n, files[n] + 1>>
<1>1. /\ files' = [files EXCEPT ![n] = @ + 1]
      /\ wfile' = [wfile EXCEPT ![w] = new]
      /\ wpc' = [wpc EXCEPT ![w] = "create"]
      /\ files[n] < MaxFiles
  BY DEF Admit
<1>2. new \in Files /\ Nudge(new) = n /\ new[2] <= files'[new[1]]
  BY SMT, <1>1, QueueAssumption DEF Files, Inv, Shape, Nudge
<1>3. \A g \in Files : g[2] <= files[g[1]] => g # new /\ g[2] <= files'[g[1]]
  BY SMT, <1>1 DEF Files, Inv, Shape
<1> HIDE DEF new
<1>4. \A v \in Writers : /\ wpc'[v] = IF v = w THEN "create" ELSE wpc[v]
                         /\ wfile'[v] = IF v = w THEN new ELSE wfile[v]
  BY <1>1 DEF Inv, Shape
<1>5. Shape' /\ Listed'
  BY SMT, <1>1, <1>2 DEF Inv, Shape, OnceInv, Listed
<1>6. Held' /\ Requeues' /\ Kept'
  <2>1. Held' /\ Requeues'
    BY <1>4, Places DEF Inv, LossInv, Held, Requeues, Nudge
  <2> QED
    BY <2>1, KeptSame DEF Inv, LossInv, Carries
<1>7. Written'
  <2>1. \A v \in Writers : wpc'[v] # "idle" =>
          wfile'[v] \in Files /\ wfile'[v] \notin whole /\ wfile'[v][2] <= files'[wfile'[v][1]]
    BY <1>2, <1>3, <1>4 DEF Inv, LossInv, Written
  <2>2. \A u, v \in Writers :
          wpc'[u] # "idle" /\ wpc'[v] # "idle" /\ wfile'[u] = wfile'[v] => u = v
    BY SMT, <1>3, <1>4 DEF Inv, LossInv, Written
  <2> QED
    BY <1>3, <1>4, <2>1, <2>2 DEF Inv, LossInv, Written, Nudge
<1>8. \A x \in Drainers : \A g : Holds(x, g)' <=> Holds(x, g)
  BY DEF Holds
<1>9. at[new] = "none" /\ \A x \in Drainers : ~Holds(x, new)
  BY <1>2, <1>3 DEF Inv, OnceInv, Used
<1>10. Used'
  <2>1. \A g \in Files : at'[g] # "none" \/ (\E x \in Drainers : Holds(x, g)') => g[2] <= files'[g[1]]
    BY <1>3, <1>8 DEF Inv, OnceInv, Used
  <2>2. ASSUME NEW v \in Writers, wpc'[v] = "create"
        PROVE  at'[wfile'[v]] = "none" /\ \A x \in Drainers : ~Holds(x, wfile[v])'
    <3>1. CASE v = w
      BY <1>4, <1>9, <3>1 DEF Holds
    <3>2. CASE v # w
      BY <1>4, <2>2, <3>2 DEF Inv, OnceInv, Used, Holds
    <3> QED
      BY <3>1, <3>2
  <2> QED
    BY <2>1, <2>2 DEF Used, Holds
<1>11. Unsent' /\ Firm'
  BY <1>1, <1>8 DEF Inv, OnceInv, Unsent, Firm, Shape, Nudge
<1>12. \A g \in Files : Live(g)' => Live(g) \/ g = new
  BY <1>4 DEF Live
<1>13. \A g \in Files, x \in Drainers : Backs(g, x) => Backs(g, x)'
  BY <1>4, Places DEF Backs
<1>14. Sole'
  <2> SUFFICES ASSUME NEW m \in Nudges \ doubtful PROVE Once(m)'
    BY DEF Sole
  <2>1. Once(m)
    BY DEF Inv, OnceInv, Sole
  <2>2. CASE m # n
    BY <1>2, <1>12, <1>13, <2>1, <2>2, OnceShrinks
  <2>3. CASE m = n
    <3>1. \A g \in Files : Nudge(g) = m /\ Live(g)' => g = new
      BY <1>12, <2>3
    <3>2. \A g \in Files, x \in Drainers :
            Nudge(g) = m /\ Live(g)' /\ m \in batch'[x] => Backs(g, x)'
      BY <1>4, <2>3, <3>1 DEF Backs
    <3>3. \A g, h \in Files : Nudge(g) = m /\ Nudge(h) = m /\ Live(g)' /\ Live(h)' => g = h
      BY <3>1
    <3>4. ~(delivered'[m] > 0) /\ delivered'[m] <= 1
      BY <2>1, <2>3 DEF Once
    <3> QED
      BY <2>3, <3>2, <3>3, <3>4 DEF Once, Nudge
  <2> QED
    BY <2>2, <2>3
<1> QED
  BY <1>5, <1>6, <1>7, <1>10, <1>11, <1>14 DEF Inv, LossInv, OnceInv

\* A nudge that is sent for the first time has no copy yet.
LEMMA EnqueueInv == ASSUME Inv, NEW s \in Senders, NEW n \in Nudges, Enqueue(s, n) PROVE Inv'
<1>1. /\ UNCHANGED <<at, whole, cur, pc, batch, delivered, doubtful, sweeps, todo, now>>
      /\ UNCHANGED <<due, expired, acked, removed, excused>> /\ Admit(s, n)
      /\ wpc[s] = "idle" /\ n \notin sent /\ sent' = sent \cup {n}
  BY DEF Enqueue, drainVars, timeVars, history
<1>2. files[n] = 0 /\ delivered[n] = 0 /\ \A x \in Drainers : n \notin batch[x]
  BY <1>1 DEF Inv, OnceInv, Unsent
<1>3. ASSUME NEW g \in Files, Nudge(g) = n PROVE ~Live(g)
  <2>1. ~(g[2] <= files[g[1]])
    BY SMT, <1>2, <1>3, QueueAssumption DEF Files, Nudge
  <2> QED
    BY <2>1 DEF Live, Inv, OnceInv, Used, LossInv, Written
<1> QED
  BY SMT, <1>1, <1>2, <1>3, Places, AdmitStep

\* Requeue drops what has expired and gives up what does not fit; a nudge is
\* written back by the one drainer that has it in its batch.
LEMMA RequeueInv == ASSUME Inv, NEW d \in Drainers, Requeue(d) PROVE Inv'
<1>1. /\ UNCHANGED <<at, whole, sent, sweeps, cur, delivered, doubtful, todo, now>>
      /\ UNCHANGED <<due, expired, acked, removed>>
      /\ pc[d] = "requeue" /\ wpc[d] = "idle"
  BY DEF Requeue, timeVars
<1>2. \/ \E n \in batch[d] : Admit(d, n) /\ UNCHANGED <<pc, batch, excused>>
      \/ \E S \in SUBSET batch[d] :
           /\ UNCHANGED <<files, wpc, wfile>> /\ excused \subseteq excused'
           /\ pc' = pc \/ pc' = [pc EXCEPT ![d] = "idle"]
           /\ batch' = batch \/ batch' = [batch EXCEPT ![d] = S]
           /\ batch' # batch => batch[d] \ S \subseteq excused' \cup expired
  BY SMT DEF Requeue
<1>3. CASE \E n \in batch[d] : Admit(d, n) /\ UNCHANGED <<pc, batch, excused>>
  <2>1. PICK n \in batch[d] : Admit(d, n) /\ UNCHANGED <<pc, batch, excused>>
    BY <1>3
  <2>2. d \in Propellers /\ d \in Writers /\ n \in Nudges
    BY <1>1, Places DEF Inv, LossInv, Requeues, Shape
  <2>3. n \in sent /\ \A g \in Files : ~Backs(g, d)
    BY <1>1, <2>2 DEF Inv, OnceInv, Unsent, Backs
  <2>4. n \notin doubtful => Once(n)
    BY <2>2 DEF Inv, OnceInv, Sole
  <2>5. n \notin doubtful =>
          /\ \A g \in Files : Nudge(g) = n => ~Live(g)
          /\ \A x \in Drainers : n \in batch[x] => x = d
          /\ ~(delivered[n] > 0)
    BY <2>3, <2>4 DEF Once
  <2> QED
    BY <1>1, <2>1, <2>2, <2>3, <2>5, AdmitStep
<1>4. ASSUME NEW S \in SUBSET batch[d],
             UNCHANGED <<files, wpc, wfile>>, excused \subseteq excused',
             pc' = pc \/ pc' = [pc EXCEPT ![d] = "idle"],
             batch' = batch \/ batch' = [batch EXCEPT ![d] = S],
             batch' # batch => batch[d] \ S \subseteq excused' \cup expired
      PROVE  Inv'
  <2>1. Shape' /\ Listed'
    BY <1>1, <1>4 DEF Inv, Shape, OnceInv, Listed, DrainSteps
  <2>2. /\ \A x \in Drainers : pc'[x] = pc[x] \/ (x = d /\ pc'[x] = "idle")
        /\ \A x \in Drainers : batch'[x] \subseteq batch[x] /\ (x # d => batch'[x] = batch[x])
        /\ \A n \in batch[d] : n \in batch'[d] \/ n \in excused' \cup expired
    BY SMT, <1>4 DEF Inv, Shape
  <2>3. Held' /\ Requeues'
    BY <1>1, <1>4, <2>2 DEF Inv, LossInv, Held, Requeues, Nudge
  <2>4. Written' /\ Kept'
    BY <1>1, <1>4, <2>2, WrittenSame, KeptSame DEF Inv, LossInv, Carries
  <2>5. OnceInv'
    BY <1>1, <1>4, <2>1, <2>2, LetGoStep DEF Holds, Backs
  <2> QED
    BY <2>1, <2>3, <2>4, <2>5 DEF Inv, LossInv
<1> QED
  BY <1>2, <1>3, <1>4

\* The acknowledged file is there, or it has been given up already; it is the
\* copy that the writer's batch gives up.
LEMMA FinishInv == ASSUME Inv, NEW w \in Writers, FinishFile(w) PROVE Inv'
<1>1. /\ UNCHANGED <<at, files, delivered, doubtful, sent, sweeps, pc, cur, todo, now>>
      /\ UNCHANGED <<due, expired, removed, excused>>
      /\ wpc[w] = "finish" /\ whole' = whole \cup {wfile[w]}
      /\ wpc' = [wpc EXCEPT ![w] = "idle"] /\ wfile' = [wfile EXCEPT ![w] = NoFile]
      /\ acked' = acked \cup {Nudge(wfile[w])}
      /\ batch' = IF w \in Drainers
                  THEN [batch EXCEPT ![w] = @ \ {Nudge(wfile[w])}] ELSE batch
  BY DEF FinishFile, timeVars
<1>2. PICK f \in Files : /\ f = wfile[w] /\ f[2] <= files[f[1]]
                         /\ at[f] # "none" \/ Nudge(f) \in excused \cup expired
  BY <1>1 DEF Inv, LossInv, Written
<1>3. Shape' /\ Listed'
  BY <1>1, <1>2, Places DEF Inv, Shape, OnceInv, Listed
<1>4. /\ \A v \in Writers : wpc'[v] = IF v = w THEN "idle" ELSE wpc[v]
      /\ \A v \in Writers : v # w => wfile'[v] = wfile[v]
      /\ \A x \in Drainers : batch'[x] = IF x = w THEN batch[x] \ {Nudge(f)} ELSE batch[x]
  BY <1>1, <1>2 DEF Inv, Shape
<1>5. Held' /\ Requeues'
  BY <1>1, <1>4, Places DEF Inv, LossInv, Held, Requeues, Nudge, Writers
<1>6. Written'
  <2>1. \A v \in Writers : wpc'[v] # "idle" => v # w /\ wfile[v] # f
    BY <1>1, <1>2, <1>4 DEF Inv, LossInv, Written
  <2> QED
    BY SMT, <1>1, <1>2, <1>4, <2>1 DEF Inv, LossInv, Written, Nudge
<1>7. Kept'
  <2> SUFFICES ASSUME NEW m \in acked' \ excused' PROVE Accounted(m)'
    BY DEF Kept
  <2>1. CASE m = Nudge(f)
    BY <1>1, <1>2, <2>1 DEF Accounted
  <2>2. CASE m # Nudge(f)
    <3>1. Accounted(m) /\ \A x \in Drainers : Carries(x, m) => Carries(x, m)'
      BY SMT, <1>1, <1>2, <1>4, <2>2 DEF Inv, LossInv, Kept, Carries
    <3> QED
      BY <1>1, <3>1 DEF Accounted
  <2> QED
    BY <2>1, <2>2
<1>8. ASSUME NEW g \in Files, NEW x \in Drainers, Nudge(g) \in batch'[x], Backs(g, x)
      PROVE  Backs(g, x)'
  <2>1. CASE at[g] = x /\ cur[x] = g /\ pc[x] = "keep"
    BY <1>1, <2>1 DEF Backs
  <2>2. CASE x \in Propellers /\ wpc[x] # "idle" /\ wfile[x] = g
    <3>1. x # w /\ x \in Writers
      BY <1>2, <1>4, <1>8, <2>2, Places
    <3> QED
      BY <1>4, <2>2, <3>1 DEF Backs
  <2> QED
    BY <1>8, <2>1, <2>2 DEF Backs
<1>9. \A x \in Drainers, g \in Files : Holds(x, g)' => Holds(x, g)
  BY <1>1 DEF Holds
<1>10. OnceInv'
  BY SMT, <1>1, <1>3, <1>4, <1>8, <1>9, LetGoStep
<1> QED
  BY <1>3, <1>5, <1>6, <1>7, <1>10 DEF Inv, LossInv

\* The name appears, before the content is whole, where nobody has been.
LEMMA CreateInv == ASSUME Inv, NEW w \in Writers, CreateFile(w) PROVE Inv'
<1>1. /\ UNCHANGED <<whole, files, wfile, delivered, doubtful, sent, sweeps, pc, cur, batch>>
      /\ UNCHANGED <<todo, now, due, expired, acked, removed, excused>>
      /\ wpc[w] = "create" /\ wpc' = [wpc EXCEPT ![w] = "finish"]
      /\ at' = [at EXCEPT ![wfile[w]] = "json"]
  BY DEF CreateFile, drainVars, timeVars, history
<1>2. PICK f \in Files : f = wfile[w] /\ f[2] <= files[f[1]] /\ at[f] = "none"
  BY <1>1 DEF Inv, OnceInv, Used, LossInv, Written
<1>3. \A x \in Drainers : ~Holds(x, f)
  BY <1>1, <1>2 DEF Inv, OnceInv, Used
<1>4. /\ \A g \in Files : at'[g] = IF g = f THEN "json" ELSE at[g]
      /\ \A v \in Writers : wpc'[v] = IF v = w THEN "finish" ELSE wpc[v]
  BY <1>1, <1>2 DEF Inv, Shape
<1>5. Shape'
  BY <1>1, <1>2 DEF Inv, Shape
<1>6. Held' /\ Requeues' /\ Kept'
  <2>1. Held' /\ Requeues'
    BY <1>1, <1>4, Places DEF Inv, LossInv, Held, Requeues, Nudge
  <2> QED
    BY SMT, <1>1, <1>4, <2>1, KeptSame DEF Inv, LossInv, Carries
<1>7. Written'
  BY SMT, <1>1, <1>2, <1>4 DEF Inv, LossInv, Written, Nudge
<1>8. Listed'
  BY SMT, <1>1, <1>2, <1>4, Places, Unlisted DEF Inv, OnceInv
<1>9. \A x \in Drainers : \A g : Holds(x, g)' <=> Holds(x, g)
  BY <1>1 DEF Holds
<1>10. Used'
  <2>1. \A g \in Files : at'[g] # "none" \/ (\E x \in Drainers : Holds(x, g)') => g[2] <= files'[g[1]]
    BY <1>1, <1>2, <1>4, <1>9 DEF Inv, OnceInv, Used
  <2>2. ASSUME NEW v \in Writers, wpc'[v] = "create"
        PROVE  at'[wfile'[v]] = "none" /\ \A x \in Drainers : ~Holds(x, wfile[v])'
    <3>1. PICK g \in Files : g = wfile[v] /\ g # f /\ at[g] = "none" /\ wpc[v] = "create"
      BY SMT, <1>1, <1>2, <1>4, <2>2 DEF Inv, OnceInv, Used, LossInv, Written
    <3>2. \A x \in Drainers : ~Holds(x, g)
      BY <3>1 DEF Inv, OnceInv, Used
    <3> QED
      BY <1>1, <1>4, <3>1, <3>2 DEF Holds
  <2> QED
    BY <2>1, <2>2 DEF Used, Holds
<1>11. Unsent'
  BY <1>1 DEF Inv, OnceInv, Unsent
<1>12. Firm'
  <2>1. \A x \in Drainers, g \in Files : Holds(x, g) /\ Nudge(g) \notin doubtful =>
          at'[g] \in {x, "none"}
    BY <1>3, <1>4 DEF Inv, OnceInv, Firm
  <2> QED
    BY <1>1, <1>9, <2>1 DEF Firm, Nudge
<1>13. Sole'
  <2> SUFFICES ASSUME NEW n \in Nudges \ doubtful PROVE Once(n)'
    BY <1>1 DEF Sole
  <2>1. Once(n) /\ \A g \in Files : Live(g)' => Live(g)
    BY SMT, <1>1, <1>2, <1>4 DEF Inv, OnceInv, Sole, Live
  <2>2. \A g \in Files, x \in Drainers : Backs(g, x) => Backs(g, x)'
    BY SMT, <1>1, <1>2, <1>4, Places DEF Backs
  <2> QED
    BY <1>1, <2>1, <2>2, OnceShrinks
<1> QED
  BY <1>5, <1>6, <1>7, <1>8, <1>10, <1>11, <1>12, <1>13 DEF Inv, LossInv, OnceInv

\* A crash gives up what the drainer carries, and no more: the rest is on disk.
LEMMA CrashDrainerInv == ASSUME Inv, NEW d \in Drainers, CrashDrainer(d) PROVE Inv'
<1>1. /\ UNCHANGED <<at, whole, files, delivered, doubtful, sent, due, expired, acked, removed>>
      /\ pc' = [pc EXCEPT ![d] = "idle"] /\ cur' = [cur EXCEPT ![d] = NoFile]
      /\ batch' = [batch EXCEPT ![d] = {}] /\ sweeps' = [sweeps EXCEPT ![d] = {}]
      /\ todo' = [todo EXCEPT ![d] = {}] /\ now' = [now EXCEPT ![d] = NoTime]
      /\ excused' = excused \cup {n \in batch[d] : ~(pc[d] = "keep" /\ n = Nudge(cur[d]))}
      /\ IF d \in Writers
         THEN wpc' = [wpc EXCEPT ![d] = "idle"] /\ wfile' = [wfile EXCEPT ![d] = NoFile]
         ELSE UNCHANGED <<wpc, wfile>>
  BY DEF CrashDrainer, fileVars, timeVars
<1>2. Shape'
  BY <1>1 DEF Inv, Shape, DrainSteps, NoTime
<1>3. /\ \A x \in Drainers \ {d} : /\ pc'[x] = pc[x] /\ cur'[x] = cur[x] /\ batch'[x] = batch[x]
                                   /\ now'[x] = now[x]
      /\ pc'[d] = "idle" /\ batch'[d] = {} /\ now'[d].expired = {}
      /\ \A x \in Drainers : sweeps'[x] \subseteq sweeps[x]
  BY <1>1 DEF Inv, Shape, NoTime
<1>4. \A v \in Writers : /\ v # d => wpc'[v] = wpc[v] /\ wfile'[v] = wfile[v]
                         /\ v = d => wpc'[v] = "idle"
  BY <1>1 DEF Inv, Shape
<1>5. Held' /\ Requeues'
  BY SMT, <1>1, <1>3, <1>4, Places DEF Inv, LossInv, Held, Requeues, Nudge
<1>6. Written' /\ Kept'
  BY <1>1, <1>3, <1>4, WrittenSame, KeptSame DEF Inv, LossInv, Carries
<1>7. Listed'
  BY SMT, <1>1, <1>3 DEF Inv, OnceInv, Listed
<1>8. ASSUME NEW g \in Files, NEW x \in Drainers, Nudge(g) \in batch'[x], Backs(g, x)
      PROVE  Backs(g, x)'
  BY <1>1, <1>3, <1>4, <1>8, Places DEF Backs
<1>9. \A x \in Drainers, g \in Files : Holds(x, g)' => Holds(x, g)
  BY <1>3 DEF Holds
<1>10. OnceInv'
  BY <1>1, <1>3, <1>4, <1>7, <1>8, <1>9, LetGoStep
<1> QED
  BY <1>2, <1>5, <1>6, <1>10 DEF Inv, LossInv

\* A sender that dies has acknowledged nothing, and leaves at most the file it was
\* writing.
LEMMA CrashSenderInv == ASSUME Inv, NEW s \in Senders, CrashSender(s) PROVE Inv'
<1>1. /\ UNCHANGED <<at, whole, files, delivered, doubtful, sent, pc, cur, batch, sweeps>>
      /\ UNCHANGED <<todo, now, due, expired, acked, removed, excused>>
      /\ wpc' = [wpc EXCEPT ![s] = "idle"] /\ wfile' = [wfile EXCEPT ![s] = NoFile]
  BY DEF CrashSender, fileVars, drainVars, timeVars, history
<1>2. Shape' /\ Listed'
  BY <1>1 DEF Inv, Shape, OnceInv, Listed
<1>3. \A v \in Writers : /\ v # s => wpc'[v] = wpc[v] /\ wfile'[v] = wfile[v]
                         /\ v = s => wpc'[v] = "idle"
  BY <1>1 DEF Inv, Shape
<1>4. Held' /\ Requeues'
  BY <1>1, <1>3, Places DEF Inv, LossInv, Held, Requeues, Nudge
<1>5. Written' /\ Kept'
  BY <1>1, <1>3, WrittenSame, KeptSame DEF Inv, LossInv, Carries
<1>6. OnceInv'
  BY <1>1, <1>2, <1>3, Places, LetGoStep DEF Holds, Backs
<1> QED
  BY <1>2, <1>4, <1>5, <1>6 DEF Inv, LossInv

\* At the start there is no copy of anything.
LEMMA InitInv == Init => Inv
<1> SUFFICES ASSUME Init PROVE Inv
  OBVIOUS
<1>1. Shape
  BY QueueAssumption DEF Init, Shape, DrainSteps, NoTime
<1>2. LossInv
  BY Places DEF Init, LossInv, Held, Requeues, Written, Kept, NoTime
<1>3. \A x \in Drainers : \A g : ~Holds(x, g)
  BY DEF Init, Holds
<1>4. Listed /\ Used /\ Unsent /\ Firm
  BY <1>3 DEF Init, Listed, Used, Unsent, Firm
<1>5. Sole
  <2>1. \A g \in Files : ~Live(g)
    BY DEF Init, Live
  <2>2. (\A x \in Drainers : batch[x] = {}) /\ \A n \in Nudges : delivered[n] = 0
    BY DEF Init
  <2> QED
    BY SMT, <2>1, <2>2 DEF Sole, Once
<1> QED
  BY <1>1, <1>2, <1>4, <1>5 DEF Inv, OnceInv

\* Every step keeps the invariant.
LEMMA NextInv == Inv /\ [Next]_vars => Inv'
<1> SUFFICES ASSUME Inv, [Next]_vars PROVE Inv'
  OBVIOUS
<1>1. CASE \E s \in Senders, n \in Nudges : Enqueue(s, n)
  BY <1>1, EnqueueInv
<1>2. CASE \E w \in Writers : Write(w)
  BY <1>2, CreateInv, FinishInv DEF Write
<1>3. CASE \E d \in Drainers : Drain(d) \/ DeliverFails(d)
  BY <1>3, StartInv, SweepInv, ClaimInv, ReadInv, SettleInv, ReturnInv, DeliverInv,
     RequeueInv, DeliverFailsInv DEF Drain, Proceed
<1>4. CASE \E d \in Drainers : CrashDrainer(d) \/ ClaimCallFails(d) \/ SweepCallFails(d)
  BY <1>4, CrashDrainerInv, ClaimCallInv, SweepCallInv
<1>5. CASE \E s \in Senders : CrashSender(s)
  BY <1>5, CrashSenderInv
<1>6. CASE \E f \in Files : RemoveKindByThread(f)
  BY <1>6, RemoveInv
<1>7. CASE (\E f \in Files : GoesStale(f)) \/ (\E n \in Nudges : FallsDue(n) \/ Expires(n))
  BY <1>7, TimeInv
<1>8. CASE UNCHANGED vars
  BY <1>8, TimeInv
<1> QED
  BY <1>1, <1>2, <1>3, <1>4, <1>5, <1>6, <1>7, <1>8 DEF Next

-----------------------------------------------------------------------------
\* Through every interleaving of senders, drainers, replies, crashes and failed
\* calls: an acknowledged nudge that was not given up is on disk, carried by a
\* drainer, delivered, expired or removed, and a nudge whose claim was neither
\* swept from a drainer at work on it nor left behind has one copy at most, a
\* file, a batch or a delivery (Enqueue, Drain, Requeue, RemoveKindByThread).
THEOREM QueueInvariant == Spec => []Inv
<1>1. Init => Inv
  BY InitInv
<1>2. Inv /\ [Next]_vars => Inv'
  BY NextInv
<1> QED
  BY <1>1, <1>2, PTL DEF Spec

\* A nudge that Enqueue acknowledged is never lost but in the ways the code
\* admits (Drain, Requeue, RemoveKindByThread).
THEOREM QueueNoSilentLoss == Spec => []NoSilentLoss
<1>1. Inv => NoSilentLoss
  BY DEF Inv, LossInv, Kept, Accounted, NoSilentLoss, Around, Carries
<1> QED
  BY <1>1, QueueInvariant, PTL

\* Drain delivers a nudge twice only if a sweep took its claim from a drainer that
\* was still working on it, or its claim could not be removed.
THEOREM QueueAtMostOnce == Spec => []AtMostOnce
<1>1. Inv => AtMostOnce
  BY SMT DEF AtMostOnce, Inv, Shape, OnceInv, Sole, Once
<1> QED
  BY <1>1, QueueInvariant, PTL
=============================================================================
