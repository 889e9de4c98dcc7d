---------------------------- MODULE Pool_proofs ----------------------------
(***************************************************************************)
(* For any number of callers and processes and any limits: no process is   *)
(* in two hands or forgotten, one probe runs at a time, a batch accounts   *)
(* for each of its files, a file is not blamed for what the pool killed,   *)
(* the pool gives up on the last outcomes only, and implements Service.    *)
(***************************************************************************)
EXTENDS Pool, FiniteSetTheorems, SequenceTheorems, TLAPS

\* What the constants' assumption says of each of them.
LEMMA Limits ==
  /\ Size \in Nat /\ Batch \in Nat /\ MaxCrashRun \in Nat /\ Window \in Nat
  /\ Size > 0 /\ Batch > 0 /\ MaxCrashRun > 0 /\ Window > 0 /\ None \notin Proc
BY PoolConstants

-----------------------------------------------------------------------------
\* Jobs

\* A new job has done nothing yet.
LEMMA NewJobFacts ==
  ASSUME NEW k \in {"run", "batch", "check"}
  PROVE  /\ NewJob(k) \in Job
         /\ NewJob(k).kind = k /\ NewJob(k).at = 0 /\ NewJob(k).sent = 0
         /\ NewJob(k).answered = {} /\ NewJob(k).bad = {} /\ NewJob(k).inARow = 0
BY Limits DEF NewJob, Job, Outcomes

\* A job with one part changed is a job.
LEMMA JobUpdates ==
  ASSUME NEW j \in Job
  PROVE  /\ \A s \in 0 .. 2 : [j EXCEPT !.sent = s] \in Job
         /\ \A f \in Outcomes : [j EXCEPT !.fail = f] \in Job
         /\ \A b \in BOOLEAN : [j EXCEPT !.anyOK = b] \in Job
         /\ \A b \in BOOLEAN : [j EXCEPT !.anyTimeout = b] \in Job
         /\ \A n \in Nat : [j EXCEPT !.inARow = n] \in Job
         /\ \A b \in SUBSET (1 .. Batch) : [j EXCEPT !.answered = b] \in Job
         /\ \A b \in SUBSET (1 .. Batch) : [j EXCEPT !.bad = b] \in Job
         /\ \A a \in 0 .. Batch : [j EXCEPT !.at = a] \in Job
<1>1. \A s \in 0 .. 2 : [j EXCEPT !.sent = s] \in Job
  BY DEF Job
<1>2. \A f \in Outcomes : [j EXCEPT !.fail = f] \in Job
  BY DEF Job
<1>3. \A b \in BOOLEAN : [j EXCEPT !.anyOK = b] \in Job
  BY DEF Job
<1>4. \A b \in BOOLEAN : [j EXCEPT !.anyTimeout = b] \in Job
  BY DEF Job
<1>5. \A n \in Nat : [j EXCEPT !.inARow = n] \in Job
  BY DEF Job
<1>6. \A b \in SUBSET (1 .. Batch) : [j EXCEPT !.answered = b] \in Job
  BY DEF Job
<1>7. \A b \in SUBSET (1 .. Batch) : [j EXCEPT !.bad = b] \in Job
  BY DEF Job
<1>8. \A a \in 0 .. Batch : [j EXCEPT !.at = a] \in Job
  BY DEF Job
<1> QED
  BY <1>1, <1>2, <1>3, <1>4, <1>5, <1>6, <1>7, <1>8

\* A reply adds the files asked for to those answered, and perhaps to the failed.
LEMMA RepliesFacts ==
  ASSUME NEW j \in Job, NEW k \in Replies(j)
  PROVE  /\ k \in Job
         /\ k.kind = j.kind /\ k.at = j.at /\ k.sent = j.sent
         /\ k.fail = "ok" /\ k.inARow = 0 /\ k.answered = j.answered \cup Asked(j)
         /\ k.bad = j.bad \/ k.bad = j.bad \cup Asked(j)
<1> DEFINE l == [j EXCEPT !.fail = "ok", !.anyOK = TRUE, !.inARow = 0,
                          !.answered = @ \cup Asked(j)]
           f == [j EXCEPT !.fail = "ok"]
           g == [f EXCEPT !.anyOK = TRUE]
           h == [g EXCEPT !.inARow = 0]
<1>1. Asked(j) \in SUBSET (1 .. Batch)
  BY Limits DEF Asked, Job
<1>2. f \in Job /\ g \in Job /\ h \in Job
  BY JobUpdates DEF Outcomes
<1>3. l = [h EXCEPT !.answered = @ \cup Asked(j)]
  BY DEF Job
<1>4. \A i \in Job : /\ [i EXCEPT !.answered = @ \cup Asked(j)] \in Job
                    /\ [i EXCEPT !.bad = @ \cup Asked(j)] \in Job
  BY <1>1 DEF Job
<1>5. l \in Job /\ [l EXCEPT !.bad = @ \cup Asked(j)] \in Job
  BY <1>2, <1>3, <1>4
<1>6. /\ l.kind = j.kind /\ l.at = j.at /\ l.sent = j.sent /\ l.bad = j.bad
      /\ l.fail = "ok" /\ l.inARow = 0 /\ l.answered = j.answered \cup Asked(j)
  BY DEF Job
<1>7. CASE k = l
  BY <1>5, <1>6, <1>7
<1>8. CASE k = [l EXCEPT !.bad = @ \cup Asked(j)]
  <2> HIDE DEF l
  <2>1. /\ k.kind = l.kind /\ k.at = l.at /\ k.sent = l.sent /\ k.fail = l.fail
        /\ k.inARow = l.inARow /\ k.answered = l.answered /\ k.bad = l.bad \cup Asked(j)
    BY <1>5, <1>8 DEF Job
  <2> QED
    BY <1>5, <1>6, <1>8, <2>1
<1> QED
  BY <1>7, <1>8 DEF Replies

\* A failed single read adds its file to those that failed.
LEMMA FailedFacts ==
  ASSUME NEW j \in Job
  PROVE  /\ Failed(j) \in Job
         /\ Failed(j).kind = j.kind /\ Failed(j).at = j.at
         /\ Failed(j).answered = j.answered
         /\ j.at > 0 => Failed(j).bad = j.bad \cup {j.at} /\ Failed(j).inARow = j.inARow + 1
         /\ j.at = 0 => Failed(j).bad = j.bad /\ Failed(j).inARow = j.inARow
<1>1. CASE j.at > 0
  <2>1. j.at \in 1 .. Batch
    BY <1>1, Limits DEF Job
  <2> DEFINE t == (j.anyTimeout \/ j.fail = "timeout")
             i == [j EXCEPT !.anyTimeout = t]
             k == [i EXCEPT !.inARow = @ + 1]
  <2>2. i \in Job
    BY JobUpdates
  <2>3. k \in Job
    <3>1. \A h \in Job : [h EXCEPT !.inARow = @ + 1] \in Job
      BY DEF Job
    <3> QED
      BY <2>2, <3>1
  <2>4. [k EXCEPT !.bad = @ \cup {j.at}] \in Job
    <3>1. \A h \in Job : [h EXCEPT !.bad = @ \cup {j.at}] \in Job
      BY <2>1 DEF Job
    <3> QED
      BY <2>3, <3>1
  <2>5. Failed(j) = [k EXCEPT !.bad = @ \cup {j.at}]
    BY <1>1 DEF Failed, Job
  <2> QED
    BY <1>1, <2>4, <2>5 DEF Job
<1>2. CASE j.at = 0
  <2> DEFINE t == (j.fail = "timeout")
  <2>1. [j EXCEPT !.anyTimeout = t] \in Job
    BY JobUpdates
  <2>2. Failed(j) = [j EXCEPT !.anyTimeout = t]
    BY <1>2 DEF Failed
  <2> QED
    BY <1>2, <2>1, <2>2 DEF Job
<1> QED
  BY <1>1, <1>2, Limits DEF Job

\* The next file of a batch is sent for the first time.
LEMMA NextFile ==
  ASSUME NEW j \in Job, NEW a \in 0 .. Batch
  PROVE  [j EXCEPT !.at = a, !.sent = 0] \in Job
<1> DEFINE k == [j EXCEPT !.at = a]
<1>1. k \in Job
  BY JobUpdates
<1>2. \A i \in Job : [i EXCEPT !.sent = 0] \in Job
  BY DEF Job
<1>3. [k EXCEPT !.sent = 0] \in Job
  BY <1>1, <1>2
<1> QED
  BY <1>3

\* How a lineage ended is one of the outcomes.
LEMMA OutcomeFacts == \A j \in Job : Outcome(j) \in Outcomes
BY DEF Outcome, Job, Outcomes

\* What a settled outcome makes of the window and its history.
LEMMA WindowFacts ==
  ASSUME NEW o \in Outcomes, window \in Seq(Outcomes), recent \in Seq(Outcomes), next \in Nat
  PROVE  Remember(o) \in Seq(Outcomes) /\ NextAfter \in Nat /\ Recently(o) \in Seq(Outcomes)
<1>1. Remember(o) \in Seq(Outcomes)
  <2>1. Append(window, o) \in Seq(Outcomes)
    OBVIOUS
  <2>2. [window EXCEPT ![next + 1] = o] \in Seq(Outcomes)
    <3>1. PICK n \in Nat : window \in [1 .. n -> Outcomes]
      BY SeqDef
    <3>2. [window EXCEPT ![next + 1] = o] \in [1 .. n -> Outcomes]
      BY <3>1
    <3> QED
      BY <3>2, SeqDef
  <2> QED
    BY <2>1, <2>2 DEF Remember
<1>2. NextAfter \in Nat
  BY Limits DEF NextAfter
<1>3. Recently(o) \in Seq(Outcomes)
  BY Limits DEF Recently
<1> QED
  BY <1>1, <1>2, <1>3

-----------------------------------------------------------------------------
\* What a step leaves of the others

\* Caller v is left alone, or woken up.
Untouched(v) ==
  /\ held'[v] = held[v] /\ job'[v] = job[v] /\ result'[v] = result[v]
  /\ pc'[v] = pc[v] \/ (pc[v] = "asleep" /\ pc'[v] = "checkout")

\* Caller u goes to x, and some sleepers are woken up.
Moves(u, x) ==
  /\ pc' \in [Caller -> PCs] /\ pc'[u] = x
  /\ \A v \in Caller \ {u} : pc'[v] = pc[v] \/ (pc[v] = "asleep" /\ pc'[v] = "checkout")

\* Broadcast and Signal wake sleepers and do nothing else.
LEMMA Waking ==
  ASSUME NEW u \in Caller, NEW x \in PCs \ {"asleep"}, pc \in [Caller -> PCs],
         \/ pc' = [pc EXCEPT ![u] = x]
         \/ pc' = Broadcast([pc EXCEPT ![u] = x])
         \/ pc' = Woken([pc EXCEPT ![u] = x])
         \/ pc' \in Signal([pc EXCEPT ![u] = x])
  PROVE  Moves(u, x)
<1>1. CASE pc' = [pc EXCEPT ![u] = x]
  BY <1>1 DEF Moves
<1>2. CASE pc' = Broadcast([pc EXCEPT ![u] = x])
  BY <1>2 DEF Moves, Broadcast, PCs
<1>3. CASE pc' = Woken([pc EXCEPT ![u] = x])
  BY <1>1, <1>2, <1>3 DEF Woken
<1>4. CASE pc' \in Signal([pc EXCEPT ![u] = x])
  <2> DEFINE f == [pc EXCEPT ![u] = x]
  <2>1. CASE pc' = f
    BY <2>1, <1>1
  <2>2. CASE \E v \in Caller : f[v] = "asleep" /\ pc' = [f EXCEPT ![v] = "checkout"]
    BY <2>2 DEF Moves, PCs
  <2> QED
    BY <1>4, <2>1, <2>2 DEF Signal
<1> QED
  BY <1>1, <1>2, <1>3, <1>4

-----------------------------------------------------------------------------
\* The other callers

\* The calls of caller v.
Calls(v) == JobOK(v) /\ RowsOK(v) /\ CallOK(v)

\* What holds of a caller's call still holds if it is left alone, or woken.
LEMMA OthersStay ==
  ASSUME TypeOK, Hands, NEW v \in Caller, Calls(v), Untouched(v), Stopped => Stopped',
         v \in late' => v \in late, v \in victim' => v \in victim,
         held[v] # None /\ proc[held[v]] = "off" => proc'[held[v]] = "off"
  PROVE  Calls(v)'
<1>1. JobOK(v)'
  BY DEF Calls, JobOK, Untouched
<1>2. RowsOK(v)'
  BY DEF Calls, RowsOK, Untouched, Busy, Trial
<1>3. CallOK(v)'
  BY DEF Calls, CallOK, Untouched, Hands, InPool
<1> QED
  BY <1>1, <1>2, <1>3 DEF Calls

\* Caller u goes on to x with the processes, the probe and the pool as they are.
LEMMA Quiet ==
  ASSUME PoolInv, UNCHANGED <<pool, world, held>>, NEW u \in Caller, NEW x \in PCs,
         Moves(u, x), x \in InPool <=> pc[u] \in InPool, x \in Swap <=> pc[u] \in Swap,
         x \notin Trial, pc[u] \notin Trial, life # "open" => x = "idle"
  PROVE  Hands' /\ Ownership' /\ NoneLost' /\ OneProbe' /\ LifeOK' /\ (Stopped <=> Stopped')
<1>1. \A v \in Caller : /\ pc'[v] \in InPool <=> pc[v] \in InPool
                        /\ pc'[v] \in Swap <=> pc[v] \in Swap
                        /\ pc'[v] \in Trial <=> pc[v] \in Trial
                        /\ pc'[v] \in {"register", "probed"} <=> pc[v] \in {"register", "probed"}
  <2>1. ASSUME NEW v \in Caller, v # u, pc'[v] # pc[v]
        PROVE  pc[v] = "asleep" /\ pc'[v] = "checkout"
    BY <2>1 DEF Moves
  <2>2. pc'[u] = x
    BY DEF Moves
  <2> QED
    BY <2>1, <2>2 DEF InPool, Swap, Trial
<1>2. Hands'
  BY <1>1 DEF PoolInv, Hands
<1>3. Ownership'
  BY <1>1 DEF PoolInv, Ownership, pool
<1>4. NoneLost'
  BY DEF PoolInv, NoneLost, pool, world
<1>5. Stopped <=> Stopped'
  BY DEF Stopped, pool, switch
<1>6. OneProbe'
  BY <1>1, <1>5 DEF PoolInv, OneProbe, pool, probe, health
<1>7. LifeOK'
  BY <1>5 DEF PoolInv, LifeOK, pool, world, Moves
<1> QED
  BY <1>2, <1>3, <1>4, <1>5, <1>6, <1>7

\* Each caller but u keeps its process, and u has one or not as x says.
LEMMA HandsMove ==
  ASSUME TypeOK, Hands, NEW u \in Caller, NEW x \in PCs, Moves(u, x),
         \A v \in Caller \ {u} : held'[v] = held[v],
         held'[u] # None <=> x \in InPool \cup Swap \cup {"register", "probed"}
  PROVE  Hands'
<1>1. ASSUME NEW v \in Caller, v # u
      PROVE  (held'[v] # None) =
               (pc'[v] \in InPool \cup Swap \cup {"register", "probed"})
  BY DEF Hands, Moves, InPool, Swap
<1> QED
  BY <1>1 DEF Hands, Moves

\* Without a probe before, the one of caller u is the only one.
LEMMA ProbeBegins ==
  ASSUME OneProbe, ~probing, probing', NEW u \in Caller, Moves(u, "probe")
  PROVE  OneProbe'
<1>1. \A v \in Caller : pc[v] \notin Trial
  BY DEF OneProbe
<1>2. \A v \in Caller \ {u} : pc'[v] \notin Trial
  BY <1>1 DEF Moves, Trial
<1> QED
  BY DEF OneProbe, Moves, Trial

\* When the probe of caller u is over there is none, and few failures are counted.
LEMMA ProbeOver ==
  ASSUME TypeOK, OneProbe, NEW u \in Caller, NEW failed \in BOOLEAN, pc[u] \in Trial,
         FinishProbe(u, failed)
  PROVE  OneProbe'
<1>1. Moves(u, "verdict")
  BY Waking DEF FinishProbe, TypeOK, PCs
<1>2. \A v \in Caller : pc'[v] \notin Trial
  BY <1>1 DEF Moves, OneProbe, Trial
<1>3. ~Stopped' => crashRun' < MaxCrashRun
  BY Limits DEF FinishProbe, AfterProbe, Stopped, TypeOK
<1> QED
  BY <1>2, <1>3 DEF OneProbe, FinishProbe

-----------------------------------------------------------------------------
\* Each step of a caller keeps PoolInv: those that move processes or the probe

\* A process is taken out of the free ones and gets the command.
LEMMA SendStep ==
  ASSUME PoolInv, NEW u \in Caller, Send(u)
  PROVE  PoolInv'
<1> DEFINE x == "sent"
<1>1. /\ TypeOK /\ Hands /\ Ownership /\ NoneLost /\ OneProbe /\ LifeOK /\ Calls(u)
      /\ held[u] \in Proc \cup {None} /\ job[u] \in Job
  BY DEF PoolInv, Calls, TypeOK
<1>2. x \in PCs \ {"asleep"} /\ Moves(u, x)
  BY <1>1, Waking DEF Send, FinishProbe, TypeOK, PCs
<1>3. Stopped => Stopped'
  BY DEF Send
<1>3a. job[u].sent \in 0 .. 1
  BY <1>1 DEF Calls, JobOK, Send
<1>3b. PICK s \in 0 .. 2 : s = job[u].sent + 1
  BY <1>3a
<1>3c. job' = [job EXCEPT ![u] = [job[u] EXCEPT !.sent = s]]
  BY <1>3b DEF Send
<1>3d. [job[u] EXCEPT !.sent = s] \in Job
  BY <1>1, JobUpdates
<1>3e. /\ job' \in [Caller -> Job] /\ job'[u] = [job[u] EXCEPT !.sent = s]
  BY <1>1, <1>3c, <1>3d DEF TypeOK
<1>3f. /\ job'[u].kind = job[u].kind /\ job'[u].at = job[u].at /\ job'[u].answered = job[u].answered
       /\ job'[u].bad = job[u].bad /\ job'[u].inARow = job[u].inARow
  BY <1>1, <1>3e DEF Job
<1>4. TypeOK'
  <2>1. job' \in [Caller -> Job] /\ result' = result
    BY <1>3e DEF Send, callers
  <2>2. pc' \in [Caller -> PCs]
    BY <1>2 DEF Moves
  <2>3. held' \in [Caller -> Proc \cup {None}] /\ proc' \in [Proc -> {"up", "off"}]
    BY <1>1 DEF TypeOK, Send
  <2>4. /\ all' \subseteq Proc /\ free' \subseteq Proc /\ doomed' \subseteq Proc
        /\ probeClient' \in Proc \cup {None} /\ calls' = calls /\ late' = late /\ victim' = victim
    BY <1>1 DEF TypeOK, Send, callers, history, probe
  <2>5. /\ window' \in Seq(Outcomes) /\ recent' \in Seq(Outcomes) /\ next' \in Nat
        /\ crashRun' \in Nat /\ probeFails' \in Nat
    BY <1>1 DEF TypeOK, Send, health
  <2>6. /\ life' = life /\ canceled' = canceled /\ killed' = killed /\ probing' \in BOOLEAN
        /\ broken' \in {"no", "restart", "window", "probe"}
    BY <1>1 DEF TypeOK, Send, probe, switch
  <2> QED
    BY <1>1, <2>1, <2>2, <2>3, <2>4, <2>5, <2>6 DEF TypeOK
<1>5. Hands'
  BY <1>1, Limits DEF TypeOK, Hands, InPool, Send
<1>6. Ownership'
  BY <1>1 DEF TypeOK, Ownership, InPool, Send
<1>7. NoneLost'
  <2>1. \A v \in Caller : held[v] # None => held'[v] = held[v]
    BY <1>1 DEF Hands, InPool, Swap, Send
  <2> QED
    BY <1>1, <2>1, Limits DEF NoneLost, Send
<1>8. OneProbe'
  BY <1>1 DEF OneProbe, Trial, Send, probe, health
<1>9. LifeOK'
  BY <1>1 DEF LifeOK, Send
<1>10. ASSUME NEW v \in Caller \ {u} PROVE Calls(v)'
  <2>1. Untouched(v)
    BY DEF Untouched, Send, callers
  <2>2. held[v] # None /\ proc[held[v]] = "off" => proc'[held[v]] = "off"
    BY DEF Send
  <2>3. Calls(v)
    BY DEF PoolInv, Calls
  <2> QED
    BY <1>1, <2>1, <2>3, OthersStay DEF Send, callers, history
<1>11. JobOK(u)'
  BY <1>1 DEF TypeOK, Calls, JobOK, Send
<1>12. RowsOK(u)'
  BY <1>1 DEF Calls, RowsOK, Rows, Busy, Trial, Send
<1>13. CallOK(u)'
  BY <1>1 DEF Calls, CallOK, Send, callers, history
<1> QED
  BY <1>4, <1>5, <1>6, <1>7, <1>8, <1>9, <1>10, <1>11, <1>12, <1>13 DEF PoolInv, Calls

\* Check begins a probe when none runs.
LEMMA CheckStep ==
  ASSUME PoolInv, NEW u \in Caller, Check(u)
  PROVE  PoolInv'
<1> DEFINE x == "probe"
<1>1. /\ TypeOK /\ Hands /\ Ownership /\ NoneLost /\ OneProbe /\ LifeOK /\ Calls(u)
      /\ held[u] \in Proc \cup {None} /\ job[u] \in Job
  BY DEF PoolInv, Calls, TypeOK
<1>2. x \in PCs \ {"asleep"} /\ Moves(u, x)
  BY <1>1, Waking DEF Check, FinishProbe, TypeOK, PCs
<1>3. Stopped => Stopped'
  BY DEF Check
<1>4. TypeOK'
  BY <1>1, <1>2 DEF TypeOK, Check, callers, history, health, switch
<1>5. Hands'
  BY <1>1 DEF Hands, InPool, Swap, Check
<1>6. Ownership'
  BY <1>1 DEF Ownership, InPool, Check
<1>7. NoneLost'
  BY <1>1 DEF NoneLost, Check
<1>8. OneProbe'
  BY <1>1, <1>2, ProbeBegins DEF Check, MustWait
<1>9. LifeOK'
  BY <1>1 DEF LifeOK, Check
<1>10. ASSUME NEW v \in Caller \ {u} PROVE Calls(v)'
  <2>1. Untouched(v)
    BY DEF Untouched, Check, callers
  <2>2. held[v] # None /\ proc[held[v]] = "off" => proc'[held[v]] = "off"
    BY DEF Check
  <2>3. Calls(v)
    BY DEF PoolInv, Calls
  <2> QED
    BY <1>1, <2>1, <2>3, OthersStay DEF Check, callers, history
<1>11. JobOK(u)'
  BY <1>1 DEF Calls, JobOK, Busy, Check
<1>12. RowsOK(u)'
  BY DEF RowsOK, Check
<1>13. CallOK(u)'
  BY <1>1 DEF Calls, CallOK, Check, callers, history
<1> QED
  BY <1>4, <1>5, <1>6, <1>7, <1>8, <1>9, <1>10, <1>11, <1>12, <1>13 DEF PoolInv, Calls

\* The process goes back; what was read joins the rows of the batch.
LEMMA ReplyStep ==
  ASSUME PoolInv, NEW u \in Caller, Reply(u)
  PROVE  PoolInv'
<1> DEFINE x == IF job[u].at > 0 THEN "loop" ELSE "settle"
<1>1. /\ TypeOK /\ Hands /\ Ownership /\ NoneLost /\ OneProbe /\ LifeOK /\ Calls(u)
      /\ held[u] \in Proc \cup {None} /\ job[u] \in Job
  BY DEF PoolInv, Calls, TypeOK
<1>2. x \in PCs \ {"asleep"} /\ Moves(u, x)
  BY <1>1, Waking DEF Reply, FinishProbe, TypeOK, PCs
<1>3. Stopped => Stopped'
  BY DEF Stopped, Reply, switch
<1>3a. PICK k \in Replies(job[u]) : job' = [job EXCEPT ![u] = k]
  BY DEF Reply
<1>3b. /\ job' \in [Caller -> Job] /\ job'[u] = k /\ \A v \in Caller \ {u} : job'[v] = job[v]
  BY <1>1, <1>3a, RepliesFacts DEF TypeOK
<1>4. TypeOK'
  <2>1. job' \in [Caller -> Job] /\ result' = result
    BY <1>3b DEF Reply, callers
  <2>2. pc' \in [Caller -> PCs]
    BY <1>2 DEF Moves
  <2>3. held' \in [Caller -> Proc \cup {None}] /\ proc' \in [Proc -> {"up", "off"}]
    BY <1>1 DEF TypeOK, Reply
  <2>4. /\ all' \subseteq Proc /\ free' \subseteq Proc /\ doomed' \subseteq Proc
        /\ probeClient' \in Proc \cup {None} /\ calls' = calls /\ late' = late /\ victim' = victim
    BY <1>1 DEF TypeOK, Hands, InPool, Reply, callers, history, probe
  <2>5. /\ window' \in Seq(Outcomes) /\ recent' \in Seq(Outcomes) /\ next' \in Nat
        /\ crashRun' \in Nat /\ probeFails' \in Nat
    BY <1>1 DEF TypeOK, Reply, health
  <2>6. /\ life' = life /\ canceled' = canceled /\ killed' = killed /\ probing' \in BOOLEAN
        /\ broken' \in {"no", "restart", "window", "probe"}
    BY <1>1 DEF TypeOK, Reply, probe, switch
  <2> QED
    BY <1>1, <2>1, <2>2, <2>3, <2>4, <2>5, <2>6 DEF TypeOK
<1>5. Hands'
  BY <1>1, <1>2 DEF TypeOK, Hands, Moves, InPool, Swap, Reply, probe
<1>6. Ownership'
  BY <1>1, <1>2 DEF TypeOK, Hands, Ownership, Moves, InPool, Reply
<1>7. NoneLost'
  BY <1>1 DEF Ownership, NoneLost, InPool, Reply
<1>8. OneProbe'
  BY <1>1, <1>2, <1>3 DEF OneProbe, Moves, Trial, Reply, probe, health
<1>9. LifeOK'
  BY <1>1, <1>3 DEF LifeOK, Reply
<1>10. ASSUME NEW v \in Caller \ {u} PROVE Calls(v)'
  <2>1. Untouched(v)
    BY <1>2, <1>3b DEF Untouched, Moves, Reply, callers
  <2>2. held[v] # None /\ proc[held[v]] = "off" => proc'[held[v]] = "off"
    BY DEF Reply
  <2>3. Calls(v)
    BY DEF PoolInv, Calls
  <2> QED
    BY <1>1, <1>3, <2>1, <2>3, OthersStay DEF Reply, callers, history
<1>11. JobOK(u)'
  BY <1>1, <1>2, <1>3b, RepliesFacts DEF Calls, JobOK, Busy, Moves
<1>12. RowsOK(u)'
  <2> DEFINE j == job[u]
  <2>1. SUFFICES ASSUME j.kind = "batch" PROVE RowsOK(u)'
    BY <1>1, <1>3b, RepliesFacts DEF RowsOK
  <2>2. /\ k.kind = j.kind /\ k.at = j.at /\ j.at \in Nat /\ k.inARow = 0
        /\ k.answered = j.answered \cup Asked(j)
        /\ k.bad = j.bad \/ k.bad = j.bad \cup Asked(j)
    BY <1>1, RepliesFacts DEF Job
  <2>3. CASE j.at > 0
    <3>1. Rows(j, j.at - 1)
      BY <1>1, <2>1, <2>3 DEF Calls, RowsOK, Busy, Reply
    <3>2. Asked(j) = {j.at}
      BY <2>1, <2>3 DEF Asked
    <3>3. Rows(k, j.at)
      BY <2>2, <2>3, <3>1, <3>2 DEF Rows
    <3>4. pc'[u] = "loop"
      BY <1>2, <2>3 DEF Moves
    <3> QED
      BY <1>3b, <2>2, <3>3, <3>4 DEF RowsOK, Busy, Trial
  <2>4. CASE j.at = 0
    <3>1. Rows(j, 0)
      BY <1>1, <2>1, <2>4 DEF Calls, RowsOK, Busy, Reply
    <3>2. Asked(j) = 1 .. Batch
      BY <2>1, <2>4 DEF Asked
    <3>3. k.answered = 1 .. Batch /\ k.bad \subseteq 1 .. Batch
      BY <2>2, <3>1, <3>2 DEF Rows
    <3>4. Complete(k)
      BY <3>3 DEF Complete
    <3>5. pc'[u] = "settle"
      BY <1>2, <2>4 DEF Moves
    <3> QED
      BY <1>3b, <3>4, <3>5 DEF RowsOK, Busy
  <2> QED
    BY <2>2, <2>3, <2>4
<1>13. CallOK(u)'
  BY <1>1 DEF Calls, CallOK, Reply, callers, history
<1> QED
  BY <1>4, <1>5, <1>6, <1>7, <1>8, <1>9, <1>10, <1>11, <1>12, <1>13 DEF PoolInv, Calls

\* A hung process is killed and stays with its caller.
LEMMA TimeoutStep ==
  ASSUME PoolInv, NEW u \in Caller, Timeout(u)
  PROVE  PoolInv'
<1> DEFINE x == "failed"
<1>1. /\ TypeOK /\ Hands /\ Ownership /\ NoneLost /\ OneProbe /\ LifeOK /\ Calls(u)
      /\ held[u] \in Proc \cup {None} /\ job[u] \in Job
  BY DEF PoolInv, Calls, TypeOK
<1>2. x \in PCs \ {"asleep"} /\ Moves(u, x)
  BY <1>1, Waking DEF Timeout, FinishProbe, TypeOK, PCs
<1>3. Stopped => Stopped'
  BY DEF Stopped, Timeout, pool, switch
<1>3a. [job[u] EXCEPT !.fail = "timeout"] \in Job
  BY <1>1, JobUpdates DEF Outcomes
<1>3b. job' = [job EXCEPT ![u] = [job[u] EXCEPT !.fail = "timeout"]]
  BY <1>1 DEF TypeOK, Timeout
<1>3c. /\ job' \in [Caller -> Job] /\ job'[u] = [job[u] EXCEPT !.fail = "timeout"]
  BY <1>1, <1>3a, <1>3b DEF TypeOK
<1>3d. /\ job'[u].kind = job[u].kind /\ job'[u].at = job[u].at /\ job'[u].answered = job[u].answered
       /\ job'[u].bad = job[u].bad /\ job'[u].inARow = job[u].inARow
  BY <1>1, <1>3c DEF Job
<1>4. TypeOK'
  <2>1. job' \in [Caller -> Job] /\ result' = result
    BY <1>3c DEF Timeout, callers
  <2>2. pc' \in [Caller -> PCs]
    BY <1>2 DEF Moves
  <2>3. held' \in [Caller -> Proc \cup {None}] /\ proc' \in [Proc -> {"up", "off"}]
    BY <1>1 DEF TypeOK, Timeout, Off, pool, switch, probe, health, callers, history
  <2>4. /\ all' \subseteq Proc /\ free' \subseteq Proc /\ doomed' \subseteq Proc
        /\ probeClient' \in Proc \cup {None} /\ calls' = calls /\ late' = late /\ victim' = victim
    BY <1>1 DEF TypeOK, Timeout, pool, probe, callers, history
  <2>5. /\ window' \in Seq(Outcomes) /\ recent' \in Seq(Outcomes) /\ next' \in Nat
        /\ crashRun' \in Nat /\ probeFails' \in Nat
    BY <1>1 DEF TypeOK, Timeout, pool, health
  <2>6. /\ life' = life /\ canceled' = canceled /\ killed' = killed /\ probing' \in BOOLEAN
        /\ broken' \in {"no", "restart", "window", "probe"}
    BY <1>1 DEF TypeOK, Timeout, pool, switch, probe
  <2> QED
    BY <1>1, <2>1, <2>2, <2>3, <2>4, <2>5, <2>6 DEF TypeOK
<1>5. Hands'
  BY <1>1 DEF Hands, InPool, Timeout
<1>6. Ownership'
  BY <1>1 DEF Ownership, InPool, Timeout, pool
<1>7. NoneLost'
  BY <1>1 DEF NoneLost, Timeout, Off, pool
<1>8. OneProbe'
  BY <1>1, <1>3 DEF OneProbe, Trial, Timeout, pool, probe, health
<1>9. LifeOK'
  BY <1>1, <1>3 DEF LifeOK, Timeout, pool
<1>10. ASSUME NEW v \in Caller \ {u} PROVE Calls(v)'
  <2>1. Untouched(v)
    BY DEF Untouched, Timeout, callers
  <2>2. held[v] # None /\ proc[held[v]] = "off" => proc'[held[v]] = "off"
    BY DEF Timeout, Off
  <2>3. Calls(v)
    BY DEF PoolInv, Calls
  <2> QED
    BY <1>1, <1>3, <2>1, <2>2, <2>3, OthersStay DEF Timeout, callers, history
<1>11. JobOK(u)'
  BY <1>1 DEF Calls, JobOK, Busy, Timeout
<1>12. RowsOK(u)'
  BY <1>1 DEF Calls, RowsOK, Rows, Busy, Trial, Timeout
<1>13. CallOK(u)'
  BY <1>1, <1>3 DEF TypeOK, Calls, CallOK, Timeout, callers, history
<1> QED
  BY <1>4, <1>5, <1>6, <1>7, <1>8, <1>9, <1>10, <1>11, <1>12, <1>13 DEF PoolInv, Calls

\* The failed process is struck off; a stopped pool kills it at once.
LEMMA RetireStep ==
  ASSUME PoolInv, NEW u \in Caller, Retire(u)
  PROVE  PoolInv'
<1> DEFINE x == IF Stopped THEN "judge" ELSE "restart"
<1>1. /\ TypeOK /\ Hands /\ Ownership /\ NoneLost /\ OneProbe /\ LifeOK /\ Calls(u)
      /\ held[u] \in Proc \cup {None} /\ job[u] \in Job
  BY DEF PoolInv, Calls, TypeOK
<1>2. x \in PCs \ {"asleep"} /\ Moves(u, x)
  BY <1>1, Waking DEF Retire, TypeOK, PCs
<1>3. Stopped => Stopped'
  BY DEF Stopped, Retire, switch
<1>4. TypeOK'
  BY <1>1, <1>2, Limits
     DEF TypeOK, Moves, Retire, Off, Deleted, callers, history, probe, health, switch
<1>5. Hands'
  BY <1>1 DEF TypeOK, Hands, InPool, Swap, Retire, probe
<1>6. Ownership'
  BY <1>1, Limits DEF TypeOK, Ownership, InPool, Retire, Deleted, switch
<1>7. NoneLost'
  BY <1>1 DEF TypeOK, NoneLost, Retire, Off, Deleted
<1>8. OneProbe'
  BY <1>1, <1>3 DEF TypeOK, OneProbe, Trial, Retire, probe, health
<1>9. LifeOK'
  BY <1>1, <1>3 DEF LifeOK, Retire
<1>10. ASSUME NEW v \in Caller \ {u} PROVE Calls(v)'
  <2>1. Untouched(v)
    BY <1>1 DEF Untouched, TypeOK, Retire, callers
  <2>2. held[v] # None /\ proc[held[v]] = "off" => proc'[held[v]] = "off"
    BY <1>1 DEF TypeOK, Retire, Off
  <2>3. Calls(v)
    BY DEF PoolInv, Calls
  <2> QED
    BY <1>1, <1>3, <2>1, <2>2, <2>3, OthersStay DEF Retire, callers, history
<1>11. JobOK(u)'
  BY <1>1 DEF TypeOK, Calls, JobOK, Busy, Retire
<1>12. RowsOK(u)'
  BY <1>1 DEF TypeOK, Calls, RowsOK, Busy, Trial, Retire
<1>13. CallOK(u)'
  BY <1>1, <1>3 DEF TypeOK, Calls, CallOK, Retire, callers, history
<1> QED
  BY <1>4, <1>5, <1>6, <1>7, <1>8, <1>9, <1>10, <1>11, <1>12, <1>13 DEF PoolInv, Calls

\* The new process is one that nothing else refers to.
LEMMA RestartStep ==
  ASSUME PoolInv, NEW u \in Caller, Restart(u)
  PROVE  PoolInv'
<1> DEFINE x == "adopt"
<1>1. /\ TypeOK /\ Hands /\ Ownership /\ NoneLost /\ OneProbe /\ LifeOK /\ Calls(u)
      /\ held[u] \in Proc \cup {None} /\ job[u] \in Job
  BY DEF PoolInv, Calls, TypeOK
<1>2. x \in PCs \ {"asleep"} /\ Moves(u, x)
  BY <1>1, Waking DEF Restart, FinishProbe, TypeOK, PCs
<1>3. Stopped => Stopped'
  BY DEF Stopped, Restart, pool, switch
<1>4. TypeOK'
  BY <1>1, <1>2
     DEF TypeOK, Restart, Replaced, Fresh, pool, switch, probe, health, callers, history
<1>5. Hands'
  BY <1>1, Limits DEF Hands, Swap, Restart, Fresh
<1>6. Ownership'
  BY <1>1 DEF Ownership, InPool, Restart, Fresh, pool
<1>7. NoneLost'
  <2>1. PICK p \in Fresh : held' = [held EXCEPT ![u] = p] /\ proc' = Replaced(held[u], p)
    BY DEF Restart
  <2>2. ASSUME NEW q \in Proc, proc'[q] = "up", q # p
        PROVE  q \in all \cup doomed \/ \E v \in Caller : held'[v] = q
    <3>1. proc[q] = "up" /\ q # held[u]
      BY <1>1, <2>1, <2>2 DEF Replaced, TypeOK
    <3> QED
      BY <1>1, <2>1, <3>1 DEF NoneLost
  <2>3. held'[u] = p
    BY <1>1, <2>1 DEF TypeOK
  <2>4. life = "open"
    BY <1>1 DEF LifeOK, Restart
  <2> QED
    BY <2>2, <2>3, <2>4 DEF NoneLost, Restart, pool
<1>8. OneProbe'
  BY <1>1, <1>3 DEF OneProbe, Trial, Restart, pool, probe, health
<1>9. LifeOK'
  BY <1>1, <1>3 DEF LifeOK, Restart, pool
<1>10. ASSUME NEW v \in Caller \ {u} PROVE Calls(v)'
  <2>1. Untouched(v)
    BY DEF Untouched, Restart, callers
  <2>2. held[v] # None /\ proc[held[v]] = "off" => proc'[held[v]] = "off"
    BY <1>1 DEF TypeOK, Restart, Replaced, Fresh
  <2>3. Calls(v)
    BY DEF PoolInv, Calls
  <2> QED
    BY <1>1, <1>3, <2>1, <2>2, <2>3, OthersStay
       DEF Restart, Replaced, Fresh, pool, switch, probe, health, callers, history
<1>11. JobOK(u)'
  BY <1>1 DEF Calls, JobOK, Busy, Restart
<1>12. RowsOK(u)'
  BY <1>1 DEF Calls, RowsOK, Busy, Trial, Restart
<1>13. CallOK(u)'
  BY <1>1 DEF Calls, CallOK, Restart, callers, history
<1> QED
  BY <1>4, <1>5, <1>6, <1>7, <1>8, <1>9, <1>10, <1>11, <1>12, <1>13 DEF PoolInv, Calls

\* The pool breaks: its processes are to be killed.
LEMMA RestartFailsStep ==
  ASSUME PoolInv, NEW u \in Caller, RestartFails(u)
  PROVE  PoolInv'
<1> DEFINE x == "judge"
<1>1. /\ TypeOK /\ Hands /\ Ownership /\ NoneLost /\ OneProbe /\ LifeOK /\ Calls(u)
      /\ held[u] \in Proc \cup {None} /\ job[u] \in Job
  BY DEF PoolInv, Calls, TypeOK
<1>2. x \in PCs \ {"asleep"} /\ Moves(u, x)
  BY <1>1, Waking DEF RestartFails, FinishProbe, TypeOK, PCs
<1>3. Stopped => Stopped'
  BY DEF Stopped, RestartFails, Break
<1>4. TypeOK'
  BY <1>1, <1>2, Limits
     DEF TypeOK, Moves, RestartFails, Off, Break, callers, history, probe, health
<1>5. Hands'
  <2>1. \A v \in Caller \ {u} : held'[v] = held[v]
    BY DEF RestartFails
  <2>2. held'[u] = None
    BY <1>1 DEF TypeOK, RestartFails
  <2> QED
    BY <1>1, <1>2, <2>1, <2>2, HandsMove DEF InPool, Swap
<1>6. Ownership'
  <2>1. /\ held' = [held EXCEPT ![u] = None] /\ held' \in [Caller -> Proc \cup {None}]
        /\ all' = all /\ free' = free
    BY <1>1, <1>4 DEF TypeOK, RestartFails
  <2>2. pc[u] \notin InPool /\ pc'[u] \notin InPool
    BY <1>2 DEF Moves, InPool, RestartFails
  <2>3. \A v \in Caller : pc'[v] \in InPool <=> pc[v] \in InPool
    BY <1>2, <2>2 DEF Moves, InPool
  <2>4. \A v \in Caller : held'[v] = IF v = u THEN None ELSE held[v]
    BY <1>1, <2>1 DEF TypeOK
  <2> QED
    BY <1>1, <2>1, <2>3, <2>4 DEF Ownership
<1>7. NoneLost'
  BY <1>1 DEF TypeOK, NoneLost, RestartFails, Off, Break
<1>8. OneProbe'
  BY <1>1, <1>2, <1>3, Limits
     DEF TypeOK, OneProbe, Moves, Trial, RestartFails, Off, Break, callers, history, probe, health
<1>9. LifeOK'
  BY <1>1 DEF LifeOK, Stopped, RestartFails, Break
<1>10. ASSUME NEW v \in Caller \ {u} PROVE Calls(v)'
  <2>1. Untouched(v)
    BY <1>1, <1>2
       DEF Untouched, Moves, TypeOK, RestartFails, Off, Break, callers, history, probe, health
  <2>2. held[v] # None /\ proc[held[v]] = "off" => proc'[held[v]] = "off"
    BY DEF RestartFails, Off
  <2>3. Calls(v)
    BY DEF PoolInv, Calls
  <2> QED
    BY <1>1, <1>3, <2>1, <2>2, <2>3, OthersStay DEF RestartFails, callers, history
<1>11. JobOK(u)'
  BY <1>1, <1>2 DEF Calls, JobOK, Busy, Moves, RestartFails
<1>12. RowsOK(u)'
  BY <1>1, <1>2 DEF Calls, RowsOK, Busy, Trial, Moves, RestartFails
<1>13. CallOK(u)'
  BY <1>1 DEF Calls, CallOK, RestartFails, callers, history
<1> QED
  BY <1>4, <1>5, <1>6, <1>7, <1>8, <1>9, <1>10, <1>11, <1>12, <1>13 DEF PoolInv, Calls

\* The new process joins the pool, or is killed.
LEMMA AdoptStep ==
  ASSUME PoolInv, NEW u \in Caller, Adopt(u)
  PROVE  PoolInv'
<1> DEFINE x == "judge"
<1>1. /\ TypeOK /\ Hands /\ Ownership /\ NoneLost /\ OneProbe /\ LifeOK /\ Calls(u)
      /\ held[u] \in Proc \cup {None} /\ job[u] \in Job
  BY DEF PoolInv, Calls, TypeOK
<1>2. x \in PCs \ {"asleep"} /\ Moves(u, x)
  BY <1>1, Waking DEF Adopt, FinishProbe, TypeOK, PCs
<1>3. Stopped => Stopped'
  BY DEF Stopped, Adopt, switch
<1>4. TypeOK'
  <2>1. job' \in [Caller -> Job] /\ result' = result
    BY <1>1 DEF TypeOK, Adopt, callers
  <2>2. pc' \in [Caller -> PCs]
    BY <1>2 DEF Moves
  <2>3. held' \in [Caller -> Proc \cup {None}] /\ proc' \in [Proc -> {"up", "off"}]
    BY <1>1 DEF TypeOK, Adopt, Off, history
  <2>4. /\ all' \subseteq Proc /\ free' \subseteq Proc /\ doomed' \subseteq Proc
        /\ probeClient' \in Proc \cup {None} /\ calls' = calls /\ late' = late /\ victim' = victim
    BY <1>1 DEF TypeOK, Hands, Swap, Adopt, callers, history, probe
  <2>5. /\ window' \in Seq(Outcomes) /\ recent' \in Seq(Outcomes) /\ next' \in Nat
        /\ crashRun' \in Nat /\ probeFails' \in Nat
    BY <1>1 DEF TypeOK, Adopt, health
  <2>6. /\ life' = life /\ canceled' = canceled /\ killed' = killed /\ probing' \in BOOLEAN
        /\ broken' \in {"no", "restart", "window", "probe"}
    BY <1>1 DEF TypeOK, Adopt, probe, switch
  <2> QED
    BY <1>1, <2>1, <2>2, <2>3, <2>4, <2>5, <2>6 DEF TypeOK
<1>5. Hands'
  BY <1>1, <1>2 DEF TypeOK, Hands, Moves, InPool, Swap, Adopt, Off
<1>6. Ownership'
  BY <1>1, <1>2 DEF TypeOK, Ownership, Moves, InPool, Adopt
<1>7. NoneLost'
  BY <1>1 DEF TypeOK, NoneLost, Adopt, Off
<1>8. OneProbe'
  BY <1>1, <1>2, <1>3 DEF OneProbe, Moves, Trial, Adopt, callers, probe, health
<1>9. LifeOK'
  BY <1>1, <1>3 DEF LifeOK, Adopt
<1>10. ASSUME NEW v \in Caller \ {u} PROVE Calls(v)'
  <2>1. Untouched(v)
    BY <1>2 DEF Untouched, Moves, Adopt, callers
  <2>2. held[v] # None /\ proc[held[v]] = "off" => proc'[held[v]] = "off"
    BY <1>1 DEF TypeOK, Adopt, Off
  <2>3. Calls(v)
    BY DEF PoolInv, Calls
  <2> QED
    BY <1>1, <1>3, <2>1, <2>2, <2>3, OthersStay DEF Adopt, callers, history
<1>11. JobOK(u)'
  BY <1>1, <1>2 DEF Calls, JobOK, Busy, Moves, Adopt
<1>12. RowsOK(u)'
  BY <1>1, <1>2 DEF Calls, RowsOK, Busy, Trial, Moves, Adopt
<1>13. CallOK(u)'
  BY <1>1 DEF Calls, CallOK, Adopt, callers, history
<1> QED
  BY <1>4, <1>5, <1>6, <1>7, <1>8, <1>9, <1>10, <1>11, <1>12, <1>13 DEF PoolInv, Calls

\* The pool gives up: its processes are to be killed.
LEMMA SettleStopsStep ==
  ASSUME PoolInv, NEW u \in Caller, SettleStops(u)
  PROVE  PoolInv'
<1> DEFINE x == "verdict"
<1>1. /\ TypeOK /\ Hands /\ Ownership /\ NoneLost /\ OneProbe /\ LifeOK /\ Calls(u)
      /\ held[u] \in Proc \cup {None} /\ job[u] \in Job
  BY DEF PoolInv, Calls, TypeOK
<1>2. x \in PCs \ {"asleep"} /\ Moves(u, x)
  BY <1>1, Waking DEF SettleStops, FinishProbe, TypeOK, PCs
<1>3. Stopped => Stopped'
  BY DEF SettleStops
<1>4. TypeOK'
  <2>1. job' \in [Caller -> Job] /\ result' = result
    BY <1>1 DEF TypeOK, SettleStops, callers
  <2>2. pc' \in [Caller -> PCs]
    BY <1>2 DEF Moves
  <2>3. held' \in [Caller -> Proc \cup {None}] /\ proc' \in [Proc -> {"up", "off"}]
    BY <1>1 DEF TypeOK, SettleStops
  <2>4. /\ all' \subseteq Proc /\ free' \subseteq Proc /\ doomed' \subseteq Proc
        /\ probeClient' \in Proc \cup {None} /\ calls' = calls /\ late' = late /\ victim' = victim
    BY <1>1 DEF TypeOK, SettleStops, Break, callers, history, probe
  <2>5. /\ window' \in Seq(Outcomes) /\ recent' \in Seq(Outcomes) /\ next' \in Nat
        /\ crashRun' \in Nat /\ probeFails' \in Nat
    BY <1>1, WindowFacts, OutcomeFacts DEF TypeOK, SettleStops
  <2>6. /\ life' = life /\ canceled' = canceled /\ killed' = killed /\ probing' \in BOOLEAN
        /\ broken' \in {"no", "restart", "window", "probe"}
    BY <1>1 DEF TypeOK, SettleStops, Break, probe
  <2> QED
    BY <1>1, <2>1, <2>2, <2>3, <2>4, <2>5, <2>6 DEF TypeOK
<1>5. Hands'
  <2>1. \A v \in Caller \ {u} : held'[v] = held[v]
    BY DEF SettleStops
  <2>2. held'[u] = None
    BY <1>1 DEF Hands, InPool, Swap, SettleStops, history
  <2> QED
    BY <1>1, <1>2, <2>1, <2>2, HandsMove DEF InPool, Swap
<1>6. Ownership'
  <2>1. held' = held /\ all' = all /\ free' = free
    BY DEF SettleStops
  <2>2. pc[u] \notin InPool /\ pc'[u] \notin InPool
    BY <1>2 DEF Moves, InPool, SettleStops
  <2>3. \A v \in Caller : pc'[v] \in InPool <=> pc[v] \in InPool
    BY <1>2, <2>2 DEF Moves, InPool
  <2> QED
    BY <1>1, <2>1, <2>3 DEF Ownership
<1>7. NoneLost'
  BY <1>1 DEF NoneLost, LifeOK, SettleStops
<1>8. OneProbe'
  <2>1. probing' = probing /\ crashRun' = crashRun
    BY DEF SettleStops, probe
  <2>2. pc[u] \notin Trial /\ pc'[u] \notin Trial
    BY <1>2 DEF Moves, Trial, SettleStops
  <2>3. \A v \in Caller : pc'[v] \in Trial <=> pc[v] \in Trial
    BY <1>2, <2>2 DEF Moves, Trial
  <2> QED
    BY <1>1, <1>3, <2>1, <2>3 DEF OneProbe
<1>9. LifeOK'
  BY <1>1 DEF LifeOK, Stopped, SettleStops, Break
<1>10. ASSUME NEW v \in Caller \ {u} PROVE Calls(v)'
  <2>1. Untouched(v)
    BY <1>1, <1>2 DEF Untouched, Moves, TypeOK, SettleStops, Break, callers, history, probe
  <2>2. held[v] # None /\ proc[held[v]] = "off" => proc'[held[v]] = "off"
    BY DEF SettleStops
  <2>3. Calls(v)
    BY DEF PoolInv, Calls
  <2> QED
    BY <1>1, <2>1, <2>3, OthersStay DEF SettleStops, callers, history
<1>11. JobOK(u)'
  BY <1>1, <1>2 DEF Calls, JobOK, Busy, Moves, SettleStops
<1>12. RowsOK(u)'
  BY <1>1, <1>2 DEF Calls, RowsOK, Busy, Moves, SettleStops
<1>13. CallOK(u)'
  BY <1>1 DEF Calls, CallOK, SettleStops, callers, history
<1> QED
  BY <1>4, <1>5, <1>6, <1>7, <1>8, <1>9, <1>10, <1>11, <1>12, <1>13 DEF PoolInv, Calls

\* A full window of crashes begins a probe.
LEMMA SettleAsksStep ==
  ASSUME PoolInv, NEW u \in Caller, SettleAsks(u)
  PROVE  PoolInv'
<1> DEFINE x == "probe"
<1>1. /\ TypeOK /\ Hands /\ Ownership /\ NoneLost /\ OneProbe /\ LifeOK /\ Calls(u)
      /\ held[u] \in Proc \cup {None} /\ job[u] \in Job
  BY DEF PoolInv, Calls, TypeOK
<1>2. x \in PCs \ {"asleep"} /\ Moves(u, x)
  BY <1>1, Waking DEF SettleAsks, FinishProbe, TypeOK, PCs
<1>3. Stopped => Stopped'
  BY DEF SettleAsks
<1>4. TypeOK'
  BY <1>1, <1>2 DEF TypeOK, SettleAsks, callers, history, switch
<1>5. Hands'
  BY <1>1 DEF Hands, InPool, Swap, SettleAsks
<1>6. Ownership'
  BY <1>1 DEF Ownership, InPool, SettleAsks
<1>7. NoneLost'
  BY <1>1 DEF NoneLost, SettleAsks
<1>8. OneProbe'
  BY <1>1 DEF TypeOK, OneProbe, Trial, SettleAsks
<1>9. LifeOK'
  BY <1>1 DEF LifeOK, SettleAsks
<1>10. ASSUME NEW v \in Caller \ {u} PROVE Calls(v)'
  <2>1. Untouched(v)
    BY DEF Untouched, SettleAsks, callers
  <2>2. held[v] # None /\ proc[held[v]] = "off" => proc'[held[v]] = "off"
    BY DEF SettleAsks
  <2>3. Calls(v)
    BY DEF PoolInv, Calls
  <2> QED
    BY <1>1, <2>1, <2>3, OthersStay DEF SettleAsks, callers, history
<1>11. JobOK(u)'
  BY <1>1 DEF Calls, JobOK, Busy, SettleAsks
<1>12. RowsOK(u)'
  BY <1>1 DEF Calls, RowsOK, Busy, SettleAsks
<1>13. CallOK(u)'
  BY <1>1 DEF Calls, CallOK, SettleAsks, callers, history
<1> QED
  BY <1>4, <1>5, <1>6, <1>7, <1>8, <1>9, <1>10, <1>11, <1>12, <1>13 DEF PoolInv, Calls

\* Failures in a row are counted, and begin a probe when due.
LEMMA SettleCountsStep ==
  ASSUME PoolInv, NEW u \in Caller, SettleCounts(u)
  PROVE  PoolInv'
<1> DEFINE x == IF Due(Outcome(job[u])) THEN "probe" ELSE "verdict"
<1>1. /\ TypeOK /\ Hands /\ Ownership /\ NoneLost /\ OneProbe /\ LifeOK /\ Calls(u)
      /\ held[u] \in Proc \cup {None} /\ job[u] \in Job
  BY DEF PoolInv, Calls, TypeOK
<1>2. x \in PCs \ {"asleep"} /\ Moves(u, x)
  BY <1>1, Waking DEF SettleCounts, FinishProbe, TypeOK, PCs
<1>3. Stopped => Stopped'
  BY DEF Stopped, SettleCounts, switch
<1>4. TypeOK'
  <2>1. job' \in [Caller -> Job] /\ result' = result
    BY <1>1 DEF TypeOK, SettleCounts, callers
  <2>2. pc' \in [Caller -> PCs]
    BY <1>2 DEF Moves
  <2>3. held' \in [Caller -> Proc \cup {None}] /\ proc' \in [Proc -> {"up", "off"}]
    BY <1>1 DEF TypeOK, SettleCounts
  <2>4. /\ all' \subseteq Proc /\ free' \subseteq Proc /\ doomed' \subseteq Proc
        /\ probeClient' \in Proc \cup {None} /\ calls' = calls /\ late' = late /\ victim' = victim
    BY <1>1 DEF TypeOK, SettleCounts, callers, history
  <2>5. /\ window' \in Seq(Outcomes) /\ recent' \in Seq(Outcomes) /\ next' \in Nat
        /\ crashRun' \in Nat /\ probeFails' \in Nat
    BY <1>1, WindowFacts, OutcomeFacts DEF TypeOK, SettleCounts, CrashRun, Due
  <2>6. /\ life' = life /\ canceled' = canceled /\ killed' = killed /\ probing' \in BOOLEAN
        /\ broken' \in {"no", "restart", "window", "probe"}
    BY <1>1 DEF TypeOK, SettleCounts, switch
  <2> QED
    BY <1>1, <2>1, <2>2, <2>3, <2>4, <2>5, <2>6 DEF TypeOK
<1>5. Hands'
  BY <1>1 DEF Hands, InPool, Swap, SettleCounts
<1>6. Ownership'
  BY <1>1 DEF Ownership, InPool, SettleCounts
<1>7. NoneLost'
  BY <1>1 DEF NoneLost, SettleCounts
<1>8. OneProbe'
  <2> DEFINE o == Outcome(job[u])
  <2>1. CASE Due(o)
    <3>1. ~probing /\ probing'
      BY <2>1 DEF Due, SettleCounts
    <3> QED
      BY <1>1, <1>2, <2>1, <3>1, ProbeBegins
  <2>2. CASE ~Due(o)
    <3>1. \A v \in Caller : pc'[v] \in Trial <=> pc[v] \in Trial
      BY <2>2 DEF Trial, SettleCounts
    <3>2. probing' = probing /\ (Stopped' <=> Stopped)
      BY <1>1, <2>2 DEF TypeOK, Stopped, SettleCounts, switch
    <3>3. ~probing' /\ ~Stopped' => crashRun' < MaxCrashRun
      BY <1>1, <3>2, Limits DEF TypeOK, Due, CrashRun, SettleCounts
    <3> QED
      BY <1>1, <3>1, <3>2, <3>3 DEF OneProbe
  <2> QED
    BY <2>1, <2>2
<1>9. LifeOK'
  BY <1>1, <1>3 DEF LifeOK, SettleCounts
<1>10. ASSUME NEW v \in Caller \ {u} PROVE Calls(v)'
  <2>1. Untouched(v)
    BY DEF Untouched, SettleCounts, callers
  <2>2. held[v] # None /\ proc[held[v]] = "off" => proc'[held[v]] = "off"
    BY DEF SettleCounts
  <2>3. Calls(v)
    BY DEF PoolInv, Calls
  <2> QED
    BY <1>1, <1>3, <2>1, <2>3, OthersStay DEF SettleCounts, callers, history
<1>11. JobOK(u)'
  BY <1>1 DEF Calls, JobOK, Busy, SettleCounts
<1>12. RowsOK(u)'
  BY <1>1 DEF Calls, RowsOK, Busy, SettleCounts
<1>13. CallOK(u)'
  BY <1>1 DEF Calls, CallOK, SettleCounts, callers, history
<1> QED
  BY <1>4, <1>5, <1>6, <1>7, <1>8, <1>9, <1>10, <1>11, <1>12, <1>13 DEF PoolInv, Calls

\* The probe's process is one that nothing else refers to.
LEMMA ProbeStartStep ==
  ASSUME PoolInv, NEW u \in Caller, ProbeStart(u)
  PROVE  PoolInv'
<1> DEFINE x == "register"
<1>1. /\ TypeOK /\ Hands /\ Ownership /\ NoneLost /\ OneProbe /\ LifeOK /\ Calls(u)
      /\ held[u] \in Proc \cup {None} /\ job[u] \in Job
  BY DEF PoolInv, Calls, TypeOK
<1>2. x \in PCs \ {"asleep"} /\ Moves(u, x)
  BY <1>1, Waking DEF ProbeStart, FinishProbe, TypeOK, PCs
<1>3. Stopped => Stopped'
  BY DEF Stopped, ProbeStart, pool, switch
<1>4. TypeOK'
  BY <1>1, <1>2 DEF TypeOK, ProbeStart, Fresh, pool, switch, probe, health, callers, history
<1>5. Hands'
  BY <1>1, Limits DEF TypeOK, Hands, ProbeStart, Fresh
<1>6. Ownership'
  BY <1>1 DEF Ownership, InPool, ProbeStart, Fresh, pool
<1>7. NoneLost'
  BY <1>1, Limits
     DEF TypeOK, Hands, Ownership, NoneLost, LifeOK, Swap, ProbeStart, pool, callers
<1>8. OneProbe'
  BY <1>1 DEF OneProbe, Trial, ProbeStart, pool, probe
<1>9. LifeOK'
  BY <1>1, <1>3 DEF LifeOK, ProbeStart, pool
<1>10. ASSUME NEW v \in Caller \ {u} PROVE Calls(v)'
  <2>1. Untouched(v)
    BY DEF Untouched, ProbeStart, callers
  <2>2. held[v] # None /\ proc[held[v]] = "off" => proc'[held[v]] = "off"
    BY DEF ProbeStart, Fresh
  <2>3. Calls(v)
    BY DEF PoolInv, Calls
  <2> QED
    BY <1>1, <1>3, <2>1, <2>2, <2>3, OthersStay DEF ProbeStart, callers, history
<1>11. JobOK(u)'
  BY <1>1 DEF Calls, JobOK, Busy, ProbeStart
<1>12. RowsOK(u)'
  BY <1>1 DEF Calls, RowsOK, Busy, Trial, ProbeStart
<1>13. CallOK(u)'
  BY <1>1 DEF Calls, CallOK, ProbeStart, callers, history
<1> QED
  BY <1>4, <1>5, <1>6, <1>7, <1>8, <1>9, <1>10, <1>11, <1>12, <1>13 DEF PoolInv, Calls

\* The probe is over: the pool breaks.
LEMMA ProbeStartFailsStep ==
  ASSUME PoolInv, NEW u \in Caller, ProbeStartFails(u)
  PROVE  PoolInv'
<1> DEFINE x == "verdict"
<1>1. /\ TypeOK /\ Hands /\ Ownership /\ NoneLost /\ OneProbe /\ LifeOK /\ Calls(u)
      /\ held[u] \in Proc \cup {None} /\ job[u] \in Job
  BY DEF PoolInv, Calls, TypeOK
<1>2. x \in PCs \ {"asleep"} /\ Moves(u, x)
  BY <1>1, Waking DEF ProbeStartFails, FinishProbe, TypeOK, PCs
<1>3. Stopped => Stopped'
  BY DEF Stopped, ProbeStartFails, FinishProbe
<1>4. TypeOK'
  BY <1>1, <1>2, Limits DEF TypeOK, Moves, ProbeStartFails, FinishProbe, callers, history
<1>5. Hands'
  BY <1>1, <1>2 DEF Hands, Moves, InPool, Swap, ProbeStartFails, FinishProbe
<1>6. Ownership'
  BY <1>1, <1>2 DEF Ownership, Moves, InPool, ProbeStartFails, FinishProbe
<1>7. NoneLost'
  BY <1>1 DEF Hands, Ownership, NoneLost, Swap, ProbeStartFails, FinishProbe, callers
<1>8. OneProbe'
  BY <1>1, ProbeOver DEF Trial, ProbeStartFails
<1>9. LifeOK'
  BY <1>1 DEF LifeOK, Stopped, ProbeStartFails, FinishProbe
<1>10. ASSUME NEW v \in Caller \ {u} PROVE Calls(v)'
  <2>1. Untouched(v)
    BY <1>2 DEF Untouched, Moves, ProbeStartFails, FinishProbe, callers
  <2>2. held[v] # None /\ proc[held[v]] = "off" => proc'[held[v]] = "off"
    BY DEF ProbeStartFails
  <2>3. Calls(v)
    BY DEF PoolInv, Calls
  <2> QED
    BY <1>1, <1>3, <2>1, <2>3, OthersStay DEF ProbeStartFails, FinishProbe, callers, history
<1>11. JobOK(u)'
  BY <1>1, <1>2 DEF Calls, JobOK, Busy, Moves, ProbeStartFails, FinishProbe
<1>12. RowsOK(u)'
  BY <1>1, <1>2 DEF Calls, RowsOK, Busy, Trial, Moves, ProbeStartFails, FinishProbe
<1>13. CallOK(u)'
  BY <1>1 DEF Calls, CallOK, ProbeStartFails, FinishProbe, callers, history
<1> QED
  BY <1>4, <1>5, <1>6, <1>7, <1>8, <1>9, <1>10, <1>11, <1>12, <1>13 DEF PoolInv, Calls

\* The probe's process can be killed from here on.
LEMMA RegisterStep ==
  ASSUME PoolInv, NEW u \in Caller, Register(u)
  PROVE  PoolInv'
<1> DEFINE x == "probed"
<1>1. /\ TypeOK /\ Hands /\ Ownership /\ NoneLost /\ OneProbe /\ LifeOK /\ Calls(u)
      /\ held[u] \in Proc \cup {None} /\ job[u] \in Job
  BY DEF PoolInv, Calls, TypeOK
<1>2. x \in PCs \ {"asleep"} /\ Moves(u, x)
  BY <1>1, Waking DEF Register, FinishProbe, TypeOK, PCs
<1>3. Stopped => Stopped'
  BY DEF Stopped, Register, switch
<1>4. TypeOK'
  BY <1>1, <1>2 DEF TypeOK, Register, callers, history, health, switch
<1>5. Hands'
  BY <1>1 DEF Hands, Register
<1>6. Ownership'
  BY <1>1 DEF Ownership, InPool, Register
<1>7. NoneLost'
  BY <1>1 DEF NoneLost, Register
<1>8. OneProbe'
  BY <1>1 DEF OneProbe, Trial, Register
<1>9. LifeOK'
  BY <1>1, <1>3 DEF LifeOK, Register
<1>10. ASSUME NEW v \in Caller \ {u} PROVE Calls(v)'
  <2>1. Untouched(v)
    BY DEF Untouched, Register, callers
  <2>2. held[v] # None /\ proc[held[v]] = "off" => proc'[held[v]] = "off"
    BY DEF Register
  <2>3. Calls(v)
    BY DEF PoolInv, Calls
  <2> QED
    BY <1>1, <1>3, <2>1, <2>3, OthersStay DEF Register, callers, history
<1>11. JobOK(u)'
  BY <1>1 DEF Calls, JobOK, Busy, Register
<1>12. RowsOK(u)'
  BY <1>1 DEF Calls, RowsOK, Busy, Trial, Register
<1>13. CallOK(u)'
  BY <1>1 DEF Calls, CallOK, Register, callers, history
<1> QED
  BY <1>4, <1>5, <1>6, <1>7, <1>8, <1>9, <1>10, <1>11, <1>12, <1>13 DEF PoolInv, Calls

\* The probe is over: Kill came first.
LEMMA UnregisteredStep ==
  ASSUME PoolInv, NEW u \in Caller, Unregistered(u)
  PROVE  PoolInv'
<1> DEFINE x == "verdict"
<1>1. /\ TypeOK /\ Hands /\ Ownership /\ NoneLost /\ OneProbe /\ LifeOK /\ Calls(u)
      /\ held[u] \in Proc \cup {None} /\ job[u] \in Job
  BY DEF PoolInv, Calls, TypeOK
<1>2. x \in PCs \ {"asleep"} /\ Moves(u, x)
  BY <1>1, Waking DEF Unregistered, FinishProbe, TypeOK, PCs
<1>3. Stopped => Stopped'
  BY DEF Stopped, Unregistered, FinishProbe
<1>4. TypeOK'
  BY <1>1, <1>2, Limits DEF TypeOK, Moves, Unregistered, FinishProbe, Off, callers, history
<1>5. Hands'
  <2>1. \A v \in Caller \ {u} : held'[v] = held[v]
    BY DEF Unregistered, FinishProbe
  <2>2. held'[u] = None
    BY <1>1 DEF TypeOK, Unregistered, FinishProbe
  <2> QED
    BY <1>1, <1>2, <2>1, <2>2, HandsMove DEF InPool, Swap
<1>6. Ownership'
  BY <1>1, <1>2, Limits
     DEF TypeOK, Hands, Ownership, Moves, InPool, Swap, Unregistered, FinishProbe, Off, callers, history
<1>7. NoneLost'
  BY <1>1 DEF TypeOK, NoneLost, Unregistered, FinishProbe, Off
<1>8. OneProbe'
  BY <1>1, ProbeOver DEF Trial, Unregistered
<1>9. LifeOK'
  BY <1>1, <1>3 DEF LifeOK, Unregistered, FinishProbe
<1>10. ASSUME NEW v \in Caller \ {u} PROVE Calls(v)'
  <2>1. Untouched(v)
    BY <1>1, <1>2 DEF Untouched, Moves, TypeOK, Unregistered, FinishProbe, Off, callers, history
  <2>2. held[v] # None /\ proc[held[v]] = "off" => proc'[held[v]] = "off"
    BY DEF Unregistered, Off
  <2>3. Calls(v)
    BY DEF PoolInv, Calls
  <2> QED
    BY <1>1, <1>3, <2>1, <2>2, <2>3, OthersStay DEF Unregistered, FinishProbe, callers, history
<1>11. JobOK(u)'
  BY <1>1, <1>2 DEF Calls, JobOK, Busy, Moves, Unregistered, FinishProbe
<1>12. RowsOK(u)'
  BY <1>1, <1>2 DEF Calls, RowsOK, Busy, Trial, Moves, Unregistered, FinishProbe
<1>13. CallOK(u)'
  BY <1>1 DEF Calls, CallOK, Unregistered, FinishProbe, callers, history
<1> QED
  BY <1>4, <1>5, <1>6, <1>7, <1>8, <1>9, <1>10, <1>11, <1>12, <1>13 DEF PoolInv, Calls

\* The probe is over: it passed or failed.
LEMMA ProbeEndsStep ==
  ASSUME PoolInv, NEW u \in Caller, ProbeEnds(u)
  PROVE  PoolInv'
<1> DEFINE x == "verdict"
<1>1. /\ TypeOK /\ Hands /\ Ownership /\ NoneLost /\ OneProbe /\ LifeOK /\ Calls(u)
      /\ held[u] \in Proc \cup {None} /\ job[u] \in Job
  BY DEF PoolInv, Calls, TypeOK
<1>2. x \in PCs \ {"asleep"} /\ Moves(u, x)
  BY <1>1, Waking DEF ProbeEnds, FinishProbe, TypeOK, PCs
<1>3. Stopped => Stopped'
  BY DEF Stopped, ProbeEnds, FinishProbe
<1>4. TypeOK'
  <2>1. job' \in [Caller -> Job] /\ result' = result
    BY <1>1 DEF TypeOK, ProbeEnds, FinishProbe, callers
  <2>2. pc' \in [Caller -> PCs]
    BY <1>2 DEF Moves
  <2>3. held' \in [Caller -> Proc \cup {None}] /\ proc' \in [Proc -> {"up", "off"}]
    BY <1>1 DEF TypeOK, ProbeEnds, FinishProbe, Off, callers, history
  <2>4. /\ all' \subseteq Proc /\ free' \subseteq Proc /\ doomed' \subseteq Proc
        /\ probeClient' \in Proc \cup {None} /\ calls' = calls /\ late' = late /\ victim' = victim
    BY <1>1 DEF TypeOK, ProbeEnds, FinishProbe, callers, history
  <2>5. /\ window' \in Seq(Outcomes) /\ recent' \in Seq(Outcomes) /\ next' \in Nat
        /\ crashRun' \in Nat /\ probeFails' \in Nat
    BY <1>1, Limits DEF TypeOK, AfterProbe, ProbeEnds, FinishProbe
  <2>6. /\ life' = life /\ canceled' = canceled /\ killed' = killed /\ probing' \in BOOLEAN
        /\ broken' \in {"no", "restart", "window", "probe"}
    BY <1>1 DEF TypeOK, ProbeEnds, FinishProbe, Off, callers, history
  <2> QED
    BY <1>1, <2>1, <2>2, <2>3, <2>4, <2>5, <2>6 DEF TypeOK
<1>5. Hands'
  BY <1>1, <1>2 DEF TypeOK, Hands, Moves, InPool, Swap, ProbeEnds, FinishProbe
<1>6. Ownership'
  BY <1>1, <1>2 DEF Hands, Ownership, Moves, InPool, ProbeEnds, FinishProbe
<1>7. NoneLost'
  BY <1>1 DEF TypeOK, NoneLost, ProbeEnds, FinishProbe, Off
<1>8. OneProbe'
  BY <1>1, ProbeOver DEF Trial, ProbeEnds
<1>9. LifeOK'
  BY <1>1 DEF LifeOK, Stopped, ProbeEnds, FinishProbe
<1>10. ASSUME NEW v \in Caller \ {u} PROVE Calls(v)'
  <2>1. Untouched(v)
    BY <1>2 DEF Untouched, Moves, ProbeEnds, FinishProbe, callers
  <2>2. held[v] # None /\ proc[held[v]] = "off" => proc'[held[v]] = "off"
    BY DEF ProbeEnds, Off
  <2>3. Calls(v)
    BY DEF PoolInv, Calls
  <2> QED
    BY <1>1, <1>3, <2>1, <2>2, <2>3, OthersStay DEF ProbeEnds, FinishProbe, callers, history
<1>11. JobOK(u)'
  BY <1>1, <1>2 DEF Calls, JobOK, Busy, Moves, ProbeEnds, FinishProbe
<1>12. RowsOK(u)'
  BY <1>1, <1>2 DEF Calls, RowsOK, Busy, Trial, Moves, ProbeEnds, FinishProbe
<1>13. CallOK(u)'
  BY <1>1 DEF Calls, CallOK, ProbeEnds, FinishProbe, callers, history
<1> QED
  BY <1>4, <1>5, <1>6, <1>7, <1>8, <1>9, <1>10, <1>11, <1>12, <1>13 DEF PoolInv, Calls

-----------------------------------------------------------------------------
\* Those that only move the call

\* A call begins with nothing read and nothing sent.
LEMMA BeginStep ==
  ASSUME PoolInv, NEW u \in Caller, NEW k \in Kinds, Begin(u, k)
  PROVE  PoolInv'
<1> DEFINE x == "checkout"
<1>1. /\ TypeOK /\ Hands /\ Ownership /\ NoneLost /\ OneProbe /\ LifeOK /\ Calls(u)
      /\ held[u] \in Proc \cup {None} /\ job[u] \in Job
  BY DEF PoolInv, Calls, TypeOK
<1>2. x \in PCs /\ Moves(u, x)
  BY <1>1 DEF Begin, TypeOK, PCs, Moves
<1>3. Hands' /\ Ownership' /\ NoneLost' /\ OneProbe' /\ LifeOK' /\ (Stopped <=> Stopped')
  BY <1>2, Quiet DEF Begin, InPool, Swap, Trial
<1>3a. k \in {"run", "batch", "check"}
  BY PoolConstants
<1>3b. /\ job' \in [Caller -> Job] /\ job'[u] = NewJob(k)
  BY <1>1, <1>3a, NewJobFacts DEF TypeOK, Begin
<1>4. TypeOK'
  BY <1>1, <1>2, <1>3b DEF TypeOK, Begin, pool, switch, probe, health, world
<1>5. ASSUME NEW v \in Caller \ {u} PROVE Calls(v)'
  <2>1. Untouched(v)
    BY DEF Untouched, Begin
  <2>2. held[v] # None /\ proc[held[v]] = "off" => proc'[held[v]] = "off"
    BY DEF Begin, world
  <2>3. Calls(v)
    BY DEF PoolInv, Calls
  <2> QED
    BY <1>1, <1>3, <2>1, <2>2, <2>3, OthersStay DEF Begin
<1>6. JobOK(u)'
  BY <1>2, <1>3a, <1>3b, NewJobFacts DEF JobOK, Moves
<1>7. RowsOK(u)'
  BY <1>2, <1>3b, NewJobFacts, <1>3a DEF RowsOK, Rows, Trial, Moves
<1>8. CallOK(u)'
  BY <1>1, <1>3 DEF TypeOK, CallOK, Begin
<1> QED
  BY <1>3, <1>4, <1>5, <1>6, <1>7, <1>8 DEF PoolInv, Calls

\* A stopped pool refuses the call.
LEMMA RefuseStep ==
  ASSUME PoolInv, NEW u \in Caller, Refuse(u)
  PROVE  PoolInv'
<1> DEFINE x == "idle"
<1>1. /\ TypeOK /\ Hands /\ Ownership /\ NoneLost /\ OneProbe /\ LifeOK /\ Calls(u)
      /\ held[u] \in Proc \cup {None} /\ job[u] \in Job
  BY DEF PoolInv, Calls, TypeOK
<1>2. x \in PCs /\ Moves(u, x)
  BY <1>1 DEF Refuse, Return, TypeOK, PCs, Moves
<1>3. Hands' /\ Ownership' /\ NoneLost' /\ OneProbe' /\ LifeOK' /\ (Stopped <=> Stopped')
  BY <1>2, Quiet DEF Refuse, InPool, Swap, Trial
<1>3a. NewJob("run") \in Job /\ NewJob("run").kind = "run" /\ NewJob("run").at = 0
  BY NewJobFacts
<1>3b. /\ job' \in [Caller -> Job] /\ job'[u] = NewJob("run")
  BY <1>1, <1>3a DEF TypeOK, Return, Refuse
<1>4. TypeOK'
  BY <1>1, <1>2, <1>3b DEF TypeOK, Refuse, Return, pool, switch, probe, health, history, world
<1>5. ASSUME NEW v \in Caller \ {u} PROVE Calls(v)'
  <2>1. Untouched(v)
    BY DEF Untouched, Refuse, Return
  <2>2. held[v] # None /\ proc[held[v]] = "off" => proc'[held[v]] = "off"
    BY DEF Refuse, world
  <2>3. Calls(v)
    BY DEF PoolInv, Calls
  <2> QED
    BY <1>1, <1>3, <2>1, <2>2, <2>3, OthersStay DEF Refuse, history
<1>6. JobOK(u)'
  BY <1>2, <1>3a, <1>3b DEF JobOK, Busy, Moves
<1>7. RowsOK(u)'
  BY <1>3a, <1>3b DEF RowsOK
<1>8. CallOK(u)'
  BY <1>1, <1>3 DEF TypeOK, CallOK, Refuse, Return
<1> QED
  BY <1>3, <1>4, <1>5, <1>6, <1>7, <1>8 DEF PoolInv, Calls

\* A caller goes to sleep on a pool that has not stopped.
LEMMA SleepStep ==
  ASSUME PoolInv, NEW u \in Caller, Sleep(u)
  PROVE  PoolInv'
<1> DEFINE x == "asleep"
<1>1. /\ TypeOK /\ Hands /\ Ownership /\ NoneLost /\ OneProbe /\ LifeOK /\ Calls(u)
      /\ held[u] \in Proc \cup {None} /\ job[u] \in Job
  BY DEF PoolInv, Calls, TypeOK
<1>2. x \in PCs /\ Moves(u, x)
  BY <1>1 DEF Sleep, TypeOK, PCs, Moves
<1>3. Hands' /\ Ownership' /\ NoneLost' /\ OneProbe' /\ LifeOK' /\ (Stopped <=> Stopped')
  BY <1>1, <1>2, Quiet DEF Sleep, LifeOK, InPool, Swap, Trial
<1>4. TypeOK'
  BY <1>1, <1>2 DEF TypeOK, Sleep, pool, switch, probe, health, callers, history, world
<1>5. ASSUME NEW v \in Caller \ {u} PROVE Calls(v)'
  <2>1. Untouched(v)
    BY DEF Untouched, Sleep, callers
  <2>2. held[v] # None /\ proc[held[v]] = "off" => proc'[held[v]] = "off"
    BY DEF Sleep, world
  <2>3. Calls(v)
    BY DEF PoolInv, Calls
  <2> QED
    BY <1>1, <2>1, <2>2, <2>3, OthersStay DEF Sleep, callers, history
<1>6. JobOK(u)'
  BY <1>1 DEF Calls, JobOK, Sleep
<1>7. RowsOK(u)'
  BY <1>1 DEF Calls, RowsOK, Busy, Trial, Sleep
<1>8. CallOK(u)'
  BY <1>1 DEF Calls, CallOK, Sleep, callers, history
<1> QED
  BY <1>3, <1>4, <1>5, <1>6, <1>7, <1>8 DEF PoolInv, Calls

\* The pipes of the process break.
LEMMA CrashStep ==
  ASSUME PoolInv, NEW u \in Caller, Crash(u)
  PROVE  PoolInv'
<1> DEFINE x == "failed"
<1>1. /\ TypeOK /\ Hands /\ Ownership /\ NoneLost /\ OneProbe /\ LifeOK /\ Calls(u)
      /\ held[u] \in Proc \cup {None} /\ job[u] \in Job
  BY DEF PoolInv, Calls, TypeOK
<1>2. x \in PCs /\ Moves(u, x)
  BY <1>1 DEF Crash, TypeOK, PCs, Moves
<1>3. Hands' /\ Ownership' /\ NoneLost' /\ OneProbe' /\ LifeOK' /\ (Stopped <=> Stopped')
  BY <1>1, <1>2, Quiet DEF Crash, LifeOK, InPool, Swap, Trial
<1>3a. [job[u] EXCEPT !.fail = "crash"] \in Job
  BY <1>1, JobUpdates DEF Outcomes
<1>3b. job' = [job EXCEPT ![u] = [job[u] EXCEPT !.fail = "crash"]]
  BY <1>1 DEF TypeOK, Crash
<1>3c. /\ job' \in [Caller -> Job] /\ job'[u] = [job[u] EXCEPT !.fail = "crash"]
  BY <1>1, <1>3a, <1>3b DEF TypeOK
<1>3d. /\ job'[u].kind = job[u].kind /\ job'[u].at = job[u].at /\ job'[u].answered = job[u].answered
       /\ job'[u].bad = job[u].bad /\ job'[u].inARow = job[u].inARow
  BY <1>1, <1>3c DEF Job
<1>4. TypeOK'
  BY <1>1, <1>2, <1>3c DEF TypeOK, Crash, pool, switch, probe, health, callers, history, world
<1>5. ASSUME NEW v \in Caller \ {u} PROVE Calls(v)'
  <2>1. Untouched(v)
    BY DEF Untouched, Crash, callers
  <2>2. held[v] # None /\ proc[held[v]] = "off" => proc'[held[v]] = "off"
    BY DEF Crash, world
  <2>3. Calls(v)
    BY DEF PoolInv, Calls
  <2> QED
    BY <1>1, <1>3, <2>1, <2>2, <2>3, OthersStay DEF Crash, callers, history
<1>6. JobOK(u)'
  BY <1>1 DEF Calls, JobOK, Busy, Crash
<1>7. RowsOK(u)'
  BY <1>1 DEF Calls, RowsOK, Rows, Busy, Trial, Crash
<1>8. CallOK(u)'
  BY <1>1, <1>3 DEF TypeOK, Calls, CallOK, Crash, callers, history
<1> QED
  BY <1>3, <1>4, <1>5, <1>6, <1>7, <1>8 DEF PoolInv, Calls

\* After a failure: the end, the command once more, or one more file that failed.
LEMMA JudgeStep ==
  ASSUME PoolInv, NEW u \in Caller, Judge(u)
  PROVE  PoolInv'
<1> DEFINE x == IF StopSeen THEN "idle" ELSE IF Resend(job[u]) THEN "checkout"
               ELSE IF job[u].kind = "run" THEN "settle" ELSE "loop"
<1>1. /\ TypeOK /\ Hands /\ Ownership /\ NoneLost /\ OneProbe /\ LifeOK /\ Calls(u)
      /\ held[u] \in Proc \cup {None} /\ job[u] \in Job
  BY DEF PoolInv, Calls, TypeOK
<1>2. x \in PCs /\ Moves(u, x)
  BY <1>1 DEF Judge, Return, TypeOK, PCs, Moves
<1>3. Hands' /\ Ownership' /\ NoneLost' /\ OneProbe' /\ LifeOK' /\ (Stopped <=> Stopped')
  BY <1>1, <1>2, Quiet DEF Judge, LifeOK, InPool, Swap, Trial
<1>3a. pc[u] = "judge" /\ job[u].kind # "check" /\ (job[u].sent = 1 \/ (job[u].sent = 2 /\ job[u].at = 0))
  <2>1. pc[u] = "judge"
    BY DEF Judge
  <2> QED
    BY <1>1, <2>1 DEF Calls, JobOK, Busy
<1>3b. \/ /\ Stopped /\ x = "idle" /\ job' = [job EXCEPT ![u] = NewJob("run")]
          /\ result' = [result EXCEPT ![u] = "stop"]
       \/ /\ ~Stopped /\ Resend(job[u]) /\ x = "checkout"
          /\ job' = [job EXCEPT ![u] = job[u]] /\ result' = result
       \/ /\ ~Stopped /\ ~Resend(job[u]) /\ job[u].kind = "run" /\ x = "settle"
          /\ job' = [job EXCEPT ![u] = job[u]] /\ result' = result
       \/ /\ ~Stopped /\ ~Resend(job[u]) /\ job[u].kind = "batch" /\ x = "loop"
          /\ job' = [job EXCEPT ![u] = Failed(job[u])] /\ result' = result
  BY <1>1, <1>3a DEF Judge, Return, StopSeen, Job
<1>3c. /\ NewJob("run") \in Job /\ NewJob("run").kind = "run" /\ NewJob("run").at = 0
       /\ Failed(job[u]) \in Job
  BY <1>1, NewJobFacts, FailedFacts
<1>3d. /\ job' \in [Caller -> Job] /\ \A v \in Caller \ {u} : job'[v] = job[v]
       /\ result' \in [Caller -> {"none", "reply", "file", "stop", "ctx"}]
       /\ \A v \in Caller \ {u} : result'[v] = result[v]
  BY <1>1, <1>3b, <1>3c DEF TypeOK
<1>4. TypeOK'
  BY <1>1, <1>2, <1>3d DEF TypeOK, Moves, Judge, pool, world, switch, probe, health, history
<1>5. ASSUME NEW v \in Caller \ {u} PROVE Calls(v)'
  <2>1. Untouched(v)
    BY <1>2, <1>3d DEF Untouched, Moves, Judge
  <2>2. held[v] # None /\ proc[held[v]] = "off" => proc'[held[v]] = "off"
    BY DEF Judge, world
  <2>3. Calls(v)
    BY DEF PoolInv, Calls
  <2> QED
    BY <1>1, <1>3, <2>1, <2>2, <2>3, OthersStay DEF Judge, history
<1>6. JobOK(u)'
  BY <1>1, <1>2, <1>3b, <1>3c, FailedFacts DEF TypeOK, Calls, JobOK, Busy, Moves, Resend
<1>7. RowsOK(u)'
  <2> DEFINE j == job[u]
  <2>1. CASE x = "idle" \/ job[u].kind = "run"
    BY <1>1, <1>3b, <1>3c, <2>1 DEF TypeOK, RowsOK
  <2>2. CASE x = "checkout"
    <3>1. job' = job /\ pc[u] \in Busy /\ pc'[u] \in Busy /\ pc'[u] = "checkout"
      BY <1>1, <1>2, <1>3a, <1>3b, <2>2 DEF TypeOK, Moves, Busy
    <3> QED
      BY <1>1, <3>1 DEF Calls, RowsOK, Trial
  <2>3. CASE x = "loop"
    <3>1. job'[u] = Failed(j) /\ j.kind = "batch" /\ pc'[u] = "loop"
      BY <1>1, <1>2, <1>3b, <2>3 DEF TypeOK, Moves
    <3>2. /\ Rows(j, IF j.at = 0 THEN 0 ELSE j.at - 1)
          /\ j.at \in Nat /\ j.inARow \in Nat
      BY <1>1, <1>3a, <3>1 DEF Calls, RowsOK, Busy, Job
    <3>3. Rows(Failed(j), j.at)
      <4>1. CASE j.at = 0
        BY <1>1, <3>2, FailedFacts DEF Rows
      <4>2. CASE j.at > 0
        <5>1. /\ Failed(j).answered = j.answered /\ Failed(j).bad = j.bad \cup {j.at}
              /\ Failed(j).inARow = j.inARow + 1
          BY <1>1, <4>2, FailedFacts
        <5> QED
          BY <3>2, <4>2, <5>1 DEF Rows
      <4> QED
        BY <3>2, <4>1, <4>2
    <3> QED
      BY <1>1, <3>1, <3>3, FailedFacts DEF RowsOK, Busy, Trial
  <2> QED
    BY <2>1, <2>2, <2>3
<1>8. CallOK(u)'
  BY <1>1, <1>2, <1>3, <1>3b DEF TypeOK, Calls, CallOK, Moves, Judge, history
<1> QED
  BY <1>3, <1>4, <1>5, <1>6, <1>7, <1>8 DEF PoolInv, Calls

\* The next file of a batch, its end, or the rest given up.
LEMMA LoopStep ==
  ASSUME PoolInv, NEW u \in Caller, Loop(u)
  PROVE  PoolInv'
<1> DEFINE x == pc'[u]
<1>1. /\ TypeOK /\ Hands /\ Ownership /\ NoneLost /\ OneProbe /\ LifeOK /\ Calls(u)
      /\ held[u] \in Proc \cup {None} /\ job[u] \in Job
  BY DEF PoolInv, Calls, TypeOK
<1>2. x \in PCs /\ Moves(u, x)
  BY <1>1 DEF Loop, Return, TypeOK, PCs, Moves
<1>3. Hands' /\ Ownership' /\ NoneLost' /\ OneProbe' /\ LifeOK' /\ (Stopped <=> Stopped')
  <2>1. x \in {"idle", "settle", "checkout"} /\ pc[u] = "loop" /\ life = "open"
    BY <1>1 DEF Loop, Return, TypeOK, LifeOK
  <2>2. UNCHANGED <<pool, world, held>>
    BY DEF Loop
  <2> QED
    BY <1>2, <2>1, <2>2, Quiet DEF InPool, Swap, Trial
<1>3a. pc[u] = "loop" /\ job[u].kind = "batch" /\ Rows(job[u], job[u].at)
       /\ job[u].at \in 0 .. Batch /\ job[u].inARow \in Nat
  <2>1. pc[u] = "loop"
    BY DEF Loop
  <2>2. job[u].kind = "batch"
    BY <1>1, <2>1 DEF Calls, JobOK
  <2>3. Rows(job[u], job[u].at)
    BY <1>1, <2>1, <2>2 DEF Calls, RowsOK
  <2> QED
    BY <1>1, <2>1, <2>2, <2>3 DEF Job
<1>3b. \/ x = "settle" /\ job[u].at = Batch /\ job' = job /\ result' = result
       \/ /\ x = "idle" /\ job' = [job EXCEPT ![u] = NewJob("run")]
          /\ result' = [result EXCEPT ![u] = "ctx"]
       \/ /\ x = "settle" /\ job[u].at < Batch /\ job[u].inARow >= MaxCrashRun /\ result' = result
          /\ job' = [job EXCEPT ![u] = [job[u] EXCEPT !.bad = @ \cup (job[u].at + 1 .. Batch)]]
       \/ /\ x = "checkout" /\ job[u].at < Batch /\ result' = result
          /\ job' = [job EXCEPT ![u] = [job[u] EXCEPT !.at = job[u].at + 1, !.sent = 0]]
  BY <1>1 DEF Loop, Return, GiveUp, TypeOK, Moves
<1>3c. /\ NewJob("run") \in Job /\ NewJob("run").kind = "run" /\ NewJob("run").at = 0
       /\ [job[u] EXCEPT !.bad = @ \cup (job[u].at + 1 .. Batch)] \in Job
       /\ job[u].at < Batch => [job[u] EXCEPT !.at = job[u].at + 1, !.sent = 0] \in Job
  <2>1. \A j \in Job : [j EXCEPT !.bad = @ \cup (j.at + 1 .. Batch)] \in Job
    BY Limits DEF Job
  <2>2. ASSUME job[u].at < Batch
        PROVE  [job[u] EXCEPT !.at = job[u].at + 1, !.sent = 0] \in Job
    <3>1. job[u].at + 1 \in 0 .. Batch
      BY <1>3a, <2>2, Limits
    <3> QED
      BY <1>1, <3>1, NextFile
  <2> QED
    BY <1>1, <2>1, <2>2, NewJobFacts
<1>3d. /\ job' \in [Caller -> Job] /\ \A v \in Caller \ {u} : job'[v] = job[v]
       /\ result' \in [Caller -> {"none", "reply", "file", "stop", "ctx"}]
       /\ \A v \in Caller \ {u} : result'[v] = result[v]
  BY <1>1, <1>3b, <1>3c DEF TypeOK
<1>4. TypeOK'
  BY <1>1, <1>2, <1>3d DEF TypeOK, Moves, Loop, pool, world, switch, probe, health, history
<1>5. ASSUME NEW v \in Caller \ {u} PROVE Calls(v)'
  <2>1. Untouched(v)
    BY <1>2, <1>3d DEF Untouched, Moves, Loop
  <2>2. held[v] # None /\ proc[held[v]] = "off" => proc'[held[v]] = "off"
    BY DEF Loop, world
  <2>3. Calls(v)
    BY DEF PoolInv, Calls
  <2> QED
    BY <1>1, <1>3, <2>1, <2>2, <2>3, OthersStay DEF Loop, history
<1>6. JobOK(u)'
  <2> DEFINE j == job[u]
  <2>1. pc'[u] = x
    BY <1>2 DEF Moves
  <2>2. CASE x = "idle"
    BY <1>1, <1>3b, <1>3c, <2>2 DEF TypeOK, JobOK, Busy
  <2>3. CASE x = "settle"
    <3>1. [j EXCEPT !.bad = @ \cup (j.at + 1 .. Batch)].kind = j.kind
      BY <1>1 DEF Job
    <3>2. job'[u].kind = "batch"
      BY <1>1, <1>3a, <1>3b, <2>3, <3>1 DEF TypeOK
    <3> QED
      BY <2>3, <3>2 DEF JobOK, Busy
  <2>4. CASE x = "checkout"
    <3>1. /\ [j EXCEPT !.at = j.at + 1, !.sent = 0].kind = j.kind
          /\ [j EXCEPT !.at = j.at + 1, !.sent = 0].sent = 0
      BY <1>1 DEF Job
    <3>2. job'[u].kind = "batch" /\ job'[u].sent = 0
      BY <1>1, <1>3a, <1>3b, <2>4, <3>1 DEF TypeOK
    <3> QED
      BY <2>4, <3>2 DEF JobOK
  <2> QED
    BY <1>3b, <2>2, <2>3, <2>4
<1>7. RowsOK(u)'
  <2> DEFINE j == job[u]
  <2>1. CASE x = "idle"
    BY <1>1, <1>3b, <1>3c, <2>1 DEF TypeOK, RowsOK
  <2>2. CASE x = "settle" /\ j.at = Batch /\ job' = job
    BY <1>3a, <2>2 DEF RowsOK, Rows, Complete, Busy
  <2>3. CASE /\ x = "settle" /\ j.at < Batch /\ j.inARow >= MaxCrashRun
             /\ job'[u] = [j EXCEPT !.bad = @ \cup (j.at + 1 .. Batch)]
    <3>1. /\ job'[u].answered = j.answered /\ job'[u].bad = j.bad \cup (j.at + 1 .. Batch)
          /\ job'[u].at = j.at /\ j.at \in Nat
      BY <1>1, <2>3 DEF Job
    <3>2. Complete(job'[u])
      BY <1>3a, <2>3, <3>1, Limits DEF Complete, Rows
    <3> QED
      BY <2>3, <3>2 DEF RowsOK, Busy
  <2>4. CASE /\ x = "checkout" /\ j.at < Batch
             /\ job'[u] = [j EXCEPT !.at = j.at + 1, !.sent = 0]
    <3>1. /\ job'[u].answered = j.answered /\ job'[u].bad = j.bad /\ job'[u].inARow = j.inARow
          /\ job'[u].at = j.at + 1 /\ j.at \in Nat
      BY <1>1, <2>4 DEF Job
    <3>2. Rows(job'[u], job'[u].at - 1)
      BY <1>3a, <3>1 DEF Rows
    <3> QED
      BY <2>4, <3>1, <3>2 DEF RowsOK, Trial
  <2> QED
    BY <1>1, <1>3b, <2>1, <2>2, <2>3, <2>4 DEF TypeOK
<1>8. CallOK(u)'
  BY <1>1, <1>3b DEF Calls, CallOK, Loop, history
<1> QED
  BY <1>3, <1>4, <1>5, <1>6, <1>7, <1>8 DEF PoolInv, Calls

\* The call returns.
LEMMA VerdictStep ==
  ASSUME PoolInv, NEW u \in Caller, Verdict(u)
  PROVE  PoolInv'
<1> DEFINE x == "idle"
<1>1. /\ TypeOK /\ Hands /\ Ownership /\ NoneLost /\ OneProbe /\ LifeOK /\ Calls(u)
      /\ held[u] \in Proc \cup {None} /\ job[u] \in Job
  BY DEF PoolInv, Calls, TypeOK
<1>2. x \in PCs /\ Moves(u, x)
  BY <1>1 DEF Verdict, Return, TypeOK, PCs, Moves
<1>3. Hands' /\ Ownership' /\ NoneLost' /\ OneProbe' /\ LifeOK' /\ (Stopped <=> Stopped')
  BY <1>2, Quiet DEF Verdict, InPool, Swap, Trial
<1>3a. NewJob("run") \in Job /\ NewJob("run").kind = "run" /\ NewJob("run").at = 0
  BY NewJobFacts
<1>3b. /\ job' \in [Caller -> Job] /\ job'[u] = NewJob("run")
  BY <1>1, <1>3a DEF TypeOK, Return, Verdict
<1>3c. Answer(job[u]) \in {"reply", "file", "stop"}
  BY DEF Answer
<1>4. TypeOK'
  BY <1>1, <1>2, <1>3b, <1>3c
     DEF TypeOK, Verdict, Return, pool, switch, probe, health, history, world
<1>5. ASSUME NEW v \in Caller \ {u} PROVE Calls(v)'
  <2>1. Untouched(v)
    BY DEF Untouched, Verdict, Return
  <2>2. held[v] # None /\ proc[held[v]] = "off" => proc'[held[v]] = "off"
    BY DEF Verdict, world
  <2>3. Calls(v)
    BY DEF PoolInv, Calls
  <2> QED
    BY <1>1, <1>3, <2>1, <2>2, <2>3, OthersStay DEF Verdict, history
<1>6. JobOK(u)'
  BY <1>2, <1>3a, <1>3b DEF JobOK, Busy, Moves
<1>7. RowsOK(u)'
  BY <1>3a, <1>3b DEF RowsOK
<1>8. CallOK(u)'
  BY <1>1, <1>2 DEF Calls, CallOK, Moves, Verdict, history
<1> QED
  BY <1>3, <1>4, <1>5, <1>6, <1>7, <1>8 DEF PoolInv, Calls

-----------------------------------------------------------------------------
\* What the pool does by itself

\* A process joins the pool before anybody calls it.
LEMMA StartOneStep ==
  ASSUME PoolInv, StartOne
  PROVE  PoolInv'
<1>1. TypeOK /\ Hands /\ Ownership /\ NoneLost /\ OneProbe /\ LifeOK
  BY DEF PoolInv
<1>2. /\ pc' \in [Caller -> PCs]
      /\ \A v \in Caller : pc'[v] = pc[v] \/ (pc[v] = "asleep" /\ pc'[v] = "checkout")
  BY <1>1 DEF StartOne, TypeOK
<1>3. Stopped => Stopped'
  BY DEF Stopped, StartOne, switch
<1>4. TypeOK'
  BY <1>1 DEF TypeOK, StartOne, Fresh, callers, history, probe, health, switch
<1>5. Hands'
  BY <1>1 DEF Hands, StartOne
<1>6. Ownership'
  BY <1>1 DEF Hands, Ownership, LifeOK, InPool, Swap, StartOne
<1>7. NoneLost'
  BY <1>1 DEF NoneLost, StartOne
<1>8. OneProbe'
  BY <1>1, <1>3 DEF OneProbe, StartOne, probe, health
<1>9. LifeOK'
  BY <1>1 DEF LifeOK, Stopped, StartOne, switch
<1>10. ASSUME NEW v \in Caller PROVE Calls(v)'
  <2>1. Untouched(v)
    BY DEF Untouched, StartOne, callers
  <2>2. held[v] # None /\ proc[held[v]] = "off" => proc'[held[v]] = "off"
    BY DEF StartOne, Fresh
  <2>3. Calls(v)
    BY DEF PoolInv, Calls
  <2> QED
    BY <1>1, <1>3, <2>1, <2>2, <2>3, OthersStay DEF StartOne, callers, history
<1> QED
  BY <1>4, <1>5, <1>6, <1>7, <1>8, <1>9, <1>10 DEF PoolInv, Calls

\* Callers may begin.
LEMMA OpenStep ==
  ASSUME PoolInv, Open
  PROVE  PoolInv'
<1>1. TypeOK /\ Hands /\ Ownership /\ NoneLost /\ OneProbe /\ LifeOK
  BY DEF PoolInv
<1>2. /\ pc' \in [Caller -> PCs]
      /\ \A v \in Caller : pc'[v] = pc[v] \/ (pc[v] = "asleep" /\ pc'[v] = "checkout")
  BY <1>1 DEF Open, TypeOK
<1>3. Stopped => Stopped'
  BY DEF Stopped, Open, switch
<1>4. TypeOK'
  BY <1>1 DEF TypeOK, Open, callers, history, probe, health, switch
<1>5. Hands'
  BY <1>1 DEF Hands, Open
<1>6. Ownership'
  BY <1>1 DEF Ownership, Open
<1>7. NoneLost'
  BY <1>1 DEF NoneLost, Open
<1>8. OneProbe'
  BY <1>1, <1>3 DEF OneProbe, Open, probe, health
<1>9. LifeOK'
  BY <1>1 DEF LifeOK, Open
<1>10. ASSUME NEW v \in Caller PROVE Calls(v)'
  <2>1. Untouched(v)
    BY DEF Untouched, Open, callers
  <2>2. held[v] # None /\ proc[held[v]] = "off" => proc'[held[v]] = "off"
    BY DEF Open
  <2>3. Calls(v)
    BY DEF PoolInv, Calls
  <2> QED
    BY <1>1, <1>3, <2>1, <2>3, OthersStay DEF Open, callers, history
<1> QED
  BY <1>4, <1>5, <1>6, <1>7, <1>8, <1>9, <1>10 DEF PoolInv, Calls

\* NewPool kills what it started; nobody has called yet.
LEMMA StartFailsStep ==
  ASSUME PoolInv, StartFails
  PROVE  PoolInv'
<1>1. TypeOK /\ Hands /\ Ownership /\ NoneLost /\ OneProbe /\ LifeOK
  BY DEF PoolInv
<1>2. /\ pc' \in [Caller -> PCs]
      /\ \A v \in Caller : pc'[v] = pc[v] \/ (pc[v] = "asleep" /\ pc'[v] = "checkout")
  BY <1>1 DEF StartFails, TypeOK
<1>3. Stopped => Stopped'
  BY DEF Stopped, StartFails
<1>4. TypeOK'
  BY <1>1 DEF TypeOK, StartFails, KillAll, callers, history, probe, health
<1>5. Hands'
  BY <1>1 DEF Hands, StartFails
<1>6. Ownership'
  BY <1>1 DEF Ownership, StartFails
<1>7. NoneLost'
  <2>1. \A u \in Caller : held[u] = None
    BY <1>1 DEF Hands, LifeOK, InPool, Swap, StartFails
  <2>2. ASSUME NEW p \in Proc, proc'[p] = "up"
        PROVE  p \in doomed'
    <3>1. proc[p] = "up" /\ (p \notin all \/ p \in doomed)
      BY <2>2 DEF StartFails, KillAll
    <3> QED
      BY <1>1, <2>1, <3>1, Limits DEF NoneLost, StartFails
  <2> QED
    BY <2>2 DEF NoneLost
<1>8. OneProbe'
  BY <1>1, <1>3 DEF OneProbe, StartFails, probe, health
<1>9. LifeOK'
  BY <1>1 DEF LifeOK, StartFails
<1>10. ASSUME NEW v \in Caller PROVE Calls(v)'
  <2>1. Untouched(v)
    BY DEF Untouched, StartFails, callers
  <2>2. held[v] # None /\ proc[held[v]] = "off" => proc'[held[v]] = "off"
    BY <1>1 DEF TypeOK, StartFails, KillAll
  <2>3. Calls(v)
    BY DEF PoolInv, Calls
  <2> QED
    BY <1>1, <1>3, <2>1, <2>2, <2>3, OthersStay DEF StartFails, callers, history
<1> QED
  BY <1>4, <1>5, <1>6, <1>7, <1>8, <1>9, <1>10 DEF PoolInv, Calls

\* Nobody has a process in hand.
LEMMA CloseStep ==
  ASSUME PoolInv, Close
  PROVE  PoolInv'
<1>1. TypeOK /\ Hands /\ Ownership /\ NoneLost /\ OneProbe /\ LifeOK
  BY DEF PoolInv
<1>2. /\ pc' \in [Caller -> PCs]
      /\ \A v \in Caller : pc'[v] = pc[v] \/ (pc[v] = "asleep" /\ pc'[v] = "checkout")
  BY <1>1 DEF Close, TypeOK
<1>3. Stopped => Stopped'
  BY DEF Stopped, Close, switch
<1>4. TypeOK'
  BY <1>1 DEF TypeOK, Close, callers, history, probe, health, switch
<1>5. Hands'
  BY <1>1 DEF Hands, Close
<1>6. Ownership'
  BY <1>1 DEF Ownership, InPool, Close
<1>7. NoneLost'
  <2>1. \A u \in Caller : held[u] = None
    BY <1>1 DEF Hands, InPool, Swap, Close
  <2>2. ASSUME NEW p \in Proc, proc'[p] = "up"
        PROVE  p \in doomed'
    <3>1. proc[p] = "up" /\ (p \notin all \/ p \in doomed)
      BY <2>2 DEF Close
    <3> QED
      BY <1>1, <2>1, <3>1, Limits DEF NoneLost, Close
  <2> QED
    BY <2>2 DEF NoneLost
<1>8. OneProbe'
  BY <1>1, <1>3 DEF OneProbe, Close, probe, health
<1>9. LifeOK'
  BY <1>1, <1>3 DEF LifeOK, Close
<1>10. ASSUME NEW v \in Caller PROVE Calls(v)'
  <2>1. Untouched(v)
    BY DEF Untouched, Close, callers
  <2>2. held[v] # None /\ proc[held[v]] = "off" => proc'[held[v]] = "off"
    BY <1>1 DEF TypeOK, Close
  <2>3. Calls(v)
    BY DEF PoolInv, Calls
  <2> QED
    BY <1>1, <1>3, <2>1, <2>2, <2>3, OthersStay DEF Close, callers, history
<1> QED
  BY <1>4, <1>5, <1>6, <1>7, <1>8, <1>9, <1>10 DEF PoolInv, Calls

\* The pool stops, and every sleeper wakes up.
LEMMA KillStep ==
  ASSUME PoolInv, Kill
  PROVE  PoolInv'
<1>1. TypeOK /\ Hands /\ Ownership /\ NoneLost /\ OneProbe /\ LifeOK
  BY DEF PoolInv
<1>2. /\ pc' \in [Caller -> PCs]
      /\ \A v \in Caller : pc'[v] = pc[v] \/ (pc[v] = "asleep" /\ pc'[v] = "checkout")
  BY <1>1 DEF Kill, Broadcast, TypeOK, PCs
<1>3. Stopped => Stopped'
  BY DEF Stopped, Kill
<1>4. TypeOK'
  BY <1>1, <1>2 DEF TypeOK, Kill, callers, history, probe, health
<1>5. Hands'
  BY <1>1, <1>2 DEF Hands, InPool, Swap, Kill
<1>6. Ownership'
  BY <1>1, <1>2 DEF Ownership, InPool, Swap, Kill
<1>7. NoneLost'
  BY <1>1 DEF NoneLost, Kill
<1>8. OneProbe'
  BY <1>1, <1>2, <1>3 DEF OneProbe, Trial, Kill, probe, health
<1>9. LifeOK'
  BY DEF LifeOK, Stopped, Kill
<1>10. ASSUME NEW v \in Caller PROVE Calls(v)'
  <2>1. Untouched(v)
    BY <1>2 DEF Untouched, Kill, callers
  <2>2. held[v] # None /\ proc[held[v]] = "off" => proc'[held[v]] = "off"
    BY DEF Kill
  <2>3. Calls(v)
    BY DEF PoolInv, Calls
  <2> QED
    BY <1>1, <1>3, <2>1, <2>3, OthersStay DEF Kill, callers, history
<1> QED
  BY <1>4, <1>5, <1>6, <1>7, <1>8, <1>9, <1>10 DEF PoolInv, Calls

\* The first Ctrl+C changes nothing of the pool.
LEMMA CancelStep ==
  ASSUME PoolInv, Cancel
  PROVE  PoolInv'
<1>1. TypeOK /\ Hands /\ Ownership /\ NoneLost /\ OneProbe /\ LifeOK
  BY DEF PoolInv
<1>2. /\ pc' \in [Caller -> PCs]
      /\ \A v \in Caller : pc'[v] = pc[v] \/ (pc[v] = "asleep" /\ pc'[v] = "checkout")
  BY <1>1 DEF Cancel, TypeOK
<1>3. Stopped => Stopped'
  BY DEF Stopped, Cancel, pool, switch
<1>4. TypeOK'
  BY <1>1 DEF TypeOK, Cancel, pool, switch, probe, health, callers, history
<1>5. Hands'
  BY <1>1 DEF Hands, Cancel
<1>6. Ownership'
  BY <1>1 DEF Ownership, Cancel, pool
<1>7. NoneLost'
  BY <1>1 DEF NoneLost, Cancel, pool
<1>8. OneProbe'
  BY <1>1, <1>3 DEF OneProbe, Cancel, pool, probe, health
<1>9. LifeOK'
  BY <1>1, <1>3 DEF LifeOK, Cancel, pool
<1>10. ASSUME NEW v \in Caller PROVE Calls(v)'
  <2>1. Untouched(v)
    BY DEF Untouched, Cancel, callers
  <2>2. held[v] # None /\ proc[held[v]] = "off" => proc'[held[v]] = "off"
    BY DEF Cancel
  <2>3. Calls(v)
    BY DEF PoolInv, Calls
  <2> QED
    BY <1>1, <1>3, <2>1, <2>3, OthersStay DEF Cancel, callers, history
<1> QED
  BY <1>4, <1>5, <1>6, <1>7, <1>8, <1>9, <1>10 DEF PoolInv, Calls

\* A process that is to be killed ends; its caller fails, on a stopped pool.
LEMMA ReapStep ==
  ASSUME PoolInv, NEW p \in Proc, Reap(p)
  PROVE  PoolInv'
<1>1. TypeOK /\ Hands /\ Ownership /\ NoneLost /\ OneProbe /\ LifeOK
  BY DEF PoolInv
<1>2. Stopped /\ Stopped'
  BY <1>1 DEF LifeOK, Stopped, Reap, pool, switch
<1>3. TypeOK'
  BY <1>1 DEF TypeOK, Reap, Off, pool, switch, probe, health
<1>4. Hands' /\ Ownership' /\ OneProbe' /\ LifeOK'
  BY <1>1, <1>2 DEF Hands, Ownership, OneProbe, LifeOK, Reap, pool, probe
<1>5. NoneLost'
  BY <1>1 DEF TypeOK, NoneLost, Reap, Off, pool
<1>6. ASSUME NEW v \in Caller PROVE Calls(v)'
  <2>1. Calls(v)
    BY DEF PoolInv, Calls
  <2>2. pc' = pc /\ job' = job /\ result' = result /\ held' = held /\ late' = late
    BY DEF Reap
  <2>3. v \in victim' => v \in victim \/ (pc[v] = "sent" /\ held[v] = p)
    BY DEF Reap
  <2>4. proc' = Off(p) /\ held[v] \in Proc \cup {None}
    BY <1>1 DEF TypeOK, Reap
  <2>5. pc[v] = "sent" => held[v] \in Proc
    BY <1>1, <2>4 DEF Hands, InPool
  <2>6. CallOK(v)'
    BY <1>1, <1>2, <2>1, <2>2, <2>3, <2>4 DEF Calls, CallOK, Off, TypeOK
  <2> QED
    BY <2>1, <2>2, <2>6 DEF Calls, JobOK, RowsOK
<1> QED
  BY <1>3, <1>4, <1>5, <1>6 DEF PoolInv, Calls

-----------------------------------------------------------------------------
\* Where a call ends

\* A step inside of the calls: it begins and ends none.
Inner ==
  /\ UNCHANGED <<result, late>>
  /\ Stopped => Stopped'
  /\ \A v \in Caller : pc'[v] = "idle" <=> pc[v] = "idle"
  /\ \A v \in Caller : pc'[v] = "sent" => pc[v] = "sent" \/ Send(v)

\* Caller u returns from its call, as the pool's state allows.
Returned(u) ==
  \E r \in {"reply", "file", "stop", "ctx"} :
    /\ pc[u] # "idle" /\ Return(u, r) /\ UNCHANGED <<late, switch>>
    /\ r = "stop" => Stopped
    /\ r \in {"reply", "file"} => pc[u] = "verdict"
    /\ r = "file" => ~Stopped

\* A caller that moves within its call is the only one that does.
LEMMA Within ==
  ASSUME TypeOK, NEW u \in Caller, NEW x \in PCs, Moves(u, x), x # "idle", pc[u] # "idle",
         x = "sent" => Send(u), UNCHANGED <<result, late>>, Stopped => Stopped'
  PROVE  Inner
BY DEF Inner, Moves

\* Each step of a caller is of one of these two kinds.
LEMMA StepKinds ==
  ASSUME PoolInv, NEW u \in Caller, Step(u)
  PROVE  Inner \/ Returned(u)
<1>1. TypeOK /\ pc[u] \in PCs
  BY DEF PoolInv, TypeOK
<1>2. CASE Sleep(u)
  <2> DEFINE x == "asleep"
  <2>1. x \in PCs /\ x # "idle" /\ Moves(u, x) /\ pc[u] # "idle"
    BY <1>1, <1>2 DEF Sleep, Moves, TypeOK, PCs
  <2>2. UNCHANGED <<result, late>> /\ (Stopped => Stopped') /\ (x = "sent" => Send(u))
    BY <1>2 DEF Sleep, callers, history
  <2> QED
    BY <1>1, <2>1, <2>2, Within
<1>3. CASE Send(u)
  <2> DEFINE x == "sent"
  <2>1. x \in PCs /\ x # "idle" /\ Moves(u, x) /\ pc[u] # "idle"
    BY <1>1, <1>3, Waking DEF Send, TypeOK, PCs
  <2>2. UNCHANGED <<result, late>> /\ (Stopped => Stopped') /\ (x = "sent" => Send(u))
    BY <1>3 DEF Stopped, Send, callers, history, probe, health, switch
  <2> QED
    BY <1>1, <2>1, <2>2, Within
<1>4. CASE Check(u)
  <2> DEFINE x == "probe"
  <2>1. x \in PCs /\ x # "idle" /\ Moves(u, x) /\ pc[u] # "idle"
    BY <1>1, <1>4, Waking DEF Check, TypeOK, PCs
  <2>2. UNCHANGED <<result, late>> /\ (Stopped => Stopped') /\ (x = "sent" => Send(u))
    BY <1>4 DEF Check, callers, history
  <2> QED
    BY <1>1, <2>1, <2>2, Within
<1>5. CASE Reply(u)
  <2> DEFINE x == IF job[u].at > 0 THEN "loop" ELSE "settle"
  <2>1. x \in PCs /\ x # "idle" /\ Moves(u, x) /\ pc[u] # "idle"
    BY <1>1, <1>5, Waking DEF Reply, TypeOK, PCs
  <2>2. UNCHANGED <<result, late>> /\ (Stopped => Stopped') /\ (x = "sent" => Send(u))
    BY <1>5 DEF Stopped, Reply, callers, history, switch
  <2> QED
    BY <1>1, <2>1, <2>2, Within
<1>6. CASE Crash(u)
  <2> DEFINE x == "failed"
  <2>1. x \in PCs /\ x # "idle" /\ Moves(u, x) /\ pc[u] # "idle"
    BY <1>1, <1>6, Waking DEF Crash, TypeOK, PCs
  <2>2. UNCHANGED <<result, late>> /\ (Stopped => Stopped') /\ (x = "sent" => Send(u))
    BY <1>6 DEF Stopped, Crash, pool, switch, callers, history
  <2> QED
    BY <1>1, <2>1, <2>2, Within
<1>7. CASE Timeout(u)
  <2> DEFINE x == "failed"
  <2>1. x \in PCs /\ x # "idle" /\ Moves(u, x) /\ pc[u] # "idle"
    BY <1>1, <1>7, Waking DEF Timeout, TypeOK, PCs
  <2>2. UNCHANGED <<result, late>> /\ (Stopped => Stopped') /\ (x = "sent" => Send(u))
    BY <1>7 DEF Stopped, Timeout, pool, switch, callers, history
  <2> QED
    BY <1>1, <2>1, <2>2, Within
<1>8. CASE Retire(u)
  <2> DEFINE x == IF Stopped THEN "judge" ELSE "restart"
  <2>1. x \in PCs /\ x # "idle" /\ Moves(u, x) /\ pc[u] # "idle"
    BY <1>1, <1>8, Waking DEF Retire, TypeOK, PCs
  <2>2. UNCHANGED <<result, late>> /\ (Stopped => Stopped') /\ (x = "sent" => Send(u))
    BY <1>8 DEF Stopped, Retire, callers, history, switch
  <2> QED
    BY <1>1, <2>1, <2>2, Within
<1>9. CASE Restart(u)
  <2> DEFINE x == "adopt"
  <2>1. x \in PCs /\ x # "idle" /\ Moves(u, x) /\ pc[u] # "idle"
    BY <1>1, <1>9, Waking DEF Restart, TypeOK, PCs
  <2>2. UNCHANGED <<result, late>> /\ (Stopped => Stopped') /\ (x = "sent" => Send(u))
    BY <1>9 DEF Stopped, Restart, pool, switch, callers, history
  <2> QED
    BY <1>1, <2>1, <2>2, Within
<1>10. CASE RestartFails(u)
  <2> DEFINE x == "judge"
  <2>1. x \in PCs /\ x # "idle" /\ Moves(u, x) /\ pc[u] # "idle"
    BY <1>1, <1>10, Waking DEF RestartFails, TypeOK, PCs
  <2>2. UNCHANGED <<result, late>> /\ (Stopped => Stopped') /\ (x = "sent" => Send(u))
    BY <1>10 DEF Stopped, RestartFails, Break, callers, history
  <2> QED
    BY <1>1, <2>1, <2>2, Within
<1>11. CASE Adopt(u)
  <2> DEFINE x == "judge"
  <2>1. x \in PCs /\ x # "idle" /\ Moves(u, x) /\ pc[u] # "idle"
    BY <1>1, <1>11, Waking DEF Adopt, TypeOK, PCs
  <2>2. UNCHANGED <<result, late>> /\ (Stopped => Stopped') /\ (x = "sent" => Send(u))
    BY <1>11 DEF Stopped, Adopt, callers, history, switch
  <2> QED
    BY <1>1, <2>1, <2>2, Within
<1>12. CASE SettleStops(u)
  <2> DEFINE x == "verdict"
  <2>1. x \in PCs /\ x # "idle" /\ Moves(u, x) /\ pc[u] # "idle"
    BY <1>1, <1>12, Waking DEF SettleStops, TypeOK, PCs
  <2>2. UNCHANGED <<result, late>> /\ (Stopped => Stopped') /\ (x = "sent" => Send(u))
    BY <1>12 DEF SettleStops, callers, history
  <2> QED
    BY <1>1, <2>1, <2>2, Within
<1>13. CASE SettleAsks(u)
  <2> DEFINE x == "probe"
  <2>1. x \in PCs /\ x # "idle" /\ Moves(u, x) /\ pc[u] # "idle"
    BY <1>1, <1>13, Waking DEF SettleAsks, TypeOK, PCs
  <2>2. UNCHANGED <<result, late>> /\ (Stopped => Stopped') /\ (x = "sent" => Send(u))
    BY <1>13 DEF SettleAsks, callers, history
  <2> QED
    BY <1>1, <2>1, <2>2, Within
<1>14. CASE SettleCounts(u)
  <2> DEFINE x == IF Due(Outcome(job[u])) THEN "probe" ELSE "verdict"
  <2>1. x \in PCs /\ x # "idle" /\ Moves(u, x) /\ pc[u] # "idle"
    BY <1>1, <1>14, Waking DEF SettleCounts, TypeOK, PCs
  <2>2. UNCHANGED <<result, late>> /\ (Stopped => Stopped') /\ (x = "sent" => Send(u))
    BY <1>14 DEF Stopped, SettleCounts, callers, history, switch
  <2> QED
    BY <1>1, <2>1, <2>2, Within
<1>15. CASE ProbeStart(u)
  <2> DEFINE x == "register"
  <2>1. x \in PCs /\ x # "idle" /\ Moves(u, x) /\ pc[u] # "idle"
    BY <1>1, <1>15, Waking DEF ProbeStart, TypeOK, PCs
  <2>2. UNCHANGED <<result, late>> /\ (Stopped => Stopped') /\ (x = "sent" => Send(u))
    BY <1>15 DEF Stopped, ProbeStart, pool, switch, callers, history
  <2> QED
    BY <1>1, <2>1, <2>2, Within
<1>16. CASE ProbeStartFails(u)
  <2> DEFINE x == "verdict"
  <2>1. x \in PCs /\ x # "idle" /\ Moves(u, x) /\ pc[u] # "idle"
    BY <1>1, <1>16, Waking DEF ProbeStartFails, FinishProbe, TypeOK, PCs
  <2>2. UNCHANGED <<result, late>> /\ (Stopped => Stopped') /\ (x = "sent" => Send(u))
    BY <1>16 DEF Stopped, ProbeStartFails, FinishProbe, callers, history
  <2> QED
    BY <1>1, <2>1, <2>2, Within
<1>17. CASE Register(u)
  <2> DEFINE x == "probed"
  <2>1. x \in PCs /\ x # "idle" /\ Moves(u, x) /\ pc[u] # "idle"
    BY <1>1, <1>17, Waking DEF Register, TypeOK, PCs
  <2>2. UNCHANGED <<result, late>> /\ (Stopped => Stopped') /\ (x = "sent" => Send(u))
    BY <1>17 DEF Stopped, Register, callers, history, switch
  <2> QED
    BY <1>1, <2>1, <2>2, Within
<1>18. CASE Unregistered(u)
  <2> DEFINE x == "verdict"
  <2>1. x \in PCs /\ x # "idle" /\ Moves(u, x) /\ pc[u] # "idle"
    BY <1>1, <1>18, Waking DEF Unregistered, FinishProbe, TypeOK, PCs
  <2>2. UNCHANGED <<result, late>> /\ (Stopped => Stopped') /\ (x = "sent" => Send(u))
    BY <1>18 DEF Stopped, Unregistered, FinishProbe, callers, history
  <2> QED
    BY <1>1, <2>1, <2>2, Within
<1>19. CASE ProbeEnds(u)
  <2> DEFINE x == "verdict"
  <2>1. x \in PCs /\ x # "idle" /\ Moves(u, x) /\ pc[u] # "idle"
    BY <1>1, <1>19, Waking DEF ProbeEnds, FinishProbe, TypeOK, PCs
  <2>2. UNCHANGED <<result, late>> /\ (Stopped => Stopped') /\ (x = "sent" => Send(u))
    BY <1>19 DEF Stopped, ProbeEnds, FinishProbe, callers, history
  <2> QED
    BY <1>1, <2>1, <2>2, Within
<1>20. CASE Judge(u)
  <2>1. CASE Stopped
    BY <1>20, <2>1 DEF Judge, StopSeen, Returned, pool, history
  <2>2. CASE ~Stopped
    <3> DEFINE x == IF Resend(job[u]) THEN "checkout"
                    ELSE IF job[u].kind = "run" THEN "settle" ELSE "loop"
    <3>1. x \in PCs /\ x \notin {"idle", "sent"} /\ Moves(u, x) /\ pc[u] # "idle"
      BY <1>1, <1>20, <2>2 DEF Judge, StopSeen, Moves, TypeOK, PCs
    <3>2. UNCHANGED <<result, late>> /\ (Stopped => Stopped')
      BY <1>20, <2>2 DEF Judge, StopSeen, history
    <3> QED
      BY <1>1, <3>1, <3>2, Within
  <2> QED
    BY <2>1, <2>2
<1>21. CASE Loop(u)
  <2>1. CASE Return(u, "ctx")
    BY <1>21, <2>1 DEF Loop, Returned, pool, history
  <2>2. CASE \E x \in {"settle", "checkout"} : pc' = [pc EXCEPT ![u] = x] /\ UNCHANGED result
    <3>1. PICK x \in {"settle", "checkout"} : pc' = [pc EXCEPT ![u] = x] /\ UNCHANGED result
      BY <2>2
    <3>2. x \in PCs /\ x \notin {"idle", "sent"} /\ Moves(u, x) /\ pc[u] # "idle"
      BY <1>1, <1>21, <3>1 DEF Loop, Moves, TypeOK, PCs
    <3>3. UNCHANGED late /\ (Stopped => Stopped')
      BY <1>21 DEF Loop, history, Stopped, pool, switch
    <3> QED
      BY <1>1, <3>1, <3>2, <3>3, Within
  <2> QED
    BY <1>21, <2>1, <2>2 DEF Loop
<1>22. CASE Refuse(u)
  BY <1>22 DEF Refuse, Returned, pool, history
<1>23. CASE Verdict(u)
  BY <1>23 DEF Verdict, Answer, Returned, pool, history
<1> QED
  BY <1>2, <1>3, <1>4, <1>5, <1>6, <1>7, <1>8, <1>9, <1>10, <1>11, <1>12, <1>13, <1>14, <1>15, <1>16, <1>17, <1>18, <1>19, <1>20, <1>21, <1>22, <1>23
     DEF Step, Take, Exchange, Replace, Settle, Probe

\* So is each step of the pool, unless it begins a call.
LEMMA NextKinds ==
  ASSUME PoolInv, Next
  PROVE  \/ Inner
         \/ \E u \in Caller : Returned(u)
         \/ \E u \in Caller, k \in Kinds : Begin(u, k)
<1>1. TypeOK
  BY DEF PoolInv
<1>2. CASE StartOne \/ Open \/ StartFails \/ Close \/ Cancel \/ Ended
  BY <1>2 DEF StartOne, Open, StartFails, Close, Cancel, Ended, Inner, Stopped,
              vars, callers, history, switch, pool
<1>3. CASE Kill
  BY <1>3 DEF Kill, Broadcast, Inner, Stopped, callers, history
<1>4. ASSUME NEW p \in Proc, Reap(p) PROVE Inner
  BY <1>4 DEF Reap, Inner, Stopped, pool, switch
<1> QED
  BY <1>2, <1>3, <1>4, StepKinds DEF Next

-----------------------------------------------------------------------------
\* The theorems

\* PoolInv holds in every state: the pool's bookkeeping is consistent, however
\* processes crash, hang, fail to start and are killed.
THEOREM PoolInductive == Spec => []PoolInv
<1>1. Init => PoolInv
  <2> SUFFICES ASSUME Init PROVE PoolInv
    OBVIOUS
  <2>1. NewJob("run") \in Job /\ NewJob("run").kind = "run" /\ NewJob("run").at = 0
        /\ NewJob("run").sent = 0
    BY NewJobFacts
  <2>2. TypeOK
    <3>1. <<>> \in Seq(Outcomes)
      OBVIOUS
    <3>2. job \in [Caller -> Job]
      BY <2>1 DEF Init
    <3> QED
      BY <3>1, <3>2, Limits DEF Init, TypeOK, PCs
  <2>3. Hands /\ Ownership /\ NoneLost /\ OneProbe /\ LifeOK
    BY Limits
       DEF Init, Hands, Ownership, NoneLost, OneProbe, LifeOK, Stopped, InPool, Swap, Trial
  <2>4. \A u \in Caller : JobOK(u) /\ RowsOK(u) /\ CallOK(u)
    BY <2>1 DEF Init, JobOK, RowsOK, CallOK, Busy
  <2> QED
    BY <2>2, <2>3, <2>4 DEF PoolInv
<1>2. PoolInv /\ [Next]_vars => PoolInv'
  <2> SUFFICES ASSUME PoolInv, [Next]_vars PROVE PoolInv'
    OBVIOUS
  <2>1. CASE UNCHANGED vars
    BY <2>1 DEF vars, pool, world, switch, probe, health, history, callers, PoolInv, TypeOK,
                Hands, Ownership, NoneLost, OneProbe, LifeOK, JobOK, RowsOK, CallOK, Stopped
  <2>2. ASSUME NEW u \in Caller, Step(u) PROVE PoolInv'
    BY <2>2, SendStep, CheckStep, ReplyStep, TimeoutStep, RetireStep,
       RestartStep, RestartFailsStep, AdoptStep, SettleStopsStep, SettleAsksStep,
       SettleCountsStep, ProbeStartStep, ProbeStartFailsStep, RegisterStep, UnregisteredStep,
       ProbeEndsStep, SleepStep, CrashStep, JudgeStep, LoopStep,
       VerdictStep, RefuseStep
       DEF Step, Take, Exchange, Replace, Settle, Probe
  <2>3. ASSUME NEW p \in Proc, Reap(p) PROVE PoolInv'
    BY <2>3, ReapStep
  <2>4. ASSUME NEW u \in Caller, NEW k \in Kinds, Begin(u, k) PROVE PoolInv'
    BY <2>4, BeginStep
  <2> QED
    BY <2>1, <2>2, <2>3, <2>4, StartOneStep, OpenStep, StartFailsStep, CloseStep,
       KillStep, CancelStep DEF Next, Ended
<1> QED
  BY <1>1, <1>2, PTL DEF Spec

\* Every variable keeps its type.
THEOREM PoolTypes == Spec => []TypeOK
BY PoolInductive, PTL DEF PoolInv

\* A process is never in two hands (checkout, giveBack, replace, runProbe).
THEOREM OneHand == Spec => []Ownership
BY PoolInductive, PTL DEF PoolInv

\* No process is forgotten by replace, runProbe, Kill or Close.
THEOREM NoneForgotten == Spec => []NoneLost
BY PoolInductive, PTL DEF PoolInv

\* There is one probe at a time, and a run of failures leads to one (settle,
\* finishProbe).
THEOREM SingleProbe == Spec => []OneProbe
BY PoolInductive, PTL DEF PoolInv

\* What the pool's own kill broke is not blamed on a file (try, Run).
THEOREM NotBlamed == Spec => []KilledNotBlamed
<1>1. PoolInv => KilledNotBlamed
  <2> SUFFICES ASSUME PoolInv, NEW u \in victim
               PROVE  /\ pc[u] \notin {"loop", "settle", "verdict"} \cup Trial
                      /\ result[u] \in {"none", "stop"}
    BY DEF KilledNotBlamed
  <2>1. u \in Caller /\ CallOK(u)
    BY DEF PoolInv, TypeOK
  <2> QED
    BY <2>1 DEF CallOK, Trial
<1> QED
  BY <1>1, PoolInductive, PTL

\* A batch that is answered accounts for each of its files (readBatch, readEach).
THEOREM BatchAccounted == Spec => Accounted
<1>1. ASSUME PoolInv, [Next]_vars, NEW u \in Caller, job[u].kind = "batch",
             pc'[u] = "idle", result'[u] = "reply"
      PROVE  Complete(job[u])
  <2>1. pc[u] # "idle"
    BY <1>1 DEF PoolInv, JobOK
  <2>2. Next
    BY <1>1, <2>1 DEF vars
  <2>3. PICK w \in Caller : Returned(w) \/ \E k \in Kinds : Begin(w, k)
    BY <1>1, <2>1, <2>2, NextKinds DEF Inner
  <2>4. w = u /\ Returned(u)
    BY <1>1, <2>1, <2>3 DEF Returned, Return, Begin, PoolInv, TypeOK
  <2>5. pc[u] = "verdict"
    BY <1>1, <2>4 DEF Returned, Return, PoolInv, TypeOK
  <2> QED
    BY <1>1, <2>5 DEF PoolInv, RowsOK
<1>2. PoolInv /\ [Next]_vars => [\A u \in Caller :
        job[u].kind = "batch" /\ pc'[u] = "idle" /\ result'[u] = "reply" =>
          Complete(job[u])]_vars
  BY <1>1
<1> QED
  BY <1>2, PoolInductive, PTL DEF Spec, Accounted

\* No command is sent a third time, or after a hang (Run, readBatch, readEach).
THEOREM SentAgainOnce == Spec => SentTwice
<1>1. ASSUME PoolInv, [Next]_vars, NEW u \in Caller, pc[u] # "sent", pc'[u] = "sent"
      PROVE  Send(u)
  <2>1. Next
    BY <1>1 DEF vars
  <2>2. ASSUME NEW w \in Caller, Returned(w) \/ \E k \in Kinds : Begin(w, k)
        PROVE  FALSE
    BY <1>1, <2>2 DEF Returned, Return, Begin, PoolInv, TypeOK
  <2> QED
    BY <1>1, <2>1, <2>2, NextKinds DEF Inner
<1>2. ASSUME PoolInv, NEW u \in Caller, Send(u)
      PROVE  /\ job[u].sent = 0 \/ (job[u].sent = 1 /\ job[u].fail = "crash" /\ job[u].at = 0)
             /\ ~probing /\ ~Stopped
  BY <1>2 DEF PoolInv, JobOK, Send, MustWait
<1>3. PoolInv /\ [Next]_vars => [\A u \in Caller : pc[u] # "sent" /\ pc'[u] = "sent" =>
       /\ job[u].sent = 0 \/ (job[u].sent = 1 /\ job[u].fail = "crash" /\ job[u].at = 0)
       /\ ~probing /\ ~Stopped]_vars
  BY <1>1, <1>2
<1> QED
  BY <1>3, PoolInductive, PTL DEF Spec, SentTwice

\* The pool implements Service: who called after the stop gets no reply, a file is
\* blamed only while the pool is in order, and no caller hears of a stop too soon.
THEOREM PoolKeepsPromises == Spec => PoolService
<1>1. Init => S!Init
  BY DEF Init, S!Init, Stopped
<1>2. PoolInv /\ [Next]_vars =>
        [S!Next]_<<{u \in Caller : pc[u] # "idle"}, late, result, Stopped>>
  <2> DEFINE W == {u \in Caller : pc[u] # "idle"}
  <2> SUFFICES ASSUME PoolInv, [Next]_vars, ~UNCHANGED <<W, late, result, Stopped>>
               PROVE  S!Next
    OBVIOUS
  <2>1. TypeOK
    BY DEF PoolInv
  <2>2. Next
    BY DEF vars, pool, switch, callers, history, Stopped
  <2>3. CASE Inner
    <3>1. W' = W /\ result' = result /\ late' = late /\ (Stopped => Stopped')
      BY <2>3 DEF Inner
    <3>2. Stopped' # Stopped
      BY <3>1
    <3>3. Stopped \in BOOLEAN /\ Stopped' \in BOOLEAN
      BY DEF Stopped
    <3>4. ~Stopped /\ Stopped'
      BY <3>1, <3>2, <3>3
    <3> QED
      BY <3>1, <3>4 DEF S!Next, S!Stop
  <2>4. ASSUME NEW u \in Caller, Returned(u) PROVE S!Next
    <3>1. PICK r \in {"reply", "file", "stop", "ctx"} :
            /\ pc[u] # "idle" /\ Return(u, r) /\ UNCHANGED <<late, switch>>
            /\ r = "stop" => Stopped
            /\ r \in {"reply", "file"} => pc[u] = "verdict"
            /\ r = "file" => ~Stopped
      BY <2>4 DEF Returned
    <3>2. r = "reply" => u \notin late
      BY <3>1 DEF PoolInv, CallOK
    <3>3. W' = W \ {u} /\ result' = [result EXCEPT ![u] = r] /\ Stopped' = Stopped
      BY <2>1, <3>1 DEF Return, TypeOK, Stopped, switch
    <3>4. S!Allowed(u, r)
      BY <3>1, <3>2 DEF S!Allowed
    <3> QED
      BY <3>1, <3>3, <3>4 DEF S!Next, S!Answer
  <2>5. ASSUME NEW u \in Caller, NEW k \in Kinds, Begin(u, k) PROVE S!Next
    <3>1. /\ pc[u] = "idle" /\ W' = W \cup {u} /\ Stopped' = Stopped
          /\ result' = [result EXCEPT ![u] = "none"]
          /\ late' = IF Stopped THEN late \cup {u} ELSE late \ {u}
      BY <2>1, <2>5 DEF Begin, TypeOK, Stopped, pool, switch
    <3> QED
      BY <3>1 DEF S!Next, S!Begin
  <2> QED
    BY <2>2, <2>3, <2>4, <2>5, NextKinds
<1> QED
  BY <1>1, <1>2, PoolInductive, PTL DEF Spec, PoolService, S!Spec

-----------------------------------------------------------------------------
\* The failure window

LEMMA Wraps ==
  ASSUME NEW a \in Nat, NEW b \in Nat, a < b
  PROVE  (a + 1) % b = IF a + 1 = b THEN 0 ELSE a + 1
OBVIOUS

\* Place i of recent is this place of the window.
Spot(i) == IF next + i <= Len(window) THEN next + i ELSE next + i - Len(window)

\* The ring has as many of each outcome as the last ones have.
LEMMA SameNumbers ==
  ASSUME TypeOK, RingOK, NEW o
  PROVE  Number(recent, o) = Number(window, o)
<1> DEFINE n == Len(window)
           R == {i \in DOMAIN recent : recent[i] = o}
           W == {i \in DOMAIN window : window[i] = o}
           f == [i \in R |-> Spot(i)]
<1>1. /\ n \in Nat /\ Len(recent) = n /\ DOMAIN recent = 1 .. n /\ DOMAIN window = 1 .. n
      /\ next \in Nat
  BY DEF TypeOK, RingOK
<1>2. next < n \/ next = 0
  <2>1. n <= Window /\ (n < Window => next = 0) /\ next < Window
    BY DEF RingOK
  <2> HIDE DEF n
  <2> QED
    BY <1>1, <2>1, Limits
<1>3. \A i \in 1 .. n : Spot(i) \in 1 .. n /\ recent[i] = window[Spot(i)]
  BY <1>1, <1>2 DEF RingOK, Spot
<1>4. \A i, j \in 1 .. n : Spot(i) = Spot(j) => i = j
  BY <1>1, <1>2 DEF Spot
<1>5. \A k \in 1 .. n : \E i \in 1 .. n : Spot(i) = k
  <2>1. SUFFICES ASSUME NEW k \in 1 .. n PROVE \E i \in 1 .. n : Spot(i) = k
    OBVIOUS
  <2>2. CASE next < k
    <3>1. k - next \in 1 .. n /\ Spot(k - next) = k
      BY <1>1, <2>2 DEF Spot
    <3> QED
      BY <3>1
  <2>3. CASE k <= next
    <3>1. k + n - next \in 1 .. n /\ Spot(k + n - next) = k
      BY <1>1, <1>2, <2>3 DEF Spot
    <3> QED
      BY <3>1
  <2> QED
    BY <1>1, <2>2, <2>3
<1>6. /\ \A i \in R : i \in 1 .. n /\ Spot(i) \in W
      /\ \A k \in W : \E i \in R : Spot(i) = k
  BY <1>1, <1>3, <1>5
<1>7. IsFiniteSet(R)
  <2>1. R \subseteq 1 .. n
    BY <1>1
  <2>2. IsFiniteSet(1 .. n)
    BY <1>1, FS_Interval
  <2> QED
    BY <2>1, <2>2, FS_Subset
<1> HIDE DEF R, W
<1>8. f \in Bijection(R, W)
  <2>1. f \in [R -> W]
    BY <1>6
  <2>2. f \in Injection(R, W)
    BY <1>4, <1>6, <2>1 DEF Injection, IsInjective
  <2>3. f \in Surjection(R, W)
    BY <1>6, <2>1 DEF Surjection
  <2> QED
    BY <2>2, <2>3 DEF Bijection
<1>9. Cardinality(R) = Cardinality(W)
  BY <1>7, <1>8, FS_Bijection DEF ExistsBijection
<1> QED
  BY <1>9 DEF Number, R, W

\* An outcome goes over the oldest one.
LEMMA RingTurns ==
  ASSUME TypeOK, RingOK, NEW o \in Outcomes,
         window' = Remember(o), next' = NextAfter, recent' = Recently(o)
  PROVE  RingOK'
<1> DEFINE n == Len(window)
<1>0. n \in Nat /\ next \in Nat /\ next < Window /\ n <= Window /\ Window \in Nat /\ Window > 0
  BY Limits DEF TypeOK, RingOK
<1>1. /\ Len(recent) = n /\ DOMAIN recent = 1 .. n /\ DOMAIN window = 1 .. n
      /\ window \in Seq(Outcomes) /\ recent \in Seq(Outcomes)
  BY DEF TypeOK, RingOK
<1> DEFINE r == Append(recent, o)
<1>2. /\ Len(r) = n + 1 /\ r \in Seq(Outcomes)
      /\ \A i \in 1 .. n : r[i] = recent[i]
      /\ r[n + 1] = o
  BY <1>0, <1>1
<1>3. CASE n < Window
  <2>1. next = 0 /\ \A i \in 1 .. n : recent[i] = window[i]
    BY <1>1, <1>3 DEF RingOK
  <2>2. window' = Append(window, o) /\ next' = 0
    BY <1>3, <2>1 DEF Remember, NextAfter
  <2>3. ~(n + 1 > Window)
    BY <1>0, <1>3
  <2>4. recent' = r
    BY <1>2, <2>3 DEF Recently
  <2>5. /\ Len(window') = n + 1 /\ Len(recent') = n + 1
        /\ \A i \in 1 .. n + 1 : recent'[i] = window'[i]
    BY <1>0, <1>1, <1>2, <2>1, <2>2, <2>4
  <2> QED
    BY <1>0, <1>3, <2>2, <2>5 DEF RingOK
<1>4. CASE n = Window
  <2>1. window' = [window EXCEPT ![next + 1] = o] /\ recent' = Tail(r)
        /\ next' = IF next + 1 = Window THEN 0 ELSE next + 1
    <3>1. ~(Len(window) < Window) /\ Len(r) > Window
      BY <1>0, <1>2, <1>4
    <3> HIDE DEF r
    <3>2. recent' = Tail(r)
      BY <3>1 DEF Recently, r
    <3> QED
      BY <1>0, <3>1, <3>2, Wraps DEF Remember, NextAfter
  <2>2. /\ Len(window') = n /\ window'[next + 1] = o
        /\ \A i \in 1 .. n : i # next + 1 => window'[i] = window[i]
    BY <1>0, <1>1, <1>4, <2>1
  <2>3. Len(recent') = n /\ \A i \in 1 .. n : recent'[i] = IF i = n THEN o ELSE recent[i + 1]
    <3> HIDE DEF r
    <3>1. Len(Tail(r)) = n /\ \A i \in 1 .. n : Tail(r)[i] = r[i + 1]
      BY <1>0, <1>2
    <3>2. \A i \in 1 .. n : i # n => i + 1 \in 1 .. n
      BY <1>0
    <3> QED
      BY <1>0, <1>2, <2>1, <3>1, <3>2
  <2>4. \A i \in 1 .. n : recent[i] = window[IF next + i <= n THEN next + i ELSE next + i - n]
    BY DEF RingOK
  <2>5. ASSUME NEW i \in 1 .. n
        PROVE  recent'[i] = window'[IF next' + i <= n THEN next' + i ELSE next' + i - n]
    <3> DEFINE spot == IF next' + i <= n THEN next' + i ELSE next' + i - n
    <3>1. CASE i = n
      <4>1. spot = next + 1
        BY <1>0, <1>4, <2>1, <3>1
      <4> QED
        BY <2>2, <2>3, <3>1, <4>1
    <3>2. CASE i # n
      <4>1. i + 1 \in 1 .. n
        BY <1>0, <3>2
      <4>2. spot \in 1 .. n /\ spot # next + 1
            /\ spot = IF next + (i + 1) <= n THEN next + (i + 1) ELSE next + (i + 1) - n
        BY <1>0, <1>4, <2>1, <3>2
      <4> HIDE DEF spot
      <4>3. recent'[i] = window[spot]
        BY <2>3, <2>4, <3>2, <4>1, <4>2
      <4> QED
        BY <2>2, <4>2, <4>3 DEF spot
    <3> QED
      BY <3>1, <3>2
  <2>6. next' < Window /\ next' \in Nat
    BY <1>0, <1>4, <2>1
  <2> QED
    BY <1>0, <1>4, <2>2, <2>3, <2>5, <2>6 DEF RingOK
<1> QED
  BY <1>0, <1>3, <1>4

\* Only a caller that settles changes the window.
LEMMA RingStep ==
  ASSUME PoolInv, RingOK, [Next]_vars
  PROVE  RingOK'
<1>1. TypeOK /\ Window > 0
  BY Limits DEF PoolInv
<1>2. CASE UNCHANGED <<window, next, recent>>
  BY <1>2 DEF RingOK
<1>3. ASSUME NEW u \in Caller, SettleStops(u) \/ SettleCounts(u) PROVE RingOK'
  <2> DEFINE o == Outcome(job[u])
  <2>1. o \in Outcomes
    BY <1>1, OutcomeFacts DEF TypeOK
  <2>2. window' = Remember(o) /\ next' = NextAfter /\ recent' = Recently(o)
    BY <1>3 DEF SettleStops, SettleCounts
  <2> QED
    BY <1>1, <2>1, <2>2, RingTurns
<1>4. ASSUME NEW u \in Caller, SettleAsks(u) PROVE RingOK'
  <2>1. window' = <<>> /\ next' = 0 /\ recent' = <<>>
    BY <1>4 DEF SettleAsks
  <2> QED
    BY <2>1, Limits DEF RingOK
<1>5. UNCHANGED <<window, next, recent>> \/ \E u \in Caller : Settle(u)
  <2>1. ASSUME NEW u \in Caller, Step(u), ~Settle(u) PROVE UNCHANGED <<window, next, recent>>
    <3>1. CASE Take(u) \/ Exchange(u) \/ Replace(u) \/ Judge(u) \/ Loop(u) \/ Verdict(u)
      BY <3>1 DEF Take, Refuse, Sleep, Send, Check, Exchange, Reply, Crash, Timeout, Replace,
                  Retire, Restart, RestartFails, Adopt, Judge, Loop, Verdict, pool, health
    <3>2. CASE Probe(u)
      BY <3>2 DEF Probe, ProbeStart, ProbeStartFails, Register, Unregistered, ProbeEnds,
                  FinishProbe, pool, health
    <3> QED
      BY <2>1, <3>1, <3>2 DEF Step
  <2>2. CASE StartOne \/ Open \/ StartFails \/ Close \/ Kill \/ Cancel \/ Ended
    BY <2>2 DEF StartOne, Open, StartFails, Close, Kill, Cancel, Ended, vars, pool, health
  <2>3. ASSUME NEW u \in Caller, NEW k \in Kinds, Begin(u, k) PROVE UNCHANGED <<window, next, recent>>
    BY <2>3 DEF Begin, pool, health
  <2>4. ASSUME NEW p \in Proc, Reap(p) PROVE UNCHANGED <<window, next, recent>>
    BY <2>4 DEF Reap, pool, health
  <2>5. CASE UNCHANGED vars
    BY <2>5 DEF vars, pool, health
  <2> QED
    BY <2>1, <2>2, <2>3, <2>4, <2>5 DEF Next
<1> QED
  BY <1>2, <1>3, <1>4, <1>5 DEF Settle

\* The ring of the failure window holds the last outcomes, in turn (settle).
THEOREM RingInductive == Spec => []RingOK
<1>1. Init => RingOK
  BY Limits DEF Init, RingOK
<1>2. PoolInv /\ RingOK /\ [Next]_vars => RingOK'
  BY RingStep
<1> QED
  BY <1>1, <1>2, PoolInductive, PTL DEF Spec

\* The pool gives up for slowness only when the last outcomes say so (settle).
THEOREM GivesUpOnRecent == Spec => StopsOnRecent
<1> DEFINE Even == \A o : Number(recent, o) = Number(window, o)
<1>0. TypeOK /\ RingOK => Even
  BY SameNumbers
<1>1. ASSUME PoolInv, Even', [Next]_vars, broken = "no", broken' = "window"
      PROVE  Full(recent') /\ Slow(recent')
  <2>1. PICK u \in Caller : SettleStops(u)
    <3>1. Next
      BY <1>1 DEF vars, pool, switch
    <3>2. ASSUME NEW u \in Caller, Step(u), ~SettleStops(u) PROVE FALSE
      <4>1. CASE Take(u) \/ Exchange(u) \/ Judge(u) \/ Loop(u) \/ Verdict(u)
        BY <1>1, <4>1 DEF Take, Refuse, Sleep, Send, Check, Exchange, Reply, Crash, Timeout,
                    Judge, Loop, Verdict, pool, switch
      <4>2. CASE Replace(u)
        BY <1>1, <4>2 DEF Replace, Retire, Restart, RestartFails, Adopt, Break, pool, switch
      <4>3. CASE SettleAsks(u) \/ SettleCounts(u)
        BY <1>1, <4>3 DEF SettleAsks, SettleCounts, switch
      <4>4. CASE Probe(u)
        BY <1>1, <4>4 DEF Probe, ProbeStart, ProbeStartFails, Register, Unregistered, ProbeEnds,
                    FinishProbe, pool, switch
      <4> QED
        BY <3>2, <4>1, <4>2, <4>3, <4>4 DEF Step, Settle
    <3>3. ASSUME StartOne \/ Open \/ StartFails \/ Close \/ Kill \/ Cancel \/ Ended PROVE FALSE
      BY <1>1, <3>3 DEF StartOne, Open, StartFails, Close, Kill, Cancel, Ended, vars, pool, switch
    <3>4. ASSUME NEW u \in Caller, NEW k \in Kinds, Begin(u, k) PROVE FALSE
      BY <1>1, <3>4 DEF Begin, pool, switch
    <3>5. ASSUME NEW p \in Proc, Reap(p) PROVE FALSE
      BY <1>1, <3>5 DEF Reap, pool, switch
    <3> QED
      BY <3>1, <3>2, <3>3, <3>4, <3>5 DEF Next
  <2>2. Full(window') /\ Slow(window')
    BY <2>1 DEF SettleStops
  <2>3. \A o : Number(recent', o) = Number(window', o)
    BY <1>1
  <2> QED
    BY <2>2, <2>3 DEF Full, Slow
<1>2. ASSUME PoolInv, Even', [Next]_vars
      PROVE  [broken = "no" /\ broken' = "window" => Full(recent') /\ Slow(recent')]_vars
  BY <1>1, <1>2
<1> HIDE DEF Even
<1> QED
  BY <1>0, <1>2, PoolInductive, PoolTypes, RingInductive, PTL DEF Spec, StopsOnRecent
=============================================================================
