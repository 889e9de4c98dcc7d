-------------------------------- MODULE Pool --------------------------------
(***************************************************************************)
(* The pool of ExifTool processes, internal/exiftool/workers.go: callers   *)
(* of Run, of ReadAll's batches and of Check share Size processes.  A      *)
(* process that fails is replaced; failures are counted; a probe or the    *)
(* failure window decides whether the pool gives up; Kill may come at any  *)
(* moment.                                                                 *)
(*                                                                         *)
(* Each section under p.mu is one action.  Starting, killing and talking   *)
(* to a process happen outside of it.  A condition variable is the set of  *)
(* callers asleep on it: Broadcast wakes them all, Signal one of them, and *)
(* a caller that wakes up looks again.                                     *)
(***************************************************************************)
EXTENDS Naturals, FiniteSets, Sequences

CONSTANTS
  Caller,          \* the goroutines that call the pool
  Proc,            \* ExifTool processes
  None,            \* no process
  Size,            \* PoolOptions.Size
  Batch,           \* files in one batch of ReadAll
  MaxCrashRun,     \* PoolOptions.MaxCrashRun
  Window,          \* PoolOptions.Window
  WindowFailures,  \* PoolOptions.WindowFailures
  Kinds,           \* the calls that are made: "run", "batch", "check"
  Events,          \* what else happens: "kill", "cancel", "nostart"
  MaxCalls         \* bound on the calls of a behaviour

ASSUME PoolConstants ==
  /\ {Size, Batch, MaxCrashRun, Window, WindowFailures} \subseteq Nat \ {0}
  /\ MaxCalls \in Nat
  /\ None \notin Proc
  /\ Kinds \subseteq {"run", "batch", "check"}
  /\ Events \subseteq {"kill", "cancel", "nostart"}

Outcomes == {"ok", "crash", "timeout"}     \* outcome: how a lineage ended

\* What a call is doing.  at is the file of a batch it reads by itself, 0
\* while it sends the whole command; sent counts sends of this command, and
\* fail is the process error of the last one ("ok" for none).  answered are the
\* files of a batch that ExifTool answered about, with a row or, when it cannot
\* read one, without; bad are those of readBatch's failed.
Job == [kind : {"run", "batch", "check"}, at : 0 .. Batch, sent : 0 .. 2,
        fail : Outcomes, inARow : Nat, anyOK : BOOLEAN,
        anyTimeout : BOOLEAN, answered : SUBSET (1 .. Batch),
        bad : SUBSET (1 .. Batch)]

NewJob(k) == [kind |-> k, at |-> 0, sent |-> 0, fail |-> "ok", inARow |-> 0,
              anyOK |-> FALSE, anyTimeout |-> FALSE, answered |-> {}, bad |-> {}]

VARIABLES
  life,        \* "starting" in NewPool, "open", "closed" after Close
  killed, broken,            \* Pool.killed; why Pool.broken is set, or "no"
  all, free,                 \* Pool.all, Pool.free
  probing, probeClient,      \* Pool.probing, Pool.probeClient
  crashRun, probeFails,      \* Pool.crashRun, Pool.probeFails
  window, next,              \* Pool.window and where it is written next
  proc,        \* which processes run: "up" or "off"
  doomed,      \* processes that Kill or a breaking pool is about to kill
  canceled,    \* the context of the callers is done (first Ctrl+C)
  pc, held,    \* where each caller is, and the process it has in hand
  job,         \* its call
  calls,       \* how much of MaxCalls is used up
  result,      \* what its last call returned
  late, victim, recent  \* history: calls begun after the pool stopped; calls
                        \* whose process the pool killed; the last outcomes

switch  == <<killed, broken>>
probe   == <<probing, probeClient>>
health  == <<crashRun, probeFails, window, next, recent>>
history == <<late, victim>>
callers == <<calls, result, history>>
pool    == <<life, switch, all, free, probe, health>>
world   == <<proc, doomed, canceled>>
vars == <<pool, world, pc, held, job, callers>>
-----------------------------------------------------------------------------
Stopped == killed \/ broken # "no"          \* Pool.stopped returns an error

\* cond.Broadcast: every sleeper looks again.
Broadcast(f) == [u \in Caller |-> IF f[u] = "asleep" THEN "checkout" ELSE f[u]]

\* Variant (must fail): giveBack wakes nobody.
NoSignal(f) == {f}

\* cond.Signal: one sleeper does, if there is one.
Signal(f) ==
  IF \A u \in Caller : f[u] # "asleep" THEN {f}
  ELSE {[f EXCEPT ![u] = "checkout"] : u \in {v \in Caller : f[v] = "asleep"}}

Off(p) == [proc EXCEPT ![p] = "off"]       \* Client.Kill

\* Start: a process that nothing refers to yet.
Fresh == {p \in Proc : /\ proc[p] = "off"
                       /\ p \notin all \cup free \cup doomed
                       /\ p # probeClient
                       /\ \A u \in Caller : held[u] # p}

Init ==
  /\ life = "starting" /\ killed = FALSE /\ broken = "no"
  /\ all = {} /\ free = {} /\ probing = FALSE /\ probeClient = None
  /\ crashRun = 0 /\ probeFails = 0 /\ window = <<>> /\ next = 0 /\ recent = <<>>
  /\ proc = [p \in Proc |-> "off"] /\ doomed = {} /\ canceled = FALSE
  /\ pc = [u \in Caller |-> "idle"] /\ held = [u \in Caller |-> None]
  /\ job = [u \in Caller |-> NewJob("run")]
  /\ calls = 0 /\ result = [u \in Caller |-> "none"]
  /\ late = {} /\ victim = {}

\* A call returns r to its caller; what it knew goes with it.
Return(u, r) ==
  /\ pc' = [pc EXCEPT ![u] = "idle"]
  /\ result' = [result EXCEPT ![u] = r]
  /\ job' = [job EXCEPT ![u] = NewJob("run")]
-----------------------------------------------------------------------------
(* NewPool *)

StartOne ==
  /\ life = "starting" /\ Cardinality(all) < Size
  /\ \E p \in Fresh : /\ proc' = [proc EXCEPT ![p] = "up"]
                      /\ all' = all \cup {p} /\ free' = free \cup {p}
  /\ UNCHANGED <<life, switch, probe, health, doomed, canceled, pc, held, job,
                 callers>>

Open ==
  /\ life = "starting" /\ Cardinality(all) = Size
  /\ life' = "open"
  /\ UNCHANGED <<switch, all, free, probe, health, proc, doomed, canceled, pc,
                 held, job, callers>>

KillAll == [p \in Proc |-> IF p \in all THEN "off" ELSE proc[p]]

\* A process does not start: NewPool kills the others and returns no pool.
StartFails ==
  /\ "nostart" \in Events /\ life = "starting" /\ Cardinality(all) < Size
  /\ life' = "closed" /\ killed' = TRUE
  /\ proc' = KillAll
  /\ UNCHANGED <<broken, all, free, probe, health, doomed, canceled, pc, held,
                 job, callers>>

\* Close, once the callers are through.  A process that is being killed is
\* left to Kill.
Close ==
  /\ life = "open" /\ \A u \in Caller : pc[u] = "idle"
  /\ life' = "closed" /\ all' = {} /\ free' = {}
  /\ proc' = [p \in Proc |-> IF p \in all \ doomed THEN "off" ELSE proc[p]]
  /\ UNCHANGED <<switch, probe, health, doomed, canceled, pc, held, job, callers>>
-----------------------------------------------------------------------------
(* A call, and checkout *)

Begin(u, k) ==
  /\ life = "open" /\ pc[u] = "idle" /\ ~canceled /\ calls < MaxCalls
  /\ calls' = calls + 1
  /\ pc' = [pc EXCEPT ![u] = "checkout"]
  /\ job' = [job EXCEPT ![u] = NewJob(k)]
  /\ result' = [result EXCEPT ![u] = "none"]
  /\ late' = IF Stopped THEN late \cup {u} ELSE late \ {u}
  /\ victim' = victim \ {u}
  /\ UNCHANGED <<pool, world, held>>

\* Checkout and Check return at once when the pool has stopped.
Refuse(u) ==
  /\ pc[u] = "checkout" /\ Stopped
  /\ Return(u, "stop")
  /\ UNCHANGED <<pool, world, held, calls, history>>

MustWait(u) == probing \/ (job[u].kind # "check" /\ free = {})

Sleep(u) ==
  /\ pc[u] = "checkout" /\ ~Stopped /\ MustWait(u)
  /\ pc' = [pc EXCEPT ![u] = "asleep"]
  /\ UNCHANGED <<pool, world, held, job, callers>>

\* checkout gives a process, and the command goes to it.
Send(u) ==
  /\ pc[u] = "checkout" /\ ~Stopped /\ ~MustWait(u) /\ job[u].kind # "check"
  /\ \E p \in free : held' = [held EXCEPT ![u] = p] /\ free' = free \ {p}
  /\ pc' = [pc EXCEPT ![u] = "sent"]
  /\ job' = [job EXCEPT ![u].sent = @ + 1]
  /\ UNCHANGED <<life, switch, all, probe, health, proc, doomed, canceled, callers>>

\* Check starts a probe of its own.
Check(u) ==
  /\ pc[u] = "checkout" /\ ~Stopped /\ ~MustWait(u) /\ job[u].kind = "check"
  /\ probing' = TRUE
  /\ pc' = [pc EXCEPT ![u] = "probe"]
  /\ UNCHANGED <<life, switch, all, free, probeClient, health, proc, doomed,
                 canceled, held, job, callers>>
-----------------------------------------------------------------------------
(* try: one command on one process *)

\* The files of a batch that the command at hand reads.
Asked(j) == IF j.kind # "batch" THEN {} ELSE IF j.at = 0 THEN 1 .. Batch ELSE {j.at}

\* What a reply makes of the call.  When its rows do not parse, all files asked
\* for have failed although the command did not (parseRows).
Replies(j) ==
  LET k == [j EXCEPT !.fail = "ok", !.anyOK = TRUE, !.inARow = 0,
                     !.answered = @ \cup Asked(j)]
  IN  {k, [k EXCEPT !.bad = @ \cup Asked(j)]}

\* The process answers and goes back to the free ones.
Reply(u) ==
  /\ pc[u] = "sent" /\ proc[held[u]] = "up"
  /\ free' = free \cup {held[u]}
  /\ held' = [held EXCEPT ![u] = None]
  /\ \E j \in Replies(job[u]) : job' = [job EXCEPT ![u] = j]
  /\ pc' \in Signal([pc EXCEPT ![u] = IF job[u].at > 0 THEN "loop" ELSE "settle"])
  /\ UNCHANGED <<life, switch, all, probe, health, proc, doomed, canceled, callers>>

\* The pipes of the process break.  It may have exited or not: until it is
\* killed it counts as running.
Crash(u) ==
  /\ pc[u] = "sent"
  /\ pc' = [pc EXCEPT ![u] = "failed"]
  /\ job' = [job EXCEPT ![u].fail = "crash"]
  /\ UNCHANGED <<pool, world, held, callers>>

\* The time limit passes and the client kills the process.
Timeout(u) ==
  /\ pc[u] = "sent"
  /\ proc' = Off(held[u])
  /\ pc' = [pc EXCEPT ![u] = "failed"]
  /\ job' = [job EXCEPT ![u].fail = "timeout"]
  /\ UNCHANGED <<pool, doomed, canceled, held, callers>>
-----------------------------------------------------------------------------
(* replace *)

\* Variant (must fail): a pool that breaks kills nothing.
BreakOnly(why) ==
  broken' = (IF broken = "no" THEN why ELSE broken) /\ UNCHANGED doomed

\* breakLocked: the first reason counts; every process is to be killed.
Break(why) ==
  /\ broken' = IF broken = "no" THEN why ELSE broken
  /\ doomed' = IF broken = "no" THEN doomed \cup all \cup ({probeClient} \ {None})
               ELSE doomed

Woken(f) == IF broken = "no" THEN Broadcast(f) ELSE f

\* Variant (must fail): the failed process stays listed.
Kept(p) == all

Deleted(p) == all \ {p}

\* The failed process leaves the pool; a stopped pool replaces nothing.
Retire(u) ==
  /\ pc[u] = "failed"
  /\ all' = Deleted(held[u])
  /\ IF Stopped
     THEN /\ proc' = Off(held[u])
          /\ held' = [held EXCEPT ![u] = None]
          /\ pc' = [pc EXCEPT ![u] = "judge"]
     ELSE pc' = [pc EXCEPT ![u] = "restart"] /\ UNCHANGED <<proc, held>>
  /\ UNCHANGED <<life, switch, free, probe, health, doomed, canceled, job, callers>>

\* Variant (must fail): the failed process is not killed.
NotKilled(p, q) == [proc EXCEPT ![q] = "up"]

Replaced(p, q) == [proc EXCEPT ![p] = "off", ![q] = "up"]

\* It is killed, and another process starts, outside the lock.
Restart(u) ==
  /\ pc[u] = "restart"
  /\ \E p \in Fresh :
       /\ proc' = Replaced(held[u], p)
       /\ held' = [held EXCEPT ![u] = p]
  /\ pc' = [pc EXCEPT ![u] = "adopt"]
  /\ UNCHANGED <<pool, doomed, canceled, job, callers>>

\* No process starts: the pool is broken.
RestartFails(u) ==
  /\ "nostart" \in Events /\ pc[u] = "restart"
  /\ proc' = Off(held[u])
  /\ held' = [held EXCEPT ![u] = None]
  /\ Break("restart")
  /\ pc' = Woken([pc EXCEPT ![u] = "judge"])
  /\ UNCHANGED <<life, killed, all, free, probe, health, canceled, job, callers>>

Joins == ~Stopped

\* The new process joins the pool, or is killed if the pool has stopped.
Adopt(u) ==
  /\ pc[u] = "adopt"
  /\ held' = [held EXCEPT ![u] = None]
  /\ IF Joins
     THEN /\ all' = all \cup {held[u]} /\ free' = free \cup {held[u]}
          /\ pc' = Broadcast([pc EXCEPT ![u] = "judge"])
          /\ UNCHANGED proc
     ELSE /\ proc' = Off(held[u])
          /\ pc' = [pc EXCEPT ![u] = "judge"]
          /\ UNCHANGED <<all, free>>
  /\ UNCHANGED <<life, switch, probe, health, doomed, canceled, job, callers>>
-----------------------------------------------------------------------------
(* Run and readBatch: what follows a failed command *)

\* Variant (must fail): a hung command is sent again.
ResendHung(j)  == j.at = 0 /\ j.sent = 1

\* A crashed command is sent once more; a hung one is not.
Resend(j) == j.at = 0 /\ j.sent = 1 /\ j.fail = "crash"

\* One file of a batch has failed, or the batch as a whole.
Failed(j) ==
  IF j.at = 0 THEN [j EXCEPT !.anyTimeout = (j.fail = "timeout")]
  ELSE [j EXCEPT !.anyTimeout = @ \/ j.fail = "timeout",
                 !.inARow = @ + 1, !.bad = @ \cup {j.at}]

StopSeen == Stopped             \* what try asks after replace

Judge(u) ==
  /\ pc[u] = "judge"
  /\ LET j == job[u] IN
     IF StopSeen THEN Return(u, "stop")
     ELSE /\ pc' = [pc EXCEPT ![u] = IF Resend(j) THEN "checkout"
                                      ELSE IF j.kind = "run" THEN "settle" ELSE "loop"]
          /\ job' = [job EXCEPT ![u] = IF Resend(j) \/ j.kind = "run" THEN j ELSE Failed(j)]
          /\ UNCHANGED result
  /\ UNCHANGED <<pool, world, held, calls, history>>

\* Variant (must fail): the rest of a batch is given up one failure early.
GiveUpEarly(j) == j.inARow >= MaxCrashRun - 1

GiveUp(j) == j.inARow >= MaxCrashRun

\* The loop of single reads: the next file, the end, or the rest given up.
Loop(u) ==
  /\ pc[u] = "loop"
  /\ LET j == job[u] IN
     \/ /\ j.at = Batch
        /\ pc' = [pc EXCEPT ![u] = "settle"] /\ UNCHANGED <<job, result>>
     \/ j.at < Batch /\ canceled /\ Return(u, "ctx")
     \/ /\ j.at < Batch /\ ~canceled /\ GiveUp(j)
        /\ job' = [job EXCEPT ![u].bad = @ \cup (j.at + 1 .. Batch)]
        /\ pc' = [pc EXCEPT ![u] = "settle"] /\ UNCHANGED result
     \/ /\ j.at < Batch /\ ~canceled /\ ~GiveUp(j)
        /\ job' = [job EXCEPT ![u].at = @ + 1, ![u].sent = 0]
        /\ pc' = [pc EXCEPT ![u] = "checkout"] /\ UNCHANGED result
  /\ UNCHANGED <<pool, world, held, calls, history>>
-----------------------------------------------------------------------------
(* settle *)

\* A batch read one by one failed only if no file of it could be read.
Outcome(j) ==
  IF j.at = 0 THEN j.fail
  ELSE IF j.anyOK THEN "ok"
  ELSE IF j.anyTimeout THEN "timeout" ELSE "crash"

\* Variant (must fail): the full window overwrites its newest outcome.
RememberLast(o) ==
  IF Len(window) < Window THEN Append(window, o) ELSE [window EXCEPT ![Window] = o]

\* The window is a ring: once it is full, next says what is overwritten.
Remember(o) ==
  IF Len(window) < Window THEN Append(window, o) ELSE [window EXCEPT ![next + 1] = o]

NextAfter == IF Len(window) < Window THEN next ELSE (next + 1) % Window

Number(w, o) == Cardinality({i \in DOMAIN w : w[i] = o})
Full(w)      == Number(w, "crash") + Number(w, "timeout") >= WindowFailures
Slow(w)      == Number(w, "timeout") >= Number(w, "crash")

\* History: the outcomes since the window was emptied, Window of them at most.
Recently(o) ==
  LET r == Append(recent, o) IN IF Len(r) > Window THEN Tail(r) ELSE r

\* Too many recent failures, mostly timeouts: the pool gives up.
SettleStops(u) ==
  /\ pc[u] = "settle" /\ ~Stopped
  /\ LET o == Outcome(job[u]) w == Remember(o) IN
     /\ Full(w) /\ Slow(w)
     /\ window' = w /\ next' = NextAfter /\ recent' = Recently(o)
  /\ Break("window")
  /\ pc' = Woken([pc EXCEPT ![u] = "verdict"])
  /\ UNCHANGED <<life, killed, all, free, probe, crashRun, probeFails, proc,
                 canceled, held, job, callers>>

\* Mostly crashes: a probe decides, and the window starts anew.
SettleAsks(u) ==
  /\ pc[u] = "settle" /\ ~Stopped /\ ~probing
  /\ LET w == Remember(Outcome(job[u])) IN Full(w) /\ ~Slow(w)
  /\ window' = <<>> /\ next' = 0 /\ recent' = <<>>
  /\ probing' = TRUE
  /\ pc' = [pc EXCEPT ![u] = "probe"]
  /\ UNCHANGED <<life, switch, all, free, probeClient, crashRun, probeFails, proc,
                 doomed, canceled, held, job, callers>>

\* Otherwise failures in a row are counted.  Those that end during a probe
\* are counted when it is over.
CrashRun(o) ==
  CASE o = "ok" -> IF probing THEN crashRun ELSE 0
    [] o # "ok" -> IF probing THEN crashRun ELSE crashRun + 1

Due(o) == o # "ok" /\ ~probing /\ CrashRun(o) >= MaxCrashRun /\ ~Stopped

SettleCounts(u) ==
  /\ pc[u] = "settle"
  /\ LET o == Outcome(job[u]) w == Remember(o) IN
     /\ Stopped \/ ~Full(w) \/ (probing /\ ~Slow(w))
     /\ window' = w /\ next' = NextAfter /\ recent' = Recently(o)
     /\ crashRun' = CrashRun(o)
     /\ probeFails' = IF o # "ok" /\ probing THEN probeFails + 1 ELSE probeFails
     /\ probing' = (probing \/ Due(o))
     /\ pc' = [pc EXCEPT ![u] = IF Due(o) THEN "probe" ELSE "verdict"]
  /\ UNCHANGED <<life, switch, all, free, probeClient, proc, doomed, canceled,
                 held, job, callers>>

\* Variant (must fail): a failed command blames its file in any case.
AnswerHasty(j) == IF j.kind = "run" /\ j.fail # "ok" THEN "file" ELSE "reply"

\* How a call ends after settle or a probe: a success whatever happened
\* since, anything else only if the pool has not stopped.
Answer(j) ==
  IF j.kind # "check" /\ j.at = 0 /\ j.fail = "ok" THEN "reply"
  ELSE IF Stopped THEN "stop" ELSE IF j.kind = "run" THEN "file" ELSE "reply"

Verdict(u) ==
  /\ pc[u] = "verdict"
  /\ Return(u, Answer(job[u]))
  /\ UNCHANGED <<pool, world, held, calls, history>>
-----------------------------------------------------------------------------
(* runProbe and finishProbe *)

\* Variant (must fail): failures during the probe count in full.
AfterProbeAll == probeFails

AfterProbe == IF probeFails < MaxCrashRun - 1 THEN probeFails ELSE MaxCrashRun - 1

\* finishProbe: the probe failed or passed.  After Kill nothing is decided.
FinishProbe(u, failed) ==
  /\ probing' = FALSE /\ probeClient' = None
  /\ held' = [held EXCEPT ![u] = None]
  /\ IF killed
     THEN /\ pc' = Broadcast([pc EXCEPT ![u] = "verdict"])
          /\ UNCHANGED <<broken, doomed, crashRun, probeFails>>
     ELSE IF failed
     THEN /\ broken' = IF broken = "no" THEN "probe" ELSE broken
          /\ doomed' = IF broken = "no" THEN doomed \cup all ELSE doomed
          /\ pc' = Woken([pc EXCEPT ![u] = "verdict"])
          /\ UNCHANGED <<crashRun, probeFails>>
     ELSE /\ crashRun' = AfterProbe /\ probeFails' = 0
          /\ pc' = Broadcast([pc EXCEPT ![u] = "verdict"])
          /\ UNCHANGED <<broken, doomed>>
  /\ UNCHANGED <<life, killed, all, free, window, next, recent, canceled, job, callers>>

ProbeStart(u) ==
  /\ pc[u] = "probe"
  /\ \E p \in Fresh : /\ proc' = [proc EXCEPT ![p] = "up"]
                      /\ held' = [held EXCEPT ![u] = p]
  /\ pc' = [pc EXCEPT ![u] = "register"]
  /\ UNCHANGED <<pool, doomed, canceled, job, callers>>

ProbeStartFails(u) ==
  /\ "nostart" \in Events /\ pc[u] = "probe"
  /\ FinishProbe(u, TRUE)
  /\ UNCHANGED proc

\* Kill can see the probe's process from here on.
Register(u) ==
  /\ pc[u] = "register" /\ ~killed
  /\ probeClient' = held[u]
  /\ pc' = [pc EXCEPT ![u] = "probed"]
  /\ UNCHANGED <<life, switch, all, free, probing, health, proc, doomed, canceled,
                 held, job, callers>>

\* Kill came first.
Unregistered(u) ==
  /\ pc[u] = "register" /\ killed
  /\ proc' = Off(held[u])
  /\ FinishProbe(u, FALSE)

\* The commands of the probe work, or one of them fails or times out; its
\* process is killed in any case.
ProbeEnds(u) ==
  /\ pc[u] = "probed"
  /\ proc' = Off(held[u])
  /\ \E failed \in BOOLEAN : /\ failed \/ proc[held[u]] = "up"
                             /\ FinishProbe(u, failed)
-----------------------------------------------------------------------------
(* Kill, the processes it ends, and the first Ctrl+C *)

Kill ==
  /\ "kill" \in Events /\ life = "open" /\ ~killed
  /\ killed' = TRUE
  /\ doomed' = doomed \cup all \cup ({probeClient} \ {None})
  /\ pc' = Broadcast(pc)
  /\ UNCHANGED <<life, broken, all, free, probe, health, proc, canceled, held, job, callers>>

Reap(p) ==
  /\ p \in doomed
  /\ doomed' = doomed \ {p}
  /\ proc' = Off(p)
  /\ victim' = victim \cup {u \in Caller : pc[u] = "sent" /\ held[u] = p}
  /\ UNCHANGED <<pool, canceled, pc, held, job, calls, result, late>>

Cancel ==
  /\ "cancel" \in Events /\ life = "open" /\ ~canceled
  /\ canceled' = TRUE
  /\ UNCHANGED <<pool, proc, doomed, pc, held, job, callers>>

\* The program ends after Close.
Ended == life = "closed" /\ doomed = {} /\ UNCHANGED vars
-----------------------------------------------------------------------------
Take(u)    == Refuse(u) \/ Sleep(u) \/ Send(u) \/ Check(u)
Exchange(u) == Reply(u) \/ Crash(u) \/ Timeout(u)
Replace(u) == Retire(u) \/ Restart(u) \/ RestartFails(u) \/ Adopt(u)
Settle(u)  == SettleStops(u) \/ SettleAsks(u) \/ SettleCounts(u)
Probe(u)   == \/ ProbeStart(u) \/ ProbeStartFails(u)
              \/ Register(u) \/ Unregistered(u) \/ ProbeEnds(u)

\* What a caller does by itself once it has begun.
Step(u) == \/ Take(u) \/ Exchange(u) \/ Replace(u)
           \/ Judge(u) \/ Loop(u) \/ Settle(u) \/ Verdict(u) \/ Probe(u)

Next ==
  \/ StartOne \/ Open \/ StartFails \/ Close
  \/ \E u \in Caller, k \in Kinds : Begin(u, k)
  \/ \E u \in Caller : Step(u)
  \/ Kill \/ Cancel \/ Ended
  \/ \E p \in Proc : Reap(p)

Spec == Init /\ [][Next]_vars

\* Goroutines that can go on do, every command is answered or cut off by its
\* time limit, and a kill that has begun ends.
FairSpec ==
  /\ Spec
  /\ \A u \in Caller : WF_vars(Step(u))
  /\ \A p \in Proc : WF_vars(Reap(p))
-----------------------------------------------------------------------------
(* Properties *)

PCs == {"idle", "checkout", "asleep", "sent", "failed", "restart", "adopt", "judge",
        "loop", "settle", "verdict", "probe", "register", "probed"}

TypeOK ==
  /\ life \in {"starting", "open", "closed"} /\ killed \in BOOLEAN
  /\ broken \in {"no", "restart", "window", "probe"}
  /\ all \subseteq Proc /\ free \subseteq Proc /\ doomed \subseteq Proc
  /\ probing \in BOOLEAN /\ probeClient \in Proc \cup {None}
  /\ crashRun \in Nat /\ probeFails \in Nat
  /\ window \in Seq(Outcomes) /\ recent \in Seq(Outcomes) /\ next \in Nat
  /\ proc \in [Proc -> {"up", "off"}] /\ canceled \in BOOLEAN
  /\ pc \in [Caller -> PCs]
  /\ held \in [Caller -> Proc \cup {None}] /\ job \in [Caller -> Job]
  /\ calls \in Nat
  /\ result \in [Caller -> {"none", "reply", "file", "stop", "ctx"}]
  /\ late \subseteq Caller /\ victim \subseteq Caller

InPool  == {"sent", "failed"}                  \* held is in Pool.all
Swap    == {"restart", "adopt"}                \* in replace, between its locks
Trial   == {"probe", "register", "probed"}     \* in runProbe

\* A process is in one hand at most: free, or held by one caller, and only a
\* caller that replaces one or probes holds one the pool does not list
\* (checkout, giveBack, replace, runProbe).
Ownership ==
  /\ free \subseteq all
  /\ \A u \in Caller : held[u] # None =>
       /\ held[u] \notin free
       /\ \A v \in Caller : held[v] = held[u] => v = u
       /\ (held[u] \in all) = (pc[u] \in InPool)

\* No process is forgotten: one that runs is listed, in a caller's hand or
\* about to be killed, so none outlives Close.
NoneLost ==
  /\ \A p \in Proc : proc[p] = "up" =>
       p \in all \cup doomed \/ \E u \in Caller : held[u] = p
  /\ life = "closed" => \A p \in Proc : proc[p] = "up" => p \in doomed

\* One probe at a time, and probing says that there is one; without one,
\* fewer than MaxCrashRun failures in a row go by, those that ended during
\* the last probe included.
OneProbe ==
  /\ \A u \in Caller : pc[u] \in Trial =>
       probing /\ \A v \in Caller : pc[v] \in Trial => v = u
  /\ probing => \E u \in Caller : pc[u] \in Trial
  /\ ~probing /\ ~Stopped => crashRun < MaxCrashRun

\* A caller whose process the pool itself killed is told that the pool
\* stopped; its file is not blamed and no failure is counted.
KilledNotBlamed ==
  \A u \in victim : /\ pc[u] \notin {"loop", "settle", "verdict"} \cup Trial
                     /\ result[u] \in {"none", "stop"}

\* The files of job j are accounted for: ExifTool answered about each one, or it
\* is among the failed, and those given up untried follow MaxCrashRun in a row
\* that ExifTool failed on by themselves.
Complete(j) ==
  /\ j.answered \cup j.bad = 1 .. Batch
  /\ (j.bad \ j.answered) \cap (j.at + 1 .. Batch) # {} =>
       /\ MaxCrashRun <= j.at
       /\ (j.at + 1 - MaxCrashRun) .. j.at \subseteq j.bad \ j.answered

\* A batch that is read leaves no file out of both rows and failed unless
\* ExifTool answered without a row for it, and gives none up because of another
\* one's crash (ReadAll's comment: a file that crashes ExifTool costs only itself).
Accounted ==
  [][\A u \in Caller :
       job[u].kind = "batch" /\ pc'[u] = "idle" /\ result'[u] = "reply" =>
         Complete(job[u])]_vars

\* The pool gives up for slowness only if the last Window outcomes, counted
\* in the order they came, hold that many failures, mostly timeouts.
StopsOnRecent ==
  [][broken = "no" /\ broken' = "window" => Full(recent') /\ Slow(recent')]_vars

\* A command is sent twice at most, the second time only after a crash, and
\* never while a probe runs or after the pool stopped (Run's comment).
SentTwice ==
  [][\A u \in Caller : pc[u] # "sent" /\ pc'[u] = "sent" =>
       /\ job[u].sent = 0 \/ (job[u].sent = 1 /\ job[u].fail = "crash" /\ job[u].at = 0)
       /\ ~probing /\ ~Stopped]_vars

\* The pool keeps the promises of Service.
S == INSTANCE Service WITH waiting <- {u \in Caller : pc[u] # "idle"},
                          answer <- result, down <- Stopped
PoolService == S!Spec

\* Every call returns, whatever crashes, hangs, is probed or killed: after the
\* last of them (MaxCalls) no caller is left waiting.
EveryCallReturns ==
  (\E u \in Caller : pc[u] # "idle") ~> (\A u \in Caller : pc[u] = "idle")

\* Once the pool is killed or gives up, each of its processes ends, those in
\* replace and the probe's included.
AllEnd == Stopped ~> \A p \in Proc : proc[p] = "off"

-----------------------------------------------------------------------------
\* The inductive invariant

Busy == {"checkout", "asleep", "sent", "failed", "restart", "adopt", "judge"}

\* A process is in hand exactly where the code has one in a variable.
Hands ==
  \A u \in Caller : (held[u] # None) =
    (pc[u] \in InPool \cup Swap \cup {"register", "probed"})

\* Sends of the command at hand, and who sends commands at all.
JobOK(u) ==
  LET j == job[u] IN
  /\ pc[u] \in Busy \ {"checkout", "asleep"} => j.kind # "check"
  /\ pc[u] = "loop" => j.kind = "batch"
  /\ pc[u] = "idle" => j.kind = "run"
  /\ pc[u] \in {"checkout", "asleep"} =>
       j.sent = 0 \/ (j.sent = 1 /\ j.fail = "crash" /\ j.at = 0)
  /\ pc[u] \in Busy \ {"checkout", "asleep"} => j.sent = 1 \/ (j.sent = 2 /\ j.at = 0)
  /\ j.at > 0 => j.kind = "batch"

\* The files of a batch that are dealt with so far: those up to the one at hand,
\* of which ExifTool failed on the last inARow.
Rows(j, n) ==
  /\ j.answered \cup j.bad = 1 .. n
  /\ j.inARow <= n /\ (n + 1 - j.inARow) .. n \subseteq j.bad \ j.answered

RowsOK(u) ==
  LET j == job[u] IN
  j.kind = "batch" =>
    /\ pc[u] \in Busy => Rows(j, IF j.at = 0 THEN 0 ELSE j.at - 1)
    /\ pc[u] = "loop" => Rows(j, j.at)
    /\ pc[u] \in {"settle", "verdict"} \cup Trial => Complete(j)

\* Callers that began after the stop, or whose process the pool killed.
CallOK(u) ==
  /\ pc[u] # "idle" => result[u] = "none"
  /\ u \in late => Stopped /\ pc[u] \in {"idle", "checkout"}
  /\ u \in victim =>
       /\ Stopped /\ pc[u] \in {"idle", "sent", "failed", "judge"}
       /\ pc[u] = "idle" => result[u] = "stop"
       /\ pc[u] = "sent" => proc[held[u]] = "off"

LifeOK ==
  /\ life # "open" => \A u \in Caller : pc[u] = "idle"
  /\ life = "starting" => ~Stopped
  /\ Stopped \/ doomed = {}

\* TypeOK, Ownership, NoneLost and OneProbe with what they need.
PoolInv ==
  /\ TypeOK /\ Hands /\ Ownership /\ NoneLost /\ OneProbe /\ LifeOK
  /\ \A u \in Caller : JobOK(u) /\ RowsOK(u) /\ CallOK(u)

\* The ring holds the last outcomes: it fills from the start, and once it is full
\* the oldest one is the next to be overwritten.
RingOK ==
  /\ Len(recent) = Len(window) /\ Len(window) <= Window
  /\ Len(window) < Window => next = 0
  /\ next < Window
  /\ \A i \in 1 .. Len(window) :
       recent[i] = window[IF next + i <= Len(window) THEN next + i ELSE next + i - Len(window)]
=============================================================================
