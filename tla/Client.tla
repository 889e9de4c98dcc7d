------------------------------- MODULE Client -------------------------------
(***************************************************************************)
(* One long-lived ExifTool process, internal/exiftool/pool.go: run sends a *)
(* command and waits for its two markers, {readyN} on stdout and           *)
(* {errdoneN} on stderr, while the goroutine that reads stderr, the one    *)
(* that waits for the process, the timers of this and earlier commands,    *)
(* Kill and Close go on beside it.  Pool.tla uses many of these.           *)
(*                                                                         *)
(* A line is [n, i]: the i-th line the process prints for command n on     *)
(* that stream; i = 0 is the marker that ends it.                          *)
(***************************************************************************)
EXTENDS Naturals, Sequences

CONSTANTS
  MaxCalls,     \* bound on the commands sent
  MaxLines,     \* bound on the lines a command prints on a stream
  MaxStderr,    \* maxStderr, in lines
  Limits        \* whether a command may have a time limit, or none

ASSUME ClientConstants ==
  MaxCalls \in Nat /\ MaxLines \in Nat /\ MaxStderr \in Nat /\ Limits \subseteq BOOLEAN

Call == 1 .. MaxCalls
Line == [n : Call, i : Nat]

VARIABLES
  seq, state,     \* Client.seq; Client.state as [n, is]
  pc, res,        \* where run is, and what exchange has returned
  timer,          \* the timer of each command
  outcome,        \* what run returned for each command
  reply,          \* the Reply run is putting together
  queue, size, ended,   \* lineQueue.lines, lineQueue.size, lineQueue.closed
  outPipe, errPipe,     \* what is in the pipes
  root, tree,     \* the process; it or something it started has the pipes
  exited,         \* Client.exited is closed: the process has been waited for
  inOpen,         \* takeout's end of its stdin is open
  released,       \* takeout's ends of the other pipes are closed
  doing,          \* the command the process works on, and the lines printed
  dead, killer, closer  \* Client.dead; where Kill and Close are

runvars  == <<seq, state, pc, res, outcome, reply>>
pipes    == <<outPipe, errPipe>>
child    == <<root, tree, inOpen>>
stopping == <<dead, killer, closer>>
vars == <<runvars, timer, queue, size, ended, pipes, child, exited, released, doing, stopping>>

Text(l)   == l.i > 0
Ordinary(s) == SelectSeq(s, Text)
First(s, n) == IF Len(s) <= n THEN s ELSE SubSeq(s, 1, n)

Init ==
  /\ seq = 0 /\ state = [n |-> 0, is |-> "idle"]
  /\ pc = "rest" /\ res = "ok"
  /\ timer = [n \in Call |-> "none"] /\ outcome = [n \in Call |-> "none"]
  /\ reply = [out |-> <<>>, err |-> <<>>]
  /\ queue = <<>> /\ size = 0 /\ ended = FALSE
  /\ outPipe = <<>> /\ errPipe = <<>>
  /\ root = TRUE /\ tree = TRUE /\ exited = FALSE
  /\ inOpen = TRUE /\ released = FALSE
  /\ doing = [n |-> 0, out |-> 0, err |-> 0, ready |-> FALSE, done |-> FALSE]
  /\ dead = FALSE /\ killer = "no" /\ closer = "no"

-----------------------------------------------------------------------------
\* run and exchange

\* Who has Client.mu: run until it returns, Close from its message on.
CloseHolds == closer \in {"asked", "killed"}

\* The pool puts a new process in the place of one that failed a command.
Failed == seq > 0 /\ outcome[seq] \in {"crash", "timeout"}

Begin(limited) ==
  /\ pc = "rest" /\ ~CloseHolds /\ ~Failed /\ seq < MaxCalls
  /\ seq' = seq + 1
  /\ state' = [n |-> seq + 1, is |-> "running"]
  /\ timer' = [timer EXCEPT ![seq + 1] = IF limited THEN "armed" ELSE "none"]
  /\ reply' = [out |-> <<>>, err |-> <<>>]
  /\ pc' = "write"
  /\ UNCHANGED <<res, outcome, queue, size, ended, pipes, child, exited, released, doing,
                 stopping>>

\* exchange returns.
Return(r) == pc' = "settle" /\ res' = r

\* The block is in the pipe.  A long one waits for the process to read.
Write ==
  /\ pc = "write" /\ inOpen /\ tree
  /\ doing' = [n |-> seq, out |-> 0, err |-> 0, ready |-> FALSE, done |-> FALSE]
  /\ pc' = "out"
  /\ UNCHANGED <<seq, state, res, outcome, reply, timer, queue, size, ended, pipes, child,
                 exited, released, stopping>>

WriteFails ==
  /\ pc = "write" /\ ~(inOpen /\ tree)
  /\ Return("crash")
  /\ UNCHANGED <<seq, state, outcome, reply, timer, queue, size, ended, pipes, child, exited,
                 released, doing, stopping>>

\* Variant (must fail): stderr's marker is not waited for.
ReadOutOnly ==
  /\ pc = "out" /\ outPipe # <<>>
  /\ LET l == Head(outPipe) IN
       IF l = [n |-> seq, i |-> 0]
       THEN Return("ok") /\ UNCHANGED reply
       ELSE reply' = [reply EXCEPT !.out = Append(@, l)] /\ UNCHANGED <<pc, res>>
  /\ outPipe' = Tail(outPipe)
  /\ UNCHANGED <<seq, state, outcome, timer, queue, size, ended, errPipe, child, exited,
                 released, doing, stopping>>

ReadOut ==
  /\ pc = "out" /\ outPipe # <<>>
  /\ LET l == Head(outPipe) IN
       IF l = [n |-> seq, i |-> 0]
       THEN pc' = "err" /\ UNCHANGED reply
       ELSE reply' = [reply EXCEPT !.out = Append(@, l)] /\ UNCHANGED pc
  /\ outPipe' = Tail(outPipe)
  /\ UNCHANGED <<seq, state, res, outcome, timer, queue, size, ended, errPipe, child, exited,
                 released, doing, stopping>>

\* End of file, or the pipe closed under the reader: drain.
OutEnds ==
  /\ pc = "out" /\ (released \/ (outPipe = <<>> /\ ~tree))
  /\ reply' = [reply EXCEPT !.err = First(Ordinary(queue), MaxStderr)]
  /\ queue' = <<>> /\ size' = 0
  /\ Return("crash")
  /\ UNCHANGED <<seq, state, outcome, timer, ended, pipes, child, exited, released, doing,
                 stopping>>

TakeErr ==
  /\ pc = "err" /\ queue # <<>>
  /\ LET l == Head(queue) IN
       IF l = [n |-> seq, i |-> 0]
       THEN Return("ok") /\ UNCHANGED reply
       ELSE /\ reply' = IF Len(reply.err) < MaxStderr
                        THEN [reply EXCEPT !.err = Append(@, l)] ELSE reply
            /\ UNCHANGED <<pc, res>>
  /\ queue' = Tail(queue)
  /\ size' = IF Text(Head(queue)) THEN size - 1 ELSE size
  /\ UNCHANGED <<seq, state, outcome, timer, ended, pipes, child, exited, released, doing,
                 stopping>>

ErrEnds ==
  /\ pc = "err" /\ queue = <<>> /\ ended
  /\ Return("crash")
  /\ UNCHANGED <<seq, state, outcome, reply, timer, queue, size, ended, pipes, child, exited,
                 released, doing, stopping>>

\* Variant (must fail): the state does not carry the command's number.
LeavesAny(n, to) == state.is = "running" /\ state' = [state EXCEPT !.is = to]

\* A command leaves "running" once: by itself here or by its timer.
Leaves(n, to) == state = [n |-> n, is |-> "running"] /\ state' = [n |-> n, is |-> to]

\* The result is settled, the timer stopped and the mutex given back.
Settle ==
  /\ pc = "settle"
  /\ \/ Leaves(seq, "idle") /\ outcome' = [outcome EXCEPT ![seq] = res]
     \/ /\ state # [n |-> seq, is |-> "running"] /\ UNCHANGED state
        /\ outcome' = [outcome EXCEPT ![seq] = "timeout"]
  /\ timer' = [timer EXCEPT ![seq] = IF @ = "armed" THEN "none" ELSE @]
  /\ pc' = "rest"
  /\ UNCHANGED <<seq, res, reply, queue, size, ended, pipes, child, exited, released, doing,
                 stopping>>

-----------------------------------------------------------------------------
\* Timers.  One that has gone off runs at its own pace, perhaps only when the
\* next command is under way.

KillTree ==
  /\ inOpen' = FALSE
  /\ IF exited THEN UNCHANGED <<root, tree>> ELSE root' = FALSE /\ tree' = FALSE

TimerFires(n) ==
  /\ timer[n] = "armed"
  /\ timer' = [timer EXCEPT ![n] = "fired"]
  /\ UNCHANGED <<runvars, queue, size, ended, pipes, child, exited, released, doing, stopping>>

TimerDecides(n) ==
  /\ timer[n] = "fired"
  /\ \/ Leaves(n, "timedOut") /\ timer' = [timer EXCEPT ![n] = "won"]
     \/ /\ state # [n |-> n, is |-> "running"] /\ UNCHANGED state
        /\ timer' = [timer EXCEPT ![n] = "none"]
  /\ UNCHANGED <<seq, pc, res, outcome, reply, queue, size, ended, pipes, child, exited,
                 released, doing, stopping>>

TimerKills(n) ==
  /\ timer[n] = "won"
  /\ timer' = [timer EXCEPT ![n] = "killed"]
  /\ KillTree
  /\ UNCHANGED <<runvars, queue, size, ended, pipes, exited, released, doing, stopping>>

-----------------------------------------------------------------------------
\* The goroutine that reads stderr, and the one that waits for the process

PushErr ==
  /\ errPipe # <<>> /\ ~ended
  /\ LET l == Head(errPipe) IN
       IF Text(l) /\ size >= MaxStderr
       THEN UNCHANGED <<queue, size>>
       ELSE queue' = Append(queue, l) /\ size' = IF Text(l) THEN size + 1 ELSE size
  /\ errPipe' = Tail(errPipe)
  /\ UNCHANGED <<runvars, timer, ended, outPipe, child, exited, released, doing, stopping>>

EndErr ==
  /\ ~ended /\ (released \/ (errPipe = <<>> /\ ~tree))
  /\ ended' = TRUE
  /\ UNCHANGED <<runvars, timer, queue, size, pipes, child, exited, released, doing, stopping>>

\* Variant (must fail): what the process started is left alone.
WatchOnly ==
  /\ ~root /\ ~exited
  /\ exited' = TRUE
  /\ UNCHANGED <<runvars, timer, queue, size, ended, pipes, child, released, doing, stopping>>

\* cmd.Wait returns and KillOrphans ends what the process started.
Watch ==
  /\ ~root /\ ~exited
  /\ exited' = TRUE /\ tree' = FALSE
  /\ UNCHANGED <<runvars, timer, queue, size, ended, pipes, root, inOpen, released, doing,
                 stopping>>

-----------------------------------------------------------------------------
\* Kill, by the pool when it stops or for a process it replaces, and Close

KillCalled ==
  /\ killer = "no"
  /\ killer' = "marked" /\ dead' = TRUE
  /\ UNCHANGED <<runvars, timer, queue, size, ended, pipes, child, exited, released, doing,
                 closer>>

KillKills ==
  /\ killer = "marked"
  /\ killer' = "killed" /\ KillTree
  /\ UNCHANGED <<runvars, timer, queue, size, ended, pipes, exited, released, doing, dead,
                 closer>>

\* release
KillEnds ==
  /\ killer = "killed" /\ exited
  /\ killer' = "done" /\ released' = TRUE
  /\ UNCHANGED <<runvars, timer, queue, size, ended, pipes, child, exited, doing, dead, closer>>

CloseCalled ==
  /\ closer = "no"
  /\ closer' = IF dead THEN "done" ELSE "lock"
  /\ UNCHANGED <<runvars, timer, queue, size, ended, pipes, child, exited, released, doing,
                 dead, killer>>

CloseAsks ==
  /\ closer = "lock" /\ pc = "rest"
  /\ closer' = "asked" /\ inOpen' = FALSE
  /\ UNCHANGED <<runvars, timer, queue, size, ended, pipes, root, tree, exited, released, doing,
                 dead, killer>>

\* Variant (must fail): Close only waits.
CloseWaits ==
  /\ closer = "asked" /\ ~exited
  /\ closer' = "killed"
  /\ UNCHANGED <<runvars, timer, queue, size, ended, pipes, child, exited, released, doing,
                 dead, killer>>

\* closeWait is over.
CloseKills ==
  /\ closer = "asked" /\ ~exited
  /\ closer' = "killed" /\ KillTree
  /\ UNCHANGED <<runvars, timer, queue, size, ended, pipes, exited, released, doing, dead,
                 killer>>

CloseEnds ==
  /\ CloseHolds /\ exited
  /\ closer' = "done" /\ released' = TRUE
  /\ UNCHANGED <<runvars, timer, queue, size, ended, pipes, child, exited, doing, dead, killer>>

-----------------------------------------------------------------------------
\* ExifTool, and what it started

Prints(s, l) == IF s = "out" THEN outPipe' = Append(outPipe, l) /\ UNCHANGED errPipe
                ELSE errPipe' = Append(errPipe, l) /\ UNCHANGED outPipe

\* A line of its answer on one of the streams.
PrintLine(s) ==
  /\ tree /\ doing.n > 0 /\ doing[s] < MaxLines
  /\ ~(IF s = "out" THEN doing.ready ELSE doing.done)
  /\ doing' = [doing EXCEPT ![s] = @ + 1]
  /\ Prints(s, [n |-> doing.n, i |-> doing[s] + 1])
  /\ UNCHANGED <<runvars, timer, queue, size, ended, child, exited, released, stopping>>

\* {readyN} or {errdoneN}
Mark(s) ==
  /\ tree /\ doing.n > 0
  /\ IF s = "out" THEN ~doing.ready /\ doing' = [doing EXCEPT !.ready = TRUE]
                  ELSE ~doing.done /\ doing' = [doing EXCEPT !.done = TRUE]
  /\ Prints(s, [n |-> doing.n, i |-> 0])
  /\ UNCHANGED <<runvars, timer, queue, size, ended, child, exited, released, stopping>>

\* It ends, crashed or asked to; a child of it may live on with the pipes.
Exit ==
  /\ root /\ root' = FALSE
  /\ tree' \in BOOLEAN
  /\ UNCHANGED <<runvars, timer, queue, size, ended, pipes, exited, inOpen, released, doing,
                 stopping>>

\* Each goroutine goes on at its own pace: the caller's in run, the reader of
\* stderr, the one that waits for the process, and those of Kill, Close and timers.
RunGoes    == WriteFails \/ ReadOut \/ OutEnds \/ TakeErr \/ ErrEnds \/ Settle
StderrGoes == PushErr \/ EndErr
KillGoes   == KillKills \/ KillEnds
CloseGoes  == CloseAsks \/ CloseKills \/ CloseEnds
TimerGoes(n) == TimerFires(n) \/ TimerDecides(n) \/ TimerKills(n)

Next ==
  \/ \E limited \in Limits : Begin(limited)
  \/ Write \/ RunGoes \/ StderrGoes \/ Watch
  \/ KillCalled \/ KillGoes \/ CloseCalled \/ CloseGoes
  \/ \E n \in Call : TimerGoes(n)
  \/ \E s \in {"out", "err"} : PrintLine(s) \/ Mark(s)
  \/ Exit

Spec == Init /\ [][Next]_vars

\* Goroutines are scheduled, timers go off and pipes deliver.  Nothing is
\* assumed of ExifTool, which may hang, or of when Kill and Close are called,
\* but that the pool kills a process it replaces.
Fairness ==
  /\ WF_vars(RunGoes) /\ WF_vars(StderrGoes) /\ WF_vars(Watch)
  /\ WF_vars(KillGoes) /\ WF_vars(CloseGoes)
  /\ \A n \in Call : WF_vars(TimerGoes(n))
  /\ WF_vars(KillCalled /\ Failed)

FairSpec == Spec /\ Fairness

-----------------------------------------------------------------------------
\* Properties

\* The lines themselves are what WholeReply is about.
TypeOK ==
  /\ seq \in 0 .. MaxCalls
  /\ state \in [n : 0 .. MaxCalls, is : {"idle", "running", "timedOut"}]
  /\ pc \in {"rest", "write", "out", "err", "settle"} /\ res \in {"ok", "crash"}
  /\ timer \in [Call -> {"none", "armed", "fired", "won", "killed"}]
  /\ outcome \in [Call -> {"none", "ok", "crash", "timeout"}]
  /\ ended \in BOOLEAN /\ root \in BOOLEAN /\ tree \in BOOLEAN /\ exited \in BOOLEAN
  /\ inOpen \in BOOLEAN /\ released \in BOOLEAN /\ dead \in BOOLEAN
  /\ killer \in {"no", "marked", "killed", "done"}
  /\ closer \in {"no", "lock", "asked", "killed", "done"}

\* The first k lines a command printed.
Lines(n, k) == [i \in 1 .. k |-> [n |-> n, i |-> i]]

\* "no output leaks into the next block" (Run): a reply without error is all
\* its command printed on stdout, in order, and of its stderr the beginning
\* up to maxStderr, however the two pipes and the queue went.
WholeReply ==
  pc = "rest" /\ seq > 0 /\ outcome[seq] = "ok" =>
    /\ reply.out = Lines(seq, doing.out)
    /\ reply.err = Lines(seq, IF doing.err < MaxStderr THEN doing.err ELSE MaxStderr)

\* A timer and its command race, and one outcome stands: a timer that decides
\* to kill has a command that fails with TimedOut, a command without such a
\* timer never does, and no later command is on that process.  ("a timer that
\* fires late for one command can never stop the next one")
OneOutcome ==
  \A n \in Call :
    /\ timer[n] \in {"won", "killed"} => n = seq /\ outcome[n] \in {"none", "timeout"}
    /\ outcome[n] = "timeout" => timer[n] \in {"won", "killed"}

\* A command with a time limit returns although ExifTool hangs, and any
\* command returns once the process has ended, though what it started lives on
\* and has the pipes.
CallsReturn ==
  (pc # "rest" /\ (~root \/ timer[seq] # "none")) ~> pc = "rest"

\* Kill returns; Close returns once it has the mutex, and when a command hangs
\* in front of it, once Kill is called; a process that failed a command is
\* gone in the end, with what it started.
StopsReturn ==
  /\ killer = "marked" ~> killer = "done"
  /\ (closer = "asked" \/ (closer = "lock" /\ killer # "no")) ~> closer = "done"
  /\ Failed ~> ~root /\ ~tree

-----------------------------------------------------------------------------
\* The inductive invariant behind OneOutcome (Client_proofs)

\* The command in the state is the last one; commands before it were answered,
\* and their timers are stopped or have still to find out; "timedOut" stands
\* for a timer that has decided to kill.
RaceOK ==
  /\ state.n = seq
  /\ state.is = "timedOut" <=> (seq > 0 /\ timer[seq] \in {"won", "killed"})
  /\ IF pc = "rest"
     THEN /\ state.is # "running"
          /\ seq > 0 => /\ outcome[seq] # "none" /\ timer[seq] # "armed"
                        /\ outcome[seq] = "timeout" <=> state.is = "timedOut"
     ELSE seq > 0 /\ outcome[seq] = "none" /\ state.is # "idle"
  /\ \A n \in Call :
       /\ n < seq => outcome[n] = "ok" /\ timer[n] \in {"none", "fired"}
       /\ n > seq => outcome[n] = "none" /\ timer[n] = "none"

ClientInv == TypeOK /\ RaceOK

-----------------------------------------------------------------------------
\* The inductive invariant behind WholeReply, beside ClientInv

\* No command is under way and none has failed: what was printed has been read.
Answered == \/ pc = "rest" /\ ~Failed
            \/ pc = "write"
            \/ pc = "settle" /\ res = "ok"

\* The j-th thing a command prints on a stream of k lines: a line, then the marker.
Item(j, k) == [n |-> doing.n, i |-> IF j <= k THEN j ELSE 0]

\* How much of it has gone on from the stderr pipe.
Printed == doing.err + (IF doing.done THEN 1 ELSE 0)
Passed  == Printed - Len(errPipe)

\* The pipes hold the last of what the command has printed, in order.
OutLeft ==
  /\ Len(reply.out) + Len(outPipe) = doing.out + (IF doing.ready THEN 1 ELSE 0)
  /\ Len(reply.out) <= doing.out
  /\ \A j \in 1 .. Len(outPipe) : outPipe[j] = Item(Len(reply.out) + j, doing.out)
ErrLeft ==
  /\ Passed >= 0
  /\ \A j \in 1 .. Len(errPipe) : errPipe[j] = Item(Passed + j, doing.err)

\* The queue: size lines, of which the first ones follow those in the reply as long
\* as that has room for them, and the marker once it has gone on from the pipe.
\* As long as lines are missing from the reply and the queue, none was dropped.
MarkPassed == Passed > doing.err
QueueOK ==
  /\ size \in Nat /\ Len(queue) = size + (IF MarkPassed THEN 1 ELSE 0)
  /\ \A j \in 1 .. size :
       /\ queue[j].n = doing.n /\ queue[j].i > 0
       /\ Len(reply.err) + j <= MaxStderr => queue[j].i = Len(reply.err) + j
  /\ MarkPassed => queue[size + 1] = [n |-> doing.n, i |-> 0]
  /\ Len(reply.err) <= MaxStderr
  /\ reply.err = Lines(doing.n, Len(reply.err))
  /\ Len(reply.err) + size <= IF MarkPassed THEN doing.err ELSE Passed
  /\ Len(reply.err) + size < MaxStderr =>
       Len(reply.err) + size = IF MarkPassed THEN doing.err ELSE Passed

AnsweredOK ==
  Answered =>
    /\ outPipe = <<>> /\ errPipe = <<>> /\ queue = <<>> /\ size = 0
    /\ doing.n = 0 \/ (doing.ready /\ doing.done)
    /\ pc # "write" /\ seq > 0 =>
         /\ reply.out = Lines(seq, doing.out)
         /\ reply.err = Lines(seq, IF doing.err < MaxStderr THEN doing.err ELSE MaxStderr)

ReadingOK ==
  pc \in {"out", "err"} =>
    /\ doing.n = seq /\ ErrLeft /\ QueueOK
    /\ pc = "out" => OutLeft /\ reply.out = Lines(seq, Len(reply.out)) /\ reply.err = <<>>
    /\ pc = "err" => outPipe = <<>> /\ doing.ready /\ reply.out = Lines(seq, doing.out)

LinesOK ==
  /\ outPipe \in Seq(Line) /\ errPipe \in Seq(Line) /\ queue \in Seq(Line)
  /\ doing \in [n : 0 .. MaxCalls, out : Nat, err : Nat, ready : BOOLEAN, done : BOOLEAN]
  /\ pc = "write" => reply = [out |-> <<>>, err |-> <<>>]
  /\ pc \in {"out", "err"} => reply \in [out : Seq(Line), err : Seq(Line)]

WholeOK == LinesOK /\ AnsweredOK /\ ReadingOK
=============================================================================
