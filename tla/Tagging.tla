------------------------------ MODULE Tagging -------------------------------
(***************************************************************************)
(* The tag phase of a run: tagAll and writeTags in pipeline.go, with the   *)
(* interrupts of main.go.  A feeder hands groups to Worker goroutines,     *)
(* which share the ExifTool pool; Ctrl+C, a second one, the grace period   *)
(* and a pool that gives up each stop the phase in a way of its own.       *)
(*                                                                         *)
(* The pool is what Service promises: its Begin, Answer and Stop are steps *)
(* of this module.  What ExifTool does to a file during a call is modelled *)
(* here, processes that die in the middle of a write included.             *)
(***************************************************************************)
EXTENDS Naturals

CONSTANTS
  Worker,      \* the tagWorkers goroutines
  Count,       \* number of groups
  Plan,        \* what writeTags has to do for each group
  Before,      \* what an earlier run has left of each group
  Retries,     \* len(writeRetryDelays)
  MaxFaults    \* bound on the processes that die by themselves

Group == 1 .. Count

\* "none": not needsTags.  "nothing": an empty exiftool.Plan.  "unread": refused
\* before ExifTool is asked (readErr).  "caption": a Description alone, which
\* runWrite sends with needUpdate false.  "dates": everything else.
Plans == {"none", "nothing", "unread", "caption", "dates"}

\* Its stage in the journal ("placed" is any after "tagged"), whether the file
\* has the tags, and whether ExifTool's temporary copy is beside it.
Stage == {"staged", "tagged", "placed"}
Left  == [stage : Stage, written : BOOLEAN, temp : BOOLEAN]

ASSUME TaggingConstants ==
  /\ Count \in Nat /\ Retries \in Nat /\ MaxFaults \in Nat
  /\ Plan \in [Group -> Plans]
  /\ Before \in [Group -> Left]
  /\ \A g \in Group : Before[g].stage = "tagged" => Before[g].written

Errors == {"none", "unread", "locked", "refused", "file", "broken", "killed"}

VARIABLES
  waiting, late, answer, down,   \* the pool, as in Service
  cause,       \* why it is down: "no", "broken" or "killed"
  canceled,    \* parent's context is done: the first Ctrl+C
  broken,      \* tagAll.broken, set together with the call of stop()
  main, at,    \* tagAll's own goroutine, and the feeder's next group
  pc, hand,    \* where each worker is, and its group (0: none)
  tries,       \* retries of its write so far
  sends,       \* commands sent in its call of Pool.Run so far
  err,         \* the error writeTags is about to return to it
  stage,       \* journal: the stage of each group
  tagErr,      \* group.tagErr
  written,     \* the group's file has the tags
  temp,        \* ExifTool's temporary copy is beside it
  result,      \* what tagAll returned
  faults,      \* how many of MaxFaults are used up
  after        \* history: which worker began which write after the stop

S == INSTANCE Service WITH Caller <- Worker

service == <<waiting, late, answer, down>>
signals == <<canceled, broken>>
feeder  == <<main, at, result>>
worker  == <<pc, hand, tries, sends, err>>
files   == <<written, temp>>
books   == <<stage, tagErr>>
vars == <<service, cause, signals, feeder, worker, files, books, faults, after>>
-----------------------------------------------------------------------------
Stopping == canceled \/ broken      \* ctx.Err() # nil

\* needsTags, and no "tagged" record yet.
ToTag(g) == Plan[g] # "none" /\ stage[g] # "tagged"

Init ==
  /\ S!Init /\ cause = "no"
  /\ canceled = FALSE /\ broken = FALSE
  /\ main = "feed" /\ at = 1 /\ result = "none"
  /\ pc = [w \in Worker |-> "idle"] /\ hand = [w \in Worker |-> 0]
  /\ tries = [w \in Worker |-> 0] /\ sends = [w \in Worker |-> 0]
  /\ err = [w \in Worker |-> "none"]
  /\ stage = [g \in Group |-> Before[g].stage]
  /\ written = [g \in Group |-> Before[g].written]
  /\ temp = [g \in Group |-> Before[g].temp]
  /\ tagErr = [g \in Group |-> "none"]
  /\ faults = 0 /\ after = {}
-----------------------------------------------------------------------------
(* The feeder: jobs is unbuffered, so a group goes from hand to hand.      *)

PassOver ==
  /\ main = "feed" /\ at <= Count /\ ~ToTag(at)
  /\ at' = at + 1
  /\ UNCHANGED <<service, cause, signals, main, result, worker, files, books,
                 faults, after>>

\* A select with both cases ready takes either: also after the stop.
Offer(w) ==
  /\ main = "feed" /\ at <= Count /\ ToTag(at) /\ pc[w] = "idle"
  /\ at' = at + 1
  /\ pc' = [pc EXCEPT ![w] = "picked"] /\ hand' = [hand EXCEPT ![w] = at]
  /\ UNCHANGED <<service, cause, signals, main, result, tries, sends, err, files,
                 books, faults, after>>

\* Variant (must fail): the feeder waits for a worker, whatever happens.
FedAll == at > Count

FeedOver == at <= Count => ToTag(at) /\ Stopping

EndFeed ==
  /\ main = "feed" /\ FeedOver
  /\ main' = "wait"
  /\ UNCHANGED <<service, cause, signals, at, result, worker, files, books,
                 faults, after>>
-----------------------------------------------------------------------------
(* A worker.                                                               *)

\* Variant (must fail): the worker does not look again.
NeverDrops == FALSE

\* "After Ctrl+C no new write starts."
Drops == Stopping

\* The worker is done with its group.
Finish(w) ==
  /\ pc' = [pc EXCEPT ![w] = "idle"] /\ hand' = [hand EXCEPT ![w] = 0]
  /\ err' = [err EXCEPT ![w] = "none"]
  /\ tries' = [tries EXCEPT ![w] = 0] /\ sends' = [sends EXCEPT ![w] = 0]
  /\ S!Forget(w)

Drop(w) ==
  /\ pc[w] = "picked" /\ Drops
  /\ Finish(w)
  /\ UNCHANGED <<cause, signals, feeder, files, books, faults, after>>

\* writeTags up to runWrite.
Prepare(w) ==
  /\ pc[w] = "picked" /\ ~Drops
  /\ LET p == Plan[hand[w]] IN
       /\ pc' = [pc EXCEPT ![w] = IF p \in {"caption", "dates"} THEN "ready" ELSE "done"]
       /\ err' = [err EXCEPT ![w] = IF p = "unread" THEN "unread" ELSE "none"]
  /\ UNCHANGED <<service, cause, signals, feeder, hand, tries, sends, files, books,
                 faults, after>>

\* Variant (must fail): the copy is removed before the first attempt alone.
ClearedOnce(w) ==
  IF pc[w] = "ready" THEN [temp EXCEPT ![hand[w]] = FALSE] ELSE temp

\* os.Remove in writeTags and in retryWait.
Cleared(w) == [temp EXCEPT ![hand[w]] = FALSE]

\* The call of Pool.Run, the first time or after a wait.
Begin(w) ==
  /\ pc[w] \in {"ready", "asleep"}
  /\ S!Begin(w)
  /\ temp' = Cleared(w)
  /\ pc' = [pc EXCEPT ![w] = "calling"] /\ sends' = [sends EXCEPT ![w] = 1]
  /\ after' = IF Stopping /\ pc[w] = "ready" THEN after \cup {<<w, hand[w]>>} ELSE after
  /\ UNCHANGED <<cause, signals, feeder, hand, tries, err, written, books, faults>>
-----------------------------------------------------------------------------
(* During the call.  Pool.Run sends a command once more after a crash.     *)

\* In a pool that is down processes are killed, which is no fault.
Fault ==
  IF down THEN UNCHANGED faults ELSE faults < MaxFaults /\ faults' = faults + 1

\* The process ends before, during or after the write; ExifTool writes a
\* temporary copy and renames it.
Dies(w) ==
  LET g == hand[w] IN
  /\ pc[w] = "calling" /\ sends[w] <= 2
  /\ sends' = [sends EXCEPT ![w] = @ + 1]
  /\ \/ UNCHANGED files
     \/ temp' = [temp EXCEPT ![g] = TRUE] /\ UNCHANGED written
     \/ ~temp[g] /\ written' = [written EXCEPT ![g] = TRUE] /\ UNCHANGED temp
  /\ Fault
  /\ UNCHANGED <<service, cause, signals, feeder, pc, hand, tries, err, books, after>>

\* transientWriteError, and an attempt left.
Retried(w, r) == r = "locked" /\ tries[w] < Retries

\* Variant (must fail): no reply is looked at.
ToldNothing(g, r) == "none"

\* needUpdate is false for a caption: its reply is not looked at.
Told(g, r) == IF r = "updated" \/ Plan[g] = "caption" THEN "none" ELSE r

Reply(w, r) ==
  LET g == hand[w]  e == Told(g, r) IN
  /\ pc[w] = "calling" /\ sends[w] <= 2
  /\ S!Answer(w, "reply")
  /\ temp[g] => r = "locked"        \* "temporary file already exists"
  /\ written' = IF r = "updated" THEN [written EXCEPT ![g] = TRUE] ELSE written
  /\ IF Retried(w, e)
     THEN /\ pc' = [pc EXCEPT ![w] = "asleep"]
          /\ tries' = [tries EXCEPT ![w] = @ + 1] /\ UNCHANGED err
     ELSE /\ pc' = [pc EXCEPT ![w] = "done"]
          /\ err' = [err EXCEPT ![w] = e] /\ UNCHANGED tries
  /\ UNCHANGED <<cause, signals, feeder, hand, sends, temp, books, faults,
                 after>>

Fails(w, a, e) ==
  /\ pc[w] = "calling" /\ S!Answer(w, a)
  /\ pc' = [pc EXCEPT ![w] = "done"] /\ err' = [err EXCEPT ![w] = e]
  /\ UNCHANGED <<cause, signals, feeder, hand, tries, sends, files, books, faults, after>>

\* A FileError, after a time limit or a second crash.
Blamed(w) == sends[w] >= 2 /\ Fails(w, "file", "file")

\* A BrokenError or ErrKilled.
Stopped(w) == Fails(w, "stop", cause)
-----------------------------------------------------------------------------
(* What the worker makes of it.                                            *)

GiveUp(w) ==
  /\ pc[w] = "done" /\ err[w] = "broken"
  /\ broken' = TRUE
  /\ Finish(w)
  /\ UNCHANGED <<cause, canceled, feeder, files, books, faults, after>>

\* Variant (must fail): an error counts whatever else has happened.
CountsAlways(w) == err[w] \notin {"none", "broken"}

\* An error that counts: not that of a write that was interrupted.
Counts(w) == err[w] \notin {"none", "broken"} /\ ~Stopping

CountError(w) ==
  /\ pc[w] = "done" /\ Counts(w)
  /\ tagErr' = [tagErr EXCEPT ![hand[w]] = err[w]]
  /\ Finish(w)
  /\ UNCHANGED <<cause, signals, feeder, files, stage, faults, after>>

\* "Interrupted mid-write: leave it for the next run."
Abandon(w) ==
  /\ pc[w] = "done" /\ err[w] \notin {"none", "broken"} /\ ~Counts(w)
  /\ Finish(w)
  /\ UNCHANGED <<cause, signals, feeder, files, books, faults, after>>

\* A file already on its way into the library keeps its record.
Record(w) ==
  /\ pc[w] = "done" /\ err[w] = "none"
  /\ stage' = IF stage[hand[w]] \in {"staged", "tagged"}
              THEN [stage EXCEPT ![hand[w]] = "tagged"] ELSE stage
  /\ Finish(w)
  /\ UNCHANGED <<cause, signals, feeder, files, tagErr, faults, after>>
-----------------------------------------------------------------------------
(* Stopping.                                                               *)

Interrupt ==
  /\ ~canceled /\ main # "over"
  /\ canceled' = TRUE
  /\ UNCHANGED <<service, cause, broken, feeder, worker, files, books,
                 faults, after>>

Kill ==
  /\ cause' = "killed"
  /\ IF down THEN UNCHANGED service ELSE S!Stop

\* The second Ctrl+C closes force: killOnForce kills, whatever tagAll is doing.
ForceKill ==
  /\ canceled /\ cause # "killed" /\ main # "over"
  /\ Kill
  /\ UNCHANGED <<signals, feeder, worker, files, books, faults, after>>

\* The pool gives up while a command of it keeps failing.
Breaks ==
  /\ \E w \in waiting : sends[w] >= 2
  /\ S!Stop /\ cause' = "broken"
  /\ UNCHANGED <<signals, feeder, worker, files, books, faults, after>>

\* jobs is closed, and the workers have left their loops.
AllDone == \A w \in Worker : pc[w] = "idle"

\* Variant (must fail): the pool's error is dropped.
ResultOfParent == IF canceled THEN "stopped" ELSE "finished"

Result == IF broken THEN "broken" ELSE IF canceled THEN "stopped" ELSE "finished"

\* done is closed: result().
Return ==
  /\ main \in {"wait", "grace", "drain"} /\ AllDone
  /\ main' = "over" /\ result' = Result
  /\ UNCHANGED <<service, cause, signals, at, worker, files, books, faults, after>>

\* <-ctx.Done().  A pool that gave up lets its callers go by itself.
StopSeen ==
  /\ main = "wait" /\ Stopping
  /\ main' = IF broken THEN "drain" ELSE "grace"
  /\ UNCHANGED <<service, cause, signals, at, result, worker, files, books, faults, after>>

AfterKill == "drain"

\* time.After(grace), or <-force: ForceKill may come first or at once.
GraceEnds ==
  /\ main = "grace"
  /\ Kill
  /\ main' = AfterKill
  /\ UNCHANGED <<signals, at, result, worker, files, books, faults, after>>

\* The next phase, or the end of the run.
Over == main = "over" /\ UNCHANGED vars
-----------------------------------------------------------------------------
Call(w)    == \/ Begin(w) \/ Dies(w) \/ Blamed(w) \/ Stopped(w)
              \/ \E r \in {"updated", "locked", "refused"} : Reply(w, r)
Outcome(w) == GiveUp(w) \/ CountError(w) \/ Abandon(w) \/ Record(w)
Work(w)    == Offer(w) \/ Drop(w) \/ Prepare(w) \/ Call(w) \/ Outcome(w)
TagAll     == PassOver \/ EndFeed \/ StopSeen \/ GraceEnds \/ Return
Environment == Interrupt \/ ForceKill \/ Breaks

Next == TagAll \/ Environment \/ Over \/ \E w \in Worker : Work(w)

Spec == Init /\ [][Next]_vars

\* What a worker does without an answer of the pool's; of the answers, only
\* those of a pool that is down are sure to come (Pool's EveryCallReturns).
Alone(w) == Drop(w) \/ Prepare(w) \/ Begin(w) \/ Stopped(w) \/ Outcome(w)

\* If some goroutine can go on, or the grace timer fire, one does.  Nothing here
\* can happen for ever, so none is left out in the end.
FairSpec == Spec /\ WF_vars(TagAll \/ \E w \in Worker : Alone(w))
-----------------------------------------------------------------------------
TypeOK ==
  /\ waiting \subseteq Worker /\ late \subseteq Worker /\ down \in BOOLEAN
  /\ answer \in [Worker -> {"none", "reply", "file", "stop", "ctx"}]
  /\ cause \in {"no", "broken", "killed"}
  /\ canceled \in BOOLEAN /\ broken \in BOOLEAN
  /\ main \in {"feed", "wait", "grace", "drain", "over"}
  /\ at \in 1 .. Count + 1
  /\ pc \in [Worker -> {"idle", "picked", "ready", "calling", "asleep", "done"}]
  /\ hand \in [Worker -> 0 .. Count]
  /\ tries \in [Worker -> 0 .. Retries] /\ sends \in [Worker -> 0 .. 3]
  /\ err \in [Worker -> Errors]
  /\ stage \in [Group -> Stage]
  /\ tagErr \in [Group -> Errors]
  /\ written \in [Group -> BOOLEAN] /\ temp \in [Group -> BOOLEAN]
  /\ result \in {"none", "finished", "stopped", "broken"}
  /\ faults \in Nat /\ after \subseteq Worker \X Group

\* A "tagged" record speaks of a file that has its date and place: the next
\* run skips it.  (writeTags, the default case of tagAll)
TaggedIsWritten ==
  \A g \in Group : Plan[g] = "dates" /\ stage[g] = "tagged" => written[g]

\* What stopped the phase, the user or the pool, is never a file's error.
StopNotBlamed == \A g \in Group : tagErr[g] \notin {"broken", "killed"}

\* A temporary copy that ExifTool trips over is one the same call of Pool.Run
\* has left: neither a stopped run nor an earlier attempt costs an attempt.
\* (os.Remove in writeTags, retryWait)
NoStaleCopy ==
  \A w \in Worker : pc[w] = "calling" /\ temp[hand[w]] => sends[w] >= 2

\* After the stop each worker starts at most the write it had in hand.
InFlightOnly == \A a, b \in after : a[1] = b[1] => a = b

\* A group is tagged, has an error that is counted, or needs neither.
Settled(g) ==
  \/ Plan[g] = "none" \/ tagErr[g] # "none"
  \/ stage[g] # "staged" /\ (Plan[g] = "dates" => written[g])

\* A phase that reports neither a stop nor an error has tagged each file or
\* counted an error of it.  (tagAll, result)
FinishedIsComplete == result = "finished" => \A g \in Group : Settled(g)

\* Once tagAll has returned, no worker touches the journal, which Run closes,
\* or a file, which place moves.
NothingAfterReturn == [][main = "over" => UNCHANGED <<books, files, waiting>>]_vars

\* A stop ends the phase, though a command may never answer by itself.
EndsWhenStopped == (canceled \/ broken) ~> main = "over"
-----------------------------------------------------------------------------
(* What the proofs need besides: an inductive strengthening.               *)

Busy(w) == pc[w] # "idle"

\* Only the user's stop leads to a kill.
StopOK ==
  /\ down => cause # "no"
  /\ cause = "killed" => canceled
  /\ main = "grace" => canceled

\* No two workers have one group, and each knows what its pc says.
WorkOK ==
  /\ \A w \in Worker :
       /\ Busy(w) => hand[w] \in Group /\ hand[w] < at
       /\ err[w] = "killed" => canceled
       /\ pc[w] = "calling" => sends[w] >= 1
       /\ pc[w] = "done" /\ err[w] = "none" /\ Plan[hand[w]] = "dates" => written[hand[w]]
  /\ \A u, w \in Worker : Busy(u) /\ Busy(w) /\ hand[u] = hand[w] => u = w

\* Who began a write after the stop is in it, or begins no other.
AfterOK ==
  \A e \in after :
    /\ Stopping /\ pc[e[1]] # "ready"
    /\ pc[e[1]] \in {"calling", "asleep", "done"} => hand[e[1]] = e[2]

\* Until the phase stops, each group the feeder has passed is settled or in a
\* worker's hand.
OrderOK ==
  /\ \A g \in Group : g < at => \/ Settled(g) \/ Stopping
                              \/ \E w \in Worker : Busy(w) /\ hand[w] = g
  /\ main # "feed" => at > Count \/ Stopping
  /\ main = "over" => \A w \in Worker : pc[w] = "idle"

TagInv ==
  /\ TypeOK /\ StopOK /\ WorkOK /\ AfterOK /\ OrderOK
  /\ TaggedIsWritten /\ StopNotBlamed /\ NoStaleCopy /\ InFlightOnly /\ FinishedIsComplete
=============================================================================
