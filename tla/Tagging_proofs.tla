--------------------------- MODULE Tagging_proofs ---------------------------
(***************************************************************************)
(* For any number of workers, groups and retries, any plan of writes and   *)
(* whatever an earlier run has left: a record is true of its file, a stop  *)
(* is no file's error, nothing new starts after it, and tagAll returns     *)
(* when its workers have ended, with an outcome that is complete.          *)
(*                                                                         *)
(* One lemma for each action, one step in it for each part of TagInv.      *)
(***************************************************************************)
EXTENDS Tagging, TLAPS

-----------------------------------------------------------------------------
(* The feeder. *)

\* A group passed over needs no tags, or has a record that is true.
LEMMA PassOverOK ==
  ASSUME TagInv, PassOver
  PROVE  TagInv'
<1>1. TypeOK'
  BY TaggingConstants DEF TagInv, TypeOK, PassOver, service, signals, worker, files, books
<1>2. WorkOK'
  BY DEF TagInv, TypeOK, WorkOK, PassOver, Busy, signals, worker, files
<1>3. OrderOK'
  <2>1. at \in Group /\ at' = at + 1
    BY DEF TagInv, TypeOK, PassOver, Group
  <2>2. Settled(at)
    BY <2>1 DEF TagInv, TaggedIsWritten, Settled, PassOver, ToTag
  <2>3. \A g \in Group : g < at' => g < at \/ g = at
    BY <2>1 DEF Group
  <2> QED
    BY <2>2, <2>3 DEF TagInv, OrderOK, PassOver, Settled, Busy, Stopping, signals,
      worker, files, books
<1>4. StopOK' /\ AfterOK' /\ TaggedIsWritten' /\ StopNotBlamed'
      /\ NoStaleCopy' /\ InFlightOnly' /\ FinishedIsComplete'
  BY DEF TagInv, StopOK, PassOver, AfterOK, Stopping, TaggedIsWritten, StopNotBlamed,
    NoStaleCopy, InFlightOnly, FinishedIsComplete, Settled, service, signals, worker,
    files, books
<1> QED
  BY <1>1, <1>2, <1>3, <1>4 DEF TagInv

\* The group offered has the greatest number yet: nobody else has it.
LEMMA OfferOK ==
  ASSUME TagInv, NEW w \in Worker, Offer(w)
  PROVE  TagInv'
<1>1. TypeOK'
  BY TaggingConstants DEF TagInv, TypeOK, Offer, service, signals, files, books
<1>2. WorkOK'
  BY DEF TagInv, TypeOK, WorkOK, Offer, Busy, Group, signals, files
<1>3. OrderOK'
  BY DEF TagInv, TypeOK, OrderOK, Offer, Settled, Busy, Stopping, Group, signals, files,
    books
<1>4. StopOK' /\ AfterOK' /\ TaggedIsWritten' /\ StopNotBlamed'
      /\ NoStaleCopy' /\ InFlightOnly' /\ FinishedIsComplete'
  BY DEF TagInv, StopOK, Offer, AfterOK, Stopping, TaggedIsWritten, StopNotBlamed,
    NoStaleCopy, InFlightOnly, FinishedIsComplete, Settled, service, signals, files,
    books
<1> QED
  BY <1>1, <1>2, <1>3, <1>4 DEF TagInv

\* The feeder ends after the last group or a stop.
LEMMA EndFeedOK ==
  ASSUME TagInv, EndFeed
  PROVE  TagInv'
<1>1. TypeOK'
  BY DEF TagInv, TypeOK, EndFeed, service, signals, worker, files, books
<1>2. WorkOK'
  BY DEF TagInv, WorkOK, EndFeed, Busy, signals, worker, files
<1>3. OrderOK'
  BY TaggingConstants DEF TagInv, TypeOK, OrderOK, EndFeed, FeedOver, Settled, Busy,
    Stopping, signals, worker, files, books
<1>4. StopOK' /\ AfterOK' /\ TaggedIsWritten' /\ StopNotBlamed'
      /\ NoStaleCopy' /\ InFlightOnly' /\ FinishedIsComplete'
  BY DEF TagInv, StopOK, EndFeed, AfterOK, Stopping, TaggedIsWritten, StopNotBlamed,
    NoStaleCopy, InFlightOnly, FinishedIsComplete, Settled, service, signals, worker,
    files, books
<1> QED
  BY <1>1, <1>2, <1>3, <1>4 DEF TagInv

-----------------------------------------------------------------------------
(* A worker. *)

\* A group is dropped only after a stop, so it need not be settled.
LEMMA DropOK ==
  ASSUME TagInv, NEW w \in Worker, Drop(w)
  PROVE  TagInv'
<1>1. TypeOK'
  BY TaggingConstants DEF TagInv, TypeOK, Drop, Finish, S!Forget, Errors, signals,
    feeder, files, books
<1>2. WorkOK'
  BY DEF TagInv, TypeOK, WorkOK, Drop, Finish, Busy, signals, feeder, files
<1>3. AfterOK'
  BY DEF TagInv, AfterOK, Drop, Finish, Stopping, signals
<1>4. OrderOK'
  BY DEF TagInv, OrderOK, Drop, Drops, Stopping, signals, feeder
<1>5. StopOK' /\ TaggedIsWritten' /\ StopNotBlamed' /\ NoStaleCopy'
      /\ InFlightOnly' /\ FinishedIsComplete'
  BY DEF TagInv, StopOK, Drop, Finish, S!Forget, TaggedIsWritten, StopNotBlamed,
    NoStaleCopy, InFlightOnly, FinishedIsComplete, Settled, signals, feeder, files,
    books
<1> QED
  BY <1>1, <1>2, <1>3, <1>4, <1>5 DEF TagInv

\* Prepare does not reach "ready" after the stop.
LEMMA PrepareOK ==
  ASSUME TagInv, NEW w \in Worker, Prepare(w)
  PROVE  TagInv'
<1>1. TypeOK'
  BY DEF TagInv, TypeOK, Prepare, Errors, service, signals, feeder, files, books
<1>2. StopOK'
  BY DEF TagInv, StopOK, Prepare, Drops, Stopping, service, feeder
<1>3. WorkOK'
  BY DEF TagInv, WorkOK, Prepare, Drops, Busy, Stopping, feeder, files
<1>4. AfterOK'
  BY DEF TagInv, AfterOK, Prepare, Drops
<1>5. OrderOK'
  BY DEF TagInv, OrderOK, Prepare, Drops, Settled, Busy, feeder, files, books
<1>6. TaggedIsWritten' /\ StopNotBlamed' /\ NoStaleCopy'
      /\ InFlightOnly' /\ FinishedIsComplete'
  BY DEF TagInv, TaggedIsWritten, Prepare, StopNotBlamed, NoStaleCopy, InFlightOnly,
    FinishedIsComplete, Settled, feeder, files, books
<1> QED
  BY <1>1, <1>2, <1>3, <1>4, <1>5, <1>6 DEF TagInv

\* The copy is removed before the command is sent.
LEMMA BeginOK ==
  ASSUME TagInv, NEW w \in Worker, Begin(w)
  PROVE  TagInv'
<1>1. TypeOK'
  BY DEF TagInv, TypeOK, Begin, Cleared, S!Begin, WorkOK, Busy, signals, feeder, books
<1>2. WorkOK'
  BY DEF TagInv, TypeOK, WorkOK, Begin, Busy, signals, feeder
<1>3. AfterOK'
  BY DEF TagInv, TypeOK, AfterOK, Begin, Stopping, signals
<1>4. OrderOK'
  BY DEF TagInv, OrderOK, Begin, Settled, Busy, Stopping, signals, feeder, books
<1>5. NoStaleCopy'
  BY DEF TagInv, TypeOK, NoStaleCopy, Begin, Cleared, WorkOK, Busy
<1>6. InFlightOnly'
  <2>1. \A e \in after : e \in Worker \X Group /\ pc[e[1]] # "ready"
    BY DEF TagInv, TypeOK, AfterOK
  <2>2. CASE after' = after
    BY <2>2 DEF TagInv, InFlightOnly
  <2>3. CASE pc[w] = "ready" /\ after' = after \cup {<<w, hand[w]>>}
    <3>1. \A e \in after : e[1] # w
      BY <2>1, <2>3
    <3> QED
      BY <2>3, <3>1 DEF TagInv, InFlightOnly
  <2> QED
    BY <2>2, <2>3 DEF Begin
<1>7. StopOK' /\ TaggedIsWritten' /\ StopNotBlamed' /\ FinishedIsComplete'
  BY DEF TagInv, StopOK, Begin, S!Begin, TaggedIsWritten, StopNotBlamed,
    FinishedIsComplete, Settled, signals, feeder, books
<1> QED
  BY <1>1, <1>2, <1>3, <1>4, <1>5, <1>6, <1>7 DEF TagInv

\* A process that dies may leave a copy, and the command is sent again.
LEMMA DiesOK ==
  ASSUME TagInv, NEW w \in Worker, Dies(w)
  PROVE  TagInv'
<1>1. TypeOK'
  <2>1. hand[w] \in Group /\ sends[w] \in 0 .. 3
    BY DEF TagInv, TypeOK, WorkOK, Busy, Dies
  <2>2. written' \in [Group -> BOOLEAN] /\ temp' \in [Group -> BOOLEAN]
    BY <2>1 DEF TagInv, TypeOK, Dies, files
  <2>3. sends' \in [Worker -> 0 .. 3]
    BY DEF TagInv, TypeOK, Dies
  <2>4. faults' \in Nat
    BY DEF TagInv, TypeOK, Dies, Fault
  <2> QED
    BY <2>2, <2>4 DEF TagInv, TypeOK, Dies, service, signals, feeder, books
<1>2. WorkOK'
  <2>1. pc' = pc /\ hand' = hand /\ err' = err /\ at' = at /\ canceled' = canceled
    BY DEF Dies, feeder, signals
  <2>2. \A g \in Group : written[g] => written'[g]
    BY DEF TagInv, TypeOK, Dies, files
  <2>3. \A v \in Worker : pc[v] = "calling" => sends'[v] >= 1
    BY DEF TagInv, TypeOK, WorkOK, Dies
  <2> QED
    BY <2>1, <2>2, <2>3 DEF TagInv, WorkOK, Busy
<1>3. OrderOK'
  BY DEF TagInv, TypeOK, OrderOK, Dies, Settled, Busy, Stopping, signals, feeder, files,
    books
<1>4. TaggedIsWritten'
  <2>1. \A g \in Group : written[g] => written'[g]
    BY DEF TagInv, TypeOK, Dies, files
  <2> QED
    BY <2>1 DEF TagInv, TypeOK, TaggedIsWritten, Dies, books
<1>5. NoStaleCopy'
  <2> SUFFICES ASSUME NEW v \in Worker, pc'[v] = "calling", temp'[hand'[v]]
               PROVE  sends'[v] >= 2
    BY DEF NoStaleCopy
  <2>1. CASE v = w
    BY <2>1 DEF TagInv, TypeOK, WorkOK, Dies
  <2>2. CASE v # w
    <3>1. hand[v] # hand[w] /\ hand[w] \in Group /\ hand[v] \in Group
      BY <2>2 DEF TagInv, WorkOK, Busy, Dies
    <3> QED
      BY <3>1 DEF TagInv, TypeOK, NoStaleCopy, Dies, files
  <2> QED
    BY <2>1, <2>2
<1>6. FinishedIsComplete'
  <2>1. \A g \in Group : written[g] => written'[g]
    BY DEF TagInv, TypeOK, Dies, files
  <2> QED
    BY <2>1 DEF TagInv, TypeOK, FinishedIsComplete, Dies, Settled, feeder, books
<1>7. StopOK' /\ AfterOK' /\ StopNotBlamed' /\ InFlightOnly'
  BY DEF TagInv, StopOK, Dies, AfterOK, Stopping, StopNotBlamed, InFlightOnly, service,
    signals, feeder, books
<1> QED
  BY <1>1, <1>2, <1>3, <1>4, <1>5, <1>6, <1>7 DEF TagInv

\* A reply that is an error of dates is told to the worker.
LEMMA ReplyOK ==
  ASSUME TagInv, NEW w \in Worker, NEW r \in {"updated", "locked", "refused"}, Reply(w, r)
  PROVE  TagInv'
<1>1. TypeOK'
  <2>1. hand[w] \in Group /\ tries[w] \in 0 .. Retries
    BY DEF TagInv, TypeOK, WorkOK, Busy, Reply
  <2>2. Told(hand[w], r) \in Errors
    BY DEF Told, Errors
  <2>3. waiting' \subseteq Worker /\ answer' \in [Worker -> {"none", "reply", "file", "stop", "ctx"}]
    BY DEF TagInv, TypeOK, Reply, S!Answer
  <2>4. written' \in [Group -> BOOLEAN]
    BY <2>1 DEF TagInv, TypeOK, Reply
  <2>5. CASE Retried(w, Told(hand[w], r))
    <3>1. tries' \in [Worker -> 0 .. Retries]
      BY TaggingConstants DEF TagInv, TypeOK, Reply, Retried
    <3> QED
      BY <2>4, <2>5, <3>1 DEF TagInv, TypeOK, Reply, S!Answer, signals, feeder, books
  <2>6. CASE ~Retried(w, Told(hand[w], r))
    BY <2>2, <2>4, <2>6 DEF TagInv, TypeOK, Reply, S!Answer, signals, feeder, books
  <2> QED
    BY <2>5, <2>6
<1>2. WorkOK'
  <2>1. hand' = hand /\ at' = at /\ canceled' = canceled /\ sends' = sends
    BY DEF Reply, feeder, signals
  <2>2. \A v \in Worker : Busy(v)' <=> Busy(v)
    BY DEF TagInv, TypeOK, Busy, Reply
  <2>3. \A v \in Worker : err'[v] = "killed" => err[v] = "killed"
    BY DEF TagInv, TypeOK, Reply, Told
  <2>4. \A v \in Worker : pc'[v] = "calling" => pc[v] = "calling"
    BY DEF TagInv, TypeOK, Reply
  <2>5. ASSUME NEW v \in Worker, pc'[v] = "done", err'[v] = "none", Plan[hand'[v]] = "dates"
        PROVE  written'[hand'[v]]
    BY <2>5 DEF TagInv, TypeOK, WorkOK, Busy, Reply, Told
  <2> QED
    BY <2>1, <2>2, <2>3, <2>4, <2>5 DEF TagInv, WorkOK
<1>3. AfterOK'
  BY DEF TagInv, TypeOK, AfterOK, Reply, Stopping, signals
<1>4. OrderOK'
  BY DEF TagInv, TypeOK, OrderOK, Reply, Settled, Busy, Stopping, signals, feeder, books
<1>5. NoStaleCopy'
  BY DEF TagInv, TypeOK, NoStaleCopy, Reply
<1>6. StopOK' /\ TaggedIsWritten' /\ StopNotBlamed'
      /\ InFlightOnly' /\ FinishedIsComplete'
  BY DEF TagInv, StopOK, Reply, S!Answer, TaggedIsWritten, StopNotBlamed, InFlightOnly,
    FinishedIsComplete, Settled, signals, feeder, books
<1> QED
  BY <1>1, <1>2, <1>3, <1>4, <1>5, <1>6 DEF TagInv

\* The pool blames the file, the process was not killed.
LEMMA BlamedOK ==
  ASSUME TagInv, NEW w \in Worker, Blamed(w)
  PROVE  TagInv'
<1>1. TypeOK'
  BY DEF TagInv, TypeOK, Blamed, Fails, S!Answer, Errors, WorkOK, signals, feeder,
    files, books
<1>2. WorkOK'
  BY DEF TagInv, TypeOK, WorkOK, Blamed, Fails, Busy, signals, feeder, files
<1>3. StopOK' /\ AfterOK' /\ OrderOK' /\ TaggedIsWritten' /\ StopNotBlamed'
      /\ NoStaleCopy' /\ InFlightOnly' /\ FinishedIsComplete'
  BY DEF TagInv, StopOK, Blamed, Fails, S!Answer, AfterOK, Stopping, OrderOK, Settled,
    Busy, TaggedIsWritten, StopNotBlamed, NoStaleCopy, InFlightOnly, FinishedIsComplete,
    signals, feeder, files, books
<1> QED
  BY <1>1, <1>2, <1>3 DEF TagInv

\* Only a pool that is down says so.
LEMMA StoppedOK ==
  ASSUME TagInv, NEW w \in Worker, Stopped(w)
  PROVE  TagInv'
<1>1. TypeOK'
  <2>1. cause \in Errors
    BY DEF TagInv, TypeOK, StopOK, Stopped, Fails, S!Answer, S!Allowed, Errors
  <2>2. waiting' \subseteq Worker /\ answer' \in [Worker -> {"none", "reply", "file", "stop", "ctx"}]
    BY DEF TagInv, TypeOK, Stopped, Fails, S!Answer
  <2> QED
    BY <2>1 DEF TagInv, TypeOK, Stopped, Fails, S!Answer, signals, feeder, files, books
<1>2. WorkOK'
  <2>1. cause \in {"broken", "killed"}
    BY DEF TagInv, TypeOK, StopOK, Stopped, Fails, S!Answer, S!Allowed
  <2>2. \A v \in Worker : Busy(v)' <=> Busy(v)
    BY DEF Busy, Stopped, Fails
  <2>3. \A v \in Worker : err'[v] = "killed" => canceled'
    BY DEF TagInv, StopOK, WorkOK, Stopped, Fails, signals
  <2>4. \A v \in Worker : pc'[v] = "calling" => pc[v] = "calling"
    BY DEF Stopped, Fails
  <2>5. \A v \in Worker : pc'[v] = "done" /\ err'[v] = "none" => pc[v] = "done" /\ err[v] = "none"
    BY DEF TagInv, TypeOK, Stopped, Fails
  <2> QED
    BY <2>2, <2>3, <2>5 DEF TagInv, WorkOK, Stopped, Fails, feeder, files
<1>3. StopOK' /\ AfterOK' /\ OrderOK' /\ TaggedIsWritten' /\ StopNotBlamed'
      /\ NoStaleCopy' /\ InFlightOnly' /\ FinishedIsComplete'
  BY DEF TagInv, StopOK, Stopped, Fails, S!Answer, AfterOK, Stopping, OrderOK, Settled,
    Busy, TaggedIsWritten, StopNotBlamed, NoStaleCopy, InFlightOnly, FinishedIsComplete,
    signals, feeder, files, books
<1> QED
  BY <1>1, <1>2, <1>3 DEF TagInv

\* The worker passes the stop on before it lets its group go.
LEMMA GiveUpOK ==
  ASSUME TagInv, NEW w \in Worker, GiveUp(w)
  PROVE  TagInv'
<1>1. TypeOK'
  BY TaggingConstants DEF TagInv, TypeOK, GiveUp, Finish, S!Forget, Errors, feeder,
    files, books
<1>2. StopOK'
  BY DEF TagInv, StopOK, GiveUp, Finish, S!Forget, feeder
<1>3. WorkOK'
  BY DEF TagInv, TypeOK, WorkOK, GiveUp, Finish, Busy, feeder, files
<1>4. AfterOK'
  BY DEF TagInv, TypeOK, AfterOK, GiveUp, Finish, Stopping
<1>5. OrderOK'
  BY DEF TagInv, OrderOK, GiveUp, Stopping, feeder
<1>6. TaggedIsWritten'
  BY DEF TagInv, TaggedIsWritten, GiveUp, files, books
<1>7. StopNotBlamed'
  BY DEF TagInv, StopNotBlamed, GiveUp, books
<1>8. NoStaleCopy'
  BY DEF TagInv, NoStaleCopy, GiveUp, Finish, files
<1>9. InFlightOnly'
  BY DEF TagInv, InFlightOnly, GiveUp
<1>10. FinishedIsComplete'
  BY DEF TagInv, FinishedIsComplete, GiveUp, Settled, feeder, files, books
<1> QED
  BY <1>1, <1>2, <1>3, <1>4, <1>5, <1>6, <1>7, <1>8, <1>9, <1>10 DEF TagInv

\* The error counted is not that of the stop: nothing stops the phase yet.
LEMMA CountErrorOK ==
  ASSUME TagInv, NEW w \in Worker, CountError(w)
  PROVE  TagInv'
<1>1. TypeOK'
  BY TaggingConstants DEF TagInv, TypeOK, CountError, Finish, S!Forget, Errors, WorkOK,
    Busy, signals, feeder, files
<1>2. WorkOK'
  BY DEF TagInv, TypeOK, WorkOK, CountError, Counts, Finish, Busy, Stopping, feeder, files
<1>3. OrderOK'
  BY DEF TagInv, TypeOK, OrderOK, CountError, Counts, Finish, Settled, Busy, feeder, files
<1>4. StopNotBlamed'
  BY DEF TagInv, StopNotBlamed, CountError, Counts, Stopping, WorkOK
<1>5. StopOK' /\ AfterOK' /\ TaggedIsWritten' /\ NoStaleCopy'
      /\ InFlightOnly' /\ FinishedIsComplete'
  BY DEF TagInv, StopOK, CountError, Counts, Finish, S!Forget, Stopping, AfterOK,
    TaggedIsWritten, NoStaleCopy, InFlightOnly, FinishedIsComplete, Settled, feeder,
    files
<1> QED
  BY <1>1, <1>2, <1>3, <1>4, <1>5 DEF TagInv

\* A write is abandoned only after a stop.
LEMMA AbandonOK ==
  ASSUME TagInv, NEW w \in Worker, Abandon(w)
  PROVE  TagInv'
<1>1. TypeOK'
  BY TaggingConstants DEF TagInv, TypeOK, Abandon, Finish, S!Forget, Errors, signals,
    feeder, files, books
<1>2. WorkOK'
  BY DEF TagInv, TypeOK, WorkOK, Abandon, Finish, Busy, signals, feeder, files
<1>3. AfterOK'
  BY DEF TagInv, TypeOK, AfterOK, Abandon, Finish, Stopping, signals
<1>4. StopOK' /\ OrderOK' /\ TaggedIsWritten' /\ StopNotBlamed'
      /\ NoStaleCopy' /\ InFlightOnly' /\ FinishedIsComplete'
  BY DEF TagInv, StopOK, Abandon, Finish, S!Forget, OrderOK, Counts, Stopping,
    TaggedIsWritten, StopNotBlamed, NoStaleCopy, InFlightOnly, FinishedIsComplete,
    Settled, signals, feeder, files, books
<1> QED
  BY <1>1, <1>2, <1>3, <1>4 DEF TagInv

\* The worker had no error, so its file is written.
LEMMA RecordOK ==
  ASSUME TagInv, NEW w \in Worker, Record(w)
  PROVE  TagInv'
<1>1. TypeOK'
  BY TaggingConstants DEF TagInv, TypeOK, Record, Finish, S!Forget, Stage, WorkOK, Busy,
    signals, feeder, files
<1>2. WorkOK'
  BY DEF TagInv, TypeOK, WorkOK, Record, Finish, Busy, signals, feeder, files
<1>3. AfterOK'
  BY DEF TagInv, TypeOK, AfterOK, Record, Finish, Stopping, signals
<1>4. OrderOK'
  BY DEF TagInv, TypeOK, OrderOK, Record, Finish, Settled, Busy, Stopping, WorkOK,
    signals, feeder, files
<1>5. TaggedIsWritten'
  BY DEF TagInv, TaggedIsWritten, Record, WorkOK, files
<1>6. StopOK' /\ StopNotBlamed' /\ NoStaleCopy'
      /\ InFlightOnly' /\ FinishedIsComplete'
  BY DEF TagInv, StopOK, Record, Finish, S!Forget, StopNotBlamed, NoStaleCopy,
    InFlightOnly, FinishedIsComplete, Settled, signals, feeder, files
<1> QED
  BY <1>1, <1>2, <1>3, <1>4, <1>5, <1>6 DEF TagInv

-----------------------------------------------------------------------------
(* Stopping. *)

\* The first Ctrl+C changes nothing but the context.
LEMMA InterruptOK ==
  ASSUME TagInv, Interrupt
  PROVE  TagInv'
<1>1. TypeOK'
  BY DEF TagInv, TypeOK, Interrupt, service, feeder, worker, files, books
<1>2. WorkOK'
  BY DEF TagInv, WorkOK, Interrupt, Busy, feeder, worker, files
<1>3. OrderOK'
  BY DEF OrderOK, Interrupt, Stopping, feeder
<1>4. StopOK' /\ AfterOK' /\ TaggedIsWritten' /\ StopNotBlamed'
      /\ NoStaleCopy' /\ InFlightOnly' /\ FinishedIsComplete'
  BY DEF TagInv, StopOK, Interrupt, AfterOK, Stopping, TaggedIsWritten, StopNotBlamed,
    NoStaleCopy, InFlightOnly, FinishedIsComplete, Settled, service, feeder, worker,
    files, books
<1> QED
  BY <1>1, <1>2, <1>3, <1>4 DEF TagInv

\* The second one kills the pool.
LEMMA ForceKillOK ==
  ASSUME TagInv, ForceKill
  PROVE  TagInv'
<1>1. TypeOK'
  BY DEF TagInv, TypeOK, ForceKill, Kill, S!Stop, service, signals, feeder, worker,
    files, books
<1>2. StopOK'
  BY DEF StopOK, ForceKill, Kill, signals
<1>3. WorkOK'
  BY DEF TagInv, WorkOK, ForceKill, Busy, signals, feeder, worker, files
<1>4. OrderOK'
  BY DEF OrderOK, ForceKill, Stopping, signals, feeder
<1>5. AfterOK' /\ TaggedIsWritten' /\ StopNotBlamed' /\ NoStaleCopy'
      /\ InFlightOnly' /\ FinishedIsComplete'
  BY DEF TagInv, AfterOK, ForceKill, Stopping, TaggedIsWritten, StopNotBlamed,
    NoStaleCopy, InFlightOnly, FinishedIsComplete, Settled, signals, feeder, worker,
    files, books
<1> QED
  BY <1>1, <1>2, <1>3, <1>4, <1>5 DEF TagInv

\* The pool gives up by itself.
LEMMA BreaksOK ==
  ASSUME TagInv, Breaks
  PROVE  TagInv'
<1>1. TypeOK'
  BY DEF TagInv, TypeOK, Breaks, S!Stop, signals, feeder, worker, files, books
<1>2. WorkOK'
  BY DEF TagInv, WorkOK, Breaks, Busy, signals, feeder, worker, files
<1>3. StopOK' /\ AfterOK' /\ OrderOK' /\ TaggedIsWritten' /\ StopNotBlamed'
      /\ NoStaleCopy' /\ InFlightOnly' /\ FinishedIsComplete'
  BY DEF TagInv, StopOK, Breaks, AfterOK, Stopping, OrderOK, Settled, Busy,
    TaggedIsWritten, StopNotBlamed, NoStaleCopy, InFlightOnly, FinishedIsComplete,
    signals, feeder, worker, files, books
<1> QED
  BY <1>1, <1>2, <1>3 DEF TagInv

\* The workers are idle, so every group is settled or the phase stopped.
LEMMA ReturnOK ==
  ASSUME TagInv, Return
  PROVE  TagInv'
<1>1. TypeOK'
  BY DEF TagInv, TypeOK, Return, Result, service, signals, worker, files, books
<1>2. WorkOK'
  BY DEF TagInv, WorkOK, Return, AllDone, Busy, signals, worker
<1>3. OrderOK'
  BY DEF TagInv, OrderOK, Return, AllDone, Settled, Busy, Stopping, signals, worker,
    files, books
<1>4. NoStaleCopy'
  BY DEF NoStaleCopy, Return, AllDone, worker
<1>5. FinishedIsComplete'
  <2>1. CASE Stopping
    BY <2>1 DEF FinishedIsComplete, Stopping, Return, Result
  <2>2. CASE ~Stopping
    <3>1. at > Count
      BY <2>2 DEF TagInv, OrderOK, Return
    <3>2. \A g \in Group : g < at
      BY <3>1, TaggingConstants DEF TagInv, TypeOK, Group
    <3> QED
      BY <2>2, <3>2 DEF TagInv, OrderOK, FinishedIsComplete, Return, AllDone, Busy, Settled,
        files, books
  <2> QED
    BY <2>1, <2>2
<1>6. StopOK' /\ AfterOK' /\ TaggedIsWritten' /\ StopNotBlamed' /\ InFlightOnly'
  BY DEF TagInv, StopOK, Return, AfterOK, Stopping, TaggedIsWritten, StopNotBlamed,
    InFlightOnly, service, signals, worker, files, books
<1> QED
  BY <1>1, <1>2, <1>3, <1>4, <1>5, <1>6 DEF TagInv

\* tagAll sees the stop.
LEMMA StopSeenOK ==
  ASSUME TagInv, StopSeen
  PROVE  TagInv'
<1>1. TypeOK'
  BY DEF TagInv, TypeOK, StopSeen, service, signals, worker, files, books
<1>2. WorkOK'
  BY DEF TagInv, WorkOK, StopSeen, Busy, signals, worker, files
<1>3. OrderOK'
  BY DEF OrderOK, StopSeen, Stopping, signals
<1>4. StopOK' /\ AfterOK' /\ TaggedIsWritten' /\ StopNotBlamed'
      /\ NoStaleCopy' /\ InFlightOnly' /\ FinishedIsComplete'
  BY DEF TagInv, StopOK, StopSeen, Stopping, AfterOK, TaggedIsWritten, StopNotBlamed,
    NoStaleCopy, InFlightOnly, FinishedIsComplete, Settled, service, signals, worker,
    files, books
<1> QED
  BY <1>1, <1>2, <1>3, <1>4 DEF TagInv

\* The grace period ends in a kill.
LEMMA GraceEndsOK ==
  ASSUME TagInv, GraceEnds
  PROVE  TagInv'
<1>1. TypeOK'
  BY DEF TagInv, TypeOK, GraceEnds, AfterKill, Kill, S!Stop, service, signals, worker,
    files, books
<1>2. WorkOK'
  BY DEF TagInv, WorkOK, GraceEnds, Busy, signals, worker, files
<1>3. StopOK' /\ AfterOK' /\ OrderOK' /\ TaggedIsWritten' /\ StopNotBlamed'
      /\ NoStaleCopy' /\ InFlightOnly' /\ FinishedIsComplete'
  BY DEF TagInv, StopOK, GraceEnds, Kill, AfterOK, Stopping, OrderOK, AfterKill,
    Settled, Busy, TaggedIsWritten, StopNotBlamed, NoStaleCopy, InFlightOnly,
    FinishedIsComplete, signals, worker, files, books
<1> QED
  BY <1>1, <1>2, <1>3 DEF TagInv

-----------------------------------------------------------------------------
\* The phase starts as the invariant says.
LEMMA InitOK == Init => TagInv
<1> SUFFICES ASSUME Init PROVE TagInv
  OBVIOUS
<1>1. TypeOK
  <2>1. stage \in [Group -> Stage] /\ written \in [Group -> BOOLEAN] /\ temp \in [Group -> BOOLEAN]
    <3>1. \A g \in Group : /\ Before[g].stage \in Stage
                           /\ Before[g].written \in BOOLEAN /\ Before[g].temp \in BOOLEAN
      BY TaggingConstants DEF Left
    <3> QED
      BY <3>1 DEF Init
  <2>2. waiting \subseteq Worker /\ late \subseteq Worker /\ down \in BOOLEAN
        /\ answer \in [Worker -> {"none", "reply", "file", "stop", "ctx"}]
    BY DEF Init, S!Init
  <2>3. at \in 1 .. Count + 1 /\ faults \in Nat /\ after \subseteq Worker \X Group
    BY TaggingConstants DEF Init
  <2>4. hand \in [Worker -> 0 .. Count] /\ tries \in [Worker -> 0 .. Retries] /\ sends \in [Worker -> 0 .. 3]
    BY TaggingConstants DEF Init
  <2> QED
    BY <2>1, <2>2, <2>3, <2>4 DEF Init, TypeOK, Errors
<1>2. StopOK /\ WorkOK /\ AfterOK
  BY DEF Init, S!Init, StopOK, WorkOK, AfterOK, Busy
<1>3. OrderOK
  BY DEF Init, OrderOK, Group
<1>4. TaggedIsWritten /\ StopNotBlamed
  BY TaggingConstants DEF Init, TaggedIsWritten, StopNotBlamed
<1>5. NoStaleCopy /\ InFlightOnly /\ FinishedIsComplete
  BY DEF Init, NoStaleCopy, InFlightOnly, FinishedIsComplete
<1> QED
  BY <1>1, <1>2, <1>3, <1>4, <1>5 DEF TagInv

\* A step that changes nothing keeps it.
LEMMA StutterOK ==
  ASSUME TagInv, UNCHANGED vars
  PROVE  TagInv'
<1>1. TypeOK' /\ StopOK'
  BY DEF TagInv, TypeOK, StopOK, vars, service, signals, feeder, worker, files, books
<1>2. WorkOK' /\ AfterOK'
  BY DEF TagInv, WorkOK, AfterOK, Busy, Stopping, vars, signals, feeder, worker, files
<1>3. OrderOK' /\ FinishedIsComplete'
  BY DEF TagInv, OrderOK, FinishedIsComplete, Settled, Busy, Stopping, vars, signals,
    feeder, worker, files, books
<1>4. TaggedIsWritten' /\ StopNotBlamed' /\ NoStaleCopy' /\ InFlightOnly'
  BY DEF TagInv, TaggedIsWritten, StopNotBlamed, NoStaleCopy, InFlightOnly, vars,
    worker, files, books
<1> QED
  BY <1>1, <1>2, <1>3, <1>4 DEF TagInv

\* Every step keeps it, whoever takes it.
LEMMA NextOK ==
  ASSUME TagInv, [Next]_vars
  PROVE  TagInv'
<1>1. CASE TagAll
  BY <1>1, PassOverOK, EndFeedOK, StopSeenOK, GraceEndsOK, ReturnOK DEF TagAll
<1>2. CASE Environment
  BY <1>2, InterruptOK, ForceKillOK, BreaksOK DEF Environment
<1>3. ASSUME NEW w \in Worker, Call(w)
      PROVE  TagInv'
  BY <1>3, BeginOK, DiesOK, BlamedOK, StoppedOK, ReplyOK DEF Call
<1>4. ASSUME NEW w \in Worker, Outcome(w)
      PROVE  TagInv'
  BY <1>4, GiveUpOK, CountErrorOK, AbandonOK, RecordOK DEF Outcome
<1>5. ASSUME NEW w \in Worker, Work(w)
      PROVE  TagInv'
  BY <1>3, <1>4, <1>5, OfferOK, DropOK, PrepareOK DEF Work
<1>6. CASE Over \/ UNCHANGED vars
  BY <1>6, StutterOK DEF Over
<1> QED
  BY <1>1, <1>2, <1>5, <1>6 DEF Next

\* The inductive invariant of the tag phase, for any number of workers, groups
\* and retries, and whatever an earlier run has left of the groups.
THEOREM TagInductive == Spec => []TagInv
BY InitOK, NextOK, PTL DEF Spec

\* Every variable has its type.
THEOREM TagTypes == Spec => []TypeOK
<1>1. TagInv => TypeOK
  BY DEF TagInv
<1> QED
  BY <1>1, TagInductive, PTL

\* A "tagged" record speaks of a file that has its date and place, whichever
\* processes died and however often the run was stopped before. (Record)
THEOREM TaggedTrue == Spec => []TaggedIsWritten
<1>1. TagInv => TaggedIsWritten
  BY DEF TagInv
<1> QED
  BY <1>1, TagInductive, PTL

\* What stopped the phase is counted as no file's error. (Counts)
THEOREM NoBlame == Spec => []StopNotBlamed
<1>1. TagInv => StopNotBlamed
  BY DEF TagInv
<1> QED
  BY <1>1, TagInductive, PTL

\* Neither a stopped run nor an earlier attempt costs a write an attempt.
\* (os.Remove in writeTags and retryWait)
THEOREM NoLeftover == Spec => []NoStaleCopy
<1>1. TagInv => NoStaleCopy
  BY DEF TagInv
<1> QED
  BY <1>1, TagInductive, PTL

\* After the stop each worker begins at most the write it had in hand. (Drop)
THEOREM NothingNew == Spec => []InFlightOnly
<1>1. TagInv => InFlightOnly
  BY DEF TagInv
<1> QED
  BY <1>1, TagInductive, PTL

\* A phase that reports neither a stop nor an error is complete. (result)
THEOREM CompleteEnd == Spec => []FinishedIsComplete
<1>1. TagInv => FinishedIsComplete
  BY DEF TagInv
<1> QED
  BY <1>1, TagInductive, PTL

\* Once tagAll has returned, no worker touches the journal or a file: it returns
\* only when its workers have ended. (Return)
THEOREM QuietAfterwards == Spec => NothingAfterReturn
<1>1. ASSUME TagInv, [Next]_vars, main = "over"
      PROVE  UNCHANGED <<books, files, waiting>>
  <2>1. \A w \in Worker : pc[w] = "idle"
    BY <1>1 DEF TagInv, OrderOK
  <2>2. ~Environment \/ Breaks
    BY <1>1 DEF Environment, Interrupt, ForceKill
  <2>3. CASE TagAll
    BY <1>1, <2>3 DEF TagAll, PassOver, EndFeed, StopSeen, GraceEnds, Return
  <2>4. CASE Breaks
    BY <2>4 DEF Breaks, S!Stop
  <2>5. CASE Over \/ UNCHANGED vars
    BY <2>5 DEF Over, vars, service
  <2>6. ASSUME NEW w \in Worker, Work(w)
        PROVE  FALSE
    <3>1. ~Call(w)
      BY <2>1 DEF Call, Begin, Dies, Blamed, Stopped, Fails, Reply
    <3>2. ~Outcome(w)
      BY <2>1 DEF Outcome, GiveUp, CountError, Abandon, Record
    <3> QED
      BY <1>1, <2>1, <2>6, <3>1, <3>2 DEF Work, Offer, Drop, Prepare
  <2> QED
    BY <1>1, <2>2, <2>3, <2>4, <2>5, <2>6 DEF Next
<1>2. TagInv /\ [Next]_vars => [main = "over" => UNCHANGED <<books, files, waiting>>]_vars
  BY <1>1
<1> QED
  BY <1>2, TagInductive, PTL DEF Spec, NothingAfterReturn
=============================================================================
