------------------------------ MODULE Service ------------------------------
(***************************************************************************)
(* What the ExifTool pool promises the goroutines that call it: a call     *)
(* that began after the pool stopped gets no reply, a file is blamed only  *)
(* while the pool is in order, and no caller is told that the pool stopped *)
(* before it did.  Pool.tla is the pool that keeps the promise while its   *)
(* processes crash, hang, are replaced, probed and killed.                 *)
(***************************************************************************)
CONSTANT Caller     \* the goroutines that call the pool

VARIABLES
  waiting,    \* the callers in a call
  late,       \* those whose call began after the pool stopped
  answer,     \* what the last call of each returned
  down        \* the pool was killed or gave up

Init ==
  /\ waiting = {} /\ late = {}
  /\ answer = [u \in Caller |-> "none"]
  /\ down = FALSE

Begin(u) ==
  /\ u \notin waiting
  /\ waiting' = waiting \cup {u}
  /\ late' = IF down THEN late \cup {u} ELSE late \ {u}
  /\ answer' = [answer EXCEPT ![u] = "none"]
  /\ UNCHANGED down

\* "reply" is no error, "file" a FileError, "stop" ErrKilled or a
\* BrokenError, "ctx" the error of the caller's own context.
Allowed(u, a) ==
  CASE a = "reply" -> u \notin late
    [] a = "file"  -> ~down
    [] a = "stop"  -> down
    [] a = "ctx"   -> TRUE

Answer(u, a) ==
  /\ u \in waiting /\ Allowed(u, a)
  /\ waiting' = waiting \ {u}
  /\ answer' = [answer EXCEPT ![u] = a]
  /\ UNCHANGED <<late, down>>

\* The caller has dealt with its answer.
Forget(u) ==
  /\ u \notin waiting
  /\ late' = late \ {u}
  /\ answer' = [answer EXCEPT ![u] = "none"]
  /\ UNCHANGED <<waiting, down>>

Stop == ~down /\ down' = TRUE /\ UNCHANGED <<waiting, late, answer>>

Next ==
  \/ \E u \in Caller : Begin(u) \/ Forget(u)
  \/ \E u \in Caller, a \in {"reply", "file", "stop", "ctx"} : Answer(u, a)
  \/ Stop

Spec == Init /\ [][Next]_<<waiting, late, answer, down>>
=============================================================================
