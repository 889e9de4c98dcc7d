------------------------------ MODULE Session ------------------------------
(***************************************************************************)
(* Runs of takeout on one results folder, one after the other or started   *)
(* twice: Run and lockResults of internal/pipeline, the lock of            *)
(* internal/state, the progress file with its heartbeat of                 *)
(* internal/progress, and what "takeout status" makes of it.  The run that *)
(* has the lock opens the journal (Journal.tla).                           *)
(***************************************************************************)
EXTENDS Journal, FiniteSets

CONSTANTS
  Run, NoRun   \* processes that run the command; none of them

ASSUME SessionConstants == NoRun \notin Run

VARIABLES
  pc,        \* what each process is doing
  phased,    \* the runs that have told a first phase (Reporter.phase)
  lock,      \* the run that has the lock on .takeout/lock
  writing,   \* a writeState under way, under Reporter.mu, and how
  crossed,   \* the runs whose writes of progress.json overlap
  prog,      \* progress.json
  last       \* what the run that finished last meant it to tell

session == <<pc, phased, lock, writing, crossed, prog, last>>
vars == <<journal, session>>

\* progress.json: no file, one that is not whole, or a run's State.
NoFile == [by |-> NoRun, whole |-> FALSE, age |-> "fresh"]
Written(r, whole) == [by |-> r, whole |-> whole, age |-> "fresh"]
State(r) == Written(r, TRUE)

Init ==
  /\ JournalInit
  /\ pc = [r \in Run |-> "off"] /\ phased = {} /\ lock = NoRun
  /\ writing = [r \in Run |-> "no"] /\ crossed = {} /\ prog = NoFile
  /\ last = [run |-> NoRun, how |-> "none"]

Goto(r, s) == pc' = [pc EXCEPT ![r] = s]
Alive(r) == pc[r] # "off"
Works == {"working", "journal"}
Released == {"done", "stopped"}

\* A fault of the session, which leaves the journal's file and records alone.
Fails(kind) == Fault(kind) /\ UNCHANGED <<lines, tail, open, mem, put, told>>

-----------------------------------------------------------------------------
\* A run

\* SetStateFile starts the heartbeat; preflight checks and lists the zips.
Launch(r) ==
  /\ pc[r] = "off" /\ Goto(r, "preflight")
  /\ UNCHANGED <<journal, phased, lock, writing, crossed, prog, last>>

\* The operating system's lock.
LockResults(r) ==
  /\ pc[r] = "preflight"
  /\ IF lock = NoRun THEN lock' = r /\ Goto(r, "working")
                     ELSE UNCHANGED lock /\ Goto(r, "refused")
  /\ UNCHANGED <<journal, phased, writing, crossed, prog, last>>

-----------------------------------------------------------------------------
\* Writing progress.json

\* Two processes use one progress.json.tmp, and may write in place beside one
\* another: their writes are crossed until all of them have ended.
Others(r) == {s \in Run \ {r} : writing[s] # "no"}

BeginWrite(r) ==
  /\ writing' = [writing EXCEPT ![r] = "begun"]
  /\ crossed' = IF Others(r) = {} THEN crossed ELSE crossed \cup Others(r) \cup {r}

\* The write has ended, or the process that was at it.
NoMoreWrite(r) ==
  /\ writing' = [writing EXCEPT ![r] = "no"]
  /\ crossed' = IF Others(r) = {} THEN {} ELSE crossed

\* What a write leaves that reports no error.
Left(r) == IF r \in crossed
           THEN {prog} \cup {State(s) : s \in crossed} \cup {Written(s, FALSE) : s \in crossed}
           ELSE {State(r)}

Forget(r) == phased' = phased \ {r}

\* The process ends; how is "none" if it did not get its last word on the file.
Exits(r, how) ==
  /\ Goto(r, "off") /\ Forget(r)
  /\ last' = [run |-> IF how = "stopped" THEN r ELSE NoRun, how |-> how]

\* writeState returns; the one of Finish is the last thing the process does.
EndWrite(r, how) ==
  /\ NoMoreWrite(r)
  /\ IF pc[r] = "closing" THEN Exits(r, how) ELSE UNCHANGED <<pc, phased, last>>
  /\ UNCHANGED lock

\* Phase: from the first one on there is something to say.
Phase(r) ==
  /\ pc[r] = "working" /\ r \notin phased /\ writing[r] = "no"
  /\ phased' = phased \cup {r} /\ BeginWrite(r)
  /\ UNCHANGED <<journal, pc, lock, prog, last>>

\* The heartbeat's writeState, or that of a Phase or Tick.
Beat(r) ==
  /\ pc[r] \in Works \cup Released /\ r \in phased /\ writing[r] = "no"
  /\ prog # State(r)
  /\ BeginWrite(r)
  /\ UNCHANGED <<journal, pc, phased, lock, prog, last>>

\* The temporary file takes the place of the old one, or the write in place ends.
Replace(r) ==
  /\ writing[r] # "no" /\ prog' \in Left(r)
  /\ EndWrite(r, IF r \in crossed THEN "none" ELSE "stopped") /\ UNCHANGED journal

\* On Windows it may not, and the file is written in place.
InPlace(r) ==
  /\ writing[r] = "begun"
  /\ writing' = [writing EXCEPT ![r] = "half"]
  /\ prog' = Written(r, FALSE)
  /\ UNCHANGED <<journal, pc, phased, lock, crossed, last>>

\* The folder, the temporary file or the write in place fails, a full disk for
\* one: the old file stays, or a part of the new one.  The run goes on.
WriteLost(r) ==
  /\ writing[r] # "no" /\ Fails("file")
  /\ EndWrite(r, "none") /\ UNCHANGED prog

-----------------------------------------------------------------------------
\* The work and the end of a run

OpensJournal(r) ==
  /\ pc[r] = "working" /\ r \in phased /\ OpenJournal
  /\ Goto(r, "journal")
  /\ UNCHANGED <<phased, lock, writing, crossed, prog, last>>

PutsRecords(r) == pc[r] = "journal" /\ Writing /\ UNCHANGED session

\* run returns: the journal is closed, then the lock is given back, before the
\* progress file is finished.  "done" is exit 0, 3 and 4; any other exit
\* stopped early.
Ends(r, how) ==
  /\ \/ pc[r] = "journal" /\ Close
     \/ pc[r] = "working" /\ r \in phased /\ how = "stopped" /\ UNCHANGED journal
  /\ Goto(r, how) /\ lock' = NoRun
  /\ UNCHANGED <<phased, writing, crossed, prog, last>>

\* Finish, under Reporter.mu: no heartbeat comes after it.
Quiet(r) == writing[r] = "no"
\* Variant (must fail): the heartbeat is not waited for.
NotWaited(r) == TRUE
Unlocked(r) == Quiet(r)

\* The file is removed, and another run's write in place goes with it; or, with
\* a reader on Windows for one, it is not, and the error is ignored.
Remove(r) ==
  \/ /\ prog' = NoFile /\ crossed' = crossed \cup {s \in Run : writing[s] = "half"}
     /\ Exits(r, "done") /\ UNCHANGED journal
  \/ Fails("file") /\ UNCHANGED <<prog, crossed>> /\ Exits(r, "none")

\* A run without a phase, one that was refused, leaves the file alone; one that
\* stopped early writes it once more.
Finish(r) ==
  /\ Unlocked(r) /\ UNCHANGED lock
  /\ \/ pc[r] = "done" /\ Remove(r) /\ UNCHANGED writing
     \/ /\ pc[r] = "stopped" /\ Goto(r, "closing") /\ BeginWrite(r)
        /\ UNCHANGED <<journal, phased, prog, last>>
     \/ /\ pc[r] = "refused" /\ Goto(r, "off")
        /\ UNCHANGED <<journal, phased, writing, crossed, prog, last>>

\* The process ends anywhere; the system drops its lock.
Dies(r) ==
  /\ Alive(r)
  /\ IF pc[r] = "journal" THEN Crash ELSE Fails("crash")
  /\ IF r \in phased THEN Exits(r, "none")
     ELSE Goto(r, "off") /\ UNCHANGED <<phased, last>>
  /\ lock' = IF lock = r THEN NoRun ELSE lock
  /\ NoMoreWrite(r) /\ UNCHANGED prog

-----------------------------------------------------------------------------
\* takeout status

\* Time passes: over 90 seconds, over ten minutes since the last heartbeat.
\* The heart of a living run may miss some beats while the machine sleeps.
Age ==
  /\ prog.whole
  /\ \/ prog.age = "fresh" /\ prog' = [prog EXCEPT !.age = "late"]
     \/ prog.age = "late" /\ ~Alive(prog.by) /\ prog' = [prog EXCEPT !.age = "old"]
  /\ UNCHANGED <<journal, pc, phased, lock, writing, crossed, last>>

\* Another process may have the id of one that is gone.
MayBeAlive == BOOLEAN
Recent(alive) == prog.age = "fresh" \/ (prog.age = "late" /\ alive)
\* Variant (must fail): a process with that id is enough.
RecentOrAlive(alive) == prog.age = "fresh" \/ alive
Judge(alive) == Recent(alive)

\* What status may say of the run: a half-written file is as good as none.
Shows == IF ~prog.whole THEN {"nothing"}
         ELSE {IF Judge(alive) THEN "running" ELSE "stopped" :
                 alive \in IF Alive(prog.by) THEN {TRUE} ELSE MayBeAlive}

Next ==
  \/ Age
  \/ \E r \in Run :
       \/ Launch(r) \/ LockResults(r)
       \/ Phase(r) \/ Beat(r) \/ Replace(r) \/ InPlace(r) \/ WriteLost(r)
       \/ OpensJournal(r) \/ PutsRecords(r) \/ Finish(r) \/ Dies(r)
       \/ \E how \in {"done", "stopped"} : Ends(r, how)

Spec == Init /\ [][Next]_vars

\* Time passes, the heart beats, a write of the file ends one way or another,
\* and Finish, called right after run, gets Reporter.mu in the end although the
\* heartbeat takes it again and again (Go's mutexes starve nobody).
FairSpec ==
  /\ Spec /\ WF_vars(Age)
  /\ \A r \in Run : /\ WF_vars(Beat(r)) /\ SF_vars(Finish(r))
                    /\ WF_vars(Replace(r) \/ InPlace(r) \/ WriteLost(r))

-----------------------------------------------------------------------------
\* Properties

SessionTypeOK ==
  /\ pc \in [Run -> {"off", "preflight", "refused", "closing"} \cup Works \cup Released]
  /\ phased \subseteq Run /\ lock \in Run \cup {NoRun}
  /\ writing \in [Run -> {"no", "begun", "half"}] /\ crossed \subseteq Run
  /\ prog \in [by : Run \cup {NoRun}, whole : BOOLEAN, age : {"fresh", "late", "old"}]
  /\ last \in [run : Run \cup {NoRun}, how : {"none", "done", "stopped"}]

TypeOK == JournalTypeOK /\ SessionTypeOK

\* One run at a time works on the folder, with the journal open at most there.
OneAtATime ==
  /\ \A r \in Run : pc[r] \in Works <=> lock = r
  /\ open <=> \E r \in Run : pc[r] = "journal"

\* No run works on the folder or has still to finish its file.
NoneWorks == \A r \in Run : pc[r] \in {"off", "preflight", "refused"}

\* progress.json says how the last run that may write it ended.
Tells ==
  /\ last.how = "done" => prog = NoFile
  /\ last.how = "stopped" => prog.by = last.run /\ prog.whole

\* "removes it when the run finishes; a run that stops early keeps it" (Run):
\* once no run works on the folder or has still to finish, progress.json is
\* gone if the run that finished last was done, and else tells that it stopped,
\* whatever heartbeats, refused runs and earlier runs came in between.  A run
\* gives the lock back (pipeline.go:287) before Finish (pipeline.go:250), so the
\* run that finishes last is not always the last that had the lock: it may
\* remove or replace the file of a run that came and went in between.  Of a run
\* that died, whose last write or removal failed (progress.go:101, 134), or
\* whose last write was crossed by another run's, nothing is promised.
FileTellsLast == NoneWorks => Tells

AllOff == \A r \in Run : ~Alive(r)

\* What status shows is right again and again, whatever happened before.  Once
\* no process is left it does not say for ever that one is running, though the
\* process id in the file may be another program's by then; and while a run
\* works, its heartbeat brings its own file back, although the run before it may
\* still remove or replace it when the lock has changed hands.
StatusTells ==
  []<>(/\ AllOff => "running" \notin Shows
       /\ lock \in phased => prog.whole /\ prog.by = lock)

-----------------------------------------------------------------------------
\* The inductive invariant behind FileTellsLast (Session_proofs)

\* Only a run that has told a phase writes the file, and it does so from the time
\* it has the lock until it has finished; then the file tells.
FileOK ==
  /\ \A r \in Run : writing[r] # "no" => r \in phased
  /\ \A r \in Run : r \in phased => pc[r] \in {"closing"} \cup Works \cup Released
  /\ \A r \in Run : pc[r] \in {"journal", "closing"} \cup Released => r \in phased
  /\ phased = {} => Tells

SessionInv == SessionTypeOK /\ OneAtATime /\ FileOK
=============================================================================
