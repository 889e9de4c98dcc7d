------------------------------ MODULE Journal ------------------------------
(***************************************************************************)
(* The resume journal as a file, internal/state/state.go: lines are        *)
(* appended and synced one at a time, a process may end in the middle of   *)
(* one, and the next run (or status and verify, beside a run) reads what   *)
(* there is.  A line is the sequence of records, whole or cut short, that  *)
(* stand on it; JSON with anything before or after it does not parse.      *)
(***************************************************************************)
EXTENDS Naturals, Sequences

CONSTANTS
  Id, Value, Blank, Nothing, \* ids; what a record says; no record; no id
  Faults,      \* what goes wrong: "crash", "write", "short", "sync", "file"
  MaxLines,    \* bound on the lines of the file
  MaxFaults    \* bound on the faults

ASSUME JournalConstants ==
  /\ Blank \notin Value /\ Nothing \notin Id
  /\ Faults \subseteq {"crash", "write", "short", "sync", "file"}
  /\ MaxLines \in Nat /\ MaxFaults \in Nat

Piece == [id : Id, v : Value, whole : BOOLEAN]

VARIABLES
  lines, tail,  \* the file: complete lines, and what follows the last newline
  open, mem,    \* a run has the journal open; Journal.recs
  put, told,    \* the Put under way, and what the last one returned
  faults        \* how much of MaxFaults is used up

journal == <<lines, tail, open, mem, put, told, faults>>

Idle == [id |-> Nothing, at |-> "idle"]
Empty == [i \in Id |-> Blank]

JournalInit ==
  /\ lines = <<>> /\ tail = <<>>
  /\ open = FALSE /\ mem = Empty
  /\ put = Idle /\ told = "none" /\ faults = 0

-----------------------------------------------------------------------------
\* Reading the file

\* Scanner.Scan also returns a last line that no newline ends.
Scanned == IF tail = <<>> THEN lines ELSE Append(lines, tail)

\* json.Unmarshal takes the line, and it is a record of i.
Says(line, i) == Len(line) = 1 /\ line[1].whole /\ line[1].id = i

\* The last record of an id counts.
Latest(all, k, i) ==
  /\ k \in DOMAIN all /\ Says(all[k], i)
  /\ \A j \in DOMAIN all : j > k => ~Says(all[j], i)

\* OpenJournal and ReadJournal
Read(all) ==
  [i \in Id |-> IF \E k \in DOMAIN all : Latest(all, k, i)
                THEN all[CHOOSE k \in DOMAIN all : Latest(all, k, i)][1].v
                ELSE Blank]

-----------------------------------------------------------------------------
\* Actions

Fault(kind) == kind \in Faults /\ faults < MaxFaults /\ faults' = faults + 1

\* A partial last line is ended first.
EndTail == lines' = Scanned /\ tail' = <<>>
\* Variant (must fail): it is left as it is.
KeepTail == UNCHANGED <<lines, tail>>
Repair == EndTail

OpenJournal ==
  /\ ~open /\ open' = TRUE
  /\ mem' = Read(Scanned)
  /\ Repair
  /\ told' = "none" /\ UNCHANGED <<put, faults>>

\* Put: first the memory, then the file.
Put(i, v) ==
  /\ open /\ put = Idle /\ Len(lines) < MaxLines
  /\ mem' = [mem EXCEPT ![i] = v]
  /\ put' = [id |-> i, at |-> "write"] /\ told' = "none"
  /\ UNCHANGED <<lines, tail, open, faults>>

\* What is in the file ends in the record, or, if not whole, in part of it.
This(whole) == [id |-> put.id, v |-> mem[put.id], whole |-> whole]

\* Some of the line is written; all of it but the newline, if whole.
WritePart(whole) ==
  /\ put.at = "write"
  /\ tail' = Append(tail, This(whole))
  /\ put' = [put EXCEPT !.at = "part"]
  /\ UNCHANGED <<lines, open, mem, told, faults>>

Before == IF put.at = "part" THEN SubSeq(tail, 1, Len(tail) - 1) ELSE tail

WriteAll ==
  /\ put.at \in {"write", "part"}
  /\ lines' = Append(lines, Append(Before, This(TRUE))) /\ tail' = <<>>
  /\ put' = [put EXCEPT !.at = "sync"]
  /\ UNCHANGED <<open, mem, told, faults>>

Returns(e) == put' = Idle /\ told' = e

\* Write fails before the first byte, or after some ("short").
WriteFails ==
  /\ put.at \in {"write", "part"}
  /\ Fault(IF put.at = "part" THEN "short" ELSE "write")
  /\ Returns("error")
  /\ UNCHANGED <<lines, tail, open, mem>>

Sync ==
  /\ put.at = "sync"
  /\ Returns("ok")
  /\ UNCHANGED <<lines, tail, open, mem, faults>>

SyncFails ==
  /\ put.at = "sync" /\ Fault("sync")
  /\ Returns("error")
  /\ UNCHANGED <<lines, tail, open, mem>>

Gone == open' = FALSE /\ mem' = Empty /\ put' = Idle /\ told' = "none"

Close == open /\ put = Idle /\ Gone /\ UNCHANGED <<lines, tail, faults>>

\* The process ends in the middle of anything.
Crash == open /\ Fault("crash") /\ Gone /\ UNCHANGED <<lines, tail>>

Writing ==
  \/ \E i \in Id, v \in Value : Put(i, v)
  \/ \E whole \in BOOLEAN : WritePart(whole)
  \/ WriteAll \/ WriteFails \/ Sync \/ SyncFails

JournalNext == OpenJournal \/ Writing \/ Close \/ Crash

JournalSpec == JournalInit /\ [][JournalNext]_journal

-----------------------------------------------------------------------------
\* Properties

JournalTypeOK ==
  /\ lines \in Seq(Seq(Piece)) /\ tail \in Seq(Piece)
  /\ open \in BOOLEAN /\ mem \in [Id -> Value \cup {Blank}]
  /\ put \in {Idle} \cup [id : Id, at : {"write", "part", "sync"}]
  /\ told \in {"none", "ok", "error"} /\ faults \in 0 .. MaxFaults

\* The line that the Put under way adds to, or that the next one will, is not
\* empty: a Put before it failed part of the way ("short") and the run went on.
Torn == open /\ IF put.at = "sync" THEN Len(lines[Len(lines)]) > 1 ELSE Before # <<>>

R == INSTANCE Records
       WITH disk <- Read(Scanned), kept <- Read(lines), torn <- Torn, putting <- put.id

\* The file is the map of records that the rest of the program relies on: a
\* record that Put reported as written is what any later reader finds until its
\* id is put again, and a line torn by a crash or a failed write is no record.
\* The limit of the promise is in Records: Put does not end a line that a Put
\* before it left torn in the same run, so its record is glued to that line and
\* lost, although it returned nil (state.go:123); no other record goes with it
\* but what the failed Put itself may have left.
JournalKeeps == R!Spec

-----------------------------------------------------------------------------
\* The inductive invariant behind JournalKeeps (Session_proofs)

\* The record being put ends the tail, or has left it.
TailOK ==
  /\ put.at = "part" => \E whole \in BOOLEAN : tail = Append(Before, This(whole))
  /\ put.at = "sync" => tail = <<>> /\ lines # <<>>

\* A record alone on its line is what a reader finds once the line is complete.
SyncOK == put.at = "sync" /\ ~Torn => Read(lines)[put.id] = mem[put.id]

JournalInv ==
  /\ JournalTypeOK /\ TailOK /\ SyncOK
  /\ ~open => put = Idle /\ mem = Empty
  /\ put.at # "idle" => mem[put.id] \in Value
=============================================================================
