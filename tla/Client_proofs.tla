--------------------------- MODULE Client_proofs ---------------------------
(***************************************************************************)
(* Proofs about Client.tla: the inductive invariants, that one outcome     *)
(* stands when a reply races its time limit, and that a reply without      *)
(* error is whole, for any number of commands and of lines, any maxStderr  *)
(* and whatever ExifTool, Kill and Close do.                               *)
(***************************************************************************)
EXTENDS Client, SequenceTheorems, TLAPS

\* What the race is about; every other variable only has its type.
race == <<seq, state, pc, outcome, timer>>

\* Steps that leave the race alone keep RaceOK.
LEMMA RaceApart ==
  ASSUME RaceOK, UNCHANGED race
  PROVE  RaceOK'
BY DEF RaceOK, race

\* An update that sets a value of the type, or leaves it.
LEMMA UpdateType ==
  ASSUME NEW S, NEW T, NEW f \in [S -> T], NEW x, NEW v, v \in T \/ v = f[x]
  PROVE  [f EXCEPT ![x] = v] \in [S -> T]
<1>1. CASE v \in T
  BY <1>1
<1>2. CASE v = f[x]
  BY <1>2
<1> QED
  BY <1>1, <1>2

\* The types of what the race is about, and of everything else.
NumberTypes ==
  /\ seq \in 0 .. MaxCalls
  /\ state \in [n : 0 .. MaxCalls, is : {"idle", "running", "timedOut"}]
  /\ pc \in {"rest", "write", "out", "err", "settle"} /\ res \in {"ok", "crash"}
  /\ timer \in [Call -> {"none", "armed", "fired", "won", "killed"}]
  /\ outcome \in [Call -> {"none", "ok", "crash", "timeout"}]

FlagTypes ==
  /\ ended \in BOOLEAN /\ root \in BOOLEAN /\ tree \in BOOLEAN /\ exited \in BOOLEAN
  /\ inOpen \in BOOLEAN /\ released \in BOOLEAN /\ dead \in BOOLEAN
  /\ killer \in {"no", "marked", "killed", "done"}
  /\ closer \in {"no", "lock", "asked", "killed", "done"}

LEMMA TwoTypes == TypeOK <=> NumberTypes /\ FlagTypes
BY DEF TypeOK, NumberTypes, FlagTypes

LEMMA InitOK == Init => ClientInv
<1> SUFFICES ASSUME Init PROVE ClientInv
  OBVIOUS
<1>1. NumberTypes
  BY ClientConstants, SMT DEF Init, NumberTypes, Call
<1>2. FlagTypes
  BY Zenon DEF Init, FlagTypes
<1>3. RaceOK
  BY ClientConstants DEF Init, RaceOK, Call
<1> QED
  BY <1>1, <1>2, <1>3, TwoTypes DEF ClientInv

-----------------------------------------------------------------------------
\* Types

LEMMA StepNumbers ==
  ASSUME NumberTypes, [Next]_vars
  PROVE  NumberTypes'
<1> USE ClientConstants DEF NumberTypes, Call, runvars
<1>1. ASSUME NEW limited \in Limits, Begin(limited) PROVE NumberTypes'
  BY <1>1, SMT DEF Begin
<1>2. CASE Write
  BY <1>2, SMT DEF Write
<1>3. CASE WriteFails
  BY <1>3, SMT DEF WriteFails, Return
<1>4. CASE ReadOut
  BY <1>4, SMT DEF ReadOut
<1>5. CASE OutEnds
  BY <1>5, SMT DEF OutEnds, Return
<1>6. CASE TakeErr
  BY <1>6, SMT DEF TakeErr, Return
<1>7. CASE ErrEnds
  BY <1>7, SMT DEF ErrEnds, Return
<1>8. CASE Settle
  <2>1. /\ \/ state' = [n |-> seq, is |-> "idle"] \/ state' = state
        /\ \/ outcome' = [outcome EXCEPT ![seq] = res]
           \/ outcome' = [outcome EXCEPT ![seq] = "timeout"]
        /\ timer' = [timer EXCEPT ![seq] = IF @ = "armed" THEN "none" ELSE @]
        /\ seq' = seq /\ pc' = "rest" /\ res' = res
    BY <1>8 DEF Settle, Leaves
  <2>2. outcome' \in [Call -> {"none", "ok", "crash", "timeout"}]
    BY <2>1, SMT
  <2>3. timer' \in [Call -> {"none", "armed", "fired", "won", "killed"}]
    <3>1. timer' = [timer EXCEPT ![seq] = IF timer[seq] = "armed" THEN "none" ELSE timer[seq]]
      BY <2>1
    <3> QED
      BY <3>1, UpdateType
  <2>4. state' \in [n : 0 .. MaxCalls, is : {"idle", "running", "timedOut"}]
    BY <2>1, SMT
  <2> QED
    BY <2>1, <2>2, <2>3, <2>4
<1>9. ASSUME NEW n \in Call, TimerFires(n) PROVE NumberTypes'
  BY <1>9, SMT DEF TimerFires
<1>10. ASSUME NEW n \in Call, TimerDecides(n) PROVE NumberTypes'
  <2>1. /\ \/ state' = [n |-> n, is |-> "timedOut"] \/ state' = state
        /\ \/ timer' = [timer EXCEPT ![n] = "won"]
           \/ timer' = [timer EXCEPT ![n] = "none"]
        /\ UNCHANGED <<seq, pc, res, outcome>>
    BY <1>10 DEF TimerDecides, Leaves
  <2> QED
    BY <2>1, SMT
<1>11. ASSUME NEW n \in Call, TimerKills(n) PROVE NumberTypes'
  BY <1>11, SMT DEF TimerKills, KillTree
<1>12. CASE PushErr
  BY <1>12, SMT DEF PushErr
<1>13. CASE EndErr
  BY <1>13, SMT DEF EndErr
<1>14. CASE Watch
  BY <1>14, SMT DEF Watch
<1>15. CASE KillCalled
  BY <1>15, SMT DEF KillCalled
<1>16. CASE KillKills
  BY <1>16, SMT DEF KillKills, KillTree
<1>17. CASE KillEnds
  BY <1>17, SMT DEF KillEnds
<1>18. CASE CloseCalled
  BY <1>18, SMT DEF CloseCalled
<1>19. CASE CloseAsks
  BY <1>19, SMT DEF CloseAsks
<1>20. CASE CloseKills
  BY <1>20, SMT DEF CloseKills, KillTree
<1>21. CASE CloseEnds
  BY <1>21, SMT DEF CloseEnds
<1>22. ASSUME NEW s \in {"out", "err"}, PrintLine(s) \/ Mark(s) PROVE NumberTypes'
  BY <1>22, SMT DEF PrintLine, Mark
<1>23. CASE Exit
  BY <1>23, SMT DEF Exit
<1>24. CASE UNCHANGED vars
  BY <1>24, SMT DEF vars
<1> QED
  BY <1>1, <1>2, <1>3, <1>4, <1>5, <1>6, <1>7, <1>8, <1>9, <1>10, <1>11, <1>12,
     <1>13, <1>14, <1>15, <1>16, <1>17, <1>18, <1>19, <1>20, <1>21, <1>22, <1>23,
     <1>24 DEF Next, RunGoes, StderrGoes, KillGoes, CloseGoes, TimerGoes

LEMMA StepFlags ==
  ASSUME FlagTypes, [Next]_vars
  PROVE  FlagTypes'
<1> USE DEF FlagTypes, child, stopping, runvars
<1>1. ASSUME NEW limited \in Limits, Begin(limited) PROVE FlagTypes'
  BY <1>1, Zenon DEF Begin
<1>2. CASE Write
  BY <1>2, Zenon DEF Write
<1>3. CASE WriteFails
  BY <1>3, Zenon DEF WriteFails, Return
<1>4. CASE ReadOut
  BY <1>4, Zenon DEF ReadOut
<1>5. CASE OutEnds
  BY <1>5, Zenon DEF OutEnds, Return
<1>6. CASE TakeErr
  BY <1>6, Zenon DEF TakeErr, Return
<1>7. CASE ErrEnds
  BY <1>7, Zenon DEF ErrEnds, Return
<1>8. CASE Settle
  BY <1>8, Zenon DEF Settle, Leaves
<1>9. ASSUME NEW n \in Call, TimerFires(n) PROVE FlagTypes'
  BY <1>9, Zenon DEF TimerFires
<1>10. ASSUME NEW n \in Call, TimerDecides(n) PROVE FlagTypes'
  BY <1>10, Zenon DEF TimerDecides, Leaves
<1>11. ASSUME NEW n \in Call, TimerKills(n) PROVE FlagTypes'
  BY <1>11, Zenon DEF TimerKills, KillTree
<1>12. CASE PushErr
  BY <1>12, Zenon DEF PushErr
<1>13. CASE EndErr
  BY <1>13, Zenon DEF EndErr
<1>14. CASE Watch
  BY <1>14, Zenon DEF Watch
<1>15. CASE KillCalled
  BY <1>15, Zenon DEF KillCalled
<1>16. CASE KillKills
  BY <1>16, Zenon DEF KillKills, KillTree
<1>17. CASE KillEnds
  BY <1>17, Zenon DEF KillEnds
<1>18. CASE CloseCalled
  BY <1>18, Zenon DEF CloseCalled
<1>19. CASE CloseAsks
  BY <1>19, Zenon DEF CloseAsks
<1>20. CASE CloseKills
  BY <1>20, Zenon DEF CloseKills, KillTree
<1>21. CASE CloseEnds
  BY <1>21, Zenon DEF CloseEnds
<1>22. ASSUME NEW s \in {"out", "err"}, PrintLine(s) \/ Mark(s) PROVE FlagTypes'
  BY <1>22, Zenon DEF PrintLine, Mark
<1>23. CASE Exit
  BY <1>23, Zenon DEF Exit
<1>24. CASE UNCHANGED vars
  BY <1>24, Zenon DEF vars
<1> QED
  BY <1>1, <1>2, <1>3, <1>4, <1>5, <1>6, <1>7, <1>8, <1>9, <1>10, <1>11, <1>12,
     <1>13, <1>14, <1>15, <1>16, <1>17, <1>18, <1>19, <1>20, <1>21, <1>22, <1>23,
     <1>24 DEF Next, RunGoes, StderrGoes, KillGoes, CloseGoes, TimerGoes

-----------------------------------------------------------------------------
\* The race

\* A command begins only when the one before it was answered.
LEMMA BeginRace ==
  ASSUME TypeOK, RaceOK, NEW limited \in Limits, Begin(limited)
  PROVE  RaceOK'
<1> USE ClientConstants DEF TypeOK, Call
<1>1. /\ seq' = seq + 1 /\ seq + 1 \in Call
      /\ state' = [n |-> seq + 1, is |-> "running"]
      /\ pc' = "write" /\ outcome' = outcome
  BY DEF Begin
<1>2. timer' = [timer EXCEPT ![seq + 1] = IF limited THEN "armed" ELSE "none"]
  BY DEF Begin
<1>3. outcome[seq + 1] = "none" /\ timer[seq + 1] = "none"
  BY <1>1 DEF RaceOK
<1>4. seq > 0 => outcome[seq] = "ok" /\ timer[seq] \in {"none", "fired"}
  <2> SUFFICES ASSUME seq > 0 PROVE outcome[seq] = "ok" /\ timer[seq] \in {"none", "fired"}
    OBVIOUS
  <2>1. pc = "rest" /\ outcome[seq] \notin {"crash", "timeout"} /\ seq \in Call
    BY DEF Begin, Failed
  <2>2. outcome[seq] = "ok" /\ state.is # "timedOut"
    <3>1. outcome[seq] # "none" /\ (outcome[seq] = "timeout" <=> state.is = "timedOut")
      BY <2>1 DEF RaceOK
    <3>2. outcome[seq] \in {"none", "ok", "crash", "timeout"}
      BY <2>1
    <3> QED
      BY <2>1, <3>1, <3>2
  <2>3. timer[seq] \notin {"won", "killed", "armed"}
    BY <2>1, <2>2 DEF RaceOK
  <2> QED
    BY <2>1, <2>2, <2>3
<1>5. ASSUME NEW n \in Call
      PROVE /\ n < seq' => outcome'[n] = "ok" /\ timer'[n] \in {"none", "fired"}
            /\ n > seq' => outcome'[n] = "none" /\ timer'[n] = "none"
  BY <1>1, <1>2, <1>3, <1>4, <1>5 DEF RaceOK
<1>6. timer'[seq'] \notin {"won", "killed"}
  BY <1>1, <1>2
<1> QED
  BY <1>1, <1>3, <1>5, <1>6 DEF RaceOK

\* Steps of exchange on the way to its result.
LEMMA ExchangeRace ==
  ASSUME TypeOK, RaceOK,
         pc # "rest" /\ pc' # "rest" /\ UNCHANGED <<seq, state, outcome, timer>>
  PROVE  RaceOK'
BY DEF RaceOK

\* The timer stands down, or the command loses to it.
LEMMA SettleRace ==
  ASSUME TypeOK, RaceOK, Settle
  PROVE  RaceOK'
<1> USE ClientConstants DEF TypeOK, Call
<1>1. /\ pc = "settle" /\ pc' = "rest" /\ seq' = seq /\ seq \in Call
      /\ outcome[seq] = "none" /\ state.is # "idle" /\ state.n = seq
  BY DEF Settle, RaceOK
<1>2. timer' = [timer EXCEPT ![seq] = IF @ = "armed" THEN "none" ELSE @]
  BY DEF Settle
<1>3. \/ /\ state.is = "running" /\ state' = [n |-> seq, is |-> "idle"]
         /\ outcome' = [outcome EXCEPT ![seq] = res]
      \/ /\ state.is = "timedOut" /\ state' = state
         /\ outcome' = [outcome EXCEPT ![seq] = "timeout"]
  BY <1>1 DEF Settle, Leaves
<1>4. timer'[seq] \in {"won", "killed"} <=> timer[seq] \in {"won", "killed"}
  BY <1>1, <1>2
<1>5. ASSUME NEW n \in Call
      PROVE /\ n < seq => outcome'[n] = "ok" /\ timer'[n] \in {"none", "fired"}
            /\ n > seq => outcome'[n] = "none" /\ timer'[n] = "none"
  BY <1>1, <1>2, <1>3 DEF RaceOK
<1>6. /\ state'.n = seq
      /\ state'.is # "running"
      /\ outcome'[seq] # "none" /\ timer'[seq] # "armed"
      /\ outcome'[seq] = "timeout" <=> state'.is = "timedOut"
  BY <1>1, <1>2, <1>3
<1>7. state'.is = "timedOut" <=> timer[seq] \in {"won", "killed"}
  BY <1>1, <1>3 DEF RaceOK
<1> QED
  BY <1>1, <1>4, <1>5, <1>6, <1>7 DEF RaceOK

\* A timer goes off, finds out whether its command still runs, and kills.
LEMMA TimerRace ==
  ASSUME TypeOK, RaceOK, NEW n \in Call, TimerFires(n) \/ TimerDecides(n) \/ TimerKills(n)
  PROVE  RaceOK'
<1> USE ClientConstants DEF TypeOK, Call
<1>0. UNCHANGED <<seq, pc, outcome>>
  BY DEF TimerFires, TimerDecides, TimerKills, runvars
<1>1. CASE TimerFires(n)
  <2>1. timer[n] = "armed" /\ timer' = [timer EXCEPT ![n] = "fired"] /\ state' = state
    BY <1>1 DEF TimerFires, runvars
  <2> QED
    BY <1>0, <2>1 DEF RaceOK
<1>2. CASE TimerDecides(n)
  <2>1. CASE Leaves(n, "timedOut") /\ timer' = [timer EXCEPT ![n] = "won"]
    <3>1. /\ state.n = n /\ state.is = "running" /\ state' = [n |-> n, is |-> "timedOut"]
          /\ n = seq /\ pc # "rest"
      BY <2>1 DEF Leaves, RaceOK
    <3> QED
      BY <1>0, <2>1, <3>1 DEF RaceOK
  <2>2. CASE state # [n |-> n, is |-> "running"] /\ state' = state
               /\ timer' = [timer EXCEPT ![n] = "none"]
    <3>1. timer[n] = "fired"
      BY <1>2 DEF TimerDecides
    <3> QED
      BY <1>0, <2>2, <3>1 DEF RaceOK
  <2> QED
    BY <1>2, <2>1, <2>2 DEF TimerDecides
<1>3. CASE TimerKills(n)
  <2>1. timer[n] = "won" /\ timer' = [timer EXCEPT ![n] = "killed"] /\ state' = state
    BY <1>3 DEF TimerKills, runvars
  <2> QED
    BY <1>0, <2>1 DEF RaceOK
<1> QED
  BY <1>1, <1>2, <1>3

LEMMA StepRace ==
  ASSUME TypeOK, RaceOK, [Next]_vars
  PROVE  RaceOK'
<1>1. ASSUME NEW limited \in Limits, Begin(limited) PROVE RaceOK'
  BY <1>1, BeginRace
<1>2. CASE Write \/ WriteFails \/ ReadOut \/ OutEnds \/ TakeErr \/ ErrEnds
  <2>1. pc # "rest" /\ pc' # "rest" /\ UNCHANGED <<seq, state, outcome, timer>>
    BY <1>2 DEF Write, WriteFails, ReadOut, OutEnds, TakeErr, ErrEnds, Return, TypeOK
  <2> QED
    BY <2>1, ExchangeRace
<1>3. CASE Settle
  BY <1>3, SettleRace
<1>4. ASSUME NEW n \in Call, TimerFires(n) \/ TimerDecides(n) \/ TimerKills(n) PROVE RaceOK'
  BY <1>4, TimerRace
<1>5. CASE PushErr \/ EndErr \/ Watch \/ KillCalled \/ KillKills \/ KillEnds
             \/ CloseCalled \/ CloseAsks \/ CloseKills \/ CloseEnds \/ Exit
  <2>1. UNCHANGED race
    BY <1>5 DEF PushErr, EndErr, Watch, KillCalled, KillKills, KillEnds, CloseCalled,
                CloseAsks, CloseKills, CloseEnds, Exit, race, runvars
  <2> QED
    BY <2>1, RaceApart
<1>6. ASSUME NEW s \in {"out", "err"}, PrintLine(s) \/ Mark(s) PROVE RaceOK'
  <2>1. UNCHANGED race
    BY <1>6 DEF PrintLine, Mark, race, runvars
  <2> QED
    BY <2>1, RaceApart
<1>7. CASE UNCHANGED vars
  <2>1. UNCHANGED race
    BY <1>7 DEF vars, runvars, race
  <2> QED
    BY <2>1, RaceApart
<1> QED
  BY <1>1, <1>2, <1>3, <1>4, <1>5, <1>6, <1>7
     DEF Next, RunGoes, StderrGoes, KillGoes, CloseGoes, TimerGoes

LEMMA StepTypes ==
  ASSUME TypeOK, [Next]_vars
  PROVE  TypeOK'
<1>1. NumberTypes' /\ FlagTypes'
  BY TwoTypes, StepNumbers, StepFlags
<1> QED
  BY <1>1 DEF TypeOK, NumberTypes, FlagTypes

-----------------------------------------------------------------------------
\* The inductive invariant holds in every reachable state, for any number of
\* commands, however replies, timers, Kill and Close interleave.
THEOREM ClientInductive == Spec => []ClientInv
<1>1. ClientInv /\ [Next]_vars => ClientInv'
  BY StepTypes, StepRace DEF ClientInv
<1> QED
  BY InitOK, <1>1, PTL DEF Spec

\* The client's state, its timers and its outcomes keep their types.
THEOREM ClientTypes == Spec => []TypeOK
<1>1. ClientInv => TypeOK
  BY DEF ClientInv
<1> QED
  BY <1>1, ClientInductive, PTL

\* A timer that decides to kill has a command that fails with TimedOut, and no
\* other command is ever sent to that process; no command times out otherwise.
THEOREM OneStands == Spec => []OneOutcome
<1>1. ClientInv => OneOutcome
  <2> SUFFICES ASSUME ClientInv, NEW n \in Call
               PROVE /\ timer[n] \in {"won", "killed"} =>
                          n = seq /\ outcome[n] \in {"none", "timeout"}
                     /\ outcome[n] = "timeout" => timer[n] \in {"won", "killed"}
    BY DEF OneOutcome
  <2> USE ClientConstants DEF ClientInv, TypeOK, Call
  <2>1. CASE n # seq
    <3>1. timer[n] \notin {"won", "killed"} /\ outcome[n] # "timeout"
      BY <2>1 DEF RaceOK
    <3> QED
      BY <2>1, <3>1
  <2>2. CASE n = seq /\ pc = "rest"
    BY <2>2 DEF RaceOK
  <2>3. CASE n = seq /\ pc # "rest"
    BY <2>3 DEF RaceOK
  <2> QED
    BY <2>1, <2>2, <2>3
<1> QED
  BY <1>1, ClientInductive, PTL

-----------------------------------------------------------------------------
\* Whole replies

\* Taking the first of a sequence, and putting one more behind it.
LEMMA HeadTail ==
  ASSUME NEW S, NEW s \in Seq(S), s # <<>>
  PROVE  /\ Head(s) = s[1] /\ Head(s) \in S /\ Len(s) >= 1
         /\ Tail(s) \in Seq(S) /\ Len(Tail(s)) = Len(s) - 1
         /\ \A j \in 1 .. Len(s) - 1 : Tail(s)[j] = s[j + 1]
BY HeadTailProperties

LEMMA OneMore ==
  ASSUME NEW S, NEW s \in Seq(S), NEW e \in S
  PROVE  /\ Append(s, e) \in Seq(S) /\ Len(Append(s, e)) = Len(s) + 1
         /\ Append(s, e)[Len(s) + 1] = e
         /\ \A j \in 1 .. Len(s) : Append(s, e)[j] = s[j]
BY AppendProperties

LEMMA NoLines ==
  ASSUME NEW n
  PROVE  Lines(n, 0) = <<>>
BY DEF Lines

LEMMA LinesAre ==
  ASSUME NEW n \in Call, NEW k \in Nat
  PROVE  Lines(n, k) \in Seq(Line) /\ Len(Lines(n, k)) = k
BY DEF Lines, Line

\* One more line behind the first k.
LEMMA NextLine ==
  ASSUME NEW n \in Call, NEW k \in Nat
  PROVE  Append(Lines(n, k), [n |-> n, i |-> k + 1]) = Lines(n, k + 1)
<1> DEFINE l == [n |-> n, i |-> k + 1]
<1>0. k + 1 \in Nat /\ l \in Line
  BY DEF Line
<1>1. l \in Line /\ Lines(n, k) \in Seq(Line) /\ Len(Lines(n, k)) = k
  BY <1>0, LinesAre
<1>2. Lines(n, k + 1) \in Seq(Line) /\ Len(Lines(n, k + 1)) = k + 1
  BY <1>0, LinesAre
<1>3. Append(Lines(n, k), l) \in Seq(Line) /\ Len(Append(Lines(n, k), l)) = k + 1
  BY <1>1, OneMore
<1>4. \A j \in 1 .. k + 1 : Append(Lines(n, k), l)[j] = Lines(n, k + 1)[j]
  <2>1. \A j \in 1 .. k : Append(Lines(n, k), l)[j] = Lines(n, k)[j]
    BY <1>1, OneMore
  <2>2. Append(Lines(n, k), l)[k + 1] = l
    BY <1>1, OneMore
  <2>3. \A j \in 1 .. k : Lines(n, k)[j] = Lines(n, k + 1)[j]
    BY DEF Lines
  <2>4. Lines(n, k + 1)[k + 1] = l
    BY DEF Lines
  <2> HIDE DEF l
  <2>5. \A j \in 1 .. k + 1 : j \in 1 .. k \/ j = k + 1
    OBVIOUS
  <2> QED
    BY <2>1, <2>2, <2>3, <2>4, <2>5
<1> HIDE DEF l
<1>5. \A j \in 1 .. Len(Append(Lines(n, k), l)) : Append(Lines(n, k), l)[j] = Lines(n, k + 1)[j]
  BY <1>3, <1>4
<1>6. Append(Lines(n, k), l) = Lines(n, k + 1)
  BY <1>2, <1>3, <1>5, SeqEqual
<1> QED
  BY <1>6 DEF l

\* The command under way has a number; the fields of what it prints have types.
LEMMA Numbers ==
  ASSUME ClientInv, LinesOK
  PROVE  /\ pc # "rest" => seq \in Call
         /\ doing.n \in 0 .. MaxCalls /\ doing.out \in Nat /\ doing.err \in Nat
         /\ doing.ready \in BOOLEAN /\ doing.done \in BOOLEAN
         /\ Len(outPipe) \in Nat /\ Len(errPipe) \in Nat /\ Len(queue) \in Nat
<1>1. pc # "rest" => seq \in Call
  BY ClientConstants DEF ClientInv, TypeOK, RaceOK, Call
<1>2. Len(outPipe) \in Nat /\ Len(errPipe) \in Nat /\ Len(queue) \in Nat
  BY DEF LinesOK
<1> QED
  BY <1>1, <1>2 DEF LinesOK

\* What WholeOK speaks of; the timers, Kill, Close and the process itself are
\* not among it.
readings == <<seq, pc, res, outcome, reply, queue, size, outPipe, errPipe, doing>>

LEMMA WholeApart ==
  ASSUME WholeOK, UNCHANGED readings
  PROVE  WholeOK'
<1>1. LinesOK'
  BY DEF WholeOK, LinesOK, readings
<1>2. AnsweredOK'
  BY DEF WholeOK, AnsweredOK, Answered, Failed, readings
<1>3. ReadingOK'
  BY DEF WholeOK, ReadingOK, OutLeft, ErrLeft, QueueOK, Item, Passed, Printed, MarkPassed,
         Lines, readings
<1> QED
  BY <1>1, <1>2, <1>3 DEF WholeOK

\* A command that failed is the last one, so nothing is said of what is left of it.
LEMMA WholeCrash ==
  ASSUME WholeOK, pc' = "settle", res' = "crash",
         outPipe' \in Seq(Line), errPipe' \in Seq(Line), queue' \in Seq(Line), doing' = doing
  PROVE  WholeOK'
<1>1. LinesOK'
  BY DEF WholeOK, LinesOK
<1>2. ~Answered'
  BY DEF Answered
<1> QED
  BY <1>1, <1>2 DEF WholeOK, AnsweredOK, ReadingOK

LEMMA WholeBegin ==
  ASSUME ClientInv, WholeOK, NEW limited \in Limits, Begin(limited)
  PROVE  WholeOK'
<1>1. /\ Answered /\ pc' = "write" /\ reply' = [out |-> <<>>, err |-> <<>>]
      /\ UNCHANGED <<outPipe, errPipe, queue, size, doing>>
  BY DEF Begin, Answered, pipes
<1>2. LinesOK'
  BY <1>1 DEF WholeOK, LinesOK
<1>3. AnsweredOK'
  BY <1>1 DEF WholeOK, AnsweredOK
<1>4. ReadingOK'
  BY <1>1 DEF ReadingOK
<1> QED
  BY <1>2, <1>3, <1>4 DEF WholeOK

\* The process gets a block when it has printed all of the one before, and all of that
\* has been read.
LEMMA WholeWrite ==
  ASSUME ClientInv, WholeOK, Write
  PROVE  WholeOK'
<1>0. seq \in Call
  BY Numbers DEF Write, WholeOK
<1>1. /\ pc = "write" /\ Answered /\ pc' = "out"
      /\ doing' = [n |-> seq, out |-> 0, err |-> 0, ready |-> FALSE, done |-> FALSE]
      /\ UNCHANGED <<seq, reply, outPipe, errPipe, queue, size>>
  BY DEF Write, Answered, pipes
<1>2. /\ outPipe = <<>> /\ errPipe = <<>> /\ queue = <<>> /\ size = 0
      /\ reply = [out |-> <<>>, err |-> <<>>]
  BY <1>1 DEF WholeOK, LinesOK, AnsweredOK
<1>3. LinesOK'
  <2>1. doing' \in [n : 0 .. MaxCalls, out : Nat, err : Nat, ready : BOOLEAN, done : BOOLEAN]
    BY <1>0, <1>1, ClientConstants DEF Call
  <2> QED
    BY <1>1, <1>2, <2>1 DEF LinesOK
<1>4. AnsweredOK'
  BY <1>1 DEF AnsweredOK, Answered
<1>5. Passed' = 0 /\ ~MarkPassed'
  BY <1>1, <1>2 DEF Passed, Printed, MarkPassed
<1>6. ErrLeft'
  BY <1>1, <1>2, <1>5 DEF ErrLeft
<1>7. QueueOK'
  <2>1. reply'.err = Lines(doing'.n, Len(reply'.err)) /\ Len(reply'.err) = 0
    BY <1>1, <1>2, NoLines
  <2> QED
    BY <1>1, <1>2, <1>5, <2>1, ClientConstants DEF QueueOK
<1>8. OutLeft' /\ reply'.out = Lines(seq', Len(reply'.out)) /\ reply'.err = <<>>
  BY <1>1, <1>2, NoLines DEF OutLeft
<1> QED
  BY <1>1, <1>3, <1>4, <1>6, <1>7, <1>8 DEF WholeOK, ReadingOK

\* The first line left in stdout's pipe is the next of the reply, or the marker, and
\* then nothing is left.
LEMMA WholeReadOut ==
  ASSUME ClientInv, WholeOK, ReadOut
  PROVE  WholeOK'
<1> DEFINE l == Head(outPipe)
           k == Len(reply.out)
<1>0. /\ seq \in Call /\ doing.n = seq /\ doing.out \in Nat /\ doing.ready \in BOOLEAN
      /\ pc = "out" /\ outPipe # <<>> /\ outPipe \in Seq(Line)
      /\ reply \in [out : Seq(Line), err : Seq(Line)] /\ k \in Nat
  BY Numbers DEF ReadOut, WholeOK, LinesOK, ReadingOK
<1>1. /\ k + Len(outPipe) = doing.out + (IF doing.ready THEN 1 ELSE 0) /\ k <= doing.out
      /\ \A j \in 1 .. Len(outPipe) : outPipe[j] = Item(k + j, doing.out)
      /\ reply.out = Lines(seq, k) /\ reply.err = <<>> /\ ErrLeft /\ QueueOK
  BY <1>0 DEF WholeOK, ReadingOK, OutLeft
<1>2. /\ outPipe' = Tail(outPipe) /\ outPipe' \in Seq(Line) /\ Len(outPipe') = Len(outPipe) - 1
      /\ \A j \in 1 .. Len(outPipe') : outPipe'[j] = outPipe[j + 1]
      /\ l = outPipe[1] /\ l \in Line /\ Len(outPipe) >= 1 /\ Len(outPipe) \in Nat
  BY <1>0, HeadTail DEF ReadOut
<1>3. UNCHANGED <<seq, errPipe, queue, size, doing>>
  BY DEF ReadOut
<1>4. ErrLeft'
  BY <1>1, <1>3 DEF ErrLeft, Passed, Printed, Item
<1>5. l = Item(k + 1, doing.out)
  BY <1>1, <1>2
<1>6. CASE l = [n |-> seq, i |-> 0]
  <2>1. pc' = "err" /\ reply' = reply
    BY <1>6 DEF ReadOut
  <2>2. k = doing.out /\ doing.ready /\ Len(outPipe') = 0
    <3>1. ~(k + 1 <= doing.out)
      BY <1>0, <1>5, <1>6 DEF Item
    <3> QED
      BY <1>0, <1>1, <1>2, <3>1
  <2>3. outPipe' = <<>>
    BY <1>2, <2>2, EmptySeq
  <2>4. LinesOK'
    BY <1>0, <1>2, <1>3, <2>1 DEF WholeOK, LinesOK
  <2>5. AnsweredOK'
    BY <2>1 DEF AnsweredOK, Answered
  <2>6. QueueOK'
    BY <1>1, <1>3, <2>1 DEF QueueOK, MarkPassed, Passed, Printed, Lines
  <2> QED
    BY <1>0, <1>1, <1>3, <1>4, <2>1, <2>2, <2>3, <2>4, <2>5, <2>6 DEF WholeOK, ReadingOK
<1>7. CASE l # [n |-> seq, i |-> 0]
  <2>1. pc' = "out" /\ reply' = [reply EXCEPT !.out = Append(reply.out, l)]
    BY <1>0, <1>7 DEF ReadOut
  <2>2. k + 1 <= doing.out /\ l = [n |-> seq, i |-> k + 1]
    BY <1>0, <1>5, <1>7 DEF Item
  <2>3. reply'.out = Lines(seq, k + 1) /\ reply'.err = reply.err
    BY <1>0, <1>1, <2>1, <2>2, NextLine
  <2>4. Len(reply'.out) = k + 1 /\ reply' \in [out : Seq(Line), err : Seq(Line)]
    <3>1. k + 1 \in Nat
      BY <1>0
    <3>2. Len(reply'.out) = k + 1
      BY <1>0, <2>3, <3>1, LinesAre
    <3>3. Append(reply.out, l) \in Seq(Line)
      BY <1>0, <1>2, OneMore
    <3> QED
      BY <1>0, <2>1, <3>2, <3>3
  <2>5. LinesOK'
    BY <1>0, <1>2, <1>3, <2>1, <2>4 DEF WholeOK, LinesOK
  <2>6. AnsweredOK'
    BY <2>1 DEF AnsweredOK, Answered
  <2>7. QueueOK'
    BY <1>1, <1>3, <2>3 DEF QueueOK, MarkPassed, Passed, Printed, Lines
  <2>8. OutLeft'
    <3>1. ASSUME NEW j \in 1 .. Len(outPipe')
          PROVE  outPipe'[j] = [n |-> doing'.n, i |-> IF k + 1 + j <= doing'.out
                                                      THEN k + 1 + j ELSE 0]
      <4>1. j + 1 \in 1 .. Len(outPipe) /\ k + 1 + j = k + (j + 1)
        BY <1>0, <1>2
      <4>2. outPipe'[j] = Item(k + (j + 1), doing.out)
        BY <1>1, <1>2, <4>1
      <4> QED
        BY <1>3, <4>1, <4>2 DEF Item
    <3>2. Len(reply'.out) + Len(outPipe') = doing.out + (IF doing.ready THEN 1 ELSE 0)
      BY <1>0, <1>1, <1>2, <2>4
    <3>3. \A j \in 1 .. Len(outPipe') : outPipe'[j] = Item(Len(reply.out) + j, doing.out)'
      BY <2>4, <3>1 DEF Item
    <3>4. Len(reply'.out) <= doing'.out
      BY <1>3, <2>2, <2>4
    <3> QED
      BY <1>3, <2>4, <3>2, <3>3, <3>4 DEF OutLeft, Item
  <2> QED
    BY <1>0, <1>1, <1>3, <1>4, <2>1, <2>3, <2>4, <2>5, <2>6, <2>7, <2>8 DEF WholeOK, ReadingOK
<1> QED
  BY <1>6, <1>7

\* The process's pipe closed, or ended, before the markers came.
LEMMA WholeFails ==
  ASSUME WholeOK, WriteFails \/ OutEnds \/ ErrEnds
  PROVE  WholeOK'
<1>1. /\ pc' = "settle" /\ res' = "crash" /\ UNCHANGED <<outPipe, errPipe, doing>>
      /\ queue' = queue \/ queue' = <<>>
  BY DEF WriteFails, OutEnds, ErrEnds, Return, pipes
<1>2. /\ outPipe' \in Seq(Line) /\ errPipe' \in Seq(Line) /\ queue' \in Seq(Line)
  BY <1>1, EmptySeq DEF WholeOK, LinesOK
<1> QED
  BY <1>1, <1>2, WholeCrash

\* The marker is the last of the queue, which has all of stderr's lines before it
\* or those the reply has room for.
LEMMA WholeTakeMark ==
  ASSUME ClientInv, WholeOK, TakeErr, Head(queue) = [n |-> seq, i |-> 0]
  PROVE  WholeOK'
<1> DEFINE k == Len(reply.err)
<1>0. /\ doing.n = seq /\ doing.err \in Nat /\ doing.done \in BOOLEAN
      /\ Len(errPipe) \in Nat /\ MaxStderr \in Nat
      /\ pc = "err" /\ queue # <<>> /\ queue \in Seq(Line) /\ errPipe \in Seq(Line)
      /\ reply \in [out : Seq(Line), err : Seq(Line)] /\ k \in Nat
  BY Numbers, ClientConstants DEF TakeErr, WholeOK, LinesOK, ReadingOK
<1>1. /\ outPipe = <<>> /\ doing.ready /\ reply.out = Lines(seq, doing.out) /\ QueueOK
  BY <1>0 DEF WholeOK, ReadingOK
<1>2. /\ pc' = "settle" /\ res' = "ok" /\ queue' = Tail(queue)
      /\ UNCHANGED <<seq, outcome, reply, outPipe, errPipe, doing>>
      /\ size' = IF Text(Head(queue)) THEN size - 1 ELSE size
  BY DEF TakeErr, Return, pipes
<1>3. /\ Head(queue) = queue[1] /\ Len(queue) >= 1
      /\ queue' \in Seq(Line) /\ Len(queue') = Len(queue) - 1
  BY <1>0, <1>2, HeadTail
<1>4. size \in Nat /\ size = 0 /\ size' = size
  BY <1>1, <1>2, <1>3 DEF QueueOK, Text
<1>5. MarkPassed /\ Len(queue) = 1
  BY <1>1, <1>3, <1>4 DEF QueueOK
<1>6. queue' = <<>>
  BY <1>3, <1>5, EmptySeq
<1>7. doing.done /\ Len(errPipe) = 0
  BY <1>0, <1>5 DEF MarkPassed, Passed, Printed
<1>8. errPipe = <<>>
  BY <1>0, <1>7, EmptySeq
<1>9. k = IF doing.err < MaxStderr THEN doing.err ELSE MaxStderr
  BY <1>0, <1>1, <1>4, <1>5 DEF QueueOK
<1>10. reply.err = Lines(seq, k)
  BY <1>0, <1>1 DEF QueueOK
<1>11. LinesOK'
  BY <1>2, <1>3 DEF WholeOK, LinesOK
<1>12. AnsweredOK'
  BY <1>1, <1>2, <1>4, <1>6, <1>7, <1>8, <1>9, <1>10 DEF AnsweredOK, Lines
<1>13. ReadingOK'
  BY <1>2 DEF ReadingOK
<1> QED
  BY <1>11, <1>12, <1>13 DEF WholeOK

\* A line of the queue is the next of the reply, as long as that has room for it.
LEMMA WholeTakeLine ==
  ASSUME ClientInv, WholeOK, TakeErr, Head(queue) # [n |-> seq, i |-> 0]
  PROVE  WholeOK'
<1> DEFINE k == Len(reply.err)
           l == Head(queue)
<1>0. /\ seq \in Call /\ doing.n = seq /\ doing.err \in Nat /\ doing.done \in BOOLEAN
      /\ Len(errPipe) \in Nat /\ MaxStderr \in Nat /\ Len(queue) \in Nat
      /\ pc = "err" /\ queue # <<>> /\ queue \in Seq(Line) /\ errPipe \in Seq(Line)
      /\ reply \in [out : Seq(Line), err : Seq(Line)] /\ k \in Nat
  BY Numbers, ClientConstants DEF TakeErr, WholeOK, LinesOK, ReadingOK
<1>1. /\ outPipe = <<>> /\ doing.ready /\ reply.out = Lines(seq, doing.out)
      /\ QueueOK /\ ErrLeft
  BY <1>0 DEF WholeOK, ReadingOK
<1>2. /\ queue' = Tail(queue)
      /\ UNCHANGED <<seq, pc, outcome, outPipe, errPipe, doing>>
      /\ size' = IF Text(l) THEN size - 1 ELSE size
      /\ reply' = IF k < MaxStderr THEN [reply EXCEPT !.err = Append(reply.err, l)] ELSE reply
  BY DEF TakeErr, pipes
<1>3. /\ l = queue[1] /\ Len(queue) >= 1 /\ l \in Line
      /\ queue' \in Seq(Line) /\ Len(queue') = Len(queue) - 1
      /\ \A j \in 1 .. Len(queue) - 1 : queue'[j] = queue[j + 1]
  BY <1>0, <1>2, HeadTail
<1>4. size \in Nat /\ size >= 1
  BY <1>0, <1>1, <1>3 DEF QueueOK
<1>5. l.n = seq /\ l.i > 0 /\ (k + 1 <= MaxStderr => l.i = k + 1) /\ size' = size - 1
  <2>1. 1 \in 1 .. size
    BY <1>4
  <2>2. queue[1].n = doing.n /\ queue[1].i > 0 /\ (k + 1 <= MaxStderr => queue[1].i = k + 1)
    BY <1>1, <2>1 DEF QueueOK
  <2> QED
    BY <1>0, <1>2, <1>3, <2>2 DEF Text
<1>6. MarkPassed' = MarkPassed /\ Passed' = Passed /\ Passed \in Int
  BY <1>0, <1>2 DEF MarkPassed, Passed, Printed
<1>7. /\ reply' \in [out : Seq(Line), err : Seq(Line)] /\ reply'.out = reply.out
      /\ Len(reply'.err) = IF k < MaxStderr THEN k + 1 ELSE k
      /\ reply'.err = Lines(seq, Len(reply'.err))
  <2>1. CASE k < MaxStderr
    <3>1. l = [n |-> seq, i |-> k + 1]
      BY <1>0, <1>3, <1>5, <2>1 DEF Line
    <3>2. reply.err = Lines(seq, k)
      BY <1>0, <1>1 DEF QueueOK
    <3>3. reply'.err = Lines(seq, k + 1) /\ reply'.out = reply.out
      BY <1>0, <1>2, <2>1, <3>1, <3>2, NextLine
    <3>4. Append(reply.err, l) \in Seq(Line)
      BY <1>0, <1>3, OneMore
    <3>5. k + 1 \in Nat
      BY <1>0
    <3>6. Len(reply'.err) = k + 1
      BY <1>0, <3>3, <3>5, LinesAre
    <3> QED
      BY <1>0, <1>2, <2>1, <3>3, <3>4, <3>6
  <2>2. CASE ~(k < MaxStderr)
    BY <1>0, <1>1, <1>2, <2>2 DEF QueueOK
  <2> QED
    BY <2>1, <2>2
<1>8. LinesOK'
  BY <1>0, <1>2, <1>3, <1>7 DEF WholeOK, LinesOK
<1>9. AnsweredOK'
  BY <1>0, <1>2 DEF AnsweredOK, Answered
<1>10. QueueOK'
  <2>1. size' \in Nat /\ Len(queue') = size' + (IF MarkPassed' THEN 1 ELSE 0)
    BY <1>0, <1>1, <1>3, <1>4, <1>5, <1>6 DEF QueueOK
  <2>2. ASSUME NEW j \in 1 .. size'
        PROVE  /\ queue'[j].n = doing'.n /\ queue'[j].i > 0
               /\ Len(reply'.err) + j <= MaxStderr => queue'[j].i = Len(reply'.err) + j
    <3>1. j + 1 \in 1 .. size /\ j \in 1 .. Len(queue) - 1
      BY <1>0, <1>1, <1>4, <1>5 DEF QueueOK
    <3>2. /\ queue[j + 1].n = doing.n /\ queue[j + 1].i > 0
          /\ k + (j + 1) <= MaxStderr => queue[j + 1].i = k + (j + 1)
      BY <1>1, <3>1 DEF QueueOK
    <3>3. queue'[j] = queue[j + 1]
      BY <1>3, <3>1
    <3>4. Len(reply'.err) + j <= MaxStderr => Len(reply'.err) + j = k + (j + 1)
      BY <1>0, <1>7, <3>1
    <3> QED
      BY <1>2, <3>2, <3>3, <3>4
  <2>3. MarkPassed' => queue'[size' + 1] = [n |-> doing'.n, i |-> 0]
    <3>1. MarkPassed => size \in 1 .. Len(queue) - 1 /\ queue[size + 1] = [n |-> doing.n, i |-> 0]
      BY <1>0, <1>1, <1>4 DEF QueueOK
    <3>2. MarkPassed => queue'[size] = queue[size + 1]
      BY <1>3, <3>1
    <3> QED
      BY <1>2, <1>4, <1>5, <1>6, <3>1, <3>2
  <2>4. /\ Len(reply'.err) <= MaxStderr
        /\ Len(reply'.err) + size' <= IF MarkPassed' THEN doing'.err ELSE Passed'
        /\ Len(reply'.err) + size' < MaxStderr =>
             Len(reply'.err) + size' = IF MarkPassed' THEN doing'.err ELSE Passed'
    <3>1. /\ k <= MaxStderr /\ k + size <= IF MarkPassed THEN doing.err ELSE Passed
          /\ k + size < MaxStderr => k + size = IF MarkPassed THEN doing.err ELSE Passed
      BY <1>1 DEF QueueOK
    <3> DEFINE k1 == Len(reply'.err)
               p  == IF MarkPassed THEN doing.err ELSE Passed
    <3>2. p \in Int /\ (IF MarkPassed' THEN doing'.err ELSE Passed') = p
      BY <1>0, <1>2, <1>6
    <3>3. k1 = (IF k < MaxStderr THEN k + 1 ELSE k) /\ size' = size - 1
      BY <1>5, <1>7
    <3>4. k <= MaxStderr /\ k + size <= p /\ (k + size < MaxStderr => k + size = p)
      BY <3>1
    <3>5. k \in Nat /\ size \in Nat /\ size >= 1 /\ MaxStderr \in Nat
      BY <1>0, <1>4
    <3> HIDE DEF p, k1, k
    <3>6. k1 <= MaxStderr /\ k1 + size' <= p /\ (k1 + size' < MaxStderr => k1 + size' = p)
      BY <3>2, <3>3, <3>4, <3>5
    <3> QED
      BY <3>2, <3>6 DEF k1
  <2>5. reply'.err = Lines(doing'.n, Len(reply'.err))
    BY <1>0, <1>2, <1>7
  <2> QED
    BY <2>1, <2>2, <2>3, <2>4, <2>5 DEF QueueOK
<1>11. ErrLeft'
  BY <1>1, <1>2, <1>6 DEF ErrLeft, Item
<1>12. reply'.out = Lines(seq, doing.out)'
  BY <1>1, <1>2, <1>7 DEF Lines
<1> QED
  BY <1>0, <1>1, <1>2, <1>8, <1>9, <1>10, <1>11, <1>12 DEF WholeOK, ReadingOK

\* A command whose outcome is "ok" had both its markers.
LEMMA WholeSettle ==
  ASSUME ClientInv, WholeOK, Settle
  PROVE  WholeOK'
<1>1. seq \in Call /\ seq > 0
  BY Numbers, ClientConstants DEF Settle, WholeOK, Call
<1>2. /\ pc = "settle" /\ pc' = "rest"
      /\ UNCHANGED <<seq, res, reply, queue, size, outPipe, errPipe, doing>>
      /\ outcome'[seq] \in {res, "timeout"} /\ res \in {"ok", "crash"}
  BY <1>1 DEF Settle, pipes, ClientInv, TypeOK
<1>3. LinesOK'
  BY <1>2 DEF WholeOK, LinesOK
<1>4. Answered' => Answered
  BY <1>1, <1>2 DEF Answered, Failed
<1>5. AnsweredOK'
  BY <1>1, <1>2, <1>4 DEF WholeOK, AnsweredOK, Lines
<1>6. ReadingOK'
  BY <1>2 DEF ReadingOK
<1> QED
  BY <1>3, <1>5, <1>6 DEF WholeOK

\* The reader of stderr moves the next line into the queue, or drops it when the
\* reply could not take it any more; the marker always goes in.
LEMMA WholePushErr ==
  ASSUME ClientInv, WholeOK, PushErr
  PROVE  WholeOK'
<1> DEFINE k == Len(reply.err)
           l == Head(errPipe)
<1>0. /\ doing.n \in 0 .. MaxCalls /\ doing.err \in Nat /\ doing.done \in BOOLEAN
      /\ Len(errPipe) \in Nat /\ MaxStderr \in Nat /\ Len(queue) \in Nat
      /\ errPipe # <<>> /\ queue \in Seq(Line) /\ errPipe \in Seq(Line)
  BY Numbers, ClientConstants DEF PushErr, WholeOK, LinesOK
<1>1. /\ errPipe' = Tail(errPipe) /\ UNCHANGED <<seq, pc, res, outcome, reply, outPipe, doing>>
  BY DEF PushErr, runvars
<1>2. \/ Text(l) /\ size >= MaxStderr /\ queue' = queue /\ size' = size
      \/ Text(l) /\ ~(size >= MaxStderr) /\ queue' = Append(queue, l) /\ size' = size + 1
      \/ ~Text(l) /\ queue' = Append(queue, l) /\ size' = size
  BY DEF PushErr
<1>3. /\ l = errPipe[1] /\ Len(errPipe) >= 1 /\ l \in Line
      /\ errPipe' \in Seq(Line) /\ Len(errPipe') = Len(errPipe) - 1
      /\ \A j \in 1 .. Len(errPipe) - 1 : errPipe'[j] = errPipe[j + 1]
  BY <1>0, <1>1, HeadTail
<1>4. /\ Append(queue, l) \in Seq(Line) /\ Len(Append(queue, l)) = Len(queue) + 1
      /\ Append(queue, l)[Len(queue) + 1] = l
      /\ \A j \in 1 .. Len(queue) : Append(queue, l)[j] = queue[j]
  BY <1>0, <1>3, OneMore
<1>5. LinesOK'
  BY <1>0, <1>1, <1>2, <1>3, <1>4 DEF WholeOK, LinesOK
<1>6. AnsweredOK'
  <2>1. ~Answered
    BY <1>0 DEF WholeOK, AnsweredOK
  <2>2. Answered' = Answered
    BY <1>1 DEF Answered, Failed
  <2> QED
    BY <2>1, <2>2 DEF AnsweredOK
<1>7. CASE pc \notin {"out", "err"}
  BY <1>1, <1>5, <1>6, <1>7 DEF WholeOK, ReadingOK
<1>8. CASE pc \in {"out", "err"}
  <2>1. /\ ErrLeft /\ QueueOK /\ doing.n = seq
        /\ pc = "out" => OutLeft /\ reply.out = Lines(seq, Len(reply.out)) /\ reply.err = <<>>
        /\ pc = "err" => outPipe = <<>> /\ doing.ready /\ reply.out = Lines(seq, doing.out)
    BY <1>8 DEF WholeOK, ReadingOK
  <2>2. reply \in [out : Seq(Line), err : Seq(Line)] /\ k \in Nat
    BY <1>8 DEF WholeOK, LinesOK
  <2>3. Passed \in Int /\ Passed >= 0 /\ Passed <= doing.err /\ ~MarkPassed
        /\ (Passed = doing.err => doing.done)
    BY <1>0, <1>3, <2>1 DEF ErrLeft, MarkPassed, Passed, Printed
  <2>4. Passed' = Passed + 1 /\ (MarkPassed' <=> Passed = doing.err)
    BY <1>0, <1>1, <1>3, <2>3 DEF MarkPassed, Passed, Printed
  <2>5. l = Item(Passed + 1, doing.err)
    BY <1>0, <1>3, <2>1 DEF ErrLeft
  <2>6. Text(l) <=> Passed + 1 <= doing.err
    BY <1>0, <2>3, <2>5 DEF Text, Item
  <2>7. ErrLeft'
    <3>1. ASSUME NEW j \in 1 .. Len(errPipe')
          PROVE  errPipe'[j] = Item(Passed + j, doing.err)'
      <4>1. j + 1 \in 1 .. Len(errPipe) /\ j \in 1 .. Len(errPipe) - 1
            /\ Passed + (j + 1) = Passed' + j
        BY <1>0, <1>3, <2>3, <2>4
      <4>2. errPipe'[j] = Item(Passed + (j + 1), doing.err)
        BY <1>3, <2>1, <4>1 DEF ErrLeft
      <4> QED
        BY <1>1, <4>1, <4>2 DEF Item
    <3> QED
      BY <2>3, <2>4, <3>1 DEF ErrLeft
  <2>8. /\ size \in Nat /\ Len(queue) = size
        /\ \A j \in 1 .. size :
             /\ queue[j].n = doing.n /\ queue[j].i > 0
             /\ k + j <= MaxStderr => queue[j].i = k + j
        /\ k <= MaxStderr /\ reply.err = Lines(doing.n, k)
        /\ k + size <= Passed /\ (k + size < MaxStderr => k + size = Passed)
    BY <1>0, <2>1, <2>3 DEF QueueOK
  <2>9. k <= MaxStderr /\ k' = k /\ reply'.err = Lines(doing'.n, k')
    BY <1>1, <2>8
  <2>10. QueueOK'
    <3>1. CASE Text(l) /\ size >= MaxStderr /\ queue' = queue /\ size' = size
      <4>1. ~MarkPassed' /\ Passed' = Passed + 1
        BY <1>0, <2>3, <2>4, <2>6, <3>1
      <4>2. k + size <= Passed + 1 /\ ~(k + size < MaxStderr)
        BY <1>0, <2>2, <2>3, <2>8, <3>1
      <4> HIDE DEF l
      <4> QED
        BY <1>1, <2>8, <2>9, <3>1, <4>1, <4>2 DEF QueueOK
    <3>2. CASE Text(l) /\ ~(size >= MaxStderr) /\ queue' = Append(queue, l) /\ size' = size + 1
      <4>1. ~MarkPassed' /\ Passed' = Passed + 1
        BY <1>0, <2>3, <2>4, <2>6, <3>2
      <4>2. size' \in Nat /\ Len(queue') = size'
        BY <1>4, <2>8, <3>2
      <4>3. /\ k + size' <= Passed'
            /\ (k + size' < MaxStderr => k + size' = Passed')
        <5>1. size' = size + 1 /\ size < MaxStderr /\ size \in Nat
          BY <1>0, <2>8, <3>2
        <5>2. k \in Nat /\ Passed \in Int /\ Passed' = Passed + 1 /\ MaxStderr \in Nat
          BY <1>0, <2>2, <2>3, <4>1
        <5>3. k + size <= Passed /\ (k + size < MaxStderr => k + size = Passed)
          BY <2>8
        <5> HIDE DEF k
        <5> QED
          BY <5>1, <5>2, <5>3
      <4>4. ASSUME NEW j \in 1 .. size'
            PROVE  /\ queue'[j].n = doing'.n /\ queue'[j].i > 0
                   /\ k' + j <= MaxStderr => queue'[j].i = k' + j
        <5>1. CASE j \in 1 .. size
          <6>1. queue'[j] = queue[j]
            BY <1>4, <2>8, <3>2, <5>1
          <6> QED
            BY <1>1, <2>8, <2>9, <5>1, <6>1
        <5>2. CASE j = size + 1
          <6>1. queue'[j] = l
            BY <1>4, <2>8, <3>2, <5>2
          <6>2. l.n = doing.n /\ l.i = Passed + 1
            BY <2>5, <2>6, <3>2 DEF Item
          <6>3. k + j <= MaxStderr => k + j = Passed + 1
            BY <1>0, <2>2, <2>3, <2>8, <5>2
          <6>4. l.i > 0
            BY <2>3, <6>2
          <6> QED
            BY <1>1, <2>9, <6>1, <6>2, <6>3, <6>4
        <5>3. j \in 1 .. size \/ j = size + 1
          BY <2>8, <3>2
        <5> QED
          BY <5>1, <5>2, <5>3
      <4>5. /\ k' <= MaxStderr /\ k' + size' <= Passed'
            /\ k' + size' < MaxStderr => k' + size' = Passed'
        BY <2>9, <4>3
      <4>6. MarkPassed' = FALSE
        BY <4>1 DEF MarkPassed
      <4>7. /\ size' \in Nat /\ Len(queue') = size' + (IF MarkPassed' THEN 1 ELSE 0)
            /\ MarkPassed' => queue'[size' + 1] = [n |-> doing'.n, i |-> 0]
            /\ k' <= MaxStderr /\ reply'.err = Lines(doing'.n, k')
            /\ k' + size' <= IF MarkPassed' THEN doing'.err ELSE Passed'
            /\ k' + size' < MaxStderr =>
                 k' + size' = IF MarkPassed' THEN doing'.err ELSE Passed'
        <5>1. size' \in Nat /\ size' + 0 = size'
          BY <2>8, <3>2
        <5> HIDE DEF k
        <5> QED
          BY <2>9, <4>2, <4>5, <4>6, <5>1
      <4> QED
        BY <4>4, <4>7 DEF QueueOK
    <3>3. CASE ~Text(l) /\ queue' = Append(queue, l) /\ size' = size
      <4>1. MarkPassed' /\ Passed = doing.err
        BY <1>0, <2>3, <2>4, <2>6, <3>3
      <4>2. l = [n |-> doing.n, i |-> 0]
        BY <1>0, <2>3, <2>5, <4>1 DEF Item
      <4>3. queue'[size' + 1] = [n |-> doing'.n, i |-> 0] /\ Len(queue') = size' + 1
        BY <1>1, <1>4, <2>8, <3>3, <4>2
      <4>4. \A j \in 1 .. size' : queue'[j] = queue[j]
        BY <1>4, <2>8, <3>3
      <4> HIDE DEF l
      <4> QED
        BY <1>1, <2>8, <2>9, <3>3, <4>1, <4>3, <4>4 DEF QueueOK
    <3> QED
      BY <1>2, <3>1, <3>2, <3>3
  <2>11. OutLeft => OutLeft'
    BY <1>1 DEF OutLeft, Item
  <2> QED
    BY <1>1, <1>5, <1>6, <2>1, <2>7, <2>10, <2>11 DEF WholeOK, ReadingOK, Lines
<1> QED
  BY <1>7, <1>8

\* What the process prints is not answered yet.
LEMMA NotAnswered ==
  ASSUME WholeOK, doing.n > 0, doing.n \in Nat, ~(doing.ready /\ doing.done)
  PROVE  ~Answered
BY DEF WholeOK, AnsweredOK

\* What it prints on stdout comes behind all that is left there.
LEMMA WholeOut ==
  ASSUME ClientInv, WholeOK, PrintLine("out") \/ Mark("out")
  PROVE  WholeOK'
<1> DEFINE l == [n |-> doing.n, i |-> IF doing'.ready THEN 0 ELSE doing'.out]
<1>0. /\ doing.n \in 0 .. MaxCalls /\ doing.out \in Nat /\ doing.n > 0 /\ ~doing.ready
      /\ doing.err \in Nat /\ doing.done \in BOOLEAN /\ Len(outPipe) \in Nat /\ MaxCalls \in Nat
      /\ outPipe \in Seq(Line) /\ errPipe \in Seq(Line) /\ queue \in Seq(Line)
  BY Numbers, ClientConstants DEF PrintLine, Mark, WholeOK, LinesOK
<1>1. /\ outPipe' = Append(outPipe, l)
      /\ \/ doing' = [doing EXCEPT !.out = doing.out + 1]
         \/ doing' = [doing EXCEPT !.ready = TRUE]
      /\ UNCHANGED <<seq, pc, res, outcome, reply, queue, size, errPipe>>
  BY <1>0 DEF PrintLine, Mark, Prints, runvars, WholeOK, LinesOK
<1>2. /\ doing'.n = doing.n /\ doing'.err = doing.err /\ doing'.done = doing.done
      /\ doing' \in [n : 0 .. MaxCalls, out : Nat, err : Nat, ready : BOOLEAN, done : BOOLEAN]
      /\ \/ doing'.out = doing.out + 1 /\ ~doing'.ready
         \/ doing'.out = doing.out /\ doing'.ready
  <2>1. doing \in [n : 0 .. MaxCalls, out : Nat, err : Nat, ready : BOOLEAN, done : BOOLEAN]
    BY DEF WholeOK, LinesOK
  <2>2. CASE doing' = [doing EXCEPT !.out = doing.out + 1]
    <3> DEFINE x == doing.out + 1
    <3>1. x \in Nat
      BY <1>0
    <3> HIDE DEF x
    <3>2. doing' = [doing EXCEPT !.out = x]
      BY <2>2 DEF x
    <3>3. /\ doing' \in [n : 0 .. MaxCalls, out : Nat, err : Nat, ready : BOOLEAN, done : BOOLEAN]
          /\ doing'.out = x
          /\ \A f \in {"n", "out", "err", "ready", "done"} \ {"out"} : doing'[f] = doing[f]
      BY <2>1, <3>1, <3>2
    <3> QED
      BY <1>0, <3>3 DEF x
  <2>3. CASE doing' = [doing EXCEPT !.ready = TRUE]
    BY <1>0, <2>1, <2>3
  <2> QED
    BY <1>1, <2>2, <2>3
<1>3. l \in Line
  BY <1>0, <1>2 DEF Line, Call
<1>4. /\ outPipe' \in Seq(Line) /\ Len(outPipe') = Len(outPipe) + 1
      /\ outPipe'[Len(outPipe) + 1] = l
      /\ \A j \in 1 .. Len(outPipe) : outPipe'[j] = outPipe[j]
  BY <1>0, <1>1, <1>3, OneMore
<1>5. LinesOK'
  BY <1>0, <1>1, <1>2, <1>4 DEF WholeOK, LinesOK
<1>6. AnsweredOK'
  <2>1. ~Answered
    BY <1>0, NotAnswered
  <2>2. Answered' = Answered
    BY <1>1 DEF Answered, Failed
  <2> QED
    BY <2>1, <2>2 DEF AnsweredOK
<1>7. CASE pc \notin {"out", "err"}
  BY <1>1, <1>5, <1>6, <1>7 DEF WholeOK, ReadingOK
<1>8. CASE pc \in {"out", "err"}
  <2>1. /\ ErrLeft /\ QueueOK /\ doing.n = seq /\ pc = "out"
        /\ OutLeft /\ reply.out = Lines(seq, Len(reply.out)) /\ reply.err = <<>>
    BY <1>0, <1>8 DEF WholeOK, ReadingOK
  <2>2. Len(reply.out) \in Nat
    BY <2>1 DEF WholeOK, LinesOK
  <2>3. Len(reply.out) + Len(outPipe) = doing.out
        /\ \A j \in 1 .. Len(outPipe) : outPipe[j] = Item(Len(reply.out) + j, doing.out)
    BY <1>0, <2>1, <2>2 DEF OutLeft
  <2>4. ErrLeft' /\ QueueOK'
    BY <1>1, <1>2, <2>1 DEF ErrLeft, QueueOK, MarkPassed, Passed, Printed, Item, Lines
  <2>5. OutLeft'
    <3>1. ASSUME NEW j \in 1 .. Len(outPipe')
          PROVE  outPipe'[j] = Item(Len(reply.out) + j, doing.out)'
      <4>1. CASE j \in 1 .. Len(outPipe)
        <5>1. outPipe'[j] = [n |-> doing.n, i |-> Len(reply.out) + j]
          <6>1. Len(reply.out) + j <= doing.out
            BY <1>0, <2>2, <2>3, <4>1
          <6>2. outPipe'[j] = Item(Len(reply.out) + j, doing.out)
            BY <1>4, <2>3, <4>1
          <6> QED
            BY <6>1, <6>2 DEF Item
        <5>2. Len(reply.out) + j <= doing'.out
          BY <1>0, <1>2, <2>2, <2>3, <4>1
        <5> QED
          BY <1>1, <1>2, <5>1, <5>2 DEF Item
      <4>2. CASE j = Len(outPipe) + 1
        <5>1. outPipe'[j] = l /\ Len(reply.out) + j = doing.out + 1
          <6>1. outPipe'[j] = l
            BY <1>4, <4>2
          <6>2. Len(reply.out) + j = doing.out + 1
            <7> DEFINE k == Len(reply.out)
                       m == Len(outPipe)
            <7>1. k \in Nat /\ m \in Nat /\ k + m = doing.out /\ j = m + 1
              BY <1>0, <2>2, <2>3, <4>2
            <7> HIDE DEF k, m
            <7>2. k + j = doing.out + 1
              BY <7>1
            <7> QED
              BY <7>2 DEF k
          <6> QED
            BY <6>1, <6>2
        <5> QED
          BY <1>0, <1>1, <1>2, <5>1 DEF Item
      <4> QED
        BY <1>0, <1>4, <4>1, <4>2
    <3>2. /\ Len(reply'.out) + Len(outPipe') = doing'.out + (IF doing'.ready THEN 1 ELSE 0)
          /\ Len(reply'.out) <= doing'.out
      <4> DEFINE k == Len(reply.out)
                 m == Len(outPipe)
                 d == doing.out
      <4>1. k \in Nat /\ m \in Nat /\ d \in Nat /\ k + m = d /\ Len(outPipe') = m + 1
        BY <1>0, <1>4, <2>2, <2>3
      <4>2. \/ doing'.out = d + 1 /\ ~doing'.ready
            \/ doing'.out = d /\ doing'.ready
        BY <1>2
      <4>3. Len(reply'.out) = k
        BY <1>1
      <4> HIDE DEF k, m, d
      <4> QED
        BY <4>1, <4>2, <4>3
    <3> QED
      BY <3>1, <3>2 DEF OutLeft
  <2>6. reply'.out = Lines(seq', Len(reply'.out)) /\ reply'.err = <<>>
    BY <1>1, <2>1
  <2> QED
    BY <1>1, <1>2, <1>5, <1>6, <2>1, <2>4, <2>5, <2>6 DEF WholeOK, ReadingOK
<1> QED
  BY <1>7, <1>8

\* And what it prints on stderr behind what is left of that.
LEMMA WholeErr ==
  ASSUME ClientInv, WholeOK, PrintLine("err") \/ Mark("err")
  PROVE  WholeOK'
<1> DEFINE l == [n |-> doing.n, i |-> IF doing'.done THEN 0 ELSE doing'.err]
<1>0. /\ doing.n \in 0 .. MaxCalls /\ doing.err \in Nat /\ doing.n > 0 /\ ~doing.done
      /\ doing.out \in Nat /\ doing.ready \in BOOLEAN /\ Len(errPipe) \in Nat /\ MaxCalls \in Nat
      /\ outPipe \in Seq(Line) /\ errPipe \in Seq(Line) /\ queue \in Seq(Line)
  BY Numbers, ClientConstants DEF PrintLine, Mark, WholeOK, LinesOK
<1>1. /\ errPipe' = Append(errPipe, l)
      /\ \/ doing' = [doing EXCEPT !.err = doing.err + 1]
         \/ doing' = [doing EXCEPT !.done = TRUE]
      /\ UNCHANGED <<seq, pc, res, outcome, reply, queue, size, outPipe>>
  BY <1>0 DEF PrintLine, Mark, Prints, runvars, WholeOK, LinesOK
<1>2. /\ doing'.n = doing.n /\ doing'.out = doing.out /\ doing'.ready = doing.ready
      /\ doing' \in [n : 0 .. MaxCalls, out : Nat, err : Nat, ready : BOOLEAN, done : BOOLEAN]
      /\ \/ doing'.err = doing.err + 1 /\ ~doing'.done
         \/ doing'.err = doing.err /\ doing'.done
  <2>1. doing \in [n : 0 .. MaxCalls, out : Nat, err : Nat, ready : BOOLEAN, done : BOOLEAN]
    BY DEF WholeOK, LinesOK
  <2>2. CASE doing' = [doing EXCEPT !.err = doing.err + 1]
    <3> DEFINE x == doing.err + 1
    <3>1. x \in Nat
      BY <1>0
    <3> HIDE DEF x
    <3>2. doing' = [doing EXCEPT !.err = x]
      BY <2>2 DEF x
    <3>3. /\ doing' \in [n : 0 .. MaxCalls, out : Nat, err : Nat, ready : BOOLEAN, done : BOOLEAN]
          /\ doing'.err = x
          /\ \A f \in {"n", "out", "err", "ready", "done"} \ {"err"} : doing'[f] = doing[f]
      BY <2>1, <3>1, <3>2
    <3> QED
      BY <1>0, <3>3 DEF x
  <2>3. CASE doing' = [doing EXCEPT !.done = TRUE]
    BY <1>0, <2>1, <2>3
  <2> QED
    BY <1>1, <2>2, <2>3
<1>3. l \in Line
  BY <1>0, <1>2 DEF Line, Call
<1>4. /\ errPipe' \in Seq(Line) /\ Len(errPipe') = Len(errPipe) + 1
      /\ errPipe'[Len(errPipe) + 1] = l
      /\ \A j \in 1 .. Len(errPipe) : errPipe'[j] = errPipe[j]
  BY <1>0, <1>1, <1>3, OneMore
<1>5. LinesOK'
  BY <1>0, <1>1, <1>2, <1>4 DEF WholeOK, LinesOK
<1>6. AnsweredOK'
  <2>1. ~Answered
    BY <1>0, NotAnswered
  <2>2. Answered' = Answered
    BY <1>1 DEF Answered, Failed
  <2> QED
    BY <2>1, <2>2 DEF AnsweredOK
<1>7. CASE pc \notin {"out", "err"}
  BY <1>1, <1>5, <1>6, <1>7 DEF WholeOK, ReadingOK
<1>8. CASE pc \in {"out", "err"}
  <2>1. /\ ErrLeft /\ QueueOK /\ doing.n = seq
        /\ pc = "out" => OutLeft /\ reply.out = Lines(seq, Len(reply.out)) /\ reply.err = <<>>
        /\ pc = "err" => outPipe = <<>> /\ doing.ready /\ reply.out = Lines(seq, doing.out)
    BY <1>8 DEF WholeOK, ReadingOK
  <2>2. /\ Passed \in Int /\ Passed >= 0 /\ Passed + Len(errPipe) = doing.err
        /\ \A j \in 1 .. Len(errPipe) : errPipe[j] = Item(Passed + j, doing.err)
    BY <1>0, <2>1 DEF ErrLeft, Passed, Printed
  <2>3. Passed' = Passed
    BY <1>0, <1>2, <1>4 DEF Passed, Printed
  <2>4. ~MarkPassed /\ ~MarkPassed'
    BY <1>0, <1>2, <2>2, <2>3 DEF MarkPassed
  <2>5. QueueOK'
    BY <1>1, <1>2, <2>1, <2>3, <2>4 DEF QueueOK, Lines
  <2>6. ErrLeft'
    <3>1. ASSUME NEW j \in 1 .. Len(errPipe')
          PROVE  errPipe'[j] = Item(Passed + j, doing.err)'
      <4>1. CASE j \in 1 .. Len(errPipe)
        <5>1. errPipe'[j] = [n |-> doing.n, i |-> Passed + j]
          <6>1. Passed + j <= doing.err
            BY <1>0, <2>2, <4>1
          <6>2. errPipe'[j] = Item(Passed + j, doing.err)
            BY <1>4, <2>2, <4>1
          <6> QED
            BY <6>1, <6>2 DEF Item
        <5>2. Passed' + j <= doing'.err
          BY <1>0, <1>2, <2>2, <2>3, <4>1
        <5> QED
          BY <1>2, <2>3, <5>1, <5>2 DEF Item
      <4>2. CASE j = Len(errPipe) + 1
        <5>1. errPipe'[j] = l /\ Passed' + j = doing.err + 1
          BY <1>0, <1>4, <2>2, <2>3, <4>2
        <5> QED
          BY <1>0, <1>2, <5>1 DEF Item
      <4> QED
        BY <1>0, <1>4, <4>1, <4>2
    <3> QED
      BY <2>2, <2>3, <3>1 DEF ErrLeft
  <2>7. OutLeft => OutLeft'
    BY <1>1, <1>2 DEF OutLeft, Item
  <2>8. Lines(seq, doing.out)' = Lines(seq, doing.out)
    BY <1>1, <1>2 DEF Lines
  <2> QED
    BY <1>1, <1>2, <1>5, <1>6, <2>1, <2>5, <2>6, <2>7, <2>8 DEF WholeOK, ReadingOK
<1> QED
  BY <1>7, <1>8

LEMMA StepWhole ==
  ASSUME ClientInv, WholeOK, [Next]_vars
  PROVE  WholeOK'
<1>1. ASSUME NEW limited \in Limits, Begin(limited) PROVE WholeOK'
  BY <1>1, WholeBegin
<1>2. CASE Write
  BY <1>2, WholeWrite
<1>3. CASE ReadOut
  BY <1>3, WholeReadOut
<1>4. CASE WriteFails \/ OutEnds \/ ErrEnds
  BY <1>4, WholeFails
<1>5. CASE TakeErr
  BY <1>5, WholeTakeMark, WholeTakeLine
<1>6. CASE Settle
  BY <1>6, WholeSettle
<1>7. CASE PushErr
  BY <1>7, WholePushErr
<1>8. ASSUME NEW n \in Call, TimerGoes(n) PROVE WholeOK'
  <2>1. UNCHANGED readings
    BY <1>8 DEF TimerGoes, TimerFires, TimerDecides, TimerKills, runvars, pipes, readings
  <2> QED
    BY <2>1, WholeApart
<1>9. CASE EndErr \/ Watch \/ KillCalled \/ KillGoes \/ CloseCalled \/ CloseGoes \/ Exit
           \/ UNCHANGED vars
  <2>1. UNCHANGED readings
    BY <1>9 DEF EndErr, Watch, KillCalled, KillGoes, KillKills, KillEnds, CloseCalled, CloseGoes,
                CloseAsks, CloseKills, CloseEnds, Exit, runvars, pipes, readings, vars
  <2> QED
    BY <2>1, WholeApart
<1>10. ASSUME NEW s \in {"out", "err"}, PrintLine(s) \/ Mark(s) PROVE WholeOK'
  <2>1. CASE s = "out"
    BY <1>10, <2>1, WholeOut
  <2>2. CASE s = "err"
    BY <1>10, <2>2, WholeErr
  <2> QED
    BY <2>1, <2>2
<1> QED
  BY <1>1, <1>2, <1>3, <1>4, <1>5, <1>6, <1>7, <1>8, <1>9, <1>10
     DEF Next, RunGoes, StderrGoes

\* What is in the pipes, the queue and the reply, in every reachable state.
THEOREM LinesKept == Spec => []WholeOK
<1>1. Init => WholeOK
  <2> SUFFICES ASSUME Init PROVE WholeOK
    OBVIOUS
  <2> USE ClientConstants DEF Init
  <2>1. LinesOK
    BY EmptySeq DEF LinesOK
  <2>2. AnsweredOK
    BY DEF AnsweredOK
  <2>3. ReadingOK
    BY DEF ReadingOK
  <2> QED
    BY <2>1, <2>2, <2>3 DEF WholeOK
<1>2. ClientInv /\ WholeOK /\ [Next]_vars => WholeOK'
  BY StepWhole
<1> QED
  BY <1>1, <1>2, ClientInductive, PTL DEF Spec

\* A reply without error is all its command printed on stdout, in order, and of its
\* stderr the beginning up to maxStderr, whatever came before it on that process.
THEOREM RepliesWhole == Spec => []WholeReply
<1>1. ClientInv /\ WholeOK => WholeReply
  <2> SUFFICES ASSUME WholeOK, pc = "rest", seq > 0, outcome[seq] = "ok"
               PROVE  /\ reply.out = Lines(seq, doing.out)
                      /\ reply.err = Lines(seq, IF doing.err < MaxStderr
                                                THEN doing.err ELSE MaxStderr)
    BY DEF WholeReply
  <2>1. Answered
    BY DEF Answered, Failed
  <2> QED
    BY <2>1 DEF WholeOK, AnsweredOK
<1> QED
  BY <1>1, ClientInductive, LinesKept, PTL
=============================================================================
