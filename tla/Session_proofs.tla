--------------------------- MODULE Session_proofs ---------------------------
(***************************************************************************)
(* Proofs about Journal.tla and Session.tla: the file of lines implements  *)
(* the map of records for any ids, values, lengths and faults; one run at a*)
(* time works on a folder; and the progress file tells how the run that    *)
(* finished last ended.                                                    *)
(***************************************************************************)
EXTENDS Session, SequenceTheorems, TLAPS

-----------------------------------------------------------------------------
\* What a reader makes of the file

\* The last record of an id is one.
LEMMA LatestUnique ==
  ASSUME NEW all \in Seq(Seq(Piece)), NEW i, NEW k, NEW l, Latest(all, k, i), Latest(all, l, i)
  PROVE  k = l
<1>1. k \in 1 .. Len(all) /\ l \in 1 .. Len(all)
  BY DEF Latest
<1>2. ~(k > l) /\ ~(l > k)
  BY <1>1 DEF Latest
<1> QED
  BY <1>1, <1>2

LEMMA ReadLatest ==
  ASSUME NEW all \in Seq(Seq(Piece)), NEW i \in Id, NEW k, Latest(all, k, i)
  PROVE  Read(all)[i] = all[k][1].v
<1> DEFINE c == CHOOSE l \in DOMAIN all : Latest(all, l, i)
<1>1. k \in DOMAIN all
  BY DEF Latest
<1>2. Latest(all, c, i)
  BY <1>1
<1>3. c = k
  BY <1>2, LatestUnique
<1> QED
  BY <1>1, <1>3 DEF Read

LEMMA ReadNone ==
  ASSUME NEW all \in Seq(Seq(Piece)), NEW i \in Id, \A k \in DOMAIN all : ~Latest(all, k, i)
  PROVE  Read(all)[i] = Blank
BY DEF Read

\* One more line: it counts for the id of its record, if it is one.
LEMMA ReadAppend ==
  ASSUME NEW all \in Seq(Seq(Piece)), NEW line \in Seq(Piece), NEW i \in Id
  PROVE  Read(Append(all, line))[i] = IF Says(line, i) THEN line[1].v ELSE Read(all)[i]
<1> DEFINE new == Append(all, line)
<1>1. /\ new \in Seq(Seq(Piece)) /\ Len(new) = Len(all) + 1
      /\ DOMAIN new = 1 .. Len(all) + 1 /\ DOMAIN all = 1 .. Len(all)
      /\ new[Len(all) + 1] = line /\ \A k \in DOMAIN all : new[k] = all[k]
  OBVIOUS
<1> HIDE DEF new
<1>2. CASE Says(line, i)
  <2>1. Latest(new, Len(all) + 1, i)
    BY <1>1, <1>2 DEF Latest
  <2>2. Read(new)[i] = new[Len(all) + 1][1].v
    BY <1>1, <2>1, ReadLatest
  <2> QED
    BY <1>1, <1>2, <2>2 DEF new
<1>3. CASE ~Says(line, i)
  <2>1. ASSUME NEW k, Latest(new, k, i)
        PROVE  k \in DOMAIN all /\ Latest(all, k, i)
    <3>1. k \in DOMAIN new /\ k # Len(all) + 1
      BY <1>1, <1>3, <2>1 DEF Latest
    <3>2. k \in DOMAIN all
      BY <1>1, <3>1
    <3> QED
      BY <1>1, <2>1, <3>2 DEF Latest
  <2>2. ASSUME NEW k \in DOMAIN all, Latest(all, k, i)
        PROVE  Latest(new, k, i)
    <3>1. k \in DOMAIN new /\ new[k] = all[k] /\ Says(new[k], i)
      BY <1>1, <2>2 DEF Latest
    <3>2. ASSUME NEW j \in DOMAIN new, j > k PROVE ~Says(new[j], i)
      <4>1. CASE j \in DOMAIN all
        BY <1>1, <2>2, <3>2, <4>1 DEF Latest
      <4>2. CASE j = Len(all) + 1
        BY <1>1, <1>3, <4>2
      <4> QED
        BY <1>1, <4>1, <4>2
    <3> QED
      BY <3>1, <3>2 DEF Latest
  <2>3. CASE \E k \in DOMAIN all : Latest(all, k, i)
    <3>1. PICK k \in DOMAIN all : Latest(all, k, i)
      BY <2>3
    <3>2. Read(all)[i] = all[k][1].v
      BY <3>1, ReadLatest
    <3>3. Read(new)[i] = new[k][1].v
      BY <1>1, <2>2, <3>1, ReadLatest
    <3> QED
      BY <1>1, <1>3, <3>1, <3>2, <3>3 DEF new
  <2>4. CASE ~\E k \in DOMAIN all : Latest(all, k, i)
    <3>1. Read(all)[i] = Blank
      BY <2>4, ReadNone
    <3>2. Read(new)[i] = Blank
      BY <1>1, <2>1, <2>4, ReadNone
    <3> QED
      BY <1>3, <3>1, <3>2 DEF new
  <2> QED
    BY <2>3, <2>4
<1> QED
  BY <1>2, <1>3

\* A whole record on a line of its own is put in the map.
LEMMA ReadRecord ==
  ASSUME NEW all \in Seq(Seq(Piece)), NEW p \in Piece, p.whole
  PROVE  Read(Append(all, <<p>>)) = [Read(all) EXCEPT ![p.id] = p.v]
<1> DEFINE new == Read(Append(all, <<p>>))
           old == Read(all)
<1>1. /\ <<p>> \in Seq(Piece) /\ p.id \in Id
      /\ \A i \in Id : Says(<<p>>, i) <=> i = p.id
      /\ <<p>>[1].v = p.v
  BY DEF Says, Piece
<1>2. ASSUME NEW i \in Id PROVE new[i] = IF i = p.id THEN p.v ELSE old[i]
  BY <1>1, ReadAppend
<1>3. new = [i \in Id |-> new[i]] /\ old = [i \in Id |-> old[i]]
  BY DEF Read
<1> HIDE DEF new, old
<1>4. new = [old EXCEPT ![p.id] = p.v]
  BY <1>1, <1>2, <1>3
<1> QED
  BY <1>4 DEF new, old

\* A line that is no record changes nothing.
LEMMA ReadOther ==
  ASSUME NEW all \in Seq(Seq(Piece)), NEW line \in Seq(Piece), \A i \in Id : ~Says(line, i)
  PROVE  Read(Append(all, line)) = Read(all)
<1> DEFINE new == Read(Append(all, line))
           old == Read(all)
<1>1. ASSUME NEW i \in Id PROVE new[i] = old[i]
  BY ReadAppend
<1>2. new = [i \in Id |-> new[i]] /\ old = [i \in Id |-> old[i]]
  BY DEF Read
<1> HIDE DEF new, old
<1>3. [i \in Id |-> new[i]] = [i \in Id |-> old[i]]
  BY <1>1
<1> QED
  BY <1>2, <1>3 DEF new, old

-----------------------------------------------------------------------------
\* The inductive invariant of the journal

LEMMA OneElement ==
  ASSUME NEW S, NEW s \in Seq(S), Len(s) = 1
  PROVE  s[1] \in S
OBVIOUS

LEMMA Single ==
  ASSUME NEW S, NEW x \in S
  PROVE  <<x>> \in Seq(S)
OBVIOUS

LEMMA OneMore ==
  ASSUME NEW S, NEW s \in Seq(S), NEW x \in S
  PROVE  Append(s, x) \in Seq(S)
OBVIOUS

LEMMA OneLonger ==
  ASSUME NEW S, NEW s \in Seq(S), NEW x \in S
  PROVE  Append(s, x) \in Seq(S) /\ Len(Append(s, x)) = Len(s) + 1
OBVIOUS

LEMMA AppendToNone ==
  ASSUME NEW x
  PROVE  Append(<<>>, x) = <<x>>
OBVIOUS

LEMMA ReadTypes ==
  ASSUME NEW all \in Seq(Seq(Piece))
  PROVE  Read(all) \in [Id -> Value \cup {Blank}]
<1>1. ASSUME NEW i \in Id PROVE Read(all)[i] \in Value \cup {Blank}
  <2>1. CASE \E k \in DOMAIN all : Latest(all, k, i)
    <3>1. PICK k \in DOMAIN all : Latest(all, k, i)
      BY <2>1
    <3>2. Read(all)[i] = all[k][1].v
      BY <3>1, ReadLatest
    <3> DEFINE line == all[k]
    <3>3. Len(line) = 1 /\ line \in Seq(Piece)
      BY <3>1 DEF Latest, Says
    <3>4. line[1] \in Piece
      BY <3>3, OneElement
    <3> QED
      BY <3>2, <3>4 DEF Piece, line
  <2> QED
    BY <2>1, ReadNone
<1> QED
  BY <1>1 DEF Read

LEMMA JournalInitOK == JournalInit => JournalInv
<1> SUFFICES ASSUME JournalInit PROVE JournalInv
  OBVIOUS
<1>1. mem \in [Id -> Value \cup {Blank}] /\ faults \in 0 .. MaxFaults
  BY JournalConstants DEF JournalInit, Empty
<1>2. lines \in Seq(Seq(Piece)) /\ tail \in Seq(Piece)
  BY DEF JournalInit
<1>3. open \in BOOLEAN /\ told \in {"none", "ok", "error"} /\ put = Idle /\ mem = Empty
  BY DEF JournalInit
<1>4. JournalTypeOK
  BY <1>1, <1>2, <1>3 DEF JournalTypeOK
<1>5. TailOK /\ SyncOK /\ put.at = "idle"
  BY DEF JournalInit, TailOK, SyncOK, Idle
<1> QED
  BY <1>3, <1>4, <1>5 DEF JournalInv

\* The record being put, and the states of a Put.
LEMMA Putting ==
  ASSUME JournalInv, put.at # "idle"
  PROVE  /\ open /\ put.id \in Id /\ put.at \in {"write", "part", "sync"}
         /\ put = [id |-> put.id, at |-> put.at]
         /\ mem[put.id] \in Value
<1>1. put # Idle
  BY DEF Idle
<1> QED
  BY <1>1 DEF JournalInv, JournalTypeOK

\* What a Put adds to the file.
LEMMA Pieces ==
  ASSUME JournalInv, put.at # "idle", NEW whole \in BOOLEAN
  PROVE  /\ This(whole) \in Piece /\ This(whole).whole = whole
         /\ This(whole).id = put.id /\ This(whole).v = mem[put.id]
BY Putting DEF This, Piece

\* The line being written, without the record being put.
LEMMA LineBefore ==
  ASSUME JournalInv, put.at \in {"write", "part"}
  PROVE  /\ Before \in Seq(Piece) /\ lines \in Seq(Seq(Piece))
         /\ Torn <=> Before # <<>>
         /\ put.at = "write" => tail = Before
         /\ put.at = "part" => \E whole \in BOOLEAN : tail = Append(Before, This(whole))
<1>1. tail \in Seq(Piece) /\ lines \in Seq(Seq(Piece)) /\ open
  BY Putting DEF JournalInv, JournalTypeOK
<1>2. CASE put.at = "write"
  BY <1>1, <1>2 DEF Before, Torn
<1>3. CASE put.at = "part"
  <2>1. PICK whole \in BOOLEAN : tail = Append(Before, This(whole))
    BY <1>3 DEF JournalInv, TailOK
  <2>2. Before = SubSeq(tail, 1, Len(tail) - 1)
    BY <1>3 DEF Before
  <2>3. \A k \in 1 .. Len(tail) - 1 : k \in 1 .. Len(tail) /\ tail[k] \in Piece
    BY <1>1
  <2>4. Before \in Seq(Piece)
    BY <1>1, <2>2, <2>3, SubSeqProperties
  <2> QED
    BY <1>1, <1>3, <2>1, <2>4 DEF Torn
<1> QED
  BY <1>2, <1>3

LEMMA NoRecord ==
  ASSUME NEW p \in Piece, p.whole = FALSE
  PROVE  <<p>> \in Seq(Piece) /\ \A i \in Id : ~Says(<<p>>, i)
BY DEF Says

\* What a reader makes of the record on a line of its own, ...
LEMMA ReadThis ==
  ASSUME JournalInv, put.at # "idle"
  PROVE  /\ Read(Append(lines, <<This(TRUE)>>)) = [Read(lines) EXCEPT ![put.id] = mem[put.id]]
         /\ Read(Append(lines, <<This(FALSE)>>)) = Read(lines)
<1>1. lines \in Seq(Seq(Piece))
  BY DEF JournalInv, JournalTypeOK
<1>2. /\ This(TRUE) \in Piece /\ This(TRUE).whole = TRUE
      /\ This(TRUE).id = put.id /\ This(TRUE).v = mem[put.id]
      /\ This(FALSE) \in Piece /\ This(FALSE).whole = FALSE
  BY Pieces
<1>3. Read(Append(lines, <<This(TRUE)>>)) = [Read(lines) EXCEPT ![This(TRUE).id] = This(TRUE).v]
  BY <1>1, <1>2, ReadRecord, Zenon
<1>4. Read(Append(lines, <<This(FALSE)>>)) = Read(lines)
  <2>1. <<This(FALSE)>> \in Seq(Piece) /\ \A i \in Id : ~Says(<<This(FALSE)>>, i)
    BY <1>2, NoRecord, Zenon
  <2> QED
    BY <1>1, <2>1, ReadOther
<1> QED
  BY <1>2, <1>3, <1>4, Zenon

\* ... and of one that is glued to a torn line.
LEMMA ReadGlued ==
  ASSUME JournalInv, put.at \in {"write", "part"}, Before # <<>>, NEW whole \in BOOLEAN
  PROVE  Read(Append(lines, Append(Before, This(whole)))) = Read(lines)
<1> DEFINE line == Append(Before, This(whole))
<1>1. Before \in Seq(Piece) /\ lines \in Seq(Seq(Piece)) /\ This(whole) \in Piece
  BY LineBefore, Pieces
<1>2. line \in Seq(Piece) /\ Len(line) = Len(Before) + 1 /\ Len(Before) # 0
  BY <1>1
<1>3. \A i \in Id : ~Says(line, i)
  BY <1>1, <1>2 DEF Says
<1> QED
  BY <1>1, <1>2, <1>3, ReadOther

\* Putting the same record twice.
LEMMA Twice ==
  ASSUME NEW f, NEW x, NEW v
  PROVE  [[f EXCEPT ![x] = v] EXCEPT ![x] = v] = [f EXCEPT ![x] = v]
OBVIOUS

\* What a reader sees while a record is written on a line of its own.
LEMMA Seen ==
  ASSUME JournalInv, put.at \in {"write", "part"}, ~Torn
  PROVE  Read(Scanned) \in {Read(lines), [Read(lines) EXCEPT ![put.id] = mem[put.id]]}
<1>1. Before = <<>>
  BY LineBefore
<1>2. CASE put.at = "write"
  BY <1>1, <1>2, LineBefore DEF Scanned
<1>3. CASE put.at = "part"
  <2>1. PICK whole \in BOOLEAN : tail = Append(Before, This(whole))
    BY <1>3, LineBefore
  <2>2. Scanned = Append(lines, <<This(whole)>>)
    BY <1>1, <2>1 DEF Scanned
  <2>3. Read(Scanned) = [Read(lines) EXCEPT ![put.id] = mem[put.id]]
          \/ Read(Scanned) = Read(lines)
    BY <2>2, ReadThis, Zenon
  <2> QED
    BY <2>3, Zenon
<1> QED
  BY <1>2, <1>3

-----------------------------------------------------------------------------
\* Steps: each keeps the invariant and is one of the map's steps, or none

Maps == R!Next \/ UNCHANGED <<open, mem, Read(Scanned), Read(lines), Torn, put.id, told>>

\* Steps that leave the file alone leave what a reader finds there.
LEMMA SameFile ==
  ASSUME UNCHANGED <<lines, tail>>
  PROVE  Scanned' = Scanned /\ Read(Scanned)' = Read(Scanned) /\ Read(lines)' = Read(lines)
BY DEF Scanned, Read, Latest, Says

LEMMA ReadPrime == Read(Scanned)' = Read(Scanned') /\ Read(lines)' = Read(lines')
BY DEF Read, Latest, Says

LEMMA OpenStep ==
  ASSUME JournalInv, OpenJournal
  PROVE  JournalInv' /\ Maps
<1>1. /\ ~open /\ open' = TRUE /\ mem' = Read(Scanned) /\ put' = put /\ put = Idle
      /\ lines' = Scanned /\ tail' = <<>> /\ told' = "none" /\ faults' = faults
  BY DEF OpenJournal, Repair, EndTail, JournalInv
<1>2. Scanned \in Seq(Seq(Piece))
  BY DEF Scanned, JournalInv, JournalTypeOK
<1>3. Read(Scanned)' = Read(Scanned) /\ Read(lines)' = Read(Scanned)
  <2>1. Scanned' = Scanned
    BY <1>1 DEF Scanned
  <2> QED
    BY <1>1, <2>1, ReadPrime
<1>4. JournalTypeOK'
  <2>1. mem' \in [Id -> Value \cup {Blank}]
    BY <1>1, <1>2, ReadTypes
  <2>2. lines' \in Seq(Seq(Piece)) /\ tail' \in Seq(Piece)
    BY <1>1, <1>2
  <2>3. /\ open' \in BOOLEAN /\ told' \in {"none", "ok", "error"} /\ faults' \in 0 .. MaxFaults
        /\ put' \in {Idle} \cup [id : Id, at : {"write", "part", "sync"}]
    BY <1>1 DEF JournalInv, JournalTypeOK
  <2> QED
    BY <2>1, <2>2, <2>3 DEF JournalTypeOK
<1>5. TailOK' /\ SyncOK' /\ put'.at = "idle" /\ Torn' = FALSE
  BY <1>1 DEF TailOK, SyncOK, Idle, Torn, Before
<1>6. R!Open
  BY <1>1, <1>3, <1>5 DEF R!Open
<1> QED
  BY <1>1, <1>4, <1>5, <1>6 DEF JournalInv, Maps, R!Next

LEMMA PutStep ==
  ASSUME JournalInv, NEW i \in Id, NEW v \in Value, Put(i, v)
  PROVE  JournalInv' /\ Maps
<1>1. /\ open /\ put = Idle /\ mem' = [mem EXCEPT ![i] = v]
      /\ put' = [id |-> i, at |-> "write"] /\ told' = "none"
      /\ UNCHANGED <<lines, tail, open, faults>>
  BY DEF Put
<1>2. mem'[i] = v /\ mem' \in [Id -> Value \cup {Blank}]
  BY <1>1 DEF JournalInv, JournalTypeOK
<1>3. Read(Scanned)' = Read(Scanned) /\ Read(lines)' = Read(lines)
  BY <1>1, SameFile
<1>4. JournalTypeOK'
  <2>1. put' \in [id : Id, at : {"write", "part", "sync"}]
    BY <1>1
  <2> QED
    BY <1>1, <1>2, <2>1 DEF JournalInv, JournalTypeOK
<1>5. put.at = "idle" /\ put'.at = "write"
  BY <1>1 DEF Idle
<1>6. TailOK' /\ SyncOK' /\ Torn' = Torn
  BY <1>1, <1>5 DEF JournalInv, TailOK, SyncOK, Torn, Before
<1>7. R!Begin(i, v)
  BY <1>1, <1>3, <1>6 DEF R!Begin, Idle
<1> QED
  BY <1>1, <1>2, <1>4, <1>6, <1>7 DEF JournalInv, Maps, R!Next

LEMMA PartStep ==
  ASSUME JournalInv, NEW whole \in BOOLEAN, WritePart(whole)
  PROVE  JournalInv' /\ Maps
<1>1. /\ put.at = "write" /\ tail' = Append(tail, This(whole)) /\ put' = [put EXCEPT !.at = "part"]
      /\ UNCHANGED <<lines, open, mem, told, faults>>
  BY DEF WritePart
<1>2. /\ open /\ put.id \in Id /\ put = [id |-> put.id, at |-> "write"]
      /\ put' = [id |-> put.id, at |-> "part"] /\ lines \in Seq(Seq(Piece))
      /\ tail \in Seq(Piece) /\ tail = Before /\ mem[put.id] \in Value
  BY <1>1, Putting, LineBefore DEF JournalInv, JournalTypeOK
<1>3. This(whole) \in Piece
  BY <1>1, Pieces
<1>4. This(whole)' = This(whole) /\ put'.id = put.id /\ put'.at = "part"
  BY <1>1, <1>2 DEF This
<1>5. /\ tail' \in Seq(Piece) /\ tail' # <<>> /\ Len(tail') = Len(tail) + 1
      /\ SubSeq(tail', 1, Len(tail') - 1) = tail
  BY <1>1, <1>2, <1>3
<1>6. Before' = Before /\ Torn' = Torn
  BY <1>1, <1>2, <1>4, <1>5 DEF Before, Torn
<1>7. JournalTypeOK'
  <2>1. put' \in [id : Id, at : {"write", "part", "sync"}]
    BY <1>2
  <2> QED
    BY <1>1, <1>5, <2>1 DEF JournalInv, JournalTypeOK
<1>8. TailOK' /\ SyncOK'
  BY <1>1, <1>2, <1>4, <1>6 DEF TailOK, SyncOK
<1>9. JournalInv'
  BY <1>1, <1>2, <1>4, <1>7, <1>8 DEF JournalInv
<1>10. Read(lines)' = Read(lines) /\ Read(Scanned)' = Read(Append(lines, Append(Before, This(whole))))
  BY <1>1, <1>2, <1>5, ReadPrime DEF Scanned
<1>11. put.id # Nothing
  BY <1>2, JournalConstants
<1>12. CASE Torn
  <2>1. Read(Scanned)' = Read(lines)
    BY <1>1, <1>10, <1>12, ReadGlued, LineBefore
  <2>2. R!Lose
    BY <1>1, <1>4, <1>6, <1>10, <1>11, <1>12, <2>1 DEF R!Lose
  <2> QED
    BY <1>9, <2>2 DEF Maps, R!Next
<1>13. CASE ~Torn
  <2>1. Before = <<>> /\ Read(Scanned) = Read(lines)
    BY <1>1, <1>2, <1>13, LineBefore DEF Scanned
  <2>2. Read(Scanned)' = Read(Append(lines, <<This(whole)>>))
    BY <1>10, <2>1
  <2>3. CASE whole
    <3>1. Read(Scanned)' = [Read(Scanned) EXCEPT ![put.id] = mem[put.id]]
      BY <1>1, <2>1, <2>2, <2>3, ReadThis
    <3>2. R!Store
      BY <1>1, <1>4, <1>6, <1>10, <1>11, <1>13, <3>1 DEF R!Store
    <3> QED
      BY <1>9, <3>2 DEF Maps, R!Next
  <2>4. CASE ~whole
    <3>1. Read(Scanned)' = Read(Scanned)
      BY <1>1, <2>1, <2>2, <2>4, ReadThis
    <3> QED
      BY <1>1, <1>4, <1>6, <1>9, <1>10, <3>1 DEF Maps
  <2> QED
    BY <2>3, <2>4
<1> QED
  BY <1>12, <1>13

LEMMA AllStep ==
  ASSUME JournalInv, WriteAll
  PROVE  JournalInv' /\ Maps
<1> DEFINE line == Append(Before, This(TRUE))
<1>1. /\ put.at \in {"write", "part"} /\ put' = [put EXCEPT !.at = "sync"]
      /\ lines' = Append(lines, line) /\ tail' = <<>>
      /\ UNCHANGED <<open, mem, told, faults>>
  BY DEF WriteAll
<1>2. /\ open /\ put.id \in Id /\ put' = [id |-> put.id, at |-> "sync"] /\ put'.id = put.id
      /\ put'.at = "sync" /\ This(TRUE) \in Piece /\ mem[put.id] \in Value
  BY <1>1, Putting, Pieces DEF JournalInv, JournalTypeOK
<1>3. Before \in Seq(Piece) /\ lines \in Seq(Seq(Piece)) /\ (Torn <=> Before # <<>>)
  BY <1>1, LineBefore
<1>4. line \in Seq(Piece) /\ Len(line) = Len(Before) + 1
  BY <1>2, <1>3, OneLonger, Zenon
<1> HIDE DEF line
<1>5. /\ lines' \in Seq(Seq(Piece)) /\ lines' # <<>>
      /\ lines'[Len(lines')] = line
  <2>1. lines' \in Seq(Seq(Piece))
    BY <1>1, <1>3, <1>4, OneMore
  <2>2. Len(lines') = Len(lines) + 1 /\ lines'[Len(lines) + 1] = line
    BY <1>1, <1>3, <1>4
  <2> QED
    BY <2>1, <2>2, <1>3
<1>6. Torn' <=> Torn
  <2>1. Torn' <=> Len(line) > 1
    BY <1>1, <1>2, <1>5 DEF Torn
  <2>2. Len(Before) \in Nat /\ (Before # <<>> <=> Len(Before) # 0)
    BY <1>3
  <2> QED
    BY <1>3, <1>4, <2>1, <2>2
<1>7. JournalTypeOK'
  <2>1. put' \in [id : Id, at : {"write", "part", "sync"}]
    BY <1>2
  <2> QED
    BY <1>1, <1>5, <2>1 DEF JournalInv, JournalTypeOK
<1>8. Scanned' = lines' /\ Read(Scanned)' = Read(lines') /\ Read(lines)' = Read(lines')
  BY <1>1, ReadPrime DEF Scanned
<1>9. put.id # Nothing /\ put.at # "idle" /\ Torn \in BOOLEAN /\ Torn' \in BOOLEAN
  BY <1>1, <1>2, JournalConstants DEF Torn, JournalInv, JournalTypeOK
<1>10. CASE Torn
  <2>1. Read(lines') = Read(lines)
    BY <1>1, <1>3, <1>10, ReadGlued DEF line
  <2>2. R!Lose
    BY <1>1, <1>2, <1>6, <1>8, <1>9, <1>10, <2>1 DEF R!Lose
  <2>3. TailOK' /\ SyncOK'
    BY <1>1, <1>2, <1>5, <1>6, <1>10 DEF TailOK, SyncOK
  <2> QED
    BY <1>1, <1>2, <1>7, <2>2, <2>3 DEF JournalInv, Maps, R!Next
<1>11. CASE ~Torn
  <2>1. line = <<This(TRUE)>>
    BY <1>3, <1>11, AppendToNone, Zenon DEF line
  <2>2. Read(lines') = [Read(lines) EXCEPT ![put.id] = mem[put.id]]
    BY <1>1, <1>9, <2>1, ReadThis
  <2>3. Read(lines') = [Read(Scanned) EXCEPT ![put.id] = mem[put.id]]
    BY <1>1, <1>11, <2>2, Seen, Twice
  <2>4. R!Store
    BY <1>1, <1>2, <1>6, <1>8, <1>9, <1>11, <2>3 DEF R!Store
  <2>5. Read(lines')[put.id] = mem[put.id]
    <3>1. Read(lines) \in [Id -> Value \cup {Blank}]
      BY <1>3, ReadTypes
    <3> QED
      BY <1>2, <2>2, <3>1
  <2>6. TailOK' /\ SyncOK'
    BY <1>1, <1>2, <1>5, <1>8, <2>5 DEF TailOK, SyncOK
  <2> QED
    BY <1>1, <1>2, <1>7, <2>4, <2>6 DEF JournalInv, Maps, R!Next
<1> QED
  BY <1>10, <1>11

\* Put returns: with an error before the line is complete, or after the sync.
LEMMA ReturnStep ==
  ASSUME JournalInv, WriteFails \/ Sync \/ SyncFails
  PROVE  JournalInv' /\ Maps
<1>1. /\ put.at \in {"write", "part", "sync"} /\ put' = Idle /\ told' \in {"ok", "error"}
      /\ UNCHANGED <<lines, tail, open, mem>>
      /\ faults' = faults \/ (faults < MaxFaults /\ faults' = faults + 1)
      /\ told' = "ok" => put.at = "sync"
  BY DEF WriteFails, Sync, SyncFails, Returns, Fault
<1>2. open /\ put.id \in Id /\ put'.at = "idle" /\ put'.id = Nothing
  BY <1>1, Putting DEF Idle
<1>3. Read(Scanned)' = Read(Scanned) /\ Read(lines)' = Read(lines)
  BY <1>1, SameFile
<1>4. JournalTypeOK'
  <2>1. faults' \in 0 .. MaxFaults
    BY <1>1, JournalConstants DEF JournalInv, JournalTypeOK
  <2> QED
    BY <1>1, <2>1 DEF JournalInv, JournalTypeOK
<1>5. TailOK' /\ SyncOK'
  BY <1>1, <1>2 DEF TailOK, SyncOK
<1>6. Torn' <=> tail # <<>>
  BY <1>1, <1>2 DEF Torn, Before
<1>7. put.at = "sync" => tail = <<>> /\ (~Torn => Read(lines)[put.id] = mem[put.id])
  BY DEF JournalInv, TailOK, SyncOK
<1>8. tail = <<>> => Read(lines) = Read(Scanned)
  BY DEF Scanned
<1>9. R!Return(told')
  <2>1. put.id # Nothing
    BY <1>2, JournalConstants
  <2>2. told' = "ok" => Torn \/ Read(Scanned)[put.id] = mem[put.id]
    BY <1>1, <1>7, <1>8
  <2>3. Torn' \in BOOLEAN /\ (told' = "ok" => ~Torn') /\ (~Torn' => Read(lines) = Read(Scanned))
    BY <1>1, <1>6, <1>7, <1>8 DEF Torn
  <2> QED
    BY <1>1, <1>2, <1>3, <2>1, <2>2, <2>3 DEF R!Return
<1> QED
  BY <1>1, <1>2, <1>4, <1>5, <1>9 DEF JournalInv, Maps, R!Next

LEMMA GoneStep ==
  ASSUME JournalInv, Close \/ Crash
  PROVE  JournalInv' /\ Maps
<1>1. /\ open /\ open' = FALSE /\ mem' = Empty /\ put' = Idle /\ told' = "none"
      /\ UNCHANGED <<lines, tail>>
      /\ faults' = faults \/ (faults < MaxFaults /\ faults' = faults + 1)
  BY DEF Close, Crash, Gone, Fault
<1>2. put'.at = "idle" /\ put'.id = Nothing
  BY <1>1 DEF Idle
<1>3. Read(Scanned)' = Read(Scanned) /\ Read(lines)' = Read(lines)
  BY <1>1, SameFile
<1>4. JournalTypeOK'
  <2>1. faults' \in 0 .. MaxFaults /\ mem' \in [Id -> Value \cup {Blank}]
    BY <1>1, JournalConstants DEF JournalInv, JournalTypeOK, Empty
  <2> QED
    BY <1>1, <2>1 DEF JournalInv, JournalTypeOK
<1>5. TailOK' /\ SyncOK' /\ Torn' = FALSE
  BY <1>1, <1>2 DEF TailOK, SyncOK, Torn
<1>6. R!Stop
  BY <1>1, <1>2, <1>3, <1>5 DEF R!Stop, Empty
<1> QED
  BY <1>1, <1>2, <1>4, <1>5, <1>6 DEF JournalInv, Maps, R!Next

\* A step that leaves the journal alone, but for a fault.
LEMMA FaultStep ==
  ASSUME JournalInv, UNCHANGED <<lines, tail, open, mem, put, told>>,
         faults' = faults \/ (faults < MaxFaults /\ faults' = faults + 1)
  PROVE  JournalInv' /\ Maps
<1>1. Read(Scanned)' = Read(Scanned) /\ Read(lines)' = Read(lines)
  BY SameFile
<1>2. faults' \in 0 .. MaxFaults
  BY JournalConstants DEF JournalInv, JournalTypeOK
<1>3. JournalTypeOK'
  BY <1>2 DEF JournalInv, JournalTypeOK
<1>4. Torn' = Torn /\ Before' = Before
  BY DEF Torn, Before
<1>5. TailOK' /\ SyncOK'
  BY <1>1, <1>4 DEF JournalInv, TailOK, SyncOK, This
<1> QED
  BY <1>1, <1>3, <1>4, <1>5 DEF JournalInv, Maps

LEMMA JournalStep ==
  ASSUME JournalInv, [JournalNext]_journal
  PROVE  JournalInv' /\ Maps
<1>1. CASE UNCHANGED journal
  BY <1>1, FaultStep DEF journal
<1>2. CASE Writing
  BY <1>2, PutStep, PartStep, AllStep, ReturnStep DEF Writing
<1> QED
  BY <1>1, <1>2, OpenStep, GoneStep DEF JournalNext

LEMMA JournalMapInit == JournalInit => R!Init
<1> SUFFICES ASSUME JournalInit PROVE R!Init
  OBVIOUS
<1>1. Scanned = <<>> /\ lines = <<>> /\ <<>> \in Seq(Seq(Piece)) /\ ~Torn
  BY DEF JournalInit, Scanned, Torn
<1>2. Read(Scanned) = Empty /\ Read(lines) = Empty
  BY <1>1 DEF Read, Latest, Empty
<1> QED
  BY <1>1, <1>2 DEF JournalInit, R!Init, Empty, Idle, Torn

\* The types of the journal, what the tail of the file can be during a Put, and
\* that a record alone on its line is found there; for any records and faults.
THEOREM JournalInductive == JournalSpec => []JournalInv
<1>1. JournalInv /\ [JournalNext]_journal => JournalInv'
  BY JournalStep
<1> QED
  BY JournalInitOK, <1>1, PTL DEF JournalSpec

\* The file of lines implements the map of records, whatever is torn or cut
\* off by crashes and by writes and syncs that fail: what Put reported as written
\* is what any later reader finds, unless the Put before it failed part of the
\* way in the same run.  Then it may be lost, and nothing else is.
THEOREM JournalImplements == JournalSpec => JournalKeeps
<1>1. JournalInv /\ [JournalNext]_journal
        => [R!Next]_<<open, mem, Read(Scanned), Read(lines), Torn, put.id, told>>
  BY JournalStep DEF Maps
<1> QED
  BY JournalInductive, JournalMapInit, <1>1, PTL DEF JournalSpec, JournalKeeps, R!Spec, R!records

-----------------------------------------------------------------------------
\* The runs of a session, one after the other or beside one another

LEMMA SessionStep ==
  ASSUME JournalInv, [Next]_vars
  PROVE  JournalInv' /\ Maps
<1>1. CASE UNCHANGED vars
  BY <1>1, FaultStep DEF vars, journal
<1>2. CASE Age
  BY <1>2, FaultStep DEF Age, journal
<1>3. ASSUME NEW r \in Run,
             \/ Launch(r) \/ LockResults(r) \/ Phase(r) \/ Beat(r) \/ Replace(r)
             \/ InPlace(r) \/ WriteLost(r) \/ Finish(r)
      PROVE  JournalInv' /\ Maps
  <2>1. UNCHANGED journal \/ Fails("file")
    BY <1>3 DEF Launch, LockResults, Phase, Beat, Replace, InPlace, WriteLost, Finish, Remove
  <2> QED
    BY <2>1, FaultStep DEF journal, Fails, Fault
<1>4. ASSUME NEW r \in Run, OpensJournal(r) PROVE JournalInv' /\ Maps
  BY <1>4, OpenStep DEF OpensJournal
<1>5. ASSUME NEW r \in Run, PutsRecords(r) PROVE JournalInv' /\ Maps
  BY <1>5, JournalStep DEF PutsRecords, JournalNext
<1>6. ASSUME NEW r \in Run, NEW how \in {"done", "stopped"}, Ends(r, how)
      PROVE  JournalInv' /\ Maps
  <2>1. CASE Close
    BY <2>1, GoneStep
  <2>2. CASE UNCHANGED journal
    BY <2>2, FaultStep DEF journal
  <2> QED
    BY <1>6, <2>1, <2>2 DEF Ends
<1>7. ASSUME NEW r \in Run, Dies(r) PROVE JournalInv' /\ Maps
  <2>1. CASE pc[r] = "journal"
    BY <1>7, <2>1, GoneStep DEF Dies
  <2>2. CASE pc[r] # "journal"
    BY <1>7, <2>2, FaultStep DEF Dies, Fails, Fault
  <2> QED
    BY <2>1, <2>2
<1> QED
  BY <1>1, <1>2, <1>3, <1>4, <1>5, <1>6, <1>7 DEF Next

\* The same of the runs of a session: however many processes run the command,
\* and die, the journal they share is the map of records.
THEOREM SessionKeeps == Spec => JournalKeeps
<1>1. Init => JournalInv /\ R!Init
  BY JournalInitOK, JournalMapInit DEF Init
<1>2. JournalInv /\ [Next]_vars => JournalInv'
  BY SessionStep
<1>3. JournalInv /\ [Next]_vars
        => [R!Next]_<<open, mem, Read(Scanned), Read(lines), Torn, put.id, told>>
  BY SessionStep DEF Maps
<1> QED
  BY <1>1, <1>2, <1>3, PTL DEF Spec, JournalKeeps, R!Spec, R!records

-----------------------------------------------------------------------------
\* The lock and the progress file

LEMMA ProgType ==
  ASSUME NEW r \in Run \cup {NoRun}, NEW w \in BOOLEAN, NEW a \in {"fresh", "late", "old"}
  PROVE  [by |-> r, whole |-> w, age |-> a]
           \in [by : Run \cup {NoRun}, whole : BOOLEAN, age : {"fresh", "late", "old"}]
BY Zenon

LEMMA StateType ==
  ASSUME NEW r \in Run \cup {NoRun}, NEW w \in BOOLEAN
  PROVE  Written(r, w) \in [by : Run \cup {NoRun}, whole : BOOLEAN, age : {"fresh", "late", "old"}]
BY ProgType DEF Written

LEMMA SessionInitOK == Init => SessionInv
<1> SUFFICES ASSUME Init PROVE SessionInv
  OBVIOUS
<1>1. SessionTypeOK
  BY DEF Init, SessionTypeOK, NoFile, Works, Released
<1>2. OneAtATime
  BY SessionConstants DEF Init, JournalInit, OneAtATime, Works
<1>3. FileOK
  BY DEF Init, FileOK, Tells, Works, Released
<1> QED
  BY <1>1, <1>2, <1>3 DEF SessionInv

LEMMA LaunchFile ==
  ASSUME SessionInv, NEW r \in Run, Launch(r)
  PROVE  SessionInv'
<1>1. SessionTypeOK'
  BY DEF Launch, SessionInv, SessionTypeOK, Goto
<1>2. OneAtATime'
  BY DEF Launch, SessionInv, SessionTypeOK, OneAtATime, Goto, journal, Works
<1>3. FileOK'
  BY DEF Launch, SessionInv, SessionTypeOK, FileOK, Tells, Goto, Works, Released
<1> QED
  BY <1>1, <1>2, <1>3 DEF SessionInv

LEMMA LockFile ==
  ASSUME SessionInv, NEW r \in Run, LockResults(r)
  PROVE  SessionInv'
<1>1. SessionTypeOK'
  BY DEF LockResults, SessionInv, SessionTypeOK, Goto, Works
<1>2. OneAtATime'
  BY SessionConstants
  DEF LockResults, SessionInv, SessionTypeOK, OneAtATime, Goto, journal, Works
<1>3. FileOK'
  BY DEF LockResults, SessionInv, SessionTypeOK, FileOK, Tells, Goto, Works, Released
<1> QED
  BY <1>1, <1>2, <1>3 DEF SessionInv

\* A write begins; the file is as it was.
LEMMA BeatFile ==
  ASSUME SessionInv, NEW r \in Run, Phase(r) \/ Beat(r)
  PROVE  SessionInv'
<1>1. /\ UNCHANGED <<journal, pc, lock, prog, last>> /\ BeginWrite(r)
      /\ phased' = phased \cup {r} /\ pc[r] \in Works \cup Released
  BY DEF Phase, Beat, Works
<1>2. SessionTypeOK'
  BY <1>1 DEF BeginWrite, Others, SessionInv, SessionTypeOK
<1>3. OneAtATime'
  BY <1>1 DEF SessionInv, OneAtATime, journal
<1>4. FileOK'
  BY <1>1 DEF BeginWrite, SessionInv, SessionTypeOK, FileOK
<1> QED
  BY <1>2, <1>3, <1>4 DEF SessionInv

\* A process that exits has the lock no more.
LEMMA ExitsFile ==
  ASSUME SessionInv, NEW r \in Run, pc[r] \notin Works, NEW how \in {"none", "done", "stopped"},
         Exits(r, how), UNCHANGED <<lock, open>>,
         prog' \in [by : Run \cup {NoRun}, whole : BOOLEAN, age : {"fresh", "late", "old"}],
         crossed' \subseteq Run,
         writing' \in [Run -> {"no", "begun", "half"}], writing'[r] = "no",
         \A s \in Run : s # r => writing'[s] = writing[s],
         how = "done" => prog' = NoFile,
         how = "stopped" => prog' = State(r)
  PROVE  SessionInv'
<1>1. /\ pc' = [pc EXCEPT ![r] = "off"] /\ phased' = phased \ {r}
      /\ last' = [run |-> IF how = "stopped" THEN r ELSE NoRun, how |-> how]
  BY DEF Exits, Goto, Forget
<1>2. SessionTypeOK'
  <2>1. last' \in [run : Run \cup {NoRun}, how : {"none", "done", "stopped"}]
    BY <1>1
  <2> QED
    BY <1>1, <2>1 DEF SessionInv, SessionTypeOK
<1>3. OneAtATime'
  BY <1>1 DEF SessionInv, SessionTypeOK, OneAtATime, Works
<1>4. Tells'
  BY <1>1 DEF Tells, State, Written
<1>5. FileOK'
  BY <1>1, <1>4 DEF SessionInv, SessionTypeOK, FileOK, Works, Released
<1> QED
  BY <1>2, <1>3, <1>5 DEF SessionInv

\* A write ends, with the file in any state if the run goes on.
LEMMA WriteEndsFile ==
  ASSUME SessionInv, NEW r \in Run, writing[r] # "no", NEW how \in {"none", "stopped"},
         EndWrite(r, how), open' = open,
         prog' \in [by : Run \cup {NoRun}, whole : BOOLEAN, age : {"fresh", "late", "old"}],
         how = "stopped" => prog' = State(r)
  PROVE  SessionInv'
<1>1. /\ writing' = [writing EXCEPT ![r] = "no"] /\ crossed' \subseteq Run /\ lock' = lock
      /\ r \in phased
  BY DEF EndWrite, NoMoreWrite, SessionInv, SessionTypeOK, FileOK
<1>2. /\ writing' \in [Run -> {"no", "begun", "half"}] /\ writing'[r] = "no"
      /\ \A s \in Run : s # r => writing'[s] = writing[s]
  BY <1>1 DEF SessionInv, SessionTypeOK
<1>3. CASE pc[r] = "closing"
  <2>1. Exits(r, how)
    BY <1>3 DEF EndWrite
  <2> QED
    BY <1>1, <1>2, <1>3, <2>1, ExitsFile DEF Works
<1>4. CASE pc[r] # "closing"
  <2>1. UNCHANGED <<pc, phased, last>>
    BY <1>4 DEF EndWrite
  <2>2. SessionTypeOK' /\ OneAtATime'
    BY <1>1, <1>2, <2>1 DEF SessionInv, SessionTypeOK, OneAtATime
  <2>3. FileOK'
    BY <1>1, <1>2, <2>1 DEF SessionInv, SessionTypeOK, FileOK
  <2> QED
    BY <2>2, <2>3 DEF SessionInv
<1> QED
  BY <1>3, <1>4

LEMMA ReplaceFile ==
  ASSUME SessionInv, NEW r \in Run, Replace(r) \/ WriteLost(r)
  PROVE  SessionInv'
<1> DEFINE T == [by : Run \cup {NoRun}, whole : BOOLEAN, age : {"fresh", "late", "old"}]
<1>1. writing[r] # "no" /\ open' = open /\ prog \in T /\ crossed \subseteq Run
  BY DEF Replace, WriteLost, Fails, journal, SessionInv, SessionTypeOK
<1>2. CASE Replace(r)
  <2> DEFINE how == IF r \in crossed THEN "none" ELSE "stopped"
  <2>1. EndWrite(r, how) /\ prog' \in Left(r)
    BY <1>2 DEF Replace
  <2>2. prog' \in T
    <3>1. \A s \in Run, whole \in BOOLEAN : Written(s, whole) \in T
      BY StateType
    <3>2. prog' = prog \/ \E s \in Run, whole \in BOOLEAN : prog' = Written(s, whole)
      <4>1. CASE r \in crossed
        BY <1>1, <2>1, <4>1 DEF Left, State
      <4>2. CASE r \notin crossed
        <5>1. Left(r) = {State(r)}
          BY <4>2 DEF Left
        <5>2. prog' = Written(r, TRUE)
          BY <2>1, <5>1 DEF State
        <5> QED
          BY <5>2
      <4> QED
        BY <4>1, <4>2
    <3> QED
      BY <1>1, <3>1, <3>2
  <2>3. how = "stopped" => prog' = State(r)
    BY <2>1 DEF Left
  <2>4. how \in {"none", "stopped"}
    OBVIOUS
  <2> HIDE DEF how, T
  <2> QED
    BY <1>1, <2>1, <2>2, <2>3, <2>4, WriteEndsFile DEF T
<1>3. CASE WriteLost(r)
  BY <1>1, <1>3, WriteEndsFile DEF WriteLost
<1> QED
  BY <1>2, <1>3

LEMMA InPlaceFile ==
  ASSUME SessionInv, NEW r \in Run, InPlace(r)
  PROVE  SessionInv'
<1>1. /\ writing[r] = "begun" /\ writing' = [writing EXCEPT ![r] = "half"]
      /\ prog' = Written(r, FALSE)
      /\ UNCHANGED <<journal, pc, phased, lock, crossed, last>> /\ r \in phased
  BY DEF InPlace, SessionInv, FileOK
<1>2. prog' \in [by : Run \cup {NoRun}, whole : BOOLEAN, age : {"fresh", "late", "old"}]
  BY <1>1, StateType
<1>3. SessionTypeOK' /\ OneAtATime'
  BY <1>1, <1>2 DEF SessionInv, SessionTypeOK, OneAtATime, journal
<1>4. FileOK'
  BY <1>1 DEF SessionInv, SessionTypeOK, FileOK
<1> QED
  BY <1>3, <1>4 DEF SessionInv

LEMMA OpensFile ==
  ASSUME SessionInv, NEW r \in Run, OpensJournal(r)
  PROVE  SessionInv'
<1>1. SessionTypeOK'
  BY DEF OpensJournal, SessionInv, SessionTypeOK, Goto, Works
<1>2. OneAtATime'
  BY DEF OpensJournal, OpenJournal, SessionInv, SessionTypeOK, OneAtATime, Goto, Works
<1>3. FileOK'
  BY DEF OpensJournal, SessionInv, SessionTypeOK, FileOK, Goto, Works, Released
<1> QED
  BY <1>1, <1>2, <1>3 DEF SessionInv

LEMMA PutsFile ==
  ASSUME SessionInv, NEW r \in Run, PutsRecords(r)
  PROVE  SessionInv'
<1>1. open' = open /\ UNCHANGED session
  BY DEF PutsRecords, Writing, Put, WritePart, WriteAll, WriteFails, Sync, SyncFails
<1> QED
  BY <1>1 DEF session, SessionInv, SessionTypeOK, OneAtATime, FileOK, Tells

LEMMA EndsFile ==
  ASSUME SessionInv, NEW r \in Run, NEW how \in {"done", "stopped"}, Ends(r, how)
  PROVE  SessionInv'
<1>1. /\ lock' = NoRun /\ pc' = [pc EXCEPT ![r] = how] /\ pc[r] \in Works /\ lock = r
      /\ UNCHANGED <<phased, writing, crossed, prog, last>>
  BY DEF Ends, Goto, SessionInv, OneAtATime, Works
<1>2. SessionTypeOK'
  BY <1>1 DEF SessionInv, SessionTypeOK, Released
<1>3. OneAtATime'
  <2>1. \A s \in Run : pc'[s] \notin Works
    BY <1>1 DEF SessionInv, SessionTypeOK, OneAtATime, Works
  <2>2. ~open'
    BY <1>1, <2>1 DEF Ends, Close, Gone, journal, SessionInv, OneAtATime, Works
  <2> QED
    BY <1>1, <2>1, <2>2, SessionConstants DEF OneAtATime, Works
<1>4. r \in phased
  <2>1. CASE pc[r] = "working"
    BY <2>1 DEF Ends
  <2>2. CASE pc[r] = "journal"
    BY <2>2 DEF SessionInv, FileOK
  <2> QED
    BY <1>1, <2>1, <2>2 DEF Works
<1>5. FileOK'
  BY <1>1, <1>4 DEF SessionInv, SessionTypeOK, FileOK, Works, Released
<1> QED
  BY <1>2, <1>3, <1>5 DEF SessionInv

LEMMA FinishFile ==
  ASSUME SessionInv, NEW r \in Run, Finish(r)
  PROVE  SessionInv'
<1>1. writing[r] = "no" /\ lock' = lock /\ open' = open
  BY DEF Finish, Unlocked, Quiet, Remove, Fails, journal
<1>2. CASE pc[r] = "done" /\ Remove(r) /\ UNCHANGED writing
  <2> DEFINE T == [by : Run \cup {NoRun}, whole : BOOLEAN, age : {"fresh", "late", "old"}]
  <2>1. /\ NoFile \in T /\ prog \in T /\ crossed \subseteq Run
        /\ writing \in [Run -> {"no", "begun", "half"}]
    BY ProgType DEF NoFile, SessionInv, SessionTypeOK
  <2>2. PICK how \in {"none", "done"} : /\ Exits(r, how) /\ (how = "done" => prog' = NoFile)
                                        /\ prog' \in {prog, NoFile} /\ crossed' \subseteq Run
    BY <1>2, <2>1 DEF Remove
  <2>3. prog' \in T
    BY <2>1, <2>2
  <2> HIDE DEF T
  <2> QED
    BY <1>1, <1>2, <2>1, <2>2, <2>3, ExitsFile DEF T, Works
<1>3. CASE pc[r] = "stopped" /\ Goto(r, "closing") /\ BeginWrite(r)
           /\ UNCHANGED <<journal, phased, prog, last>>
  <2>1. SessionTypeOK'
    BY <1>1, <1>3 DEF BeginWrite, Others, Goto, SessionInv, SessionTypeOK
  <2>2. OneAtATime'
    BY <1>1, <1>3 DEF Goto, SessionInv, SessionTypeOK, OneAtATime, Works
  <2>3. FileOK'
    BY <1>3 DEF BeginWrite, Goto, SessionInv, SessionTypeOK, FileOK, Works, Released
  <2> QED
    BY <2>1, <2>2, <2>3 DEF SessionInv
<1>4. CASE pc[r] = "refused" /\ Goto(r, "off")
           /\ UNCHANGED <<journal, phased, writing, crossed, prog, last>>
  <2>1. SessionTypeOK' /\ OneAtATime'
    BY <1>1, <1>4 DEF Goto, SessionInv, SessionTypeOK, OneAtATime, Works
  <2>2. FileOK'
    BY <1>4 DEF Goto, SessionInv, SessionTypeOK, FileOK, Tells, Works, Released
  <2> QED
    BY <2>1, <2>2 DEF SessionInv
<1> QED
  BY <1>2, <1>3, <1>4 DEF Finish

LEMMA DiesFile ==
  ASSUME SessionInv, NEW r \in Run, Dies(r)
  PROVE  SessionInv'
<1>1. /\ pc' = [pc EXCEPT ![r] = "off"] /\ phased' = phased \ {r} /\ prog' = prog
      /\ writing' = [writing EXCEPT ![r] = "no"] /\ crossed' \subseteq Run
      /\ lock' = IF lock = r THEN NoRun ELSE lock
      /\ r \in phased => last' = [run |-> NoRun, how |-> "none"]
      /\ r \notin phased => last' = last
  BY DEF Dies, Goto, Forget, Exits, NoMoreWrite, SessionInv, SessionTypeOK
<1>2. open' = IF pc[r] = "journal" THEN FALSE ELSE open
  BY DEF Dies, Crash, Gone, Fails
<1>3. SessionTypeOK'
  <2>1. last' \in [run : Run \cup {NoRun}, how : {"none", "done", "stopped"}]
    BY <1>1 DEF SessionInv, SessionTypeOK
  <2> QED
    BY <1>1, <2>1 DEF SessionInv, SessionTypeOK
<1>4. OneAtATime'
  BY <1>1, <1>2, SessionConstants DEF SessionInv, SessionTypeOK, OneAtATime, Works
<1>5. FileOK'
  <2>1. r \in phased => Tells'
    BY <1>1 DEF Tells
  <2>2. r \notin phased /\ phased = {} => Tells'
    BY <1>1 DEF Tells, SessionInv, FileOK
  <2> QED
    BY <1>1, <2>1, <2>2 DEF SessionInv, SessionTypeOK, FileOK, Works, Released
<1> QED
  BY <1>3, <1>4, <1>5 DEF SessionInv

LEMMA AgeFile ==
  ASSUME SessionInv, Age
  PROVE  SessionInv'
<1>1. /\ prog.whole /\ UNCHANGED <<journal, pc, phased, lock, writing, crossed, last>>
      /\ \E a \in {"late", "old"} : prog' = [prog EXCEPT !.age = a]
  BY DEF Age
<1>2. prog' \in [by : Run \cup {NoRun}, whole : BOOLEAN, age : {"fresh", "late", "old"}]
  <2>1. PICK a \in {"late", "old"} : prog' = [prog EXCEPT !.age = a]
    BY <1>1
  <2>2. /\ prog = [by |-> prog.by, whole |-> prog.whole, age |-> prog.age]
        /\ prog.by \in Run \cup {NoRun} /\ prog.whole \in BOOLEAN
    BY DEF SessionInv, SessionTypeOK
  <2>3. prog' = [by |-> prog.by, whole |-> prog.whole, age |-> a]
    BY <2>1, <2>2
  <2>4. a \in {"fresh", "late", "old"}
    OBVIOUS
  <2>5. [by |-> prog.by, whole |-> prog.whole, age |-> a]
          \in [by : Run \cup {NoRun}, whole : BOOLEAN, age : {"fresh", "late", "old"}]
    BY <2>2, <2>4, ProgType, Zenon
  <2> QED
    BY <2>3, <2>5, Zenon
<1>3. prog # NoFile /\ prog'.by = prog.by /\ prog'.whole
  BY <1>1 DEF SessionInv, SessionTypeOK, NoFile
<1>4. SessionTypeOK' /\ OneAtATime'
  BY <1>1, <1>2 DEF SessionInv, SessionTypeOK, OneAtATime, journal
<1>5. FileOK'
  BY <1>1, <1>3 DEF SessionInv, FileOK, Tells
<1> QED
  BY <1>4, <1>5 DEF SessionInv

\* One run at a time works on the results folder, with the journal open at most
\* there; progress.json is only written by runs that have or had the lock and
\* have still to finish, and tells how the last of them ended.
THEOREM SessionInductive == Spec => []SessionInv
<1>1. ASSUME SessionInv, [Next]_vars PROVE SessionInv'
  <2>1. CASE UNCHANGED vars
    BY <1>1, <2>1
    DEF vars, session, journal, SessionInv, SessionTypeOK, OneAtATime, FileOK, Tells
  <2>2. CASE Next
    BY <1>1, <2>2, AgeFile, LaunchFile, LockFile, BeatFile, ReplaceFile, InPlaceFile, OpensFile,
       PutsFile, EndsFile, FinishFile, DiesFile
    DEF Next
  <2> QED
    BY <1>1, <2>1, <2>2
<1> QED
  BY SessionInitOK, <1>1, PTL DEF Spec

\* Once no run works on the folder or has still to finish, progress.json tells
\* how the run that finished last ended, unless that run died or its last write
\* or removal failed or was crossed by another run's: for any number of
\* processes, the lock being given back before the file is finished.
THEOREM FileTells == Spec => []FileTellsLast
<1>1. SessionInv => FileTellsLast
  <2> SUFFICES ASSUME SessionInv, NoneWorks PROVE Tells
    BY DEF FileTellsLast
  <2>1. phased = {}
    BY DEF NoneWorks, SessionInv, SessionTypeOK, FileOK, Works, Released
  <2> QED
    BY <2>1 DEF SessionInv, FileOK
<1> QED
  BY SessionInductive, <1>1, PTL

=============================================================================
