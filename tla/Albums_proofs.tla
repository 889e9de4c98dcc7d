--------------------------- MODULE Albums_proofs ---------------------------
(***************************************************************************)
(* For every number of photos, every album layout and every kind and       *)
(* number of faults: no photo ever gets two copies in an album folder, no  *)
(* file there is replaced, and the album folders implement Library.  A run *)
(* that reports success has made every copy, as long as runs were stopped  *)
(* or photos, copies and names failed, and not both.                       *)
(***************************************************************************)
EXTENDS Albums, TLAPS

\* The parts of a record.
LEMMA RecordFacts ==
  /\ Blank \in Rec /\ Blank.stage = "none" /\ Blank.albums = {}
  /\ \A r \in Rec : r.stage \in Stages /\ r.albums \subseteq Path
  /\ \A s \in Stages, as \in SUBSET Path :
       With(s, as) \in Rec /\ With(s, as).stage = s /\ With(s, as).albums = as
BY DEF Rec, Stages, Blank, With

\* Other and Nobody are neither photos nor places of photos in albums.
LEMMA Owners ==
  /\ Other \notin Group /\ Nobody \notin Group /\ Other # Nobody
  /\ \A g \in Group, f \in Folder : <<g, f>> \notin {Other, Nobody}
BY AlbumConstants

\* Whatever a Put returns, memory has the new record and the disk the old or
\* the new one.
LEMMA PutOutcome ==
  ASSUME AlbumTypeOK, NEW g \in Group, NEW r \in Rec, PutIgnored(g, r) \/ PutFails(g, r)
  PROVE  /\ jm' = [jm EXCEPT ![g] = r]
         /\ jd' = jd \/ jd' = [jd EXCEPT ![g] = r]
         /\ jm' \in [Group -> Rec] /\ jd' \in [Group -> Rec]
         /\ faults' \in FaultLog
<1>1. /\ jm' = [jm EXCEPT ![g] = r]
      /\ jd' = jd \/ jd' = [jd EXCEPT ![g] = r]
      /\ faults' \in FaultLog
  BY AlbumConstants DEF PutIgnored, Put, PutFails, AlbumTypeOK, Fault, FaultLog
<1>2. jm' \in [Group -> Rec] /\ jd' \in [Group -> Rec]
  BY <1>1 DEF AlbumTypeOK
<1> QED
  BY <1>1, <1>2

-----------------------------------------------------------------------------
\* Every action keeps the inductive invariant

USE RecordFacts DEF Stages, Index, placer, Take, Goto, Exists, Viewed, Owned, Looped

\* The empty results folder satisfies the invariant.
LEMMA InitInv == Init => AlbumInv
<1> SUFFICES ASSUME Init PROVE AlbumInv
  OBVIOUS
<1>1. AlbumTypeOK
  <2>1. next \in [Folder \X Stem -> 0 .. MaxIndex] /\ faults \in FaultLog
    BY AlbumConstants DEF Init, FaultLog
  <2>2. jm \in [Group -> Rec] /\ jd \in [Group -> Rec] /\ view \in [Group -> SUBSET Folder]
    BY AlbumConstants DEF Init
  <2> QED
    BY <2>1, <2>2 DEF Init, AlbumTypeOK
<1>2. \A g \in Group, p \in Path : album[p] # g
  BY AlbumConstants DEF Init
<1>3. OneCopy
  BY <1>2 DEF OneCopy, Path
<1>4. Viewed /\ Looped
  BY DEF Init, Viewed, Looped, Looping
<1> QED
  BY <1>1, <1>2, <1>3, <1>4 DEF AlbumInv, Owned

\* What a run starts from is what the disk has.
LEMMA FreshInv ==
  ASSUME AlbumInv, Fresh, jd' = jd, album' = album, Viewed',
         view' \in [Group -> SUBSET Folder], faults' \in FaultLog,
         phase' \in {"off", "place", "albums", "done"}
  PROVE  AlbumInv'
<1>1. AlbumTypeOK'
  <2>1. next' \in [Folder \X Stem -> 0 .. MaxIndex]
    BY AlbumConstants DEF Fresh
  <2>2. pc' \in [Group -> {"todo", "home", "failed", "end"} \cup Looping]
    BY DEF Fresh
  <2> QED
    BY <2>1, <2>2 DEF Fresh, AlbumInv, AlbumTypeOK
<1>2. \A g \in Group : pc'[g] \notin Looping
  BY DEF Fresh, Looping
<1>3. Owned'
  BY <1>2 DEF Fresh, AlbumInv, Owned, Recorded
<1>4. Looped' /\ OneCopy'
  BY <1>2 DEF Looped, AlbumInv, OneCopy
<1> QED
  BY <1>1, <1>3, <1>4 DEF AlbumInv, AlbumTypeOK, Viewed, Owned, Looped, OneCopy

\* A run starts from the journal on disk, without the copies it cannot read.
LEMMA StartStep == AlbumInv /\ Start => AlbumInv'
<1> SUFFICES ASSUME AlbumInv, Start PROVE AlbumInv'
  OBVIOUS
<1>1. PICK v \in [Group -> SUBSET Folder] : Readable(v) /\ view' = v
  BY DEF Start
<1>2. faults' \in FaultLog
  BY <1>1, AlbumConstants DEF Readable, Fault, FaultLog, AlbumInv, AlbumTypeOK
<1>3. \A g \in Group : v[g] \subseteq Members[g]
  <2>1. CASE v = Members
    BY <2>1
  <2>2. CASE \E g \in Group : \E f \in Members[g] : v = [Members EXCEPT ![g] = @ \ {f}]
    BY <2>2, AlbumConstants
  <2> QED
    BY <1>1, <2>1, <2>2 DEF Readable
<1> QED
  BY <1>1, <1>2, <1>3, FreshInv DEF Start, Viewed

\* A crash leaves the copies and the journal on disk as they are.
LEMMA StopStep == AlbumInv /\ Stop => AlbumInv'
<1> SUFFICES ASSUME AlbumInv, Stop PROVE AlbumInv'
  OBVIOUS
<1>1. faults' \in FaultLog
  BY AlbumConstants DEF Stop, Fault, FaultLog, AlbumInv, AlbumTypeOK
<1> QED
  BY <1>1, FreshInv DEF Stop, AlbumInv, AlbumTypeOK, Viewed

\* Another program's file in an album folder is no photo's copy.
LEMMA IntrudeStep == ASSUME AlbumInv, NEW p \in Path, Intrude(p) PROVE AlbumInv'
<1>1. AlbumTypeOK'
  BY AlbumConstants DEF Intrude, Fault, FaultLog, local, AlbumInv, AlbumTypeOK
<1>2. \A g \in Group, q \in Path : album'[q] = g => album[q] = g
  BY Owners DEF Intrude, AlbumInv, AlbumTypeOK
<1>3. UNCHANGED <<jm, jd, view, pc, made, todo, aim>>
  BY DEF Intrude, local
<1>4. Owned' /\ Looped' /\ Viewed'
  <2>1. \A g \in Group, q \in Path : Recorded(g, q) => Recorded(g, q)'
    BY <1>3 DEF Recorded
  <2>2. \A g \in Group : LoopOK(g) => LoopOK(g)'
    BY <1>3 DEF LoopOK
  <2> QED
    BY <1>2, <1>3, <2>1, <2>2 DEF AlbumInv, Owned, Looped, Viewed
<1>5. OneCopy'
  BY <1>2 DEF AlbumInv, OneCopy, Path
<1> QED
  BY <1>1, <1>4, <1>5 DEF AlbumInv, Owned, Looped, Viewed

\* A photo that is not in the loop, and whose records a step leaves alone, keeps
\* what its copies need; so does the loop, if its own variables stay.
LEMMA Untouched ==
  ASSUME AlbumInv, NEW h \in Group, pc'[h] = pc[h], jm'[h] = jm[h], jd'[h] = jd[h],
         pc[h] \notin Looping \/ UNCHANGED <<made, todo, aim>>
  PROVE  \A p \in Path : album[p] = h => Recorded(h, p)' /\ p[1] \in Members[h]
BY DEF AlbumInv, Recorded

\* Steps outside the loop that change at most the records and the progress of g.
LEMMA QuietStep ==
  ASSUME AlbumInv, NEW g \in Group, NEW s, s \notin Looping,
         pc' = [pc EXCEPT ![g] = s], UNCHANGED <<album, view, local>>,
         \A h \in Group : h # g => jm'[h] = jm[h] /\ jd'[h] = jd[h],
         \A p \in Path : album[p] = g =>
           /\ p \in jm'[g].albums /\ jm'[g].stage # "none"
           /\ p \in jd'[g].albums /\ jd'[g].stage # "none",
         AlbumTypeOK'
  PROVE  AlbumInv'
<1>0. pc \in [Group -> {"todo", "home", "failed", "end"} \cup Looping]
  BY DEF AlbumInv, AlbumTypeOK
<1>1. Viewed' /\ OneCopy'
  BY DEF AlbumInv, Viewed, OneCopy
<1>2. Owned'
  <2> SUFFICES ASSUME NEW h \in Group, NEW p \in Path, album[p] = h
               PROVE  Recorded(h, p)' /\ p[1] \in Members[h]
    BY DEF Owned
  <2>1. CASE h = g
    BY <2>1, <1>0 DEF AlbumInv, Recorded
  <2>2. CASE h # g
    BY <2>2, <1>0, Untouched DEF local
  <2> QED
    BY <2>1, <2>2
<1>3. Looped'
  <2> SUFFICES ASSUME NEW h \in Group, pc'[h] \in Looping
               PROVE  LoopOK(h)'
    BY DEF Looped
  <2>1. h # g /\ pc'[h] = pc[h] /\ jm'[h] = jm[h] /\ jd'[h] = jd[h] /\ LoopOK(h)
    BY <1>0 DEF AlbumInv
  <2>2. \A i \in Group \ {h} : pc'[i] \notin Looping
    BY <2>1, <1>0 DEF LoopOK
  <2> QED
    BY <2>1, <2>2 DEF LoopOK, local
<1> QED
  BY <1>1, <1>2, <1>3 DEF AlbumInv

\* place's first record of a photo never hides copies: it has none before that.
LEMMA PlaceStep == ASSUME AlbumInv, NEW g \in Group, Place(g) PROVE AlbumInv'
<1>1. With("placed", {}) \in Rec
  OBVIOUS
<1>2. /\ jm' = jm \/ (jm[g].stage = "none" /\ jm' = [jm EXCEPT ![g] = With("placed", {})])
      /\ jd' = jd \/ (jm[g].stage = "none" /\ jd' = [jd EXCEPT ![g] = With("placed", {})])
      /\ jm' \in [Group -> Rec] /\ jd' \in [Group -> Rec] /\ faults' \in FaultLog
  BY <1>1, PutOutcome DEF Place, AlbumInv, AlbumTypeOK
<1>3. /\ pc' = [pc EXCEPT ![g] = "home"] /\ "home" \notin Looping
      /\ UNCHANGED <<album, phase, view, local, placer, errs, exit>>
  BY DEF Place, Looping
<1>4. AlbumTypeOK'
  BY <1>2, <1>3 DEF AlbumInv, AlbumTypeOK, local
<1>5. \A p \in Path : album[p] = g =>
        /\ p \in jm'[g].albums /\ jm'[g].stage # "none"
        /\ p \in jd'[g].albums /\ jd'[g].stage # "none"
  <2> SUFFICES ASSUME NEW p \in Path, album[p] = g
               PROVE  jm' = jm /\ jd' = jd /\ Recorded(g, p)
    BY DEF Recorded
  <2> QED
    BY <1>2 DEF AlbumInv, Recorded
<1>6. \A h \in Group : h # g => jm'[h] = jm[h] /\ jd'[h] = jd[h]
  BY <1>2 DEF AlbumInv, AlbumTypeOK
<1> QED
  BY <1>3, <1>4, <1>5, <1>6, QuietStep

\* A photo that failed, or that a "cloned" record ends, changes no copy.
LEMMA IdleStep ==
  ASSUME AlbumInv, NEW g \in Group, PlaceFails(g) \/ Skip(g)
  PROVE  AlbumInv'
<1>1. /\ pc' = [pc EXCEPT ![g] = "failed"] \/ pc' = [pc EXCEPT ![g] = "end"]
      /\ UNCHANGED <<jm, jd, album, phase, view, local, placer, errs, exit>>
      /\ faults' \in FaultLog
  BY AlbumConstants DEF PlaceFails, Skip, Fault, FaultLog, AlbumInv, AlbumTypeOK
<1>2. AlbumTypeOK'
  BY <1>1 DEF AlbumInv, AlbumTypeOK, local
<1>3. \A p \in Path : album[p] = g =>
        /\ p \in jm'[g].albums /\ jm'[g].stage # "none"
        /\ p \in jd'[g].albums /\ jd'[g].stage # "none"
  BY <1>1 DEF AlbumInv, Recorded
<1>4. "failed" \notin Looping /\ "end" \notin Looping
  BY DEF Looping
<1> QED
  BY <1>1, <1>2, <1>3, <1>4, QuietStep

\* Between the phases nothing changes.
LEMMA PlaceDoneStep == AlbumInv /\ PlaceDone => AlbumInv'
<1> SUFFICES ASSUME AlbumInv, PlaceDone PROVE AlbumInv'
  OBVIOUS
<1>1. /\ UNCHANGED <<jm, jd, album, view, pc, made, todo, aim, placer, errs, exit, faults>>
      /\ phase' = "albums"
  BY DEF PlaceDone, local
<1>2. AlbumTypeOK'
  BY <1>1 DEF AlbumInv, AlbumTypeOK
<1>3. Viewed' /\ OneCopy' /\ Owned'
  BY <1>1 DEF AlbumInv, OneCopy, Recorded
<1>4. Looped'
  BY <1>1 DEF AlbumInv, LoopOK
<1> QED
  BY <1>2, <1>3, <1>4 DEF AlbumInv

\* The end of a run changes no copy and no record.
LEMMA FinishStep == AlbumInv /\ Finish => AlbumInv'
<1> SUFFICES ASSUME AlbumInv, Finish PROVE AlbumInv'
  OBVIOUS
<1>1. /\ UNCHANGED <<jm, jd, album, view, pc, placer, errs, faults>>
      /\ phase' = "done" /\ exit' \in {"ok", "failed"}
      /\ made' = {} /\ todo' = {} /\ aim' = NoAim
      /\ \A g \in Group : pc[g] \notin Looping
  BY DEF Finish, Looping
<1>2. AlbumTypeOK'
  BY <1>1 DEF AlbumInv, AlbumTypeOK
<1>3. Viewed' /\ OneCopy' /\ Looped'
  BY <1>1 DEF AlbumInv, Viewed, OneCopy, Looped
<1>4. Owned'
  BY <1>1 DEF AlbumInv, Owned, Recorded
<1> QED
  BY <1>2, <1>3, <1>4 DEF AlbumInv

-----------------------------------------------------------------------------
\* The loop of albums

\* Steps of the loop that copy nothing.
LEMMA LoopStep ==
  ASSUME AlbumInv, NEW g \in Group, UNCHANGED <<album, view>>, AlbumTypeOK',
         \A h \in Group \ {g} : /\ pc[h] \notin Looping /\ pc'[h] = pc[h]
                                /\ jm'[h] = jm[h] /\ jd'[h] = jd[h],
         \A p \in Path : album[p] = g => Recorded(g, p)',
         pc'[g] \in Looping => LoopOK(g)'
  PROVE  AlbumInv'
<1>1. Viewed' /\ OneCopy'
  BY DEF AlbumInv, Viewed, OneCopy
<1>2. Owned'
  <2> SUFFICES ASSUME NEW h \in Group, NEW p \in Path, album[p] = h
               PROVE  Recorded(h, p)' /\ p[1] \in Members[h]
    BY DEF Owned
  <2>1. CASE h = g
    BY <2>1 DEF AlbumInv
  <2>2. CASE h # g
    BY <2>2, Untouched
  <2> QED
    BY <2>1, <2>2
<1>3. Looped'
  BY DEF Looped
<1> QED
  BY <1>1, <1>2, <1>3 DEF AlbumInv

\* The loop of albums starts from the recorded copies that exist, so every copy the
\* photo has is among those it knows of.
LEMMA EnterStep == ASSUME AlbumInv, NEW g \in Group, Enter(g) PROVE AlbumInv'
<1>1. /\ UNCHANGED <<jm, jd, album, phase, view, aim, placer, errs, exit, faults>>
      /\ made' = {p \in jm[g].albums : album[p] # Nobody}
      /\ todo' = view[g] \ {p[1] : p \in made'}
      /\ pc' = [pc EXCEPT ![g] = "links"] /\ \A h \in Group : pc[h] \notin Looping
  BY DEF Enter, Kept, Turn
<1>2. pc' \in [Group -> {"todo", "home", "failed", "end"} \cup Looping] /\ pc'[g] = "links"
  BY <1>1 DEF AlbumInv, AlbumTypeOK, Looping
<1>3. jm[g] \in Rec /\ view[g] \subseteq Folder /\ view[g] \subseteq Members[g]
  BY DEF AlbumInv, AlbumTypeOK
<1>4. AlbumTypeOK'
  <2>1. made' \subseteq Path /\ todo' \subseteq Folder
    BY <1>1, <1>3
  <2> QED
    BY <2>1, <1>1, <1>2 DEF AlbumInv, AlbumTypeOK
<1>5. \A p \in Path : album[p] = g => Recorded(g, p)'
  <2> SUFFICES ASSUME NEW p \in Path, album[p] = g PROVE Recorded(g, p)'
    OBVIOUS
  <2>1. Recorded(g, p) /\ album[p] # Nobody
    BY AlbumConstants DEF AlbumInv
  <2>2. p \in made'
    BY <2>1, <1>1 DEF Recorded
  <2>3. p[1] \notin todo'
    BY <2>2, <1>1
  <2> QED
    BY <2>1, <2>2, <2>3, <1>1 DEF Recorded
<1>6. LoopOK(g)'
  BY <1>1, <1>2, <1>3 DEF LoopOK
<1> QED
  BY <1>1, <1>2, <1>4, <1>5, <1>6, LoopStep DEF AlbumInv, AlbumTypeOK

\* The intent of a copy is added to the record; it forgets none of the copies made.
LEMMA IntendStep == ASSUME AlbumInv, NEW g \in Group, Intend(g) PROVE AlbumInv'
<1>1. PICK f \in Folder, n \in Index :
        /\ \/ pc[g] = "links" /\ f \in todo
           \/ pc[g] = "retry" /\ f = aim[1]
        /\ Picks(g, f, n)
        /\ next' = [next EXCEPT ![<<f, StemOf[g]>>] = n]
        /\ aim' = <<f, Named[StemOf[g]][n]>>
  BY Zenon DEF Intend
<1>2. /\ pc[g] \in Looping /\ LoopOK(g) /\ f \in todo
      /\ aim' \in Path /\ aim'[1] = f
  BY <1>1, AlbumConstants DEF AlbumInv, Looping, LoopOK, Path
<1>3. PICK r \in Rec : r = With("placed", made \cup {aim'})
                       /\ r.albums = made \cup {aim'} /\ r.stage = "placed"
  BY <1>2 DEF AlbumInv, AlbumTypeOK
<1>4. /\ jm' = [jm EXCEPT ![g] = r]
      /\ jd' = jd \/ jd' = [jd EXCEPT ![g] = r]
      /\ jm' \in [Group -> Rec] /\ jd' \in [Group -> Rec] /\ faults' \in FaultLog
  <2>1. PutIgnored(g, r) \/ PutFails(g, r)
    BY <1>3 DEF Intend, PutIgnored
  <2> QED
    BY <2>1, PutOutcome DEF AlbumInv
<1>5. /\ \/ pc' = [pc EXCEPT ![g] = "link"] /\ jd' = [jd EXCEPT ![g] = r]
         \/ pc' = [pc EXCEPT ![g] = "end"]
      /\ errs' \subseteq Group
      /\ UNCHANGED <<album, phase, view, made, todo, taken, exit>>
  BY <1>3 DEF Intend, Put, AlbumInv, AlbumTypeOK
<1>6. /\ pc' \in [Group -> {"todo", "home", "failed", "end"} \cup Looping]
      /\ pc'[g] \in {"link", "end"} /\ \A h \in Group \ {g} : pc'[h] = pc[h]
      /\ jm'[g] = r /\ jd'[g] \in {jd[g], r} /\ (pc'[g] = "link" => jd'[g] = r)
  <2>1. pc \in [Group -> {"todo", "home", "failed", "end"} \cup Looping]
        /\ jm \in [Group -> Rec] /\ jd \in [Group -> Rec]
    BY DEF AlbumInv, AlbumTypeOK
  <2> QED
    BY <2>1, <1>4, <1>5 DEF Looping
<1>7. AlbumTypeOK'
  <2>1. next' \in [Folder \X Stem -> 0 .. MaxIndex]
    <3>1. n \in 0 .. MaxIndex /\ next \in [Folder \X Stem -> 0 .. MaxIndex]
      BY AlbumConstants DEF AlbumInv, AlbumTypeOK
    <3> QED
      BY <3>1, <1>1
  <2> QED
    BY <2>1, <1>2, <1>4, <1>5, <1>6 DEF AlbumInv, AlbumTypeOK
<1>8. \A p \in Path : album[p] = g => Recorded(g, p)'
  <2> SUFFICES ASSUME NEW p \in Path, album[p] = g PROVE Recorded(g, p)'
    OBVIOUS
  <2>1. Recorded(g, p) /\ p \in made /\ p[1] \notin todo
    BY <1>2 DEF AlbumInv, Recorded
  <2> QED
    BY <2>1, <1>3, <1>5, <1>6 DEF Recorded
<1>9. pc'[g] \in Looping => LoopOK(g)'
  BY <1>2, <1>3, <1>5, <1>6 DEF LoopOK, Looping
<1>10. \A h \in Group \ {g} : pc[h] \notin Looping /\ jm'[h] = jm[h] /\ jd'[h] = jd[h]
  BY <1>2, <1>4 DEF LoopOK, AlbumInv, AlbumTypeOK
<1> QED
  BY <1>5, <1>6, <1>7, <1>8, <1>9, <1>10, LoopStep

\* A copy is made at a free name, under a record that has it, in a folder without one.
LEMMA LinkStep == ASSUME AlbumInv, NEW g \in Group, Link(g) PROVE AlbumInv'
<1>1. /\ pc[g] = "link" /\ pc[g] \in Looping /\ LoopOK(g) /\ aim \in Path
      /\ aim[1] \in todo /\ album[aim] = Nobody
      /\ jm[g] = With("placed", made \cup {aim}) /\ jd[g] = jm[g]
  BY DEF Link, MayLink, AlbumInv, Looping, LoopOK
<1>2. /\ album' = [album EXCEPT ![aim] = g]
      /\ made' = made \cup {aim} /\ todo' = todo \ {aim[1]}
      /\ pc' = [pc EXCEPT ![g] = "links"]
      /\ UNCHANGED <<jm, jd, phase, view, aim, errs, exit, faults>>
      /\ taken' = taken \cup {aim} /\ UNCHANGED next
  BY DEF Link
<1>3. /\ pc' \in [Group -> {"todo", "home", "failed", "end"} \cup Looping]
      /\ pc'[g] = "links" /\ \A h \in Group \ {g} : pc'[h] = pc[h]
  BY <1>2 DEF AlbumInv, AlbumTypeOK, Looping
<1>4. album \in [Path -> Group \cup {Other, Nobody}] /\ made \subseteq Path /\ todo \subseteq Folder
  BY DEF AlbumInv, AlbumTypeOK
<1>5. \A p \in Path : album'[p] = IF p = aim THEN g ELSE album[p]
  BY <1>2, <1>4
<1>6. AlbumTypeOK'
  <2>1. album' \in [Path -> Group \cup {Other, Nobody}]
    BY <1>1, <1>2, <1>4
  <2> QED
    BY <2>1, <1>1, <1>2, <1>3 DEF AlbumInv, AlbumTypeOK
<1>7. jm[g].albums = made \cup {aim} /\ jm[g].stage = "placed"
  BY <1>1, <1>4
<1>8. Owned'
  <2> SUFFICES ASSUME NEW h \in Group, NEW p \in Path, album'[p] = h
               PROVE  Recorded(h, p)' /\ p[1] \in Members[h]
    BY DEF Owned
  <2>1. CASE p = aim
    <3>1. h = g
      BY <2>1, <1>5
    <3>2. QED
      <4>1. p \in jm[g].albums /\ jm[g].stage # "none" /\ p \in made' /\ p[1] \notin todo'
        BY <2>1, <1>2, <1>7
      <4>2. p[1] \in Members[g]
        BY <2>1, <1>1 DEF LoopOK
      <4> QED
        BY <3>1, <4>1, <4>2, <1>1, <1>2 DEF Recorded
  <2>2. CASE p # aim /\ h = g
    <3>1. album[p] = g
      BY <2>2, <1>5
    <3>2. Recorded(g, p) /\ p[1] \in Members[g]
      BY <3>1 DEF AlbumInv
    <3> QED
      BY <2>2, <3>2, <1>1, <1>2 DEF Recorded
  <2>3. CASE p # aim /\ h # g
    <3>1. album[p] = h /\ pc[h] \notin Looping
      BY <2>3, <1>1, <1>5 DEF LoopOK
    <3> QED
      BY <2>3, <3>1, <1>2, <1>3, Untouched
  <2> QED
    BY <2>1, <2>2, <2>3
<1>9. Looped'
  <2> SUFFICES ASSUME NEW h \in Group, pc'[h] \in Looping PROVE LoopOK(h)'
    BY DEF Looped
  <2>1. h = g
    BY <1>1, <1>3 DEF LoopOK
  <2> QED
    BY <2>1, <1>1, <1>2, <1>3 DEF LoopOK
<1>10. OneCopy'
  <2> SUFFICES ASSUME NEW h \in Group, NEW f \in Folder, NEW x \in Name, NEW y \in Name,
                      album'[<<f, x>>] = h, album'[<<f, y>>] = h
               PROVE  x = y
    BY DEF OneCopy
  <2>1. <<f, x>> \in Path /\ <<f, y>> \in Path
    BY DEF Path
  <2>2. ASSUME NEW p \in Path, album[p] = g PROVE p[1] # aim[1]
    BY <2>2, <1>1 DEF AlbumInv, Recorded
  <2>3. CASE <<f, x>> = aim /\ <<f, y>> # aim
    BY <2>1, <2>2, <2>3, <1>5
  <2>4. CASE <<f, y>> = aim /\ <<f, x>> # aim
    BY <2>1, <2>2, <2>4, <1>5
  <2>5. CASE <<f, x>> = aim /\ <<f, y>> = aim
    BY <2>5
  <2>6. CASE <<f, x>> # aim /\ <<f, y>> # aim
    BY <2>1, <2>6, <1>5 DEF AlbumInv, OneCopy
  <2> QED
    BY <2>3, <2>4, <2>5, <2>6
<1> QED
  BY <1>2, <1>6, <1>8, <1>9, <1>10 DEF AlbumInv, Viewed

\* A name taken in between, or a failed copy: nothing was copied.
LEMMA CollideStep ==
  ASSUME AlbumInv, NEW g \in Group, Collide(g) \/ LinkFails(g)
  PROVE  AlbumInv'
<1>0. pc[g] = "link" /\ pc[g] \in Looping /\ LoopOK(g)
  BY DEF Collide, LinkFails, AlbumInv, Looping
<1>1. /\ \E s \in {"retry", "withdraw"} : pc' = [pc EXCEPT ![g] = s]
      /\ UNCHANGED <<jm, jd, album, phase, view, local, next, exit>>
      /\ aim \in Path /\ taken' = taken \cup {aim}
      /\ errs' \subseteq Group /\ faults' \in FaultLog
  <2>1. aim \in Path /\ errs \subseteq Group /\ faults \in FaultLog
    BY <1>0 DEF LoopOK, AlbumInv, AlbumTypeOK
  <2> QED
    BY <2>1, AlbumConstants DEF Collide, LinkFails, Fault, FaultLog
<1>2. /\ pc' \in [Group -> {"todo", "home", "failed", "end"} \cup Looping]
      /\ pc'[g] \in {"retry", "withdraw"} /\ \A h \in Group \ {g} : pc'[h] = pc[h]
  BY <1>1 DEF AlbumInv, AlbumTypeOK, Looping
<1>3. AlbumTypeOK'
  BY <1>0, <1>1, <1>2 DEF AlbumInv, AlbumTypeOK, local
<1>4. \A p \in Path : album[p] = g => Recorded(g, p)'
  BY <1>0, <1>1 DEF AlbumInv, Recorded, local
<1>5. LoopOK(g)'
  BY <1>0, <1>1, <1>2 DEF LoopOK, local
<1> QED
  BY <1>0, <1>1, <1>2, <1>3, <1>4, <1>5, LoopStep DEF LoopOK

\* The record that ends the loop, or withdraws an intent, has every copy made.
LEMMA CloseStep ==
  ASSUME AlbumInv, NEW g \in Group, Withdraw(g) \/ PutCloned(g)
  PROVE  AlbumInv'
<1>1. /\ pc[g] \in Looping /\ LoopOK(g)
      /\ pc' = [pc EXCEPT ![g] = "end"] /\ "end" \notin Looping
      /\ UNCHANGED <<album, phase, view, local, placer, exit>>
      /\ errs' \subseteq Group
  BY DEF Withdraw, PutCloned, AlbumInv, AlbumTypeOK, Looping
<1>2. PICK r \in Rec : /\ r.albums = made /\ r.stage # "none"
                       /\ PutIgnored(g, r) \/ PutFails(g, r)
  <2>1. made \subseteq Path
    BY DEF AlbumInv, AlbumTypeOK
  <2>2. CASE Withdraw(g)
    BY <2>1, <2>2 DEF Withdraw, Withdrawn
  <2>3. CASE PutCloned(g)
    BY <2>1, <2>3 DEF PutCloned, PutIgnored
  <2> QED
    BY <2>2, <2>3
<1>3. /\ jm' = [jm EXCEPT ![g] = r]
      /\ jd' = jd \/ jd' = [jd EXCEPT ![g] = r]
      /\ jm' \in [Group -> Rec] /\ jd' \in [Group -> Rec] /\ faults' \in FaultLog
  BY <1>2, PutOutcome DEF AlbumInv
<1>4. AlbumTypeOK'
  BY <1>1, <1>3 DEF AlbumInv, AlbumTypeOK, local
<1>5. /\ jm'[g] = r /\ jd'[g] \in {jd[g], r}
      /\ \A h \in Group : h # g => jm'[h] = jm[h] /\ jd'[h] = jd[h]
  BY <1>3 DEF AlbumInv, AlbumTypeOK
<1>6. \A p \in Path : album[p] = g =>
        /\ p \in jm'[g].albums /\ jm'[g].stage # "none"
        /\ p \in jd'[g].albums /\ jd'[g].stage # "none"
  BY <1>1, <1>2, <1>5 DEF AlbumInv, Recorded
<1> QED
  BY <1>1, <1>4, <1>5, <1>6, QuietStep

\* Every step of the program keeps the invariant.
LEMMA StepInv == AlbumInv /\ [Next]_vars => AlbumInv'
<1> SUFFICES ASSUME AlbumInv, [Next]_vars PROVE AlbumInv'
  OBVIOUS
<1>1. CASE Start \/ Stop \/ PlaceDone \/ Finish
  BY <1>1, StartStep, StopStep, PlaceDoneStep, FinishStep
<1>2. CASE \E p \in Path : Intrude(p)
  BY <1>2, IntrudeStep
<1>3. CASE \E g \in Group : Step(g)
  BY <1>3, PlaceStep, IdleStep, EnterStep, IntendStep, LinkStep, CollideStep, CloseStep
     DEF Step, Copying
<1>4. CASE UNCHANGED vars
  <2>1. AlbumTypeOK'
    BY <1>4 DEF vars, AlbumInv, AlbumTypeOK
  <2>2. Viewed' /\ OneCopy' /\ Owned'
    BY <1>4 DEF vars, AlbumInv, OneCopy, Recorded
  <2>3. Looped'
    BY <1>4 DEF vars, AlbumInv, LoopOK
  <2> QED
    BY <2>1, <2>2, <2>3 DEF AlbumInv
<1> QED
  BY <1>1, <1>2, <1>3, <1>4 DEF Next

-----------------------------------------------------------------------------
\* The order of the loops

\* A fault is never forgotten.
LEMMA FaultAdds ==
  ASSUME AlbumTypeOK, NEW kind, Fault(kind)
  PROVE  faults.kinds \subseteq faults'.kinds /\ kind \in faults'.kinds
BY DEF Fault

LEMMA PutAdds ==
  ASSUME AlbumTypeOK, NEW g \in Group, NEW r, PutIgnored(g, r) \/ PutFails(g, r)
  PROVE  /\ faults.kinds \subseteq faults'.kinds
         /\ jm' = [jm EXCEPT ![g] = r]
         /\ jd' = [jd EXCEPT ![g] = r] \/ "put" \in faults'.kinds
<1>1. CASE Put(g, r) /\ UNCHANGED faults
  BY <1>1 DEF Put
<1>2. CASE PutFails(g, r)
  BY <1>2, FaultAdds DEF PutFails
<1> QED
  BY <1>1, <1>2 DEF PutIgnored

\* A step of one photo's loop is its own: no other loop is under way.
LEMMA Others ==
  ASSUME AlbumInv, NEW g \in Group, Step(g)
  PROVE  /\ \A h \in Group \ {g} :
              /\ pc[h] \notin Looping /\ pc'[h] = pc[h]
              /\ jm'[h] = jm[h] /\ jd'[h] = jd[h] /\ (h \in errs' <=> h \in errs)
         /\ UNCHANGED <<phase, view, exit>> /\ errs \subseteq errs'
         /\ faults.kinds \subseteq faults'.kinds
<1> USE DEF local
<1>0. /\ AlbumTypeOK /\ pc \in [Group -> {"todo", "home", "failed", "end"} \cup Looping]
      /\ jm \in [Group -> Rec] /\ jd \in [Group -> Rec]
  BY DEF AlbumInv, AlbumTypeOK
<1>1. \A h \in Group \ {g} : pc[h] \notin Looping
  <2>1. CASE Place(g) \/ PlaceFails(g) \/ Skip(g) \/ Enter(g)
    BY <2>1 DEF Place, PlaceFails, Skip, Enter, Turn
  <2>2. CASE pc[g] \in Looping
    BY <2>2 DEF AlbumInv, Looped, LoopOK
  <2>3. CASE Intend(g) \/ Link(g) \/ Collide(g) \/ LinkFails(g) \/ Withdraw(g) \/ PutCloned(g)
    <3>1. pc[g] \in Looping
      BY <2>3 DEF Intend, Link, Collide, LinkFails, Withdraw, PutCloned, Looping
    <3> QED
      BY <2>2, <3>1
  <2> QED
    BY <2>1, <2>3 DEF Step, Copying
<1> DEFINE Kept1 == /\ \E s : pc' = [pc EXCEPT ![g] = s]
                    /\ jm' = jm \/ \E r : jm' = [jm EXCEPT ![g] = r]
                    /\ jd' = jd \/ \E r : jd' = [jd EXCEPT ![g] = r]
                    /\ errs' = errs \/ errs' = errs \cup {g}
                    /\ UNCHANGED <<phase, view, exit>>
                    /\ faults.kinds \subseteq faults'.kinds
<1> SUFFICES Kept1
  BY <1>0, <1>1
<1>2. ASSUME NEW r, PutIgnored(g, r) \/ PutFails(g, r)
      PROVE  /\ \E x : jm' = [jm EXCEPT ![g] = x]
             /\ jd' = jd \/ \E x : jd' = [jd EXCEPT ![g] = x]
             /\ faults.kinds \subseteq faults'.kinds
  BY <1>0, <1>2, PutAdds DEF PutIgnored, Put, PutFails
<1>3. CASE Place(g)
  BY <1>2, <1>3 DEF Place
<1>4. CASE PlaceFails(g) \/ Skip(g) \/ Enter(g) \/ Link(g) \/ Collide(g) \/ LinkFails(g)
  BY <1>0, <1>4, FaultAdds DEF PlaceFails, Skip, Enter, Link, Collide, LinkFails
<1>5. CASE Intend(g)
  <2>1. PutIgnored(g, With("placed", made \cup {aim'})) \/ PutFails(g, With("placed", made \cup {aim'}))
    BY <1>5 DEF Intend, PutIgnored
  <2>2. /\ \E s : pc' = [pc EXCEPT ![g] = s]
        /\ errs' = errs \/ errs' = errs \cup {g}
        /\ UNCHANGED <<phase, view, exit>>
    BY Zenon, <1>5 DEF Intend
  <2> QED
    BY <1>2, <2>1, <2>2
<1>6. CASE Withdraw(g)
  BY <1>2, <1>6 DEF Withdraw
<1>7. CASE PutCloned(g)
  <2>1. PutIgnored(g, With("cloned", made)) \/ PutFails(g, With("cloned", made))
    BY <1>7 DEF PutCloned, PutIgnored
  <2>2. /\ \E s : pc' = [pc EXCEPT ![g] = s]
        /\ errs' = errs \/ errs' = errs \cup {g}
        /\ UNCHANGED <<phase, view, exit>>
    BY <1>7 DEF PutCloned
  <2> QED
    BY <1>2, <2>1, <2>2
<1> QED
  BY <1>3, <1>4, <1>5, <1>6, <1>7 DEF Step, Copying

\* What the order asks of a photo another one's step leaves alone.
LEMMA TurnApart ==
  ASSUME NEW g \in Group, TurnOK(g), pc'[g] = pc[g], jm'[g].stage = jm[g].stage, phase' = phase,
         g \in errs' <=> g \in errs, faults.kinds \subseteq faults'.kinds,
         pc[g] \in Looping => UNCHANGED pc
  PROVE  TurnOK(g)'
BY DEF TurnOK, Gentle

LEMMA StepTurn ==
  ASSUME AlbumInv, TurnInv, NEW g \in Group, Step(g)
  PROVE  TurnInv'
<1>0. /\ AlbumTypeOK /\ pc \in [Group -> {"todo", "home", "failed", "end"} \cup Looping]
      /\ jm \in [Group -> Rec] /\ TurnOK(g) /\ ExitOK /\ g \in Group
  BY DEF AlbumInv, AlbumTypeOK, TurnInv
<1>1. \A h \in Group \ {g} : TurnOK(h)'
  BY Others, TurnApart DEF TurnInv
<1>2. phase \in {"place", "albums"}
  BY <1>0 DEF Step, Copying, Place, PlaceFails, Skip, Enter, Intend, Link, Collide, LinkFails,
              Withdraw, PutCloned, Looping, TurnOK
<1>3. ExitOK'
  BY <1>0, <1>2, Others DEF ExitOK
<1>4. faults.kinds \subseteq faults'.kinds /\ phase' = phase
  BY Others
<1>5. TurnOK(g)'
  <2> USE DEF TurnOK, Gentle, Looping
  <2>1. CASE Place(g)
    BY <1>0, <1>4, <2>1 DEF Place
  <2>2. CASE PlaceFails(g)
    <3>1. "place" \in faults'.kinds
      BY <1>0, <2>2, FaultAdds DEF PlaceFails
    <3> QED
      BY <1>0, <1>4, <2>2, <3>1 DEF PlaceFails
  <2>3. CASE Skip(g)
    BY <1>0, <1>4, <2>3 DEF Skip, Done
  <2>4. CASE Enter(g)
    <3>1. pc'[g] = "links" /\ phase = "albums" /\ UNCHANGED <<jm, errs>>
      BY <1>0, <2>4 DEF Enter
    <3>2. \A h \in Group : h < g => h # g /\ pc[h] \in {"end", "failed"}
      <4> SUFFICES ASSUME NEW h \in Group, h < g PROVE h # g /\ pc[h] \in {"end", "failed"}
        OBVIOUS
      <4>1. pc[h] # "home" /\ pc[h] \notin Looping
        BY <2>4 DEF Enter, Turn
      <4>2. pc[h] # "todo"
        BY <3>1 DEF TurnInv
      <4>3. h # g
        BY DEF Group
      <4> QED
        BY <1>0, <4>1, <4>2, <4>3
    <3>3. \A h \in Group : h < g => pc'[h] \in {"end", "failed"}
      BY <3>2, Others
    <3> QED
      BY <1>0, <1>4, <3>1, <3>3
  <2>5. CASE pc[g] \in Looping /\ pc'[g] \in {"links", "link", "retry"} /\ UNCHANGED errs
    <3>1. \A h \in Group : h < g => h # g
      BY DEF Group
    <3> QED
      BY <1>0, <1>4, <2>5, <3>1, Others
  <2>6. CASE Link(g) \/ Collide(g)
    BY <1>0, <2>5, <2>6 DEF Link, Collide, local
  <2>7. CASE Intend(g)
    <3>1. pc[g] \in {"links", "retry"}
      BY <2>7 DEF Intend
    <3>2. \/ pc' = [pc EXCEPT ![g] = "link"] /\ UNCHANGED errs
          \/ pc' = [pc EXCEPT ![g] = "end"] /\ errs' = errs \cup {g} /\ Fault("put")
      BY <2>7 DEF Intend, PutFails
    <3>3. CASE pc' = [pc EXCEPT ![g] = "link"] /\ UNCHANGED errs
      BY <1>0, <2>5, <3>1, <3>3
    <3>4. CASE pc' = [pc EXCEPT ![g] = "end"] /\ errs' = errs \cup {g} /\ Fault("put")
      <4>1. "put" \in faults'.kinds
        BY <1>0, <3>4, FaultAdds
      <4> QED
        BY <1>0, <3>4, <4>1
    <3> QED
      BY <3>2, <3>3, <3>4
  <2>8. CASE LinkFails(g)
    <3>1. "link" \in faults'.kinds /\ errs' = errs \cup {g} /\ pc'[g] = "withdraw" /\ pc[g] = "link"
      BY <1>0, <2>8, FaultAdds DEF LinkFails
    <3>2. \A h \in Group : h < g => h # g
      BY DEF Group
    <3> QED
      BY <1>0, <1>4, <3>1, <3>2, Others
  <2>9. CASE Withdraw(g)
    BY <1>0, <1>4, <2>9 DEF Withdraw, local
  <2>10. CASE PutCloned(g)
    <3>1. pc' = [pc EXCEPT ![g] = "end"] /\ jm' = [jm EXCEPT ![g] = With("cloned", made)]
      BY <2>10 DEF PutCloned, Put, PutFails
    <3>2. /\ jm'[g].stage = "cloned"
          /\ pc'[g] = "end"
      <4>1. made \subseteq Path
        BY <1>0 DEF AlbumTypeOK
      <4> QED
        BY <1>0, <3>1, <4>1
    <3>3. g \in errs' => g \in errs \/ "put" \in faults'.kinds
      BY <1>0, <2>10, FaultAdds DEF PutCloned, PutFails
    <3> QED
      BY <1>0, <1>4, <3>2, <3>3
  <2> QED
    BY <2>1, <2>2, <2>3, <2>4, <2>6, <2>7, <2>8, <2>9, <2>10 DEF Step, Copying
<1> QED
  BY <1>1, <1>3, <1>5 DEF TurnInv

\* A run starts or is stopped with nothing counted.
LEMMA FreshTurn ==
  ASSUME Fresh, phase' \in {"off", "place"}
  PROVE  TurnInv'
BY DEF Fresh, TurnInv, TurnOK, ExitOK, Looping

LEMMA TurnKept ==
  ASSUME AlbumInv, TurnInv, [Next]_vars
  PROVE  TurnInv'
<1>0. AlbumTypeOK
  BY DEF AlbumInv
<1>1. CASE Start \/ Stop
  BY <1>1, FreshTurn DEF Start, Stop
<1>2. ASSUME NEW p \in Path, Intrude(p) PROVE TurnInv'
  <2>1. /\ UNCHANGED <<jm, phase, pc, errs, exit>>
        /\ faults.kinds \subseteq faults'.kinds
    BY <1>0, <1>2, FaultAdds DEF Intrude, local
  <2>2. ExitOK'
    BY <2>1 DEF TurnInv, ExitOK
  <2> QED
    BY <2>1, <2>2, TurnApart DEF TurnInv
<1>3. CASE PlaceDone
  BY <1>3 DEF PlaceDone, local, TurnInv, TurnOK, ExitOK, Gentle, Looping
<1>4. CASE Finish
  <2>1. \A g \in Group : TurnOK(g)'
    BY <1>4 DEF Finish, TurnInv, TurnOK, Gentle, Looping
  <2>2. ExitOK'
    <3>1. ASSUME exit' = "ok", NEW g \in Group PROVE jm'[g].stage = "cloned"
      <4>1. errs = {} /\ pc[g] = "end" /\ jm' = jm
        BY <1>4, <3>1 DEF Finish
      <4> QED
        BY <4>1 DEF TurnInv, TurnOK
    <3> QED
      BY <1>4, <3>1 DEF Finish, ExitOK
  <2> QED
    BY <2>1, <2>2 DEF TurnInv
<1>5. ASSUME NEW g \in Group, Step(g) PROVE TurnInv'
  BY <1>5, StepTurn
<1>6. CASE UNCHANGED vars
  BY <1>6 DEF vars, TurnInv, TurnOK, ExitOK, Gentle
<1> QED
  BY <1>1, <1>2, <1>3, <1>4, <1>5, <1>6 DEF Next

-----------------------------------------------------------------------------
\* Complete albums

\* With one kind of trouble there was no other one before, no journal write fails
\* and no archive is damaged.
LEMMA OneTroubleKept ==
  ASSUME faults.kinds \subseteq faults'.kinds, OneTrouble'
  PROVE  /\ OneTrouble /\ (Gentle' => Gentle) /\ (Stopped => Stopped')
         /\ "put" \notin faults'.kinds /\ "damage" \notin faults'.kinds
         /\ ("stop" \in faults'.kinds => Gentle')
BY DEF OneTrouble, Gentle, Stopped

\* No step takes a copy away.
LEMMA CopyKept ==
  ASSUME NEW g \in Group, \A p \in Path : album[p] = g => album'[p] = g,
         NEW f \in Members[g], HasCopy(g, f)
  PROVE  HasCopy(g, f)'
<1>1. f \in Folder
  BY AlbumConstants
<1>2. PICK x \in Name : album[<<f, x>>] = g
  BY DEF HasCopy
<1>3. <<f, x>> \in Path
  BY <1>1 DEF Path
<1> QED
  BY <1>2, <1>3 DEF HasCopy

\* A photo that has its copies keeps them, and one that is to get them keeps what is
\* known of it, as long as no other one takes a name of its.
LEMMA GroupApart ==
  ASSUME NEW h \in Group, GroupOK(h), OneTrouble', faults.kinds \subseteq faults'.kinds,
         jm'[h] = jm[h], pc'[h] \in Looping <=> pc[h] \in Looping,
         \A i \in Group : jm[i].stage = "cloned" => jm'[i].stage = "cloned",
         \A p \in Path : album[p] = h => album'[p] = h,
         jm[h].stage # "cloned" /\ pc[h] \notin Looping =>
           \A p \in jm[h].albums : album'[p] = album[p]
  PROVE  GroupOK(h)'
<1>1. CASE jm[h].stage = "cloned"
  BY <1>1, CopyKept DEF GroupOK
<1>2. CASE jm[h].stage # "cloned"
  BY <1>2, OneTroubleKept DEF GroupOK, KnownOK
<1> QED
  BY <1>1, <1>2

\* What holds of the photo whose step it is holds of all.
LEMMA OthersComplete ==
  ASSUME AlbumInv, TurnInv, CompleteInv, OneTrouble', NEW g \in Group, Step(g),
         jm' = jd', UNCHANGED album \/ Link(g),
         jm[g].stage = "cloned" => jm'[g].stage = "cloned",
         GroupOK(g)', pc'[g] \in Looping => MadeOK(g)'
  PROVE  CompleteInv'
<1>0. /\ OneTrouble /\ view = Members /\ jm = jd /\ \A h \in Group : GroupOK(h)
      /\ faults.kinds \subseteq faults'.kinds /\ view' = view /\ AlbumTypeOK
  BY Others, OneTroubleKept DEF CompleteInv, AlbumInv
<1>1. \A i \in Group : jm[i].stage = "cloned" => jm'[i].stage = "cloned"
  BY Others
<1>2. ASSUME NEW h \in Group \ {g}
      PROVE  GroupOK(h)' /\ pc'[h] \notin Looping
  <2>1. pc[h] \notin Looping /\ pc'[h] = pc[h] /\ jm'[h] = jm[h]
    BY Others
  <2>2. CASE UNCHANGED album
    BY <1>0, <1>1, <2>1, <2>2, GroupApart
  <2>3. CASE Link(g)
    <3>1. /\ pc[g] = "link" /\ album[aim] = Nobody /\ pc[g] \in Looping
          /\ album' = [album EXCEPT ![aim] = g]
      BY <2>3 DEF Link, MayLink, Looping
    <3>2. Nobody # h /\ jm[g].stage # "cloned"
      BY <1>0, <3>1, Owners DEF CompleteInv, MadeOK
    <3>3. \A p \in Path : album'[p] = IF p = aim THEN g ELSE album[p]
      BY <1>0, <3>1 DEF AlbumTypeOK
    <3>4. \A p \in Path : album[p] = h => album'[p] = h
      BY <3>1, <3>2, <3>3
    <3>5. ASSUME jm[h].stage # "cloned", NEW p \in jm[h].albums
          PROVE  album'[p] = album[p]
      <4>1. p \in Path
        BY <1>0 DEF AlbumTypeOK
      <4>2. CASE p = aim
        <5>1. album[p] = Nobody /\ album[p] # h
          BY <3>1, <3>2, <4>2
        <5>2. Stopped /\ \A i \in Group : i < h => jm[i].stage = "cloned"
          BY <1>0, <2>1, <3>5, <5>1 DEF GroupOK, KnownOK
        <5>3. ~(g < h)
          BY <3>2, <5>2
        <5>4. h < g
          BY <5>3, AlbumConstants DEF Group
        <5>5. pc[h] \in {"end", "failed"}
          BY <3>1, <5>4 DEF TurnInv, TurnOK
        <5>6. jm[h].stage = "cloned"
          BY <5>2, <5>5 DEF TurnInv, TurnOK, Stopped, Gentle
        <5> QED
          BY <3>5, <5>6
      <4>3. CASE p # aim
        BY <3>3, <4>1, <4>3
      <4> QED
        BY <4>2, <4>3
    <3> QED
      BY <1>0, <1>1, <2>1, <3>4, <3>5, GroupApart
  <2> QED
    BY <2>1, <2>2, <2>3
<1> QED
  BY <1>0, <1>2 DEF CompleteInv

\* The first record of a photo, and what has nothing to copy.
LEMMA QuietComplete ==
  ASSUME AlbumInv, TurnInv, CompleteInv, OneTrouble', NEW g \in Group,
         Place(g) \/ PlaceFails(g) \/ Skip(g)
  PROVE  CompleteInv'
<1>0. /\ OneTrouble /\ jm = jd /\ GroupOK(g) /\ AlbumTypeOK /\ Step(g)
      /\ faults.kinds \subseteq faults'.kinds
  BY Others, OneTroubleKept DEF Step, Copying, CompleteInv, AlbumInv
<1>1. pc[g] \notin Looping /\ pc'[g] \notin Looping /\ album' = album
  BY <1>0 DEF Place, PlaceFails, Skip, Turn, AlbumTypeOK, Looping
<1>2. \/ jm' = jm /\ jd' = jd
      \/ /\ jm[g].stage = "none" /\ jm' = [jm EXCEPT ![g] = With("placed", {})]
         /\ jd' = [jd EXCEPT ![g] = With("placed", {})]
  <2>1. CASE Place(g) /\ jm[g].stage = "none"
    BY <1>0, <2>1, PutAdds, OneTroubleKept DEF Place
  <2> QED
    BY <2>1 DEF Place, PlaceFails, Skip
<1>3. jm' = jd' /\ (jm[g].stage = "cloned" => jm'[g].stage = "cloned")
  BY <1>0, <1>2
<1>4. GroupOK(g)'
  <2>1. CASE jm' = jm
    BY <1>0, <1>1, <2>1, GroupApart
  <2>2. CASE jm' = [jm EXCEPT ![g] = With("placed", {})]
    <3>1. jm'[g].stage = "placed" /\ jm'[g].albums = {}
      BY <1>0, <2>2 DEF AlbumTypeOK
    <3> QED
      BY <3>1 DEF GroupOK, KnownOK
  <2> QED
    BY <1>2, <2>1, <2>2
<1> QED
  BY <1>0, <1>1, <1>3, <1>4, OthersComplete

\* The copies the loop starts from are those that were made.
LEMMA EnterComplete ==
  ASSUME AlbumInv, TurnInv, CompleteInv, OneTrouble', NEW g \in Group, Enter(g)
  PROVE  CompleteInv'
<1>0. /\ OneTrouble /\ jm = jd /\ GroupOK(g) /\ AlbumTypeOK /\ Step(g) /\ view = Members
      /\ faults.kinds \subseteq faults'.kinds
  BY Others, OneTroubleKept DEF Step, Copying, CompleteInv, AlbumInv
<1>1. /\ pc[g] = "home" /\ pc[g] \notin Looping /\ pc'[g] = "links" /\ pc'[g] \in Looping
      /\ jm[g].stage # "cloned"
      /\ made' = {p \in jm[g].albums : album[p] # Nobody}
      /\ todo' = view[g] \ {p[1] : p \in made'}
      /\ UNCHANGED <<jm, jd, album, faults>>
  BY <1>0 DEF Enter, Done, Kept, Turn, Looping, AlbumTypeOK
<1>2. KnownOK(g) /\ \A p \in jm[g].albums : album[p] \in {g, Nobody}
  BY <1>0, <1>1 DEF GroupOK, KnownOK
<1>3. \A p \in made' : album[p] = g
  BY <1>1, <1>2
<1>4. \A f \in Members[g] : f \in todo' \/ \E p \in made' : p[1] = f
  BY <1>0, <1>1
<1>5. MadeOK(g)'
  BY <1>1, <1>2, <1>3, <1>4 DEF MadeOK
<1>6. GroupOK(g)'
  BY <1>1 DEF GroupOK
<1> QED
  BY <1>0, <1>1, <1>5, <1>6, OthersComplete

\* The path of the next copy is a free name, in memory and on disk.
LEMMA IntendComplete ==
  ASSUME AlbumInv, TurnInv, CompleteInv, OneTrouble', NEW g \in Group, Intend(g)
  PROVE  CompleteInv'
<1>0. /\ OneTrouble /\ jm = jd /\ AlbumTypeOK /\ Step(g)
      /\ faults.kinds \subseteq faults'.kinds
  BY Others, OneTroubleKept DEF Step, Copying, CompleteInv, AlbumInv
<1>1. PICK f \in Folder, n \in Index :
        /\ \/ pc[g] = "links" /\ f \in todo
           \/ pc[g] = "retry" /\ f = aim[1]
        /\ Picks(g, f, n)
        /\ next' = [next EXCEPT ![<<f, StemOf[g]>>] = n]
        /\ aim' = <<f, Named[StemOf[g]][n]>>
  BY Zenon DEF Intend
<1>2. /\ pc[g] \in Looping /\ album[aim'] = Nobody /\ aim' \in Path
      /\ MadeOK(g) /\ made \subseteq Path
  BY <1>0, <1>1, AlbumConstants DEF Picks, Free, Looping, Path, CompleteInv, AlbumTypeOK
<1>3. ~PutFails(g, With("placed", made \cup {aim'}))
  BY <1>0, FaultAdds, OneTroubleKept DEF PutFails
<1>4. /\ Put(g, With("placed", made \cup {aim'}))
      /\ pc' = [pc EXCEPT ![g] = "link"]
      /\ UNCHANGED <<album, made, todo, faults>>
  BY <1>3 DEF Intend
<1>5. /\ jm' = [jm EXCEPT ![g] = With("placed", made \cup {aim'})] /\ jd' = jm'
      /\ pc'[g] = "link" /\ pc'[g] \in Looping
  BY <1>0, <1>4 DEF Put, AlbumTypeOK, Looping
<1>6. jm'[g].stage = "placed" /\ jm'[g].albums = made \cup {aim'}
  BY <1>0, <1>2, <1>5 DEF AlbumTypeOK
<1>7. MadeOK(g)'
  BY <1>2, <1>4, <1>5, <1>6 DEF MadeOK
<1>8. GroupOK(g)'
  BY <1>5, <1>6 DEF GroupOK
<1> QED
  BY <1>0, <1>2, <1>4, <1>5, <1>7, <1>8, OthersComplete DEF MadeOK

\* One copy more.
LEMMA LinkComplete ==
  ASSUME AlbumInv, TurnInv, CompleteInv, OneTrouble', NEW g \in Group, Link(g)
  PROVE  CompleteInv'
<1>0. /\ OneTrouble /\ jm = jd /\ AlbumTypeOK /\ Step(g)
      /\ faults.kinds \subseteq faults'.kinds
  BY Others, OneTroubleKept DEF Step, Copying, CompleteInv, AlbumInv
<1>1. /\ pc[g] = "link" /\ pc[g] \in Looping /\ MadeOK(g) /\ LoopOK(g) /\ aim \in Path
      /\ jm[g] = With("placed", made \cup {aim}) /\ made \subseteq Path
  BY <1>0 DEF Link, Looping, CompleteInv, AlbumInv, Looped, LoopOK, AlbumTypeOK
<1>2. /\ album' = [album EXCEPT ![aim] = g]
      /\ made' = made \cup {aim} /\ todo' = todo \ {aim[1]}
      /\ pc'[g] = "links" /\ pc'[g] \in Looping /\ UNCHANGED <<jm, jd, faults>>
  BY <1>0 DEF Link, Looping, AlbumTypeOK
<1>3. \A p \in Path : album'[p] = IF p = aim THEN g ELSE album[p]
  BY <1>0, <1>2 DEF AlbumTypeOK
<1>4. jm[g].albums = made \cup {aim} /\ jm[g].stage = "placed"
  BY <1>1
<1>5. \A p \in made' : album'[p] = g
  BY <1>1, <1>2, <1>3 DEF MadeOK
<1>6. \A f \in Members[g] : f \in todo' \/ \E p \in made' : p[1] = f
  BY <1>1, <1>2 DEF MadeOK
<1>7. MadeOK(g)'
  BY <1>2, <1>4, <1>5, <1>6 DEF MadeOK
<1>8. GroupOK(g)'
  BY <1>2, <1>4 DEF GroupOK
<1> QED
  BY <1>0, <1>2, <1>7, <1>8, OthersComplete

\* A name taken meanwhile, or a copy that fails: neither when runs are only stopped.
LEMMA CollideComplete ==
  ASSUME AlbumInv, TurnInv, CompleteInv, OneTrouble', NEW g \in Group,
         Collide(g) \/ LinkFails(g)
  PROVE  CompleteInv'
<1>0. /\ OneTrouble /\ jm = jd /\ AlbumTypeOK /\ Step(g)
      /\ faults.kinds \subseteq faults'.kinds
  BY Others, OneTroubleKept DEF Step, Copying, CompleteInv, AlbumInv
<1>1. /\ pc[g] = "link" /\ pc[g] \in Looping /\ MadeOK(g) /\ LoopOK(g)
      /\ pc'[g] \in {"retry", "withdraw"} /\ pc'[g] \in Looping
      /\ UNCHANGED <<jm, jd, album, made, todo>>
  BY <1>0 DEF Collide, LinkFails, Looping, CompleteInv, AlbumInv, Looped, AlbumTypeOK, local
<1>2. jm[g] = With("placed", made \cup {aim}) /\ made \subseteq Path /\ aim \in Path
  BY <1>0, <1>1 DEF LoopOK, AlbumTypeOK
<1>3. jm[g].albums = made \cup {aim} /\ jm[g].stage = "placed"
  BY <1>2
<1>4. ~Gentle'
  <2>1. CASE LinkFails(g)
    BY <1>0, <2>1, FaultAdds DEF LinkFails, Gentle
  <2>2. CASE Collide(g)
    <3>1. album[aim] # Nobody /\ UNCHANGED faults
      BY <2>2 DEF Collide, MayLink
    <3>2. CASE Gentle
      <4>1. album[aim] = g
        BY <1>1, <1>3, <3>1, <3>2 DEF MadeOK
      <4>2. aim[1] \notin todo
        BY <1>1, <1>2, <4>1 DEF AlbumInv, Owned, Recorded
      <4>3. aim[1] \in todo
        BY <1>1 DEF LoopOK
      <4> QED
        BY <4>2, <4>3
    <3> QED
      BY <3>1, <3>2 DEF Gentle
  <2> QED
    BY <2>1, <2>2
<1>5. MadeOK(g)'
  BY <1>1, <1>4 DEF MadeOK
<1>6. GroupOK(g)'
  BY <1>1, <1>3 DEF GroupOK
<1> QED
  BY <1>0, <1>1, <1>5, <1>6, OthersComplete

\* The loop ends, with every copy or without the intent.
LEMMA CloseComplete ==
  ASSUME AlbumInv, TurnInv, CompleteInv, OneTrouble', NEW g \in Group,
         Withdraw(g) \/ PutCloned(g)
  PROVE  CompleteInv'
<1>0. /\ OneTrouble /\ jm = jd /\ AlbumTypeOK /\ Step(g) /\ Path = Path
      /\ faults.kinds \subseteq faults'.kinds
  BY Others, OneTroubleKept DEF Step, Copying, CompleteInv, AlbumInv
<1>1. /\ pc[g] \in Looping /\ MadeOK(g) /\ pc'[g] \notin Looping /\ made \subseteq Path
      /\ UNCHANGED album
  BY <1>0 DEF Withdraw, PutCloned, Looping, CompleteInv, AlbumTypeOK
<1>2. CASE Withdraw(g)
  <2>1. /\ jm' = [jm EXCEPT ![g] = With("placed", made)] /\ jd' = jm'
    BY <1>0, <1>2, PutAdds, OneTroubleKept DEF Withdraw, Withdrawn
  <2>2. jm'[g].stage = "placed" /\ jm'[g].albums = made
    BY <1>0, <1>1, <2>1 DEF AlbumTypeOK
  <2>3. GroupOK(g)'
    BY <1>1, <2>2 DEF GroupOK, KnownOK, MadeOK
  <2> QED
    BY <1>0, <1>1, <2>1, <2>3, OthersComplete DEF MadeOK
<1>3. CASE PutCloned(g)
  <2>1. PutIgnored(g, With("cloned", made)) \/ PutFails(g, With("cloned", made))
    BY <1>3 DEF PutCloned, PutIgnored
  <2>2. jm' = [jm EXCEPT ![g] = With("cloned", made)] /\ jd' = jm'
    BY <1>0, <2>1, PutAdds, OneTroubleKept
  <2>3. jm'[g].stage = "cloned"
    BY <1>0, <1>1, <2>2 DEF AlbumTypeOK
  <2>4. \A f \in Members[g] : HasCopy(g, f)
    <3> SUFFICES ASSUME NEW f \in Members[g] PROVE HasCopy(g, f)
      OBVIOUS
    <3>1. PICK p \in made : p[1] = f /\ album[p] = g
      BY <1>1, <1>3 DEF PutCloned, MadeOK
    <3>2. p = <<f, p[2]>> /\ p[2] \in Name
      BY <1>1, <3>1 DEF Path
    <3> QED
      BY <3>1, <3>2 DEF HasCopy
  <2>5. GroupOK(g)'
    BY <1>1, <2>3, <2>4 DEF GroupOK, HasCopy
  <2> QED
    BY <1>0, <1>1, <2>2, <2>3, <2>5, OthersComplete
<1> QED
  BY <1>2, <1>3

LEMMA StepComplete ==
  ASSUME AlbumInv, TurnInv, CompleteInv, [Next]_vars
  PROVE  CompleteInv'
<1> SUFFICES ASSUME OneTrouble' PROVE CompleteInv'
  BY DEF CompleteInv
<1>0. AlbumTypeOK
  BY DEF AlbumInv
<1>1. CASE Start
  <2>1. PICK v \in [Group -> SUBSET Folder] : Readable(v) /\ view' = v
    BY <1>1 DEF Start
  <2>2. faults.kinds \subseteq faults'.kinds
    BY <1>0, <2>1, FaultAdds DEF Readable
  <2>3. view' = Members /\ UNCHANGED faults
    BY <1>0, <2>1, <2>2, FaultAdds, OneTroubleKept DEF Readable
  <2>4. /\ OneTrouble /\ jm = jd /\ UNCHANGED <<jm, jd, album>>
        /\ \A g \in Group : pc'[g] \notin Looping /\ GroupOK(g)
    BY <1>1, <2>2, OneTroubleKept DEF Start, Fresh, Looping, CompleteInv
  <2>5. \A g \in Group : pc[g] \notin Looping
    BY <1>1 DEF Start, TurnInv, TurnOK
  <2>6. \A g \in Group : GroupOK(g)'
    BY <2>2, <2>4, <2>5, GroupApart
  <2> QED
    BY <2>3, <2>4, <2>6 DEF CompleteInv
<1>2. CASE Stop
  <2>1. /\ faults.kinds \subseteq faults'.kinds /\ "stop" \in faults'.kinds
    BY <1>0, <1>2, FaultAdds DEF Stop
  <2>2. Gentle /\ Stopped' /\ OneTrouble
    BY <2>1, OneTroubleKept DEF Gentle, Stopped
  <2>3. /\ jm = jd /\ view = Members /\ UNCHANGED <<jm, jd, album, view>>
        /\ \A g \in Group : pc'[g] \notin Looping /\ GroupOK(g)
    BY <1>2, <2>2 DEF Stop, Fresh, Looping, CompleteInv
  <2>4. ASSUME NEW g \in Group PROVE GroupOK(g)'
    <3>1. CASE pc[g] \notin Looping \/ jm[g].stage = "cloned"
      BY <2>1, <2>2, <2>3, <3>1, OneTroubleKept DEF GroupOK, KnownOK, HasCopy
    <3>2. CASE pc[g] \in Looping /\ jm[g].stage # "cloned"
      <4>1. \A p \in jm[g].albums : album[p] \in {g, Nobody}
        BY <2>2, <3>2 DEF CompleteInv, MadeOK
      <4>2. ASSUME NEW h \in Group, h < g PROVE jm[h].stage = "cloned"
        <5>1. pc[h] \in {"end", "failed"}
          BY <3>2, <4>2 DEF TurnInv, TurnOK
        <5> QED
          BY <2>2, <5>1 DEF TurnInv, TurnOK, Gentle
      <4> QED
        BY <2>2, <2>3, <3>2, <4>1, <4>2 DEF GroupOK, KnownOK
    <3> QED
      BY <3>1, <3>2
  <2> QED
    BY <2>3, <2>4 DEF CompleteInv
<1>3. ASSUME NEW p \in Path, Intrude(p) PROVE CompleteInv'
  <2>1. /\ faults.kinds \subseteq faults'.kinds /\ "intrude" \in faults'.kinds
        /\ album[p] = Nobody /\ album' = [album EXCEPT ![p] = Other]
        /\ UNCHANGED <<jm, jd, view, pc, made, todo>>
    BY <1>0, <1>3, FaultAdds DEF Intrude, local
  <2>2. OneTrouble /\ ~Gentle' /\ ~Stopped
    BY <2>1, OneTroubleKept DEF Gentle, Stopped
  <2>3. \A q \in Path : album'[q] = IF q = p THEN Other ELSE album[q]
    BY <1>0, <2>1 DEF AlbumTypeOK
  <2>4. ASSUME NEW g \in Group PROVE GroupOK(g)' /\ (pc[g] \in Looping => MadeOK(g)')
    <3>1. Nobody # g /\ GroupOK(g) /\ (pc[g] \in Looping => MadeOK(g))
      BY <2>2, Owners DEF CompleteInv
    <3>2. \A q \in Path : album[q] = g => album'[q] = g
      BY <2>1, <2>3, <3>1
    <3>3. pc[g] \in Looping => MadeOK(g)'
      BY <1>0, <2>1, <2>2, <3>1, <3>2 DEF MadeOK, AlbumTypeOK
    <3>4. CASE jm[g].stage = "cloned"
      BY <2>1, <3>1, <3>2, <3>3, <3>4, CopyKept DEF GroupOK
    <3>5. CASE jm[g].stage # "cloned"
      <4>1. \A q \in jm[g].albums : q \in Path
        BY <1>0 DEF AlbumTypeOK
      <4>2. KnownOK(g) => \A q \in jm[g].albums : album'[q] = g
        BY <2>2, <3>2, <4>1 DEF KnownOK
      <4>3. GroupOK(g)
        BY <3>1
      <4> QED
        BY <2>1, <3>3, <3>5, <4>2, <4>3 DEF GroupOK, KnownOK
    <3> QED
      BY <3>4, <3>5
  <2> QED
    BY <2>1, <2>2, <2>4 DEF CompleteInv
<1>4. CASE PlaceDone \/ Finish
  <2>1. /\ UNCHANGED <<jm, jd, album, view, pc, faults>>
        /\ UNCHANGED <<made, todo>> \/ \A g \in Group : pc[g] \notin Looping
    BY <1>4 DEF PlaceDone, Finish, local, Looping
  <2>2. OneTrouble
    BY <2>1 DEF OneTrouble
  <2>3. \A g \in Group : GroupOK(g)'
    BY <2>1, <2>2, GroupApart DEF CompleteInv
  <2>4. \A g \in Group : pc'[g] \in Looping => MadeOK(g)'
    BY <2>1, <2>2 DEF CompleteInv, MadeOK, Gentle
  <2> QED
    BY <2>1, <2>2, <2>3, <2>4 DEF CompleteInv
<1>5. ASSUME NEW g \in Group, Step(g) PROVE CompleteInv'
  BY <1>5, QuietComplete, EnterComplete, IntendComplete, LinkComplete, CollideComplete,
     CloseComplete DEF Step, Copying
<1>6. CASE UNCHANGED vars
  <2>1. UNCHANGED <<jm, jd, album, view, pc, made, todo, faults>>
    BY <1>6 DEF vars
  <2> QED
    BY <2>1 DEF CompleteInv, OneTrouble, GroupOK, HasCopy, KnownOK, MadeOK, Gentle, Stopped
<1> QED
  BY <1>1, <1>2, <1>3, <1>4, <1>5, <1>6 DEF Next

-----------------------------------------------------------------------------
\* Results

\* The strengthening holds in every state a run, a crash or a later run reaches.
THEOREM AlbumInductive == Spec => []AlbumInv
  BY InitInv, StepInv, PTL DEF Spec

\* However often runs fail, stop and start again, no photo gets a second copy in
\* an album: the record made before a copy is always found by the next run.
THEOREM NoSecondCopy == Spec => []OneCopy
<1>1. AlbumInv => OneCopy
  BY DEF AlbumInv
<1> QED
  BY <1>1, AlbumInductive, PTL

\* The steps that change an album folder: a copy made, or another program's file.
LEMMA AlbumChange ==
  [Next]_vars => \/ album' = album
                 \/ \E p \in Path : Intrude(p)
                 \/ \E g \in Group : Link(g)
<1> SUFFICES ASSUME [Next]_vars, ~\E p \in Path : Intrude(p),
                    ~\E g \in Group : Link(g)
             PROVE  album' = album
  OBVIOUS
<1>1. CASE Start \/ Stop \/ PlaceDone \/ Finish \/ UNCHANGED vars
  BY <1>1 DEF Start, Stop, PlaceDone, Finish, vars
<1>2. ASSUME NEW g \in Group, Step(g) PROVE album' = album
  <2>1. CASE Intend(g)
    BY Zenon, <2>1 DEF Intend
  <2> QED
    BY <1>2, <2>1 DEF Step, Copying, Place, PlaceFails, Skip, Enter, Collide, LinkFails,
       Withdraw, PutCloned
<1> QED
  BY <1>1, <1>2 DEF Next

\* The album folders implement Library, with a photo's membership of an album
\* in the role of a photo: one place each, never taken from anything else.
THEOREM ImplementsLibrary == Spec => AlbumLibrary
<1>1. Init => A!Init
  BY DEF Init, A!Init, Shelf
<1>2. AlbumInv /\ [Next]_vars => [A!Next]_Shelf
  <2> SUFFICES ASSUME AlbumInv, [Next]_vars PROVE A!Next \/ Shelf' = Shelf
    OBVIOUS
  <2>1. album \in [Path -> Group \cup {Other, Nobody}]
    BY DEF AlbumInv, AlbumTypeOK
  <2>2. CASE album' = album
    BY <2>2 DEF Shelf
  <2>3. CASE \E p \in Path : Intrude(p)
    <3>1. PICK p \in Path : album[p] = Nobody /\ album' = [album EXCEPT ![p] = Other]
      BY <2>3 DEF Intrude
    <3>2. Shelf[p] = Nobody
      BY <3>1 DEF Shelf
    <3>3. Shelf' = [Shelf EXCEPT ![p] = Other]
      BY <2>1, <3>1 DEF Shelf
    <3> QED
      BY <3>2, <3>3 DEF A!Next, A!Intrude
  <2>4. CASE \E g \in Group : Link(g)
    <3>1. PICK g \in Group :
            /\ aim \in Path /\ album[aim] = Nobody /\ album' = [album EXCEPT ![aim] = g]
            /\ LoopOK(g) /\ aim[1] \in todo /\ pc[g] \in Looping
      BY <2>4 DEF Link, MayLink, AlbumInv, LoopOK, Looping
    <3>2. PICK m \in Belongs : m = <<g, aim[1]>>
      BY <3>1 DEF Path, LoopOK, Belongs
    <3>3. m \notin {Other, Nobody} /\ g \notin {Other, Nobody}
      BY <3>1, <3>2, Owners DEF Belongs
    <3>4. ASSUME NEW q \in Path PROVE Shelf[q] # m
      <4>1. CASE album[q] \in {Other, Nobody}
        BY <4>1, <3>3 DEF Shelf
      <4>2. CASE album[q] = g
        <5>1. q[1] # aim[1]
          BY <3>1, <4>2 DEF AlbumInv, Recorded
        <5>2. Shelf[q] = <<g, q[1]>>
          BY <4>2, <3>3 DEF Shelf
        <5> QED
          BY <5>1, <5>2, <3>2
      <4>3. CASE album[q] \notin {Other, Nobody} /\ album[q] # g
        <5>1. Shelf[q] = <<album[q], q[1]>>
          BY <4>3 DEF Shelf
        <5> QED
          BY <5>1, <4>3, <3>2
      <4> QED
        BY <4>1, <4>2, <4>3
    <3>5. Shelf[aim] = Nobody
      BY <3>1 DEF Shelf
    <3>6. Shelf' = [Shelf EXCEPT ![aim] = m]
      <4>1. \A q \in Path : album'[q] = IF q = aim THEN g ELSE album[q]
        BY <2>1, <3>1
      <4>2. \A q \in Path : q # aim => Shelf'[q] = Shelf[q]
        BY <4>1 DEF Shelf
      <4>3. Shelf'[aim] = m
        BY <4>1, <3>1, <3>2, <3>3 DEF Shelf
      <4>4. /\ DOMAIN Shelf = Path /\ DOMAIN Shelf' = Path
            /\ Shelf = [q \in Path |-> Shelf[q]] /\ Shelf' = [q \in Path |-> Shelf'[q]]
        BY DEF Shelf
      <4> QED
        BY <4>2, <4>3, <4>4, <3>1
    <3>7. A!PutAway(m, aim)
      BY <3>4, <3>5, <3>6 DEF A!PutAway
    <3> QED
      BY <3>1, <3>7 DEF A!Next
  <2> QED
    BY <2>2, <2>3, <2>4, AlbumChange
<1> QED
  BY <1>1, <1>2, AlbumInductive, PTL DEF Spec, AlbumLibrary, A!Spec

\* A run that reports success leaves every photo a copy in each of its albums, however
\* often runs were stopped, or photos, copies and names failed, and not both.
THEOREM AlbumsWhole == Spec => []AlbumsComplete
<1>1. Init => TurnInv /\ CompleteInv
  <2> SUFFICES ASSUME Init PROVE TurnInv /\ CompleteInv
    OBVIOUS
  <2>1. TurnInv
    BY DEF Init, TurnInv, TurnOK, ExitOK, Looping
  <2>2. \A g \in Group : GroupOK(g)
    BY DEF Init, GroupOK, KnownOK
  <2>3. CompleteInv
    BY <2>2 DEF Init, CompleteInv, Looping
  <2> QED
    BY <2>1, <2>3
<1>2. AlbumInv /\ TurnInv /\ CompleteInv /\ [Next]_vars => TurnInv' /\ CompleteInv'
  BY TurnKept, StepComplete
<1>3. TurnInv /\ CompleteInv => AlbumsComplete
  BY DEF TurnInv, ExitOK, CompleteInv, GroupOK, AlbumsComplete, SuccessComplete
<1> QED
  BY <1>1, <1>2, <1>3, AlbumInductive, PTL DEF Spec
=============================================================================
