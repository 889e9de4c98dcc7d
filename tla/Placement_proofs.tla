-------------------------- MODULE Placement_proofs --------------------------
(***************************************************************************)
(* For every set of photos, names and faults: no run takes another photo's *)
(* file for its own, nothing in the results folder is ever replaced, no    *)
(* photo's bytes are lost or get a second place, and a run that reports    *)
(* success has every photo in its place with its tags.                     *)
(***************************************************************************)
EXTENDS Placement, TLAPS

-----------------------------------------------------------------------------
\* Facts about the operators the actions are built from

\* The files the actions make, told apart by owner and kind.
LEMMA FileFacts ==
  /\ Absent \in File /\ Absent.of = Nobody
  /\ Foreign \in File /\ Foreign.of = Other /\ Foreign # Absent
  /\ \A g \in Group : /\ Fresh(g) \in File /\ Fresh(g).of = g /\ Fresh(g).kind = "orig"
                       /\ Torn(g) \in File /\ Torn(g).of = g /\ Torn(g).kind = "cut"
                       /\ Video(g) \in File /\ Video(g).of = g /\ Video(g).kind = "mov"
  /\ \A f \in File : f.of \in Group => f # Absent
BY ConstantsOK DEF File, Kinds, Absent, Foreign, Fresh, Torn, Video

\* Journal records and their parts.
LEMMA RecFacts ==
  /\ Blank \in Rec /\ Blank.stage = "none" /\ Blank.path = NoPath
  /\ \A r \in Rec : r.stage \in Stages /\ r.path \in Path \cup {NoPath}
  /\ \A s \in Stages, p \in Path \cup {NoPath} :
       At(s, p) \in Rec /\ At(s, p).stage = s /\ At(s, p).path = p
BY DEF Rec, Stages, Blank, At

\* Whatever a Put returns, memory has the new record and the disk the old or
\* the new one (state.Journal.Put sets the map before it writes).
LEMMA PutOutcome ==
  ASSUME TypeOK, NEW g \in Group, NEW r \in Rec, PutIgnored(g, r) \/ PutFails(g, r)
  PROVE  /\ jm' = [jm EXCEPT ![g] = r]
         /\ jd' = jd \/ jd' = [jd EXCEPT ![g] = r]
         /\ jm' \in [Group -> Rec] /\ jd' \in [Group -> Rec]
         /\ faults' \in 0 .. MaxFaults
<1>1. /\ jm' = [jm EXCEPT ![g] = r]
      /\ jd' = jd \/ jd' = [jd EXCEPT ![g] = r]
      /\ faults' \in 0 .. MaxFaults
  BY ConstantsOK DEF PutIgnored, Put, PutFails, TypeOK, Fault
<1>2. jm' \in [Group -> Rec] /\ jd' \in [Group -> Rec]
  BY <1>1 DEF TypeOK
<1> QED
  BY <1>1, <1>2

\* Writing tags into a file leaves its owner and kind, and does not make or remove it.
LEMMA TaggedFile ==
  ASSUME NEW f \in File
  PROVE  /\ Tagged(f) \in File /\ Tagged(f).of = f.of /\ Tagged(f).kind = f.kind
         /\ Tagged(f).tagged = TRUE
BY DEF Tagged, File, Kinds

\* What writing the tags of g does to the files: no file changes its owner or
\* its kind, and only the one the run works on changes at all.
TagsOnly(g) ==
  /\ orig' \in [Group -> File] /\ mov' \in [Group -> File]
  /\ lib' \in [Path -> File]
  /\ \A h \in Group : orig'[h].of = orig[h].of /\ orig'[h].kind = orig[h].kind
  /\ \A h \in Group : mov'[h].of = mov[h].of /\ mov'[h].kind = mov[h].kind
  /\ \A p \in Path : lib'[p].of = lib[p].of /\ lib'[p].kind = lib[p].kind
  /\ \A p \in Path : lib[p].tagged => lib'[p].tagged
  /\ \A h \in Group : at[h] # "orig" \/ h # g => orig'[h] = orig[h]
  /\ \A h \in Group : at[h] # "mov" \/ h # g => mov'[h] = mov[h]

\* What ExifTool's write leaves: the one file the run works on is tagged, if it is there.
LEMMA TagsWritten ==
  ASSUME TypeOK, NEW g \in Group, WriteTagsIn(g), at[g] = "lib" => out[g] \in Path
  PROVE  TagsOnly(g)
<1>0. /\ orig \in [Group -> File] /\ mov \in [Group -> File]
      /\ lib \in [Path -> File] /\ at[g] \in Places
  BY DEF TypeOK
<1>1. CASE at[g] = "orig"
  <2>1. orig' = [orig EXCEPT ![g] = Tagged(orig[g])] /\ mov' = mov /\ lib' = lib
    BY <1>1 DEF WriteTagsIn
  <2> QED
    BY <1>0, <1>1, <2>1, TaggedFile DEF TagsOnly
<1>2. CASE at[g] = "mov"
  <2>1. mov' = [mov EXCEPT ![g] = Tagged(mov[g])] /\ orig' = orig /\ lib' = lib
    BY <1>2 DEF WriteTagsIn
  <2> QED
    BY <1>0, <1>2, <2>1, TaggedFile DEF TagsOnly
<1>3. CASE at[g] = "lib"
  <2>1. lib' = [lib EXCEPT ![out[g]] = Tagged(lib[out[g]])] /\ orig' = orig /\ mov' = mov
    BY <1>3 DEF WriteTagsIn
  <2>2. out[g] \in Path
    BY <1>3
  <2> QED
    BY <1>0, <2>1, <2>2, TaggedFile DEF TagsOnly
<1>4. CASE at[g] = "none"
  BY <1>0, <1>4 DEF WriteTagsIn, TagsOnly
<1> QED
  BY <1>0, <1>1, <1>2, <1>3, <1>4 DEF Places

-----------------------------------------------------------------------------
\* Every action keeps the inductive invariant

USE FileFacts, RecFacts DEF Stages, Index, Places, PCs, Phases, Exists, Goto, Fault

\* A step on one group leaves another alone if it leaves its records, its staged
\* files and its progress alone, and every file it has in the library.
LEMMA Frame ==
  ASSUME IInv, NEW h \in Group,
         jm'[h] = jm[h], jd'[h] = jd[h], orig'[h] = orig[h], mov'[h] = mov[h],
         pc'[h] = pc[h], at'[h] = at[h], out'[h] = out[h],
         saved' = saved \/ pc[h] \notin Busy,
         \A p \in Path : lib[p].of = h => lib'[p].of = h
  PROVE  (RecOK(h, jm[h]) /\ RecOK(h, jd[h]) /\ StagedOK(h) /\ RunOK(h))'
<1>1. RecOK(h, jm[h]) /\ RecOK(h, jd[h]) /\ StagedOK(h) /\ RunOK(h)
  BY DEF IInv
<1>2. (RecOK(h, jm[h]) /\ RecOK(h, jd[h]))'
  BY <1>1 DEF RecOK, Kept
<1>3. StagedOK(h)'
  BY <1>1 DEF StagedOK
<1>4. RunOK(h)'
  BY <1>1 DEF RunOK, RecOK, Kept, Busy
<1> QED
  BY <1>2, <1>3, <1>4

\* The empty results folder satisfies the invariant.
LEMMA InitIInv == Init => IInv
<1> SUFFICES ASSUME Init PROVE IInv
  OBVIOUS
<1>1. TypeOK
  <2>1. next \in [Stem -> 0 .. MaxIndex] /\ faults \in 0 .. MaxFaults
    BY ConstantsOK DEF Init
  <2>2. /\ jm \in [Group -> Rec] /\ jd \in [Group -> Rec] /\ saved \in Rec
        /\ orig \in [Group -> File] /\ mov \in [Group -> File]
        /\ lib \in [Path -> File]
    BY DEF Init
  <2> QED
    BY <2>1, <2>2 DEF Init, TypeOK
<1>2. ASSUME NEW g \in Group
      PROVE  RecOK(g, jm[g]) /\ RecOK(g, jd[g]) /\ StagedOK(g) /\ RunOK(g)
  BY ConstantsOK DEF Init, RecOK, StagedOK, RunOK, Kept
<1> QED
  BY <1>1, <1>2 DEF IInv

\* A run that starts knows what the journal on disk says and nothing else.
LEMMA StartStep ==
  ASSUME IInv, NEW chosen \in SUBSET Group, Start(chosen)
  PROVE  IInv'
BY ConstantsOK DEF Start, Forget,
   IInv, TypeOK, RecOK, StagedOK, RunOK, Kept

\* A crash loses what is in memory; all the invariant says of the disk remains.
LEMMA StopStep ==
  ASSUME IInv, Stop
  PROVE  IInv'
BY ConstantsOK DEF Stop, Forget,
   IInv, TypeOK, RecOK, StagedOK, RunOK, Kept

\* A file of another program takes a free name, so no record speaks of it as placed.
LEMMA IntrudeStep ==
  ASSUME IInv, NEW p \in Path, Intrude(p)
  PROVE  IInv'
BY ConstantsOK DEF Intrude,
   IInv, TypeOK, RecOK, StagedOK, RunOK, Kept

\* The end of the copy loop changes no group.
LEMMA CopyDoneStep ==
  ASSUME IInv, CopyDone
  PROVE  IInv'
<1>7. TypeOK'
  BY ConstantsOK DEF CopyDone, NextPhase, IInv, TypeOK
<1>8. ASSUME NEW h \in Group
      PROVE  (RecOK(h, jm[h]) /\ RecOK(h, jd[h]) /\ StagedOK(h) /\ RunOK(h))'
  <2>1. (RecOK(h, jm[h]) /\ RecOK(h, jd[h]))'
    BY ConstantsOK DEF CopyDone, NextPhase, IInv, TypeOK, RecOK, StagedOK, RunOK, Kept
  <2>2. StagedOK(h)'
    BY ConstantsOK DEF CopyDone, NextPhase, IInv, TypeOK, RecOK, StagedOK, RunOK, Kept
  <2>3. RunOK(h)'
    BY ConstantsOK DEF CopyDone, NextPhase, IInv, TypeOK, RecOK, StagedOK, RunOK, Kept
  <2> QED
    BY <2>1, <2>2, <2>3
<1> QED
  BY <1>7, <1>8 DEF IInv

\* The end of the conversion loop changes no group.
LEMMA ConvertDoneStep ==
  ASSUME IInv, ConvertDone
  PROVE  IInv'
<1>7. TypeOK'
  BY ConstantsOK DEF ConvertDone, NextPhase, IInv, TypeOK
<1>8. ASSUME NEW h \in Group
      PROVE  (RecOK(h, jm[h]) /\ RecOK(h, jd[h]) /\ StagedOK(h) /\ RunOK(h))'
  <2>1. (RecOK(h, jm[h]) /\ RecOK(h, jd[h]))'
    BY ConstantsOK DEF ConvertDone, NextPhase, IInv, TypeOK, RecOK, StagedOK, RunOK, Kept
  <2>2. StagedOK(h)'
    BY ConstantsOK DEF ConvertDone, NextPhase, IInv, TypeOK, RecOK, StagedOK, RunOK, Kept
  <2>3. RunOK(h)'
    BY ConstantsOK DEF ConvertDone, NextPhase, IInv, TypeOK, RecOK, StagedOK, RunOK, Kept
  <2> QED
    BY <2>1, <2>2, <2>3
<1> QED
  BY <1>7, <1>8 DEF IInv

\* The end of tagAll changes no group.
LEMMA TagsDoneStep ==
  ASSUME IInv, TagsDone
  PROVE  IInv'
<1>7. TypeOK'
  BY ConstantsOK DEF TagsDone, NextPhase, IInv, TypeOK
<1>8. ASSUME NEW h \in Group
      PROVE  (RecOK(h, jm[h]) /\ RecOK(h, jd[h]) /\ StagedOK(h) /\ RunOK(h))'
  <2>1. (RecOK(h, jm[h]) /\ RecOK(h, jd[h]))'
    BY ConstantsOK DEF TagsDone, NextPhase, IInv, TypeOK, RecOK, StagedOK, RunOK, Kept
  <2>2. StagedOK(h)'
    BY ConstantsOK DEF TagsDone, NextPhase, IInv, TypeOK, RecOK, StagedOK, RunOK, Kept
  <2>3. RunOK(h)'
    BY ConstantsOK DEF TagsDone, NextPhase, IInv, TypeOK, RecOK, StagedOK, RunOK, Kept
  <2> QED
    BY <2>1, <2>2, <2>3
<1> QED
  BY <1>7, <1>8 DEF IInv

\* The end of a run changes no file and no record.
LEMMA FinishStep ==
  ASSUME IInv, Finish
  PROVE  IInv'
<1>7. TypeOK'
  BY ConstantsOK DEF Finish, ExitCode, IInv, TypeOK
<1>8. ASSUME NEW h \in Group
      PROVE  (RecOK(h, jm[h]) /\ RecOK(h, jd[h]) /\ StagedOK(h) /\ RunOK(h))'
  <2>1. (RecOK(h, jm[h]) /\ RecOK(h, jd[h]))'
    BY ConstantsOK DEF Finish, ExitCode, IInv, TypeOK, RecOK, StagedOK, RunOK, Kept
  <2>2. StagedOK(h)'
    BY ConstantsOK DEF Finish, ExitCode, IInv, TypeOK, RecOK, StagedOK, RunOK, Kept
  <2>3. RunOK(h)'
    BY ConstantsOK DEF Finish, ExitCode, IInv, TypeOK, RecOK, StagedOK, RunOK, Kept
  <2> QED
    BY <2>1, <2>2, <2>3
<1> QED
  BY <1>7, <1>8 DEF IInv

\* extractGroup on a resumed group: a file it adopts at a recorded path is the group's
\* own, because a staged copy with other bytes refutes movedBeforeCrash.
LEMMA AdoptStep ==
  ASSUME IInv, NEW g \in Group, Adopt(g)
  PROVE  IInv'
<1>1. InLibrary(g) => jm[g].path \in Path /\ lib[jm[g].path].of = g
                      /\ jm[g].stage \in {"placing", "placed"}
  BY ConstantsOK DEF Adopt, Resumable, InLibrary, MovedBeforeCrash, FirstStaged,
     IInv, TypeOK, RecOK, StagedOK, Kept
<1>2. ~InLibrary(g) => jm[g].stage # "placed" /\ orig[g] # Absent
  BY ConstantsOK DEF Adopt, Resumable, InLibrary, IInv, TypeOK, RecOK
<1>3. jm[g] = jd[g] /\ pc[g] = "todo" /\ at[g] = "none" /\ out[g] = NoPath
  BY DEF Adopt, IInv, RunOK
<1>4. /\ orig' = orig \/ orig' = [orig EXCEPT ![g] = Absent]
      /\ mov' = mov \/ mov' = [mov EXCEPT ![g] = Absent]
      /\ ~InLibrary(g) => orig' = orig /\ mov' = mov
  BY DEF Adopt
<1>5. IF InLibrary(g)
      THEN at' = [at EXCEPT ![g] = "lib"] /\ out' = [out EXCEPT ![g] = jm[g].path]
      ELSE at' = [at EXCEPT ![g] = "orig"] /\ out' = out
  BY DEF Adopt
<1>6. /\ pc' = [pc EXCEPT ![g] = "got"]
      /\ UNCHANGED <<jm, jd, lib, phase, ff, failed, tagErr, next, saved, exit,
                     faults>>
  BY DEF Adopt
<1>7. TypeOK'
  <2>1. orig' \in [Group -> File]
    <3>1. orig \in [Group -> File] /\ Absent \in File
      BY DEF IInv, TypeOK
    <3> QED
      BY <3>1, <1>4
  <2>2. mov' \in [Group -> File]
    <3>1. mov \in [Group -> File] /\ Absent \in File
      BY DEF IInv, TypeOK
    <3> QED
      BY <3>1, <1>4
  <2>3. at' \in [Group -> Places]
    BY <1>5 DEF IInv, TypeOK
  <2>4. out' \in [Group -> Path \cup {NoPath, Marked}]
    <3>1. out \in [Group -> Path \cup {NoPath, Marked}]
      BY DEF IInv, TypeOK
    <3>2. CASE InLibrary(g)
      BY <3>1, <3>2, <1>1, <1>5
    <3>3. CASE ~InLibrary(g)
      BY <3>1, <3>3, <1>5
    <3> QED
      BY <3>2, <3>3
  <2>5. pc' \in [Group -> PCs]
    BY <1>6 DEF IInv, TypeOK
  <2> QED
    BY <2>1, <2>2, <2>3, <2>4, <2>5, <1>6 DEF IInv, TypeOK
<1>8. ASSUME NEW h \in Group
      PROVE  (RecOK(h, jm[h]) /\ RecOK(h, jd[h]) /\ StagedOK(h) /\ RunOK(h))'
  <2>1. CASE h = g
    <3>1. (RecOK(h, jm[h]) /\ RecOK(h, jd[h]))'
      BY <2>1, <1>1, <1>2, <1>3, <1>4, <1>6 DEF IInv, TypeOK, RecOK, Kept
    <3>2. StagedOK(h)'
      BY <2>1, <1>4, ConstantsOK DEF IInv, TypeOK, StagedOK
    <3>3. RunOK(h)'
      BY <2>1, <1>1, <1>2, <1>3, <1>4, <1>5, <1>6, ConstantsOK
         DEF IInv, TypeOK, RunOK, RecOK, Kept
    <3> QED
      BY <3>1, <3>2, <3>3
  <2>2. CASE h # g
    <3>1. orig'[h] = orig[h] /\ mov'[h] = mov[h] /\ at'[h] = at[h] /\ out'[h] = out[h]
          /\ pc'[h] = pc[h]
      BY <2>2, <1>4, <1>5, <1>6 DEF IInv, TypeOK
    <3>2. RecOK(h, jm[h]) /\ RecOK(h, jd[h]) /\ StagedOK(h) /\ RunOK(h)
      BY DEF IInv
    <3> QED
      BY <3>1, <3>2, <1>6 DEF RecOK, StagedOK, RunOK, Kept
  <2> QED
    BY <2>1, <2>2
<1> QED
  BY <1>7, <1>8 DEF IInv

\* extractGroup's rename of the extracted entry: the staged file has the group's bytes.
LEMMA ExtractStep ==
  ASSUME IInv, NEW g \in Group, Extract(g)
  PROVE  IInv'
<1>7. TypeOK'
  BY ConstantsOK DEF Extract, IInv, TypeOK
<1>8. ASSUME NEW h \in Group
      PROVE  (RecOK(h, jm[h]) /\ RecOK(h, jd[h]) /\ StagedOK(h) /\ RunOK(h))'
  <2>1. (RecOK(h, jm[h]) /\ RecOK(h, jd[h]))'
    BY ConstantsOK DEF Extract, IInv, TypeOK, RecOK, StagedOK, RunOK, Kept
  <2>2. StagedOK(h)'
    BY ConstantsOK DEF Extract, IInv, TypeOK, RecOK, StagedOK, RunOK, Kept
  <2>3. RunOK(h)'
    BY ConstantsOK DEF Extract, IInv, TypeOK, RecOK, StagedOK, RunOK, Kept
  <2> QED
    BY <2>1, <2>2, <2>3
<1> QED
  BY <1>7, <1>8 DEF IInv

\* A damaged entry fails its group and touches no file.
LEMMA ExtractFailsStep ==
  ASSUME IInv, NEW g \in Group, ExtractFails(g)
  PROVE  IInv'
<1>7. TypeOK'
  BY ConstantsOK DEF ExtractFails, IInv, TypeOK
<1>8. ASSUME NEW h \in Group
      PROVE  (RecOK(h, jm[h]) /\ RecOK(h, jd[h]) /\ StagedOK(h) /\ RunOK(h))'
  <2>1. (RecOK(h, jm[h]) /\ RecOK(h, jd[h]))'
    BY ConstantsOK DEF ExtractFails, IInv, TypeOK, RecOK, StagedOK, RunOK, Kept
  <2>2. StagedOK(h)'
    BY ConstantsOK DEF ExtractFails, IInv, TypeOK, RecOK, StagedOK, RunOK, Kept
  <2>3. RunOK(h)'
    BY ConstantsOK DEF ExtractFails, IInv, TypeOK, RecOK, StagedOK, RunOK, Kept
  <2> QED
    BY <2>1, <2>2, <2>3
<1> QED
  BY <1>7, <1>8 DEF IInv

\* The "staged" record, written or not, claims no place.
LEMMA PutStagedStep ==
  ASSUME IInv, NEW g \in Group, PutStaged(g)
  PROVE  IInv'
<1>1. At("staged", NoPath) \in Rec
  BY RecFacts DEF Stages
<1>2. PutIgnored(g, At("staged", NoPath)) \/ PutFails(g, At("staged", NoPath))
  BY DEF PutStaged, PutIgnored
<1>3. /\ jm' = [jm EXCEPT ![g] = At("staged", NoPath)]
      /\ jd' = jd \/ jd' = [jd EXCEPT ![g] = At("staged", NoPath)]
      /\ jm' \in [Group -> Rec] /\ jd' \in [Group -> Rec]
      /\ faults' \in 0 .. MaxFaults
  BY <1>1, <1>2, PutOutcome DEF IInv
<1>7. TypeOK'
  BY <1>3, ConstantsOK DEF PutStaged, IInv, TypeOK
<1>8. ASSUME NEW h \in Group
      PROVE  (RecOK(h, jm[h]) /\ RecOK(h, jd[h]) /\ StagedOK(h) /\ RunOK(h))'
  <2>1. CASE h = g
    <3>1. (RecOK(h, jm[h]) /\ RecOK(h, jd[h]))'
      BY <2>1, <1>3, ConstantsOK DEF PutStaged, IInv, TypeOK, RecOK, StagedOK, RunOK, Kept
    <3>2. StagedOK(h)'
      BY <1>3, ConstantsOK DEF PutStaged, IInv, TypeOK, RecOK, StagedOK, RunOK, Kept
    <3>3. RunOK(h)'
      BY <2>1, <1>3, ConstantsOK DEF PutStaged, IInv, TypeOK, RecOK, StagedOK, RunOK, Kept
    <3> QED
      BY <3>1, <3>2, <3>3
  <2>2. CASE h # g
    <3>1. jm'[h] = jm[h] /\ jd'[h] = jd[h] /\ pc'[h] = pc[h] /\ at'[h] = at[h] /\ out'[h] = out[h]
      BY <2>2, <1>3, ConstantsOK DEF PutStaged, IInv, TypeOK
    <3>2. RecOK(h, jm[h]) /\ RecOK(h, jd[h]) /\ StagedOK(h) /\ RunOK(h)
      BY DEF IInv
    <3>3. UNCHANGED <<orig, mov, lib, saved>>
      BY DEF PutStaged
    <3> QED
      BY <3>1, <3>2, <3>3 DEF RecOK, StagedOK, RunOK, Kept
  <2> QED
    BY <2>1, <2>2
<1> QED
  BY <1>7, <1>8 DEF IInv

\* A group that is not converted keeps its file.
LEMMA NoConversionStep ==
  ASSUME IInv, NEW g \in Group, NoConversion(g)
  PROVE  IInv'
<1>7. TypeOK'
  BY ConstantsOK DEF NoConversion, IInv, TypeOK
<1>8. ASSUME NEW h \in Group
      PROVE  (RecOK(h, jm[h]) /\ RecOK(h, jd[h]) /\ StagedOK(h) /\ RunOK(h))'
  <2>1. (RecOK(h, jm[h]) /\ RecOK(h, jd[h]))'
    BY ConstantsOK DEF NoConversion, IInv, TypeOK, RecOK, StagedOK, RunOK, Kept
  <2>2. StagedOK(h)'
    BY ConstantsOK DEF NoConversion, IInv, TypeOK, RecOK, StagedOK, RunOK, Kept
  <2>3. RunOK(h)'
    BY ConstantsOK DEF NoConversion, IInv, TypeOK, RecOK, StagedOK, RunOK, Kept
  <2> QED
    BY <2>1, <2>2, <2>3
<1> QED
  BY <1>7, <1>8 DEF IInv

\* ffmpeg's half-written output is the group's own staged file.
LEMMA BeginConvertStep ==
  ASSUME IInv, NEW g \in Group, BeginConvert(g)
  PROVE  IInv'
<1>7. TypeOK'
  BY ConstantsOK DEF BeginConvert, Convertible, IInv, TypeOK
<1>8. ASSUME NEW h \in Group
      PROVE  (RecOK(h, jm[h]) /\ RecOK(h, jd[h]) /\ StagedOK(h) /\ RunOK(h))'
  <2>1. (RecOK(h, jm[h]) /\ RecOK(h, jd[h]))'
    BY ConstantsOK DEF BeginConvert, Convertible, IInv, TypeOK, RecOK, StagedOK, RunOK, Kept
  <2>2. StagedOK(h)'
    BY ConstantsOK DEF BeginConvert, Convertible, IInv, TypeOK, RecOK, StagedOK, RunOK, Kept
  <2>3. RunOK(h)'
    BY ConstantsOK DEF BeginConvert, Convertible, IInv, TypeOK, RecOK, StagedOK, RunOK, Kept
  <2> QED
    BY <2>1, <2>2, <2>3
<1> QED
  BY <1>7, <1>8 DEF IInv

\* A finished conversion is the group's own staged file.
LEMMA EndConvertStep ==
  ASSUME IInv, NEW g \in Group, EndConvert(g)
  PROVE  IInv'
<1>7. TypeOK'
  BY ConstantsOK DEF EndConvert, IInv, TypeOK
<1>8. ASSUME NEW h \in Group
      PROVE  (RecOK(h, jm[h]) /\ RecOK(h, jd[h]) /\ StagedOK(h) /\ RunOK(h))'
  <2>1. (RecOK(h, jm[h]) /\ RecOK(h, jd[h]))'
    BY ConstantsOK DEF EndConvert, IInv, TypeOK, RecOK, StagedOK, RunOK, Kept
  <2>2. StagedOK(h)'
    BY ConstantsOK DEF EndConvert, IInv, TypeOK, RecOK, StagedOK, RunOK, Kept
  <2>3. RunOK(h)'
    BY ConstantsOK DEF EndConvert, IInv, TypeOK, RecOK, StagedOK, RunOK, Kept
  <2> QED
    BY <2>1, <2>2, <2>3
<1> QED
  BY <1>7, <1>8 DEF IInv

\* The original goes only after its conversion is there, so a staged copy remains.
LEMMA DropOriginalStep ==
  ASSUME IInv, NEW g \in Group, DropOriginal(g)
  PROVE  IInv'
<1>7. TypeOK'
  BY ConstantsOK DEF DropOriginal, IInv, TypeOK
<1>8. ASSUME NEW h \in Group
      PROVE  (RecOK(h, jm[h]) /\ RecOK(h, jd[h]) /\ StagedOK(h) /\ RunOK(h))'
  <2>1. (RecOK(h, jm[h]) /\ RecOK(h, jd[h]))'
    BY ConstantsOK DEF DropOriginal, IInv, TypeOK, RecOK, StagedOK, RunOK, Kept
  <2>2. StagedOK(h)'
    BY ConstantsOK DEF DropOriginal, IInv, TypeOK, RecOK, StagedOK, RunOK, Kept
  <2>3. RunOK(h)'
    BY ConstantsOK DEF DropOriginal, IInv, TypeOK, RecOK, StagedOK, RunOK, Kept
  <2> QED
    BY <2>1, <2>2, <2>3
<1> QED
  BY <1>7, <1>8 DEF IInv

\* A failed conversion goes, the original stays.
LEMMA ConvertFailsStep ==
  ASSUME IInv, NEW g \in Group, ConvertFails(g)
  PROVE  IInv'
<1>7. TypeOK'
  BY ConstantsOK DEF ConvertFails, IInv, TypeOK
<1>8. ASSUME NEW h \in Group
      PROVE  (RecOK(h, jm[h]) /\ RecOK(h, jd[h]) /\ StagedOK(h) /\ RunOK(h))'
  <2>1. (RecOK(h, jm[h]) /\ RecOK(h, jd[h]))'
    BY ConstantsOK DEF ConvertFails, IInv, TypeOK, RecOK, StagedOK, RunOK, Kept
  <2>2. StagedOK(h)'
    BY ConstantsOK DEF ConvertFails, IInv, TypeOK, RecOK, StagedOK, RunOK, Kept
  <2>3. RunOK(h)'
    BY ConstantsOK DEF ConvertFails, IInv, TypeOK, RecOK, StagedOK, RunOK, Kept
  <2> QED
    BY <2>1, <2>2, <2>3
<1> QED
  BY <1>7, <1>8 DEF IInv

\* A group without a write changes nothing.
LEMMA SkipTagsStep ==
  ASSUME IInv, NEW g \in Group, SkipTags(g)
  PROVE  IInv'
<1>7. TypeOK'
  BY ConstantsOK DEF SkipTags, IInv, TypeOK
<1>8. ASSUME NEW h \in Group
      PROVE  (RecOK(h, jm[h]) /\ RecOK(h, jd[h]) /\ StagedOK(h) /\ RunOK(h))'
  <2>1. (RecOK(h, jm[h]) /\ RecOK(h, jd[h]))'
    BY ConstantsOK DEF SkipTags, IInv, TypeOK, RecOK, StagedOK, RunOK, Kept
  <2>2. StagedOK(h)'
    BY ConstantsOK DEF SkipTags, IInv, TypeOK, RecOK, StagedOK, RunOK, Kept
  <2>3. RunOK(h)'
    BY ConstantsOK DEF SkipTags, IInv, TypeOK, RecOK, StagedOK, RunOK, Kept
  <2> QED
    BY <2>1, <2>2, <2>3
<1> QED
  BY <1>7, <1>8 DEF IInv

\* ExifTool writes into the group's own file only.
LEMMA WriteTagsStep ==
  ASSUME IInv, NEW g \in Group, WriteTags(g)
  PROVE  IInv'
<1>1. at[g] = "lib" => out[g] \in Path
  BY DEF IInv, RunOK
<1>2. TagsOnly(g)
  BY <1>1, TagsWritten DEF WriteTags, IInv
<1>3. /\ UNCHANGED <<jm, jd, phase, ff, at, out, failed, next, saved, exit>>
      /\ tagErr' \subseteq Group /\ faults' \in 0 .. MaxFaults
      /\ pc[g] = "conv" /\ \E s \in {"wrote", "tagd"} : pc' = [pc EXCEPT ![g] = s]
  BY ConstantsOK DEF WriteTags, IInv, TypeOK
<1>7. TypeOK'
  BY <1>2, <1>3 DEF IInv, TypeOK, TagsOnly
<1>8. ASSUME NEW h \in Group
      PROVE  (RecOK(h, jm[h]) /\ RecOK(h, jd[h]) /\ StagedOK(h) /\ RunOK(h))'
  <2>0. RecOK(h, jm[h]) /\ RecOK(h, jd[h]) /\ StagedOK(h) /\ RunOK(h)
        /\ jm[h] \in Rec /\ jd[h] \in Rec
    BY DEF IInv, TypeOK
  <2>1. CASE h = g
    <3>1. /\ orig'[g].of = orig[g].of /\ orig'[g].kind = orig[g].kind
          /\ mov'[g].of = mov[g].of /\ mov'[g].kind = mov[g].kind
          /\ \A p \in Path : lib'[p].of = lib[p].of
          /\ at[g] # "orig" => orig'[g] = orig[g]
          /\ at[g] # "mov" => mov'[g] = mov[g]
      BY <1>2 DEF TagsOnly
    <3>2. /\ orig[g] # Absent => orig'[g] # Absent
          /\ mov[g] # Absent => mov'[g] # Absent
      BY <2>0, <2>1, <3>1, ConstantsOK DEF StagedOK
    <3>3. /\ orig[g] = Absent => orig'[g] = Absent
          /\ mov[g] = Absent => mov'[g] = Absent
      BY <2>0, <2>1, <3>1, <1>3 DEF RunOK
    <3>4. (RecOK(h, jm[h]) /\ RecOK(h, jd[h]))'
      BY <2>0, <2>1, <3>1, <3>2, <1>3 DEF RecOK, Kept
    <3>5. StagedOK(h)'
      BY <2>0, <2>1, <3>1, <3>3 DEF StagedOK
    <3>6. RunOK(h)'
      <4>1. pc'[g] \in {"wrote", "tagd"}
        BY <1>3 DEF IInv, TypeOK
      <4> QED
        BY <2>0, <2>1, <3>1, <3>2, <4>1, <1>3 DEF RunOK
    <3> QED
      BY <3>4, <3>5, <3>6
  <2>2. CASE h # g
    <3>1. /\ jm'[h] = jm[h] /\ jd'[h] = jd[h] /\ at'[h] = at[h]
          /\ out'[h] = out[h] /\ saved' = saved
      BY <1>3
    <3>2. pc'[h] = pc[h]
      BY <2>2, <1>3 DEF IInv, TypeOK
    <3>3. orig'[h] = orig[h] /\ mov'[h] = mov[h]
      BY <2>2, <1>2 DEF TagsOnly
    <3>4. \A p \in Path : lib[p].of = h => lib'[p].of = h
      BY <1>2 DEF TagsOnly
    <3> QED
      BY <3>1, <3>2, <3>3, <3>4, Frame
  <2> QED
    BY <2>1, <2>2
<1> QED
  BY <1>7, <1>8 DEF IInv

\* A failed or lost write leaves the file whole and the group's own.
LEMMA WriteTagsFailsStep ==
  ASSUME IInv, NEW g \in Group, WriteTagsFails(g)
  PROVE  IInv'
<1>1. at[g] = "lib" => out[g] \in Path
  BY DEF IInv, RunOK
<1>2. TagsOnly(g)
  <2>0. TypeOK /\ (WriteTagsIn(g) \/ UNCHANGED <<orig, mov, lib>>)
    BY DEF WriteTagsFails, IInv
  <2>1. CASE UNCHANGED <<orig, mov, lib>>
    BY <2>0, <2>1 DEF TagsOnly, TypeOK
  <2> QED
    BY <2>0, <2>1, <1>1, TagsWritten
<1>3. /\ UNCHANGED <<jm, jd, phase, ff, at, out, failed, next, saved, exit>>
      /\ tagErr' \subseteq Group /\ faults' \in 0 .. MaxFaults
      /\ pc[g] = "conv" /\ \E s \in {"wrote", "tagd"} : pc' = [pc EXCEPT ![g] = s]
  BY ConstantsOK DEF WriteTagsFails, IInv, TypeOK
<1>7. TypeOK'
  BY <1>2, <1>3 DEF IInv, TypeOK, TagsOnly
<1>8. ASSUME NEW h \in Group
      PROVE  (RecOK(h, jm[h]) /\ RecOK(h, jd[h]) /\ StagedOK(h) /\ RunOK(h))'
  <2>0. RecOK(h, jm[h]) /\ RecOK(h, jd[h]) /\ StagedOK(h) /\ RunOK(h)
        /\ jm[h] \in Rec /\ jd[h] \in Rec
    BY DEF IInv, TypeOK
  <2>1. CASE h = g
    <3>1. /\ orig'[g].of = orig[g].of /\ orig'[g].kind = orig[g].kind
          /\ mov'[g].of = mov[g].of /\ mov'[g].kind = mov[g].kind
          /\ \A p \in Path : lib'[p].of = lib[p].of
          /\ at[g] # "orig" => orig'[g] = orig[g]
          /\ at[g] # "mov" => mov'[g] = mov[g]
      BY <1>2 DEF TagsOnly
    <3>2. /\ orig[g] # Absent => orig'[g] # Absent
          /\ mov[g] # Absent => mov'[g] # Absent
      BY <2>0, <2>1, <3>1, ConstantsOK DEF StagedOK
    <3>3. /\ orig[g] = Absent => orig'[g] = Absent
          /\ mov[g] = Absent => mov'[g] = Absent
      BY <2>0, <2>1, <3>1, <1>3 DEF RunOK
    <3>4. (RecOK(h, jm[h]) /\ RecOK(h, jd[h]))'
      BY <2>0, <2>1, <3>1, <3>2, <1>3 DEF RecOK, Kept
    <3>5. StagedOK(h)'
      BY <2>0, <2>1, <3>1, <3>3 DEF StagedOK
    <3>6. RunOK(h)'
      <4>1. pc'[g] \in {"wrote", "tagd"}
        BY <1>3 DEF IInv, TypeOK
      <4> QED
        BY <2>0, <2>1, <3>1, <3>2, <4>1, <1>3 DEF RunOK
    <3> QED
      BY <3>4, <3>5, <3>6
  <2>2. CASE h # g
    <3>1. /\ jm'[h] = jm[h] /\ jd'[h] = jd[h] /\ at'[h] = at[h]
          /\ out'[h] = out[h] /\ saved' = saved
      BY <1>3
    <3>2. pc'[h] = pc[h]
      BY <2>2, <1>3 DEF IInv, TypeOK
    <3>3. orig'[h] = orig[h] /\ mov'[h] = mov[h]
      BY <2>2, <1>2 DEF TagsOnly
    <3>4. \A p \in Path : lib[p].of = h => lib'[p].of = h
      BY <1>2 DEF TagsOnly
    <3> QED
      BY <3>1, <3>2, <3>3, <3>4, Frame
  <2> QED
    BY <2>1, <2>2
<1> QED
  BY <1>7, <1>8 DEF IInv

\* The "tagged" record is written only when no record of a move is there to lose.
LEMMA PutTaggedStep ==
  ASSUME IInv, NEW g \in Group, PutTagged(g)
  PROVE  IInv'
<1>1. At("tagged", NoPath) \in Rec
  BY RecFacts
<1>2. /\ jm' = jm \/ jm' = [jm EXCEPT ![g] = At("tagged", NoPath)]
      /\ jd' = jd \/ jd' = [jd EXCEPT ![g] = At("tagged", NoPath)]
      /\ jm' \in [Group -> Rec] /\ jd' \in [Group -> Rec]
      /\ faults' \in 0 .. MaxFaults
  BY <1>1, PutOutcome DEF PutTagged, OnItsWay, IInv, TypeOK
<1>3. /\ UNCHANGED <<orig, mov, lib, phase, ff, at, out, failed, tagErr, next,
                     saved, exit>>
      /\ pc[g] = "wrote" /\ pc' = [pc EXCEPT ![g] = "tagd"]
      /\ jm[g].stage \in {"none", "staged", "tagged"} \/ (jm' = jm /\ jd' = jd)
  BY DEF PutTagged, OnItsWay
<1>4. pc' \in [Group -> PCs] /\ pc'[g] = "tagd"
  BY <1>3 DEF IInv, TypeOK
<1>7. TypeOK'
  BY <1>2, <1>3, <1>4 DEF IInv, TypeOK
<1>8. ASSUME NEW h \in Group
      PROVE  (RecOK(h, jm[h]) /\ RecOK(h, jd[h]) /\ StagedOK(h) /\ RunOK(h))'
  <2>0. RecOK(h, jm[h]) /\ RecOK(h, jd[h]) /\ StagedOK(h) /\ RunOK(h)
        /\ jm[h] \in Rec /\ jd[h] \in Rec /\ jm \in [Group -> Rec] /\ jd \in [Group -> Rec]
    BY DEF IInv, TypeOK
  <2>1. CASE h = g
    <3>1. /\ jm'[g] \in {jm[g], At("tagged", NoPath)}
          /\ jd'[g] \in {jd[g], At("tagged", NoPath)}
      BY <2>0, <1>2
    <3>2. RecOK(h, At("tagged", NoPath))'
      BY ConstantsOK DEF RecOK
    <3>3. RecOK(h, jm[h])' /\ RecOK(h, jd[h])'
      <4>1. \A r \in Rec : RecOK(h, r) => RecOK(h, r)'
        BY <1>3 DEF RecOK, Kept
      <4> QED
        BY <2>0, <2>1, <3>1, <3>2, <4>1
    <3>4. StagedOK(h)'
      BY <2>0, <1>3 DEF StagedOK
    <3>5. RunOK(h)'
      <4>1. jm[g].stage \notin {"none", "staged", "tagged"} => jm'[g] = jm[g]
        BY <1>3
      <4>2. at[g] = "lib" => jm[g].path \in Path /\ jm'[g] = jm[g]
        BY <2>0, <2>1, <4>1, <1>3, ConstantsOK DEF RunOK, RecOK
      <4>3. jm'[g].stage \in {jm[g].stage, "tagged"}
        BY <3>1
      <4> QED
        BY <2>0, <2>1, <4>2, <4>3, <1>3, <1>4 DEF RunOK
    <3> QED
      BY <3>3, <3>4, <3>5
  <2>2. CASE h # g
    <3>1. jm'[h] = jm[h] /\ jd'[h] = jd[h]
      BY <2>2, <1>2, <2>0
    <3>2. pc'[h] = pc[h]
      BY <2>2, <1>3 DEF IInv, TypeOK
    <3> QED
      BY <3>1, <3>2, <1>3, Frame
  <2> QED
    BY <2>1, <2>2
<1> QED
  BY <1>7, <1>8 DEF IInv

\* A failed group is left alone by place.
LEMMA SkipPlaceStep ==
  ASSUME IInv, NEW g \in Group, SkipPlace(g)
  PROVE  IInv'
<1>7. TypeOK'
  BY ConstantsOK DEF SkipPlace, IInv, TypeOK
<1>8. ASSUME NEW h \in Group
      PROVE  (RecOK(h, jm[h]) /\ RecOK(h, jd[h]) /\ StagedOK(h) /\ RunOK(h))'
  <2>1. (RecOK(h, jm[h]) /\ RecOK(h, jd[h]))'
    BY ConstantsOK DEF SkipPlace, IInv, TypeOK, RecOK, StagedOK, RunOK, Kept
  <2>2. StagedOK(h)'
    BY ConstantsOK DEF SkipPlace, IInv, TypeOK, RecOK, StagedOK, RunOK, Kept
  <2>3. RunOK(h)'
    BY ConstantsOK DEF SkipPlace, IInv, TypeOK, RecOK, StagedOK, RunOK, Kept
  <2> QED
    BY <2>1, <2>2, <2>3
<1> QED
  BY <1>7, <1>8 DEF IInv

\* place goes on from a record: the file at its path is the group's own.
LEMMA KeepStep ==
  ASSUME IInv, NEW g \in Group, Keep(g)
  PROVE  IInv'
<1>1. /\ jm[g].path \in Path /\ lib[jm[g].path].of = g
      /\ at[g] = "lib" /\ out[g] = jm[g].path /\ pc[g] = "tagd"
  BY ConstantsOK DEF Keep, AtHome, IInv, TypeOK, RecOK, RunOK
<1>2. PICK r \in Rec : /\ r = At("placed", jm[g].path)
                       /\ r.stage = "placed" /\ r.path = jm[g].path
  BY <1>1
<1>3. /\ jm' = jm \/ jm' = [jm EXCEPT ![g] = r]
      /\ jd' = jd \/ jd' = [jd EXCEPT ![g] = r]
      /\ jm' \in [Group -> Rec] /\ jd' \in [Group -> Rec]
      /\ faults' \in 0 .. MaxFaults
  BY <1>2, PutOutcome DEF Keep, IInv, TypeOK
<1>4. /\ UNCHANGED <<orig, mov, lib, phase, ff, at, failed, tagErr, next, saved,
                     exit>>
      /\ out' = [out EXCEPT ![g] = jm[g].path] /\ pc' = [pc EXCEPT ![g] = "end"]
  BY DEF Keep
<1>5. out' = out /\ pc' \in [Group -> PCs] /\ pc'[g] = "end"
  BY <1>1, <1>4 DEF IInv, TypeOK
<1>7. TypeOK'
  BY <1>3, <1>4, <1>5 DEF IInv, TypeOK
<1>8. ASSUME NEW h \in Group
      PROVE  (RecOK(h, jm[h]) /\ RecOK(h, jd[h]) /\ StagedOK(h) /\ RunOK(h))'
  <2>0. RecOK(h, jm[h]) /\ RecOK(h, jd[h]) /\ StagedOK(h) /\ RunOK(h)
        /\ jm[h] \in Rec /\ jd[h] \in Rec /\ jm \in [Group -> Rec] /\ jd \in [Group -> Rec]
    BY DEF IInv, TypeOK
  <2>1. CASE h = g
    <3>1. jm'[g] \in {jm[g], r} /\ jd'[g] \in {jd[g], r}
      BY <2>0, <1>3
    <3>2. RecOK(h, r)'
      BY <2>1, <1>1, <1>2, <1>4 DEF RecOK
    <3>3. RecOK(h, jm[h])' /\ RecOK(h, jd[h])'
      <4>1. \A s \in Rec : RecOK(h, s) => RecOK(h, s)'
        BY <1>4 DEF RecOK, Kept
      <4> QED
        BY <2>0, <2>1, <3>1, <3>2, <4>1
    <3>4. StagedOK(h)'
      BY <2>0, <1>4 DEF StagedOK
    <3>5. RunOK(h)'
      BY <2>0, <2>1, <1>1, <1>4, <1>5 DEF RunOK
    <3> QED
      BY <3>3, <3>4, <3>5
  <2>2. CASE h # g
    <3>1. jm'[h] = jm[h] /\ jd'[h] = jd[h]
      BY <2>2, <1>3, <2>0
    <3>2. pc'[h] = pc[h]
      BY <2>2, <1>4 DEF IInv, TypeOK
    <3> QED
      BY <3>1, <3>2, <1>4, <1>5, Frame
  <2> QED
    BY <2>1, <2>2
<1> QED
  BY <1>7, <1>8 DEF IInv

\* The intent of a move: a staged copy is there, so the intent is not taken for a move.
LEMMA IntendStep ==
  ASSUME IInv, NEW g \in Group, Intend(g)
  PROVE  IInv'
<1>1. PICK n \in Index :
        /\ next' = [next EXCEPT ![StemFor(g)] = n]
        /\ \/ /\ Put(g, At("placing", Named[StemFor(g)][n]))
              /\ pc' = [pc EXCEPT ![g] = "intent"]
              /\ UNCHANGED <<failed, faults>>
           \/ /\ PutFails(g, At("placing", Named[StemFor(g)][n]))
              /\ pc' = [pc EXCEPT ![g] = "withdraw"]
              /\ failed' = failed \cup {g}
  BY DEF Intend
<1> DEFINE p == Named[StemFor(g)][n]
           r == At("placing", p)
<1>2. p \in Path /\ StemFor(g) \in Stem /\ r \in Rec /\ r.stage = "placing" /\ r.path = p
  BY ConstantsOK DEF StemFor
<1>3. /\ at[g] \in {"orig", "mov"} /\ Kept(g)
      /\ pc[g] \in {"tagd", "retry"} /\ out[g] \notin Path
      /\ RecOK(g, saved)' /\ saved'.stage # "placed" /\ saved' \in Rec
  <2>1. at[g] \in {"orig", "mov"} /\ pc[g] \in {"tagd", "retry"} /\ out[g] \notin Path
    BY ConstantsOK DEF Intend, AtHome, IInv, TypeOK, RecOK, RunOK
  <2>2. Kept(g)
    BY <2>1 DEF IInv, RunOK, Kept
  <2>3. RecOK(g, saved') /\ saved'.stage # "placed" /\ saved' \in Rec
    BY <2>1 DEF Intend, IInv, TypeOK, RunOK
  <2>4. orig' = orig /\ mov' = mov /\ lib' = lib
    BY DEF Intend
  <2> QED
    BY <2>1, <2>2, <2>3, <2>4 DEF RecOK, Kept
<1>4. /\ jm' = [jm EXCEPT ![g] = r]
      /\ jd' = jd \/ jd' = [jd EXCEPT ![g] = r]
      /\ jm' \in [Group -> Rec] /\ jd' \in [Group -> Rec]
      /\ faults' \in 0 .. MaxFaults
  <2>1. PutIgnored(g, r) \/ PutFails(g, r)
    BY <1>1 DEF PutIgnored
  <2> QED
    BY <2>1, <1>2, PutOutcome DEF IInv
<1>5. /\ \/ pc' = [pc EXCEPT ![g] = "intent"] /\ jd' = [jd EXCEPT ![g] = r]
         \/ pc' = [pc EXCEPT ![g] = "withdraw"]
      /\ failed' \subseteq Group
  BY <1>1 DEF Put, IInv, TypeOK
<1>6. /\ UNCHANGED <<orig, mov, lib, phase, ff, at, out, tagErr, exit>>
      /\ \A h \in Group \ {g} : pc[h] \notin Busy
  BY DEF Intend, Alone
<1> HIDE DEF p, r
<1>7. TypeOK'
  <2>1. next' \in [Stem -> 0 .. MaxIndex]
    <3>1. n \in 0 .. MaxIndex /\ next \in [Stem -> 0 .. MaxIndex]
      BY ConstantsOK DEF IInv, TypeOK
    <3> QED
      BY <3>1, <1>1, <1>2
  <2>2. pc' \in [Group -> PCs]
    BY <1>5 DEF IInv, TypeOK
  <2> QED
    BY <2>1, <2>2, <1>3, <1>4, <1>5, <1>6 DEF IInv, TypeOK
<1>8. ASSUME NEW h \in Group
      PROVE  (RecOK(h, jm[h]) /\ RecOK(h, jd[h]) /\ StagedOK(h) /\ RunOK(h))'
  <2>0. RecOK(h, jm[h]) /\ RecOK(h, jd[h]) /\ StagedOK(h) /\ RunOK(h)
    BY DEF IInv
  <2>1. CASE h = g
    <3>1. jm'[g] = r /\ jd'[g] \in {jd[g], r}
      BY <1>4 DEF IInv, TypeOK
    <3>2. (RecOK(h, jm[h]) /\ RecOK(h, jd[h]))'
      BY <2>0, <2>1, <3>1, <1>2, <1>3, <1>6 DEF RecOK, Kept
    <3>3. StagedOK(h)'
      BY <2>0, <1>6 DEF StagedOK
    <3>4. RunOK(h)'
      BY <2>0, <2>1, <3>1, <1>2, <1>3, <1>4, <1>5, <1>6 DEF IInv, TypeOK, RunOK
    <3> QED
      BY <3>2, <3>3, <3>4
  <2>2. CASE h # g
    <3>1. jm'[h] = jm[h] /\ jd'[h] = jd[h] /\ pc'[h] = pc[h] /\ pc[h] \notin Busy
      BY <2>2, <1>4, <1>5, <1>6 DEF IInv, TypeOK
    <3> QED
      BY <2>0, <3>1, <1>6 DEF RecOK, StagedOK, RunOK, Kept, Busy
  <2> QED
    BY <2>1, <2>2
<1> QED
  BY <1>7, <1>8 DEF IInv

\* The move gives a free name the group's file; no other group's record says "placed" there.
LEMMA LinkStep ==
  ASSUME IInv, NEW g \in Group, Link(g)
  PROVE  IInv'
<1>1. /\ pc[g] = "intent" /\ at[g] \in {"orig", "mov"}
      /\ jm[g].path \in Path /\ lib[jm[g].path] = Absent
      /\ jm[g].stage = "placing" /\ jd[g] = jm[g]
  BY DEF Link, MayLink, IInv, RecOK, RunOK
<1>2. FileAt(g) \in File /\ FileAt(g).of = g
  BY <1>1 DEF FileAt, IInv, TypeOK, RunOK, StagedOK
<1>3. lib' = [lib EXCEPT ![jm[g].path] = FileAt(g)]
  BY DEF Link
<1>4. lib' \in [Path -> File] /\ lib'[jm[g].path].of = g
  BY <1>1, <1>2, <1>3 DEF IInv, TypeOK
<1>5. \A p \in Path : lib[p].of \in Group => lib'[p] = lib[p]
  BY <1>1, <1>3, ConstantsOK DEF IInv, TypeOK
<1>6. /\ pc' = [pc EXCEPT ![g] = "linked"]
      /\ UNCHANGED <<jm, jd, orig, mov, phase, ff, at, out, failed, tagErr, next,
                     saved, exit, faults>>
  BY DEF Link
<1>7. TypeOK'
  BY <1>4, <1>6 DEF IInv, TypeOK
<1>8. ASSUME NEW h \in Group
      PROVE  (RecOK(h, jm[h]) /\ RecOK(h, jd[h]) /\ StagedOK(h) /\ RunOK(h))'
  <2>0. RecOK(h, jm[h]) /\ RecOK(h, jd[h]) /\ StagedOK(h) /\ RunOK(h)
        /\ jm[h] \in Rec /\ jd[h] \in Rec /\ saved \in Rec
    BY DEF IInv, TypeOK
  <2>1. ASSUME NEW r \in Rec, RecOK(h, r)
        PROVE  RecOK(h, r)'
    BY <2>1, <1>5, <1>6 DEF RecOK, Kept
  <2>2. StagedOK(h)'
    BY <2>0, <1>6 DEF StagedOK
  <2>3. RunOK(h)'
    <3>1. CASE h = g
      BY <2>0, <3>1, <1>1, <1>4, <1>6 DEF RunOK, IInv, TypeOK
    <3>2. CASE h # g
      <4>1. pc'[h] = pc[h]
        BY <3>2, <1>6 DEF IInv, TypeOK
      <4>2. jm[h].path \in Path /\ lib[jm[h].path].of = h =>
              lib'[jm[h].path].of = h
        BY <1>5
      <4> QED
        BY <2>0, <2>1, <4>1, <4>2, <1>5, <1>6 DEF RunOK, RecOK
    <3> QED
      BY <3>1, <3>2
  <2> QED
    BY <2>0, <2>1, <2>2, <2>3, <1>6
<1> QED
  BY <1>7, <1>8 DEF IInv

\* A name that was taken in between: the intent stays, nothing moves.
LEMMA CollideStep ==
  ASSUME IInv, NEW g \in Group, Collide(g)
  PROVE  IInv'
<1>7. TypeOK'
  BY ConstantsOK DEF Collide, IInv, TypeOK
<1>8. ASSUME NEW h \in Group
      PROVE  (RecOK(h, jm[h]) /\ RecOK(h, jd[h]) /\ StagedOK(h) /\ RunOK(h))'
  <2>1. (RecOK(h, jm[h]) /\ RecOK(h, jd[h]))'
    BY ConstantsOK DEF Collide, IInv, TypeOK, RecOK, StagedOK, RunOK, Kept
  <2>2. StagedOK(h)'
    BY ConstantsOK DEF Collide, IInv, TypeOK, RecOK, StagedOK, RunOK, Kept
  <2>3. RunOK(h)'
    BY ConstantsOK DEF Collide, IInv, TypeOK, RecOK, StagedOK, RunOK, Kept
  <2> QED
    BY <2>1, <2>2, <2>3
<1> QED
  BY <1>7, <1>8 DEF IInv

\* A failed move leaves the staged copy.
LEMMA MoveFailsStep ==
  ASSUME IInv, NEW g \in Group, MoveFails(g)
  PROVE  IInv'
<1>7. TypeOK'
  BY ConstantsOK DEF MoveFails, IInv, TypeOK
<1>8. ASSUME NEW h \in Group
      PROVE  (RecOK(h, jm[h]) /\ RecOK(h, jd[h]) /\ StagedOK(h) /\ RunOK(h))'
  <2>1. (RecOK(h, jm[h]) /\ RecOK(h, jd[h]))'
    BY ConstantsOK DEF MoveFails, IInv, TypeOK, RecOK, StagedOK, RunOK, Kept
  <2>2. StagedOK(h)'
    BY ConstantsOK DEF MoveFails, IInv, TypeOK, RecOK, StagedOK, RunOK, Kept
  <2>3. RunOK(h)'
    BY ConstantsOK DEF MoveFails, IInv, TypeOK, RecOK, StagedOK, RunOK, Kept
  <2> QED
    BY <2>1, <2>2, <2>3
<1> QED
  BY <1>7, <1>8 DEF IInv

\* The withdrawn intent puts a record back that was true before.
LEMMA WithdrawStep ==
  ASSUME IInv, NEW g \in Group, Withdraw(g)
  PROVE  IInv'
<1>1. saved \in Rec /\ RecOK(g, saved) /\ saved.stage # "placed"
  BY DEF Withdraw, IInv, TypeOK, RunOK
<1>3. /\ jm' = [jm EXCEPT ![g] = saved]
      /\ jd' = jd \/ jd' = [jd EXCEPT ![g] = saved]
      /\ jm' \in [Group -> Rec] /\ jd' \in [Group -> Rec]
      /\ faults' \in 0 .. MaxFaults
  BY <1>1, PutOutcome DEF Withdraw, Withdrawn, IInv
<1>7. TypeOK'
  BY <1>1, <1>3, ConstantsOK DEF Withdraw, IInv, TypeOK
<1>8. ASSUME NEW h \in Group
      PROVE  (RecOK(h, jm[h]) /\ RecOK(h, jd[h]) /\ StagedOK(h) /\ RunOK(h))'
  <2>1. CASE h = g
    <3>1. (RecOK(h, jm[h]) /\ RecOK(h, jd[h]))'
      BY <2>1, <1>1, <1>3, ConstantsOK DEF Withdraw, IInv, TypeOK, RecOK, StagedOK, RunOK, Kept
    <3>2. StagedOK(h)'
      BY <1>1, <1>3, ConstantsOK DEF Withdraw, IInv, TypeOK, RecOK, StagedOK, RunOK, Kept
    <3>3. RunOK(h)'
      BY <2>1, <1>1, <1>3, ConstantsOK DEF Withdraw, IInv, TypeOK, RecOK, StagedOK, RunOK, Kept
    <3> QED
      BY <3>1, <3>2, <3>3
  <2>2. CASE h # g
    <3>1. jm'[h] = jm[h] /\ jd'[h] = jd[h] /\ pc'[h] = pc[h] /\ at'[h] = at[h] /\ out'[h] = out[h]
      BY <2>2, <1>1, <1>3, ConstantsOK DEF Withdraw, IInv, TypeOK
    <3>2. RecOK(h, jm[h]) /\ RecOK(h, jd[h]) /\ StagedOK(h) /\ RunOK(h)
      BY DEF IInv
    <3>3. UNCHANGED <<orig, mov, lib, saved>>
      BY DEF Withdraw
    <3> QED
      BY <3>1, <3>2, <3>3 DEF RecOK, StagedOK, RunOK, Kept
  <2> QED
    BY <2>1, <2>2
<1> QED
  BY <1>7, <1>8 DEF IInv

\* The staged copy goes after the library has the file.
LEMMA RemoveStagedStep ==
  ASSUME IInv, NEW g \in Group, RemoveStaged(g)
  PROVE  IInv'
<1>1. /\ at[g] \in {"orig", "mov"} /\ jm[g].stage = "placing" /\ jd[g] = jm[g]
      /\ lib[jm[g].path].of = g
  BY DEF RemoveStaged, IInv, RunOK
<1>2. \A h \in Group \ {g} : orig'[h] = orig[h] /\ mov'[h] = mov[h]
  BY DEF RemoveStaged, IInv, TypeOK
<1>7. TypeOK'
  BY <1>1, <1>2, ConstantsOK DEF RemoveStaged, IInv, TypeOK
<1>8. ASSUME NEW h \in Group
      PROVE  (RecOK(h, jm[h]) /\ RecOK(h, jd[h]) /\ StagedOK(h) /\ RunOK(h))'
  <2>1. (RecOK(h, jm[h]) /\ RecOK(h, jd[h]))'
    BY <1>1, <1>2, ConstantsOK DEF RemoveStaged, IInv, TypeOK, RecOK, StagedOK, RunOK, Kept
  <2>2. StagedOK(h)'
    BY <1>1, <1>2, ConstantsOK DEF RemoveStaged, IInv, TypeOK, RecOK, StagedOK, RunOK, Kept
  <2>3. RunOK(h)'
    BY <1>1, <1>2, ConstantsOK DEF RemoveStaged, IInv, TypeOK, RecOK, StagedOK, RunOK, Kept
  <2> QED
    BY <2>1, <2>2, <2>3
<1> QED
  BY <1>7, <1>8 DEF IInv

\* The "placed" record speaks of the file the move has made.
LEMMA PutPlacedStep ==
  ASSUME IInv, NEW g \in Group, PutPlaced(g)
  PROVE  IInv'
<1>1. /\ jm[g].path \in Path /\ lib[jm[g].path].of = g
      /\ jm[g].stage = "placing" /\ jd[g] = jm[g]
  BY DEF PutPlaced, IInv, RecOK, RunOK
<1>2. At("placed", jm[g].path) \in Rec
  BY <1>1
<1>3. /\ jm' = [jm EXCEPT ![g] = At("placed", jm[g].path)]
      /\ jd' = jd \/ jd' = [jd EXCEPT ![g] = At("placed", jm[g].path)]
      /\ jm' \in [Group -> Rec] /\ jd' \in [Group -> Rec]
      /\ faults' \in 0 .. MaxFaults
  BY <1>2, PutOutcome DEF PutPlaced, RecordOfMove, IInv
<1>7. TypeOK'
  BY <1>1, <1>3, ConstantsOK DEF PutPlaced, IInv, TypeOK
<1>8. ASSUME NEW h \in Group
      PROVE  (RecOK(h, jm[h]) /\ RecOK(h, jd[h]) /\ StagedOK(h) /\ RunOK(h))'
  <2>1. CASE h = g
    <3>1. (RecOK(h, jm[h]) /\ RecOK(h, jd[h]))'
      BY <2>1, <1>1, <1>3, ConstantsOK DEF PutPlaced, IInv, TypeOK, RecOK, StagedOK, RunOK, Kept
    <3>2. StagedOK(h)'
      BY <1>1, <1>3, ConstantsOK DEF PutPlaced, IInv, TypeOK, RecOK, StagedOK, RunOK, Kept
    <3>3. RunOK(h)'
      BY <2>1, <1>1, <1>3, ConstantsOK DEF PutPlaced, IInv, TypeOK, RecOK, StagedOK, RunOK, Kept
    <3> QED
      BY <3>1, <3>2, <3>3
  <2>2. CASE h # g
    <3>1. jm'[h] = jm[h] /\ jd'[h] = jd[h] /\ pc'[h] = pc[h] /\ at'[h] = at[h] /\ out'[h] = out[h]
      BY <2>2, <1>1, <1>3, ConstantsOK DEF PutPlaced, IInv, TypeOK
    <3>2. RecOK(h, jm[h]) /\ RecOK(h, jd[h]) /\ StagedOK(h) /\ RunOK(h)
      BY DEF IInv
    <3>3. UNCHANGED <<orig, mov, lib, saved>>
      BY DEF PutPlaced
    <3> QED
      BY <3>1, <3>2, <3>3 DEF RecOK, StagedOK, RunOK, Kept
  <2> QED
    BY <2>1, <2>2
<1> QED
  BY <1>7, <1>8 DEF IInv

\* Every step of the program keeps the invariant.
LEMMA StepIInv == IInv /\ [Next]_vars => IInv'
<1> SUFFICES ASSUME IInv, [Next]_vars PROVE IInv'
  OBVIOUS
<1>1. CASE \E chosen \in SUBSET Group : Start(chosen)
  BY <1>1, StartStep
<1>2. CASE Stop
  BY <1>2, StopStep
<1>3. CASE \E p \in Path : Intrude(p)
  BY <1>3, IntrudeStep
<1>4. CASE Loops
  BY <1>4, CopyDoneStep, ConvertDoneStep, TagsDoneStep, FinishStep DEF Loops
<1>5. CASE \E g \in Group : Step(g)
  <2> SUFFICES ASSUME NEW g \in Group, Step(g) PROVE IInv'
    BY <1>5
  <2>1. CASE Copying(g)
    BY <2>1, AdoptStep, ExtractStep, ExtractFailsStep, PutStagedStep DEF Copying
  <2>2. CASE Converting(g)
    BY <2>2, NoConversionStep, BeginConvertStep, EndConvertStep, DropOriginalStep,
       ConvertFailsStep DEF Converting
  <2>3. CASE Tagging(g)
    BY <2>3, SkipTagsStep, WriteTagsStep, WriteTagsFailsStep, PutTaggedStep DEF Tagging
  <2>4. CASE Placing(g)
    BY <2>4, SkipPlaceStep, KeepStep, IntendStep, LinkStep, CollideStep,
       MoveFailsStep, WithdrawStep, RemoveStagedStep, PutPlacedStep DEF Placing
  <2> QED
    BY <2>1, <2>2, <2>3, <2>4 DEF Step
<1>6. CASE UNCHANGED vars
  BY <1>6 DEF vars, IInv, TypeOK, RecOK, StagedOK, RunOK, Kept
<1> QED
  BY <1>1, <1>2, <1>3, <1>4, <1>5, <1>6 DEF Next

\* The strengthening holds in every state a run, a crash or a later run reaches.
THEOREM Inductive == Spec => []IInv
  BY InitIInv, StepIInv, PTL DEF Spec

-----------------------------------------------------------------------------
\* What a step leaves alone

\* All the invariants say of h is about its records, files and progress, and the
\* record place has set aside while h is the group it works on.
Untouched(h) ==
  /\ jm'[h] = jm[h] /\ jd'[h] = jd[h] /\ orig'[h] = orig[h] /\ mov'[h] = mov[h]
  /\ pc'[h] = pc[h] /\ at'[h] = at[h] /\ out'[h] = out[h]
  /\ saved' = saved \/ pc[h] \notin Busy
  /\ h \in failed' <=> h \in failed
  /\ h \in tagErr' <=> h \in tagErr
  /\ \A p \in Path : lib'[p] = lib[p] \/ h \notin {lib[p].of, lib'[p].of}

\* A step on one group touches no other: another group's file is not written to,
\* because a file in the library is adopted by its own group only.
LEMMA StepFrame ==
  ASSUME IInv, NEW g \in Group, Step(g), NEW h \in Group, h # g
  PROVE  Untouched(h)
<1>0. /\ TypeOK
      /\ at[g] = "lib" => out[g] \in Path
      /\ out[g] \in Path => lib[out[g]].of = g
  BY DEF IInv, RunOK
<1>1. CASE Copying(g)
  BY <1>0, <1>1 DEF Copying, Adopt, Extract, ExtractFails, PutStaged, Put, PutFails,
     TypeOK, Untouched
<1>2. CASE Converting(g)
  BY <1>0, <1>2 DEF Converting, NoConversion, BeginConvert, EndConvert, DropOriginal,
     ConvertFails, TypeOK, Untouched
<1>3. CASE Tagging(g)
  <2>1. ASSUME WriteTagsIn(g) \/ UNCHANGED <<orig, mov, lib>>
        PROVE  /\ orig'[h] = orig[h] /\ mov'[h] = mov[h]
               /\ \A p \in Path : lib'[p] = lib[p] \/ h \notin {lib[p].of, lib'[p].of}
    <3>1. CASE WriteTagsIn(g)
      <4>1. TagsOnly(g)
        BY <1>0, <3>1, TagsWritten
      <4>2. \A p \in Path : lib'[p] = lib[p] \/ (lib[p].of = g /\ lib'[p].of = g)
        BY <1>0, <3>1, <4>1 DEF WriteTagsIn, TagsOnly, TypeOK
      <4> QED
        BY <4>1, <4>2 DEF TagsOnly
    <3> QED
      BY <2>1, <3>1
  <2>2. CASE SkipTags(g)
    BY <1>0, <2>2 DEF SkipTags, TypeOK, Untouched
  <2>3. CASE WriteTags(g)
    BY <1>0, <2>1, <2>3 DEF WriteTags, TypeOK, Untouched
  <2>4. CASE WriteTagsFails(g)
    BY <1>0, <2>1, <2>4 DEF WriteTagsFails, TypeOK, Untouched
  <2>5. CASE PutTagged(g)
    BY <1>0, <2>5 DEF PutTagged, PutIgnored, Put, PutFails, TypeOK, Untouched
  <2> QED
    BY <1>3, <2>2, <2>3, <2>4, <2>5 DEF Tagging
<1>4. CASE Placing(g)
  <2>1. CASE SkipPlace(g) \/ Collide(g) \/ MoveFails(g)
    BY <1>0, <2>1 DEF SkipPlace, Collide, MoveFails, TypeOK, Untouched
  <2>2. CASE Keep(g) \/ Withdraw(g) \/ PutPlaced(g)
    BY <1>0, <2>2 DEF Keep, Withdraw, PutPlaced, PutIgnored, Put, PutFails, TypeOK, Untouched
  <2>3. CASE Intend(g)
    BY <1>0, <2>3 DEF Intend, Alone, Put, PutFails, TypeOK, Untouched
  <2>4. CASE Link(g)
    <3>1. FileAt(g).of = g
      BY <1>0, <2>4 DEF Link, FileAt, IInv, RunOK, StagedOK
    <3>2. \A p \in Path : lib'[p] = lib[p] \/ (lib[p] = Absent /\ lib'[p].of = g)
      BY <1>0, <2>4, <3>1 DEF Link, MayLink, TypeOK
    <3> QED
      BY <1>0, <2>4, <3>2, ConstantsOK DEF Link, TypeOK, Untouched
  <2>5. CASE RemoveStaged(g)
    BY <1>0, <2>5 DEF RemoveStaged, TypeOK, Untouched
  <2> QED
    BY <1>4, <2>1, <2>2, <2>3, <2>4, <2>5 DEF Placing
<1> QED
  BY <1>1, <1>2, <1>3, <1>4 DEF Step

\* The work on a group is inside a phase of one run.
LEMMA StepPhase ==
  ASSUME NEW g \in Group, Step(g)
  PROVE  phase' = phase /\ ff' = ff /\ exit' = exit
BY DEF Step, Copying, Adopt, Extract, ExtractFails, PutStaged,
   Converting, NoConversion, BeginConvert, EndConvert, DropOriginal, ConvertFails,
   Tagging, SkipTags, WriteTags, WriteTagsFails, PutTagged,
   Placing, SkipPlace, Keep, Intend, Link, Collide, MoveFails, Withdraw,
   RemoveStaged, PutPlaced

\* The results folder changes when another program makes a file in it, when a file is
\* moved into it, and when tags are written to a file that is in it already.
LEMMA LibChanges ==
  ASSUME [Next]_vars
  PROVE  \/ lib' = lib
         \/ \E q \in Path : Intrude(q)
         \/ \E g \in Group : Link(g) \/ WriteTags(g) \/ WriteTagsFails(g)
<1>1. CASE UNCHANGED vars
  BY <1>1 DEF vars
<1>2. CASE \E chosen \in SUBSET Group : Start(chosen)
  BY <1>2 DEF Start
<1>3. CASE Stop \/ Loops
  BY <1>3 DEF Stop, Loops, CopyDone, ConvertDone, TagsDone, NextPhase, Finish
<1>4. ASSUME NEW g \in Group, Step(g)
      PROVE  lib' = lib \/ Link(g) \/ WriteTags(g) \/ WriteTagsFails(g)
  <2>1. CASE Copying(g)
    BY <2>1 DEF Copying, Adopt, Extract, ExtractFails, PutStaged
  <2>2. CASE Converting(g)
    BY <2>2 DEF Converting, NoConversion, BeginConvert, EndConvert, DropOriginal,
       ConvertFails
  <2>3. CASE Tagging(g)
    BY <2>3 DEF Tagging, SkipTags, PutTagged
  <2>4. CASE Placing(g)
    BY <2>4 DEF Placing, SkipPlace, Keep, Intend, Collide, MoveFails, Withdraw,
       RemoveStaged, PutPlaced
  <2> QED
    BY <1>4, <2>1, <2>2, <2>3, <2>4 DEF Step
<1> QED
  BY <1>1, <1>2, <1>3, <1>4 DEF Next

-----------------------------------------------------------------------------
\* Results

\* Records, files and progress keep their types through every run and crash.
THEOREM TypeCorrect == Spec => []TypeOK
<1>1. IInv => TypeOK
  BY DEF IInv
<1> QED
  BY <1>1, Inductive, PTL

\* A "placed" record always names a file with its own group's bytes: no run, and
\* no crash between an intent and its move, gives a photo another photo's file
\* (place and movedBeforeCrash in pipeline.go).
THEOREM NoTakeover == Spec => []RecordsTrue
<1>1. IInv => RecordsTrue
  BY DEF IInv, RecOK, RecordsTrue
<1> QED
  BY <1>1, Inductive, PTL

\* What a run takes for a group's file in the library has that group's bytes, so
\* the tags tagAll writes there never go into another photo's file.
THEOREM NoForeignTags == Spec => []AdoptionTrue
<1>1. IInv => AdoptionTrue
  BY DEF IInv, RunOK, AdoptionTrue
<1> QED
  BY <1>1, Inductive, PTL

\* No step changes a file in the results folder but to add tags to it: a name is
\* only given to a file while nothing has it (media.Rename, placer.moveInto).
THEOREM NeverReplaced == Spec => NothingReplaced
<1> DEFINE Same == \A p \in Path : Exists(p) =>
                     lib'[p].of = lib[p].of /\ lib'[p].kind = lib[p].kind
                     /\ (lib[p].tagged => lib'[p].tagged)
<1>1. ASSUME IInv, [Next]_vars PROVE Same
  <2>1. CASE lib' = lib
    BY <2>1
  <2>2. ASSUME NEW q \in Path, Intrude(q) PROVE Same
    BY <1>1, <2>2 DEF Intrude, IInv, TypeOK
  <2>3. ASSUME NEW g \in Group, Link(g) PROVE Same
    BY <1>1, <2>3 DEF Link, MayLink, IInv, TypeOK
  <2>4. ASSUME NEW g \in Group, WriteTags(g) \/ WriteTagsFails(g) PROVE Same
    <3>1. TypeOK /\ (at[g] = "lib" => out[g] \in Path)
      BY <1>1 DEF IInv, RunOK
    <3>2. CASE WriteTagsIn(g)
      BY <3>1, <3>2, TagsWritten DEF TagsOnly
    <3> QED
      BY <2>1, <2>4, <3>2 DEF WriteTags, WriteTagsFails
  <2> HIDE DEF Same
  <2> QED
    BY <1>1, <2>1, <2>2, <2>3, <2>4, LibChanges
<1>2. IInv /\ [Next]_vars => [Same]_vars
  BY <1>1
<1> QED
  BY <1>2, Inductive, PTL DEF Spec, NothingReplaced

-----------------------------------------------------------------------------
\* No photo loses its bytes

BytesInv == IInv /\ \A g \in Group : BytesOK(g)

\* A record is only put of a group whose file the run has in its hands.
LEMMA PutOfHeld ==
  ASSUME IInv, NEW g \in Group, BytesOK(g), Step(g)
  PROVE  jd'[g] = jd[g] \/ at'[g] # "none"
<1>0. TypeOK /\ RunOK(g)
  BY DEF IInv
<1>1. CASE Copying(g)
  BY <1>0, <1>1 DEF Copying, Adopt, Extract, ExtractFails, PutStaged, TypeOK
<1>2. CASE Converting(g)
  BY <1>0, <1>2 DEF Converting, NoConversion, BeginConvert, EndConvert, DropOriginal,
     ConvertFails
<1>3. CASE Tagging(g)
  BY <1>0, <1>3 DEF Tagging, SkipTags, WriteTags, WriteTagsFails, PutTagged, BytesOK
<1>4. CASE Placing(g)
  BY <1>0, <1>4 DEF Placing, SkipPlace, Keep, Intend, Link, Collide, MoveFails,
     Withdraw, RemoveStaged, PutPlaced, TypeOK, RunOK
<1> QED
  BY <1>1, <1>2, <1>3, <1>4 DEF Step

\* A step on a group may remove one copy of it, never the last.
LEMMA StaysWhole ==
  ASSUME IInv, IInv', NEW g \in Group, BytesOK(g), Step(g), Whole(g)
  PROVE  Whole(g)'
<1>0. TypeOK /\ RunOK(g) /\ RunOK(g)' /\ TypeOK' /\ StagedOK(g) /\ StagedOK(g)'
  BY DEF IInv
<1>1. ASSUME UNCHANGED <<orig, mov, lib>>
      PROVE  Whole(g)'
  BY <1>1 DEF Whole, Homes
<1>2. CASE Copying(g)
  <2>1. CASE Adopt(g)
    BY <1>0, <1>1, <2>1 DEF Adopt, TypeOK, RunOK, Whole, Homes
  <2>2. CASE Extract(g)
    BY <1>0, <2>2 DEF Extract, TypeOK, Whole
  <2> QED
    BY <1>1, <1>2, <2>1, <2>2 DEF Copying, ExtractFails, PutStaged
<1>3. CASE Converting(g)
  <2>1. CASE BeginConvert(g) \/ ConvertFails(g)
    BY <1>0, <2>1 DEF BeginConvert, Convertible, ConvertFails, TypeOK, RunOK, Whole
  <2>2. CASE EndConvert(g) \/ DropOriginal(g)
    BY <1>0, <2>2 DEF EndConvert, DropOriginal, TypeOK, RunOK, Whole
  <2> QED
    BY <1>1, <1>3, <2>1, <2>2 DEF Converting, NoConversion
<1>4. CASE Tagging(g)
  <2>1. CASE WriteTagsIn(g)
    <3>1. TagsOnly(g)
      BY <1>0, <2>1, TagsWritten DEF RunOK
    <3>2. orig[g] # Absent => orig'[g] # Absent
      BY <1>0, <3>1, ConstantsOK DEF TagsOnly, StagedOK
    <3>3. mov'[g].kind = mov[g].kind /\ \A p \in Path : lib'[p].of = lib[p].of
      BY <3>1 DEF TagsOnly
    <3> QED
      BY <3>2, <3>3 DEF Whole, Homes
  <2> QED
    BY <1>1, <1>4, <2>1 DEF Tagging, SkipTags, WriteTags, WriteTagsFails, PutTagged
<1>5. CASE Placing(g)
  <2>1. CASE Link(g)
    BY <1>0, <2>1 DEF Link, MayLink, TypeOK, Whole, Homes
  <2>2. CASE RemoveStaged(g)
    <3>1. jm[g].path \in Path /\ lib[jm[g].path].of = g
      BY <2>2 DEF RemoveStaged, IInv, RunOK, RecOK
    <3> QED
      BY <2>2, <3>1 DEF RemoveStaged, Whole, Homes
  <2> QED
    BY <1>1, <1>5, <2>1, <2>2 DEF Placing, SkipPlace, Keep, Intend, Collide, MoveFails,
       Withdraw, PutPlaced
<1> QED
  BY <1>2, <1>3, <1>4, <1>5 DEF Step

\* Bytes stay whole on disk whatever step is taken.
LEMMA StepBytes == BytesInv /\ [Next]_vars => BytesInv'
<1> SUFFICES ASSUME BytesInv, [Next]_vars, NEW h \in Group
             PROVE  IInv' /\ BytesOK(h)'
  BY StepIInv DEF BytesInv
<1>0. IInv /\ BytesOK(h) /\ IInv' /\ TypeOK
  BY StepIInv DEF BytesInv, IInv
<1>1. CASE (\E chosen \in SUBSET Group : Start(chosen)) \/ Stop
  BY <1>0, <1>1 DEF Start, Stop, Forget, BytesOK, Whole, Homes
<1>2. CASE (\E p \in Path : Intrude(p)) \/ Loops \/ UNCHANGED vars
  <2>1. /\ UNCHANGED <<jd, orig, mov, at>>
        /\ pc' = pc
        /\ \A p \in Path : lib[p] # Absent => lib'[p] = lib[p]
    BY <1>0, <1>2 DEF Intrude, Loops, CopyDone, ConvertDone, TagsDone, NextPhase, Finish,
       vars, TypeOK
  <2> QED
    BY <1>0, <2>1 DEF BytesOK, Whole, Homes
<1>3. ASSUME NEW g \in Group, Step(g), h # g
      PROVE  BytesOK(h)'
  <2>1. Untouched(h)
    BY <1>0, <1>3, StepFrame
  <2> QED
    BY <1>0, <2>1 DEF Untouched, BytesOK, Whole, Homes
<1>4. ASSUME Step(h)
      PROVE  BytesOK(h)'
  <2>1. /\ at'[h] = "mov" /\ pc'[h] # "gone" => mov'[h].kind = "mov"
        /\ pc'[h] = "wrote" => at'[h] # "none"
    <3>1. TypeOK /\ RunOK(h)
      BY <1>0 DEF IInv
    <3>2. CASE Copying(h)
      BY <1>0, <3>1, <3>2 DEF Copying, Adopt, Extract, ExtractFails, PutStaged, TypeOK,
         RunOK, BytesOK
    <3>3. CASE Converting(h)
      BY <1>0, <3>1, <3>3 DEF Converting, NoConversion, BeginConvert, Convertible,
         EndConvert, DropOriginal, ConvertFails, TypeOK, RunOK, BytesOK
    <3>4. CASE Tagging(h)
      <4>1. mov'[h].kind = mov[h].kind /\ at' = at
        BY <3>1, <3>4, TagsWritten DEF Tagging, SkipTags, WriteTags, WriteTagsFails,
           PutTagged, TagsOnly, RunOK
      <4>2. pc'[h] = "wrote" => at[h] # "none"
        BY <3>1, <3>4 DEF Tagging, SkipTags, WriteTags, WriteTagsFails, PutTagged,
           NeedsTags, TypeOK
      <4>3. pc[h] # "gone"
        BY <3>4 DEF Tagging, SkipTags, WriteTags, WriteTagsFails, PutTagged
      <4> QED
        BY <1>0, <4>1, <4>2, <4>3 DEF BytesOK
    <3>5. CASE Placing(h)
      BY <1>0, <3>1, <3>5 DEF Placing, SkipPlace, Keep, Intend, Link, Collide,
         MoveFails, Withdraw, RemoveStaged, PutPlaced, TypeOK, RunOK, BytesOK
    <3> QED
      BY <1>4, <3>2, <3>3, <3>4, <3>5 DEF Step
  <2>2. CASE at'[h] # "none"
    <3>1. Whole(h)'
      <4>1. CASE pc'[h] = "gone"
        BY <1>0, <2>2, <4>1 DEF IInv, RunOK, RecOK, Whole, Homes
      <4>2. CASE pc'[h] # "gone"
        BY <1>0, <2>1, <2>2, <4>2 DEF IInv, TypeOK, RunOK, Whole, Homes
      <4> QED
        BY <4>1, <4>2
    <3> QED
      BY <2>1, <3>1 DEF BytesOK
  <2>3. CASE at'[h] = "none"
    <3>1. jd'[h] = jd[h]
      BY <1>0, <1>4, <2>3, PutOfHeld
    <3> QED
      BY <1>0, <1>4, <2>1, <3>1, StaysWhole DEF BytesOK
  <2> QED
    BY <2>2, <2>3
<1> QED
  BY <1>0, <1>1, <1>2, <1>3, <1>4 DEF Next

\* From the first record of a photo on, its bytes are whole in staging, as a finished
\* conversion, or in the library, through every crash between a conversion, a move and
\* their records (transcodeOrKeep, place in pipeline.go, Rename and Copy of media).
THEOREM NoBytesLost == Spec => []BytesSurvive
<1>1. Init => BytesInv
  BY InitIInv DEF Init, BytesInv, BytesOK
<1>2. BytesInv => BytesSurvive
  BY DEF BytesInv, BytesOK, BytesSurvive
<1> QED
  BY <1>1, <1>2, StepBytes, PTL DEF Spec

-----------------------------------------------------------------------------
\* No photo gets a second place

\* The part of HomeInv that speaks of one group.
Settled(g) == HomeOK(g) /\ Single(g)

\* What a step does to another group than its own leaves that one settled.
LEMMA SettledFrame ==
  ASSUME IInv, NEW h \in Group, Settled(h), Untouched(h)
  PROVE  Settled(h)'
<1>0. RunOK(h)
  BY DEF IInv
<1>1. \A p \in Path : p \in Homes(h)' => p \in Homes(h) /\ lib'[p] = lib[p]
  BY DEF Untouched, Homes
<1>2. HomeOK(h)'
  BY <1>1 DEF Settled, HomeOK, Untouched, FirstStaged, Homes
<1>3. pc[h] = "linked" => lib'[jm[h].path] = lib[jm[h].path] /\ FileAt(h)' = FileAt(h)
  BY <1>0 DEF Untouched, RunOK, IInv, RecOK, FileAt
<1>4. pc'[h] = "linked" => lib'[jm'[h].path] = FileAt(h)'
  BY <1>3 DEF Settled, Single, Untouched
<1>5. Single(h)'
  BY <1>4 DEF Settled, Single, Untouched, FirstStaged
<1> QED
  BY <1>2, <1>5 DEF Settled

\* A step that changes no file and no record of g, and goes on with the file the run
\* had, leaves it settled.
LEMMA SettledQuiet ==
  ASSUME IInv, NEW g \in Group, Settled(g),
         UNCHANGED <<jm, jd, orig, mov, lib>>, at'[g] = at[g],
         at[g] = "orig" /\ pc'[g] = "got" => out'[g] = NoPath,
         at[g] = "orig" /\ pc'[g] \notin {"got", "cutting", "cutdone"} => mov[g] = Absent,
         at[g] # "lib" => pc[g] \notin {"out", "todo", "linked", "gone"} \/ Homes(g) = {},
         pc'[g] \notin {"cutting", "linked", "gone"}
  PROVE  Settled(g)'
<1>1. HomeOK(g)'
  BY DEF Settled, HomeOK, Homes, FirstStaged
<1>2. Single(g)'
  BY DEF Settled, Single, FirstStaged
<1> QED
  BY <1>1, <1>2 DEF Settled

\* A group with a place is resumed from it: nothing is extracted again.
LEMMA HomeIsResumed ==
  ASSUME IInv, NEW g \in Group, Steady(g), Settled(g), NEW p \in Homes(g)
  PROVE  Resumable(g) /\ InLibrary(g) /\ jm[g].path = p /\ p \in Path
<1>1. p \in Path /\ lib[p].of = g /\ lib[p] # Absent
  BY ConstantsOK DEF Homes
<1>2. jm[g].path = p /\ FirstStaged(g) \in {Absent, lib[p]}
  BY DEF Settled, HomeOK
<1>3. jm[g].stage \in {"placing", "placed"}
  BY <1>1, <1>2 DEF IInv, RecOK
<1> QED
  BY <1>1, <1>2, <1>3, ConstantsOK DEF Resumable, InLibrary, MovedBeforeCrash, Steady

\* The copy phase adopts a place or finds none.
LEMMA SettledCopying ==
  ASSUME IInv, IInv', NEW g \in Group, Steady(g), Settled(g), Copying(g)
  PROVE  Settled(g)'
<1>0. TypeOK /\ RunOK(g) /\ RunOK(g)' /\ RecOK(g, jm[g]) /\ RecOK(g, jm[g])' /\ StagedOK(g)
  BY DEF IInv
<1>1. CASE Adopt(g)
  <2>0. /\ pc'[g] = "got" /\ pc[g] = "todo" /\ jm[g] = jd[g] /\ UNCHANGED <<jm, jd, lib>>
        /\ out[g] = NoPath
    BY <1>0, <1>1 DEF Adopt, TypeOK, RunOK
  <2>1. CASE InLibrary(g)
    <3>1. at'[g] = "lib" /\ jm[g].path \in Homes(g)
      BY <1>0, <1>1, <2>1 DEF Adopt, TypeOK, RunOK, InLibrary, Homes
    <3>2. FirstStaged(g)' = Absent
      <4>1. orig[g] # Absent => mov[g] = Absent
        BY <3>1 DEF Settled, HomeOK
      <4>2. CASE jm[g].stage = "placing"
        BY <1>0, <1>1, <2>1, <4>1, <4>2 DEF Adopt, TypeOK, FirstStaged
      <4>3. CASE jm[g].stage # "placing"
        <5>1. jm[g].stage = "placed"
          BY <1>0, <2>1, <4>3 DEF RecOK, InLibrary, TypeOK
        <5>2. FirstStaged(g) = Absent /\ UNCHANGED <<orig, mov>>
          BY <1>1, <2>1, <3>1, <5>1 DEF Adopt, Settled, HomeOK
        <5> QED
          BY <5>2 DEF FirstStaged
      <4> QED
        BY <4>2, <4>3
    <3>3. \A p \in Homes(g)' : jm[g].path = p /\ jd[g].path = p
      BY <2>0 DEF Settled, HomeOK, Homes
    <3>4. mov'[g] = Absent /\ orig'[g] = Absent
      BY <3>2 DEF FirstStaged
    <3>5. HomeOK(g)'
      BY <2>0, <3>1, <3>2, <3>3, <3>4 DEF HomeOK
    <3>6. Single(g)'
      BY <2>0, <3>1, <3>2, <3>4 DEF Single
    <3> QED
      BY <3>5, <3>6 DEF Settled
  <2>2. CASE ~InLibrary(g)
    <3>1. Homes(g) = {}
      BY <2>2, HomeIsResumed
    <3>2. at'[g] = "orig" /\ UNCHANGED <<out, orig, mov>>
      BY <1>0, <1>1, <2>2 DEF Adopt, TypeOK
    <3>3. HomeOK(g)'
      BY <2>0, <3>1 DEF HomeOK, Homes
    <3>4. Single(g)'
      BY <2>0, <3>2 DEF Single, Settled
    <3> QED
      BY <3>3, <3>4 DEF Settled
  <2> QED
    BY <2>1, <2>2
<1>2. CASE Extract(g) \/ ExtractFails(g)
  <2>1. Homes(g) = {} /\ Homes(g)' = {}
    <3>1. Homes(g) = {}
      BY <1>2, HomeIsResumed DEF Extract, ExtractFails
    <3> QED
      BY <1>2, <3>1 DEF Extract, ExtractFails, Homes
  <2>2. at'[g] = "none" /\ pc'[g] \in {"renamed", "got"} /\ mov' = mov
    BY <1>0, <1>2 DEF Extract, ExtractFails, TypeOK, RunOK
  <2> QED
    BY <2>1, <2>2 DEF Settled, HomeOK, Single
<1>3. CASE PutStaged(g)
  <2>1. at[g] = "none" /\ out[g] = NoPath /\ Homes(g) = {}
    BY <1>0, <1>3 DEF PutStaged, RunOK, Settled, HomeOK
  <2>2. /\ at'[g] = "orig" /\ pc'[g] = "got" /\ out'[g] = NoPath /\ Homes(g)' = {}
        /\ mov' = mov
    BY <1>0, <1>3, <2>1 DEF PutStaged, TypeOK, Homes
  <2> QED
    BY <2>1, <2>2 DEF Settled, HomeOK, Single
<1> QED
  BY <1>1, <1>2, <1>3 DEF Copying

\* A conversion leaves one of the two staged files, whichever way it ends.
LEMMA SettledConverting ==
  ASSUME IInv, IInv', HomeInv, NEW g \in Group, Steady(g), Settled(g), Converting(g)
  PROVE  Settled(g)'
<1>0. TypeOK /\ RunOK(g) /\ RunOK(g)' /\ (phase # "off" => ff \in FFmpeg)
  BY DEF IInv, HomeInv
<1>1. CASE NoConversion(g)
  <2>1. at[g] = "orig" => mov[g] = Absent
    <3>1. CASE ~ToConvert(g)
      BY <3>1 DEF Settled, Single
    <3>2. CASE ToConvert(g) /\ at[g] = "orig"
      <4>1. ff = TRUE
        <5>1. ff \in FFmpeg
          BY <1>0, <1>1 DEF NoConversion
        <5>2. CASE ff = FALSE
          BY <3>2, <5>1, <5>2 DEF Steady, ToConvert
        <5> QED
          BY <1>0, <5>2 DEF TypeOK
      <4>2. g \in Webm \ Empty /\ out[g] = NoPath
        BY <1>1, <3>2 DEF NoConversion, Settled, Single, Steady, ToConvert
      <4> QED
        BY <1>1, <3>2, <4>1, <4>2 DEF NoConversion, Convertible
    <3> QED
      BY <3>1, <3>2
  <2>2. pc[g] = "got" /\ pc'[g] = "conv" /\ UNCHANGED <<jm, jd, orig, mov, lib, at, out>>
    BY <1>0, <1>1 DEF NoConversion, TypeOK
  <2> QED
    BY <2>1, <2>2, SettledQuiet
<1>2. CASE ~NoConversion(g)
  <2>1. /\ UNCHANGED <<jm, jd, lib>> /\ pc[g] \in {"got", "cutting", "cutdone"}
        /\ at[g] = "orig"
    BY <1>0, <1>2 DEF Converting, BeginConvert, Convertible, EndConvert, DropOriginal,
       ConvertFails, RunOK
  <2>2. Homes(g)' = {}
    BY <2>1 DEF Settled, HomeOK, Homes
  <2>3. HomeOK(g)'
    BY <2>2 DEF HomeOK
  <2>4. ToConvert(g)
    <3>1. CASE BeginConvert(g)
      BY <1>0, <3>1 DEF BeginConvert, Convertible, TypeOK, ToConvert
    <3>2. CASE ~BeginConvert(g)
      <4>1. mov[g] # Absent \/ pc[g] = "cutting"
        BY <1>2, <3>2, <1>0 DEF Converting, EndConvert, DropOriginal, ConvertFails, RunOK
      <4> QED
        BY <4>1 DEF Settled, Single
    <3> QED
      BY <3>1, <3>2
  <2>5. Single(g)'
    <3>1. CASE BeginConvert(g)
      BY <1>0, <2>1, <2>4, <3>1 DEF BeginConvert, Convertible, TypeOK, Single
    <3>2. CASE EndConvert(g)
      BY <1>0, <2>1, <2>4, <3>2 DEF EndConvert, TypeOK, Single
    <3>3. CASE DropOriginal(g)
      BY <1>0, <2>1, <2>4, <3>3 DEF DropOriginal, TypeOK, Single
    <3>4. CASE ConvertFails(g)
      BY <1>0, <2>1, <2>4, <3>4 DEF ConvertFails, TypeOK, Single
    <3> QED
      BY <1>2, <3>1, <3>2, <3>3, <3>4 DEF Converting
  <2> QED
    BY <2>3, <2>5 DEF Settled
<1> QED
  BY <1>1, <1>2

\* Tags are written to the one file the run works on: if it is in the library, nothing
\* is left in staging that would have to equal it.
LEMMA SettledTagging ==
  ASSUME IInv, IInv', NEW g \in Group, Steady(g), Settled(g), Tagging(g)
  PROVE  Settled(g)'
<1>0. TypeOK /\ RunOK(g) /\ RunOK(g)' /\ RecOK(g, jm[g]) /\ StagedOK(g)
  BY DEF IInv
<1>1. /\ pc[g] \in {"conv", "wrote"} /\ pc'[g] \in {"wrote", "tagd"}
      /\ UNCHANGED <<at, out>>
  BY <1>0, <1>1 DEF Tagging, SkipTags, WriteTags, WriteTagsFails, PutTagged, TypeOK
<1>2. CASE UNCHANGED <<jm, jd, orig, mov, lib>>
  BY <1>1, <1>2, SettledQuiet DEF Settled, Single, HomeOK
<1>3. CASE WriteTagsIn(g) /\ UNCHANGED <<jm, jd>>
  <2>1. TagsOnly(g)
    BY <1>0, <1>3, TagsWritten DEF RunOK
  <2>2. Homes(g)' = Homes(g)
    BY <2>1 DEF TagsOnly, Homes
  <2>3. orig[g] = Absent => orig'[g] = Absent
    BY <1>0, <1>1, <2>1 DEF TagsOnly, RunOK
  <2>4. mov[g] = Absent => mov'[g] = Absent
    BY <1>0, <1>1, <2>1 DEF TagsOnly, RunOK
  <2>5. at[g] = "lib" => FirstStaged(g) = Absent /\ FirstStaged(g)' = Absent
    BY <2>3, <2>4 DEF Settled, Single, FirstStaged
  <2>6. HomeOK(g)'
    <3>1. Homes(g) # {} => at[g] = "lib"
      BY <1>1 DEF Settled, HomeOK
    <3> QED
      BY <1>1, <1>3, <2>2, <2>3, <2>4, <2>5, <3>1 DEF Settled, HomeOK, FirstStaged
  <2>7. Single(g)'
    BY <1>1, <2>3, <2>4, <2>5 DEF Settled, Single
  <2> QED
    BY <2>6, <2>7 DEF Settled
<1>4. CASE PutTagged(g) /\ ~OnItsWay(g)
  <2>1. Homes(g) = {} /\ UNCHANGED <<orig, mov, lib>>
    <3>1. at[g] # "lib"
      BY <1>0, <1>1, <1>4 DEF RunOK, RecOK, OnItsWay
    <3> QED
      BY <1>1, <1>4, <3>1 DEF PutTagged, Settled, HomeOK
  <2> QED
    BY <1>1, <2>1 DEF Settled, HomeOK, Homes, Single, FirstStaged
<1> QED
  BY <1>2, <1>3, <1>4 DEF Tagging, SkipTags, WriteTags, WriteTagsFails, PutTagged

\* The move gives a group that has no place its first, and nothing is left in staging
\* when it is recorded.
LEMMA SettledPlacing ==
  ASSUME IInv, IInv', NEW g \in Group, Steady(g), Settled(g), Placing(g)
  PROVE  Settled(g)'
<1>0. /\ TypeOK /\ RunOK(g) /\ RunOK(g)' /\ RecOK(g, jm[g]) /\ RecOK(g, jd[g]) /\ StagedOK(g)
      /\ RecOK(g, jm[g])' /\ RecOK(g, jd[g])'
  BY DEF IInv
<1>1. CASE SkipPlace(g) \/ Collide(g) \/ MoveFails(g)
  <2>1. /\ UNCHANGED <<jm, jd, orig, mov, lib, at, out>>
        /\ pc[g] \in {"tagd", "intent"} /\ pc'[g] \in {"end", "retry", "withdraw"}
    BY <1>0, <1>1 DEF SkipPlace, Collide, MoveFails, TypeOK
  <2> QED
    BY <2>1, SettledQuiet DEF Settled, Single, HomeOK
<1>2. CASE Keep(g)
  <2>1. /\ at[g] = "lib" /\ out[g] = jm[g].path /\ pc[g] = "tagd" /\ pc'[g] = "end"
        /\ UNCHANGED <<orig, mov, lib, at>>
    BY <1>0, <1>2 DEF Keep, AtHome, RunOK, RecOK, TypeOK
  <2>2. FirstStaged(g) = Absent
    BY <2>1 DEF Settled, Single
  <2>3. jm'[g].path = jm[g].path /\ (jd'[g] = jd[g] \/ jd'[g].path = jm[g].path)
    BY <1>0, <1>2 DEF Keep, PutIgnored, Put, PutFails, TypeOK
  <2>4. HomeOK(g)'
    BY <2>1, <2>2, <2>3 DEF Settled, HomeOK, Homes, FirstStaged
  <2>5. Single(g)'
    BY <2>1, <2>2 DEF Settled, Single, FirstStaged
  <2> QED
    BY <2>4, <2>5 DEF Settled
<1>3. CASE Intend(g) \/ Withdraw(g)
  <2>1. /\ at[g] \in {"orig", "mov"} /\ pc[g] \in {"tagd", "retry", "withdraw"}
        /\ UNCHANGED <<orig, mov, lib, at, out>>
        /\ pc'[g] \in {"intent", "withdraw", "end"}
    <3>1. CASE Intend(g)
      BY <1>0, <3>1 DEF Intend, AtHome, RunOK, RecOK, TypeOK
    <3>2. CASE Withdraw(g)
      BY <1>0, <3>2 DEF Withdraw, RunOK, TypeOK
    <3> QED
      BY <1>3, <3>1, <3>2
  <2>2. Homes(g)' = {}
    BY <2>1 DEF Settled, HomeOK, Homes
  <2> QED
    BY <2>1, <2>2 DEF Settled, HomeOK, Single, FirstStaged
<1>4. CASE Link(g)
  <2>1. /\ pc[g] = "intent" /\ pc'[g] = "linked" /\ at[g] \in {"orig", "mov"}
        /\ UNCHANGED <<jm, jd, orig, mov, at, out>>
        /\ jm[g].path \in Path /\ jd[g] = jm[g] /\ jm[g].stage = "placing"
        /\ lib' = [lib EXCEPT ![jm[g].path] = FileAt(g)]
    BY <1>0, <1>4 DEF Link, RunOK, RecOK, TypeOK
  <2>2. Homes(g)' \subseteq {jm[g].path}
    <3>1. Homes(g) = {}
      BY <2>1 DEF Settled, HomeOK
    <3> QED
      BY <1>0, <2>1, <3>1 DEF Homes, TypeOK
  <2>3. lib'[jm[g].path] = FileAt(g) /\ FileAt(g)' = FileAt(g)
    BY <1>0, <2>1 DEF TypeOK, FileAt
  <2>4. FirstStaged(g) = FileAt(g) /\ (orig[g] # Absent => mov[g] = Absent)
    BY <1>0, <2>1 DEF FirstStaged, FileAt, Settled, Single, RunOK
  <2>5. HomeOK(g)'
    BY <2>1, <2>2, <2>3, <2>4 DEF HomeOK, FirstStaged
  <2>6. Single(g)'
    BY <2>1, <2>3 DEF Settled, Single
  <2> QED
    BY <2>5, <2>6 DEF Settled
<1>5. CASE RemoveStaged(g)
  <2>1. /\ pc[g] = "linked" /\ pc'[g] = "gone" /\ at[g] \in {"orig", "mov"}
        /\ UNCHANGED <<jm, jd, lib, at, out>> /\ jm[g].stage = "placing" /\ jd[g] = jm[g]
    BY <1>0, <1>5 DEF RemoveStaged, RunOK, TypeOK
  <2>2. orig'[g] = Absent /\ mov'[g] = Absent
    BY <1>0, <1>5, <2>1 DEF RemoveStaged, Settled, Single, TypeOK
  <2>3. HomeOK(g)'
    BY <2>1, <2>2 DEF Settled, HomeOK, Homes, FirstStaged
  <2>4. Single(g)'
    BY <2>1, <2>2 DEF Single, FirstStaged
  <2> QED
    BY <2>3, <2>4 DEF Settled
<1>6. CASE PutPlaced(g)
  <2>1. /\ pc[g] = "gone" /\ pc'[g] = "end" /\ at'[g] = "lib" /\ UNCHANGED <<orig, mov, lib>>
        /\ jm'[g].path = jm[g].path /\ (jd'[g] = jd[g] \/ jd'[g].path = jm[g].path)
    BY <1>0, <1>6 DEF PutPlaced, RecordOfMove, PutIgnored, Put, PutFails, RunOK, RecOK, TypeOK
  <2>2. FirstStaged(g) = Absent
    BY <2>1 DEF Settled, Single
  <2>3. HomeOK(g)'
    BY <2>1, <2>2 DEF Settled, HomeOK, Homes, FirstStaged
  <2>4. Single(g)'
    BY <2>1, <2>2 DEF Settled, Single, FirstStaged
  <2> QED
    BY <2>3, <2>4 DEF Settled
<1> QED
  BY <1>1, <1>2, <1>3, <1>4, <1>5, <1>6 DEF Placing

\* Start and Stop leave what is on disk; a group with a place is known to the journal.
LEMMA SettledRestart ==
  ASSUME IInv, NEW g \in Group, Settled(g),
         (\E chosen \in SUBSET Group : Start(chosen)) \/ Stop
  PROVE  Settled(g)'
<1>1. /\ jm' = jd /\ UNCHANGED <<jd, orig, mov, lib>>
      /\ at'[g] = "none" /\ pc'[g] \in {"out", "todo"}
  BY DEF Start, Stop, Forget
<1> QED
  BY <1>1 DEF Settled, HomeOK, Single, Homes, FirstStaged, ToConvert

\* What holds a home keeps it, step by step.
LEMMA StepHome == IInv /\ HomeInv /\ [Next]_vars => HomeInv'
<1> SUFFICES ASSUME IInv, HomeInv, [Next]_vars PROVE HomeInv'
  OBVIOUS
<1>0. IInv' /\ TypeOK
  BY StepIInv DEF IInv
<1>1. (phase # "off" => ff \in FFmpeg)'
  <2>1. CASE \E chosen \in SUBSET Group : Start(chosen)
    BY <2>1 DEF Start
  <2>2. CASE Stop
    BY <2>2 DEF Stop
  <2>3. CASE \E g \in Group : Step(g)
    BY <2>3, StepPhase DEF HomeInv
  <2>4. CASE (\E p \in Path : Intrude(p)) \/ Loops \/ UNCHANGED vars
    BY <2>4 DEF Intrude, Loops, CopyDone, ConvertDone, TagsDone, NextPhase, Finish, vars,
       HomeInv
  <2> QED
    BY <2>1, <2>2, <2>3, <2>4 DEF Next
<1>2. ASSUME NEW h \in Group, Steady(h)
      PROVE  Settled(h)'
  <2>0. Settled(h)
    BY <1>2 DEF HomeInv, Settled
  <2>1. CASE (\E chosen \in SUBSET Group : Start(chosen)) \/ Stop
    BY <2>0, <2>1, SettledRestart
  <2>2. CASE (\E p \in Path : Intrude(p)) \/ Loops \/ UNCHANGED vars
    <3>1. Untouched(h)
      BY <1>0, <2>2, ConstantsOK DEF Intrude, Loops, CopyDone, ConvertDone, TagsDone,
         NextPhase, Finish, vars, TypeOK, Untouched
    <3> QED
      BY <2>0, <3>1, SettledFrame
  <2>3. ASSUME NEW g \in Group, Step(g), h # g
        PROVE  Settled(h)'
    BY <2>0, <2>3, StepFrame, SettledFrame
  <2>4. CASE Step(h)
    BY <1>0, <1>2, <2>0, <2>4, SettledCopying, SettledConverting, SettledTagging,
       SettledPlacing DEF Step
  <2> QED
    BY <2>1, <2>2, <2>3, <2>4 DEF Next
<1> QED
  BY <1>1, <1>2 DEF HomeInv, Settled, Steady

\* Every place a photo has is known to its records, in every state.
LEMMA HomeInductive == Spec => [](IInv /\ HomeInv)
<1>1. Init => HomeInv
  BY ConstantsOK DEF Init, HomeInv, HomeOK, Single, Homes, FirstStaged, ToConvert
<1>2. IInv /\ HomeInv /\ [Next]_vars => IInv' /\ HomeInv'
  BY StepIInv, StepHome
<1> QED
  BY <1>1, <1>2, InitIInv, PTL DEF Spec

\* However often runs are killed and started again, a photo that has bytes, and that
\* is converted in every run or in none, has at most one place in the library: the
\* next run adopts what a crash left between a move and its record (movedBeforeCrash).
THEOREM SteadyOneHome ==
  Spec => [](\A g \in Group : Steady(g) => \A p, q \in Homes(g) : p = q)
<1>1. HomeInv => \A g \in Group : Steady(g) => \A p, q \in Homes(g) : p = q
  BY DEF HomeInv, HomeOK
<1> QED
  BY <1>1, HomeInductive, PTL

\* OneHome with what it takes: an empty file is placed again by every run, and a video
\* whose second run lacks ffmpeg can get a place under each of its two names.
THEOREM OnePlaceEach ==
  ASSUME Empty = {}, ~(BOOLEAN \subseteq FFmpeg)
  PROVE  Spec => []OneHome
<1>1. HomeInv => OneHome
  BY DEF HomeInv, HomeOK, OneHome, Steady
<1> QED
  BY <1>1, HomeInductive, PTL

\* The results folder implements Library: a photo without a place gets one nothing
\* else has, a name in use keeps its owner, and no other step changes a name.
THEOREM ImplementsShelf ==
  ASSUME Empty = {}, ~(BOOLEAN \subseteq FFmpeg)
  PROVE  Spec => LibrarySpec
<1> DEFINE shelf == [p \in Path |-> lib[p].of]
<1>1. Init => L!Init
  BY DEF Init, L!Init
<1>2. IInv /\ HomeInv /\ [Next]_vars => [L!Next]_shelf
  <2> SUFFICES ASSUME IInv, HomeInv, [Next]_vars PROVE L!Next \/ shelf' = shelf
    OBVIOUS
  <2>0. TypeOK
    BY DEF IInv
  <2>1. CASE lib' = lib
    BY <2>1
  <2>2. ASSUME NEW p \in Path, Intrude(p)
        PROVE  L!Next
    <3>1. lib[p] = Absent /\ lib' = [lib EXCEPT ![p] = Foreign] /\ lib \in [Path -> File]
      BY <2>0, <2>2 DEF Intrude, TypeOK
    <3>2. shelf[p] = Nobody /\ shelf' = [shelf EXCEPT ![p] = Other]
      BY <3>1
    <3>3. L!Intrude(p)
      BY <3>2 DEF L!Intrude
    <3> QED
      BY <3>3 DEF L!Next
  <2>3. ASSUME NEW g \in Group, Link(g)
        PROVE  L!Next
    <3>1. /\ pc[g] = "intent" /\ at[g] \in {"orig", "mov"} /\ jm[g].path \in Path
          /\ lib[jm[g].path] = Absent /\ lib' = [lib EXCEPT ![jm[g].path] = FileAt(g)]
      BY <2>3 DEF Link, MayLink, IInv, RunOK, RecOK
    <3>2. PICK p \in Path : p = jm[g].path
      BY <3>1
    <3>3. FileAt(g).of = g
      BY <3>1 DEF FileAt, IInv, RunOK, StagedOK
    <3>4. \A q \in Path : shelf[q] # g
      BY <3>1 DEF HomeInv, HomeOK, Homes, Steady
    <3>5. \A q \in Path : lib'[q].of = IF q = p THEN g ELSE lib[q].of
      BY <2>0, <3>1, <3>2, <3>3 DEF TypeOK
    <3>6. shelf[p] = Nobody /\ shelf' = [shelf EXCEPT ![p] = g]
      BY <3>1, <3>2, <3>5
    <3>7. L!PutAway(g, p)
      BY <3>4, <3>6 DEF L!PutAway
    <3> QED
      BY <3>7 DEF L!Next
  <2>4. ASSUME NEW g \in Group, WriteTags(g) \/ WriteTagsFails(g)
        PROVE  shelf' = shelf
    <3>1. at[g] = "lib" => out[g] \in Path
      BY DEF IInv, RunOK
    <3>2. \A p \in Path : lib'[p].of = lib[p].of
      BY <2>0, <2>4, <3>1, TagsWritten DEF WriteTags, WriteTagsFails, TagsOnly
    <3> QED
      BY <3>2
  <2> HIDE DEF shelf
  <2> QED
    BY <2>1, <2>2, <2>3, <2>4, LibChanges
<1> QED
  BY <1>1, <1>2, HomeInductive, PTL DEF Spec, LibrarySpec, L!Spec

-----------------------------------------------------------------------------
\* Success is not reported for a run that left something undone

\* The part of SuccessInv that speaks of one group.
DoneOK(g) == GoalOK(g) /\ (g \notin Webm => TagOK(g))

\* Writing the tags of a file leaves it a file that wants none.
LEMMA WrittenWantsNone ==
  ASSUME NEW f \in File
  PROVE  /\ TagsWanted(Tagged(f))
         /\ CanTag(f) => CanTag(Tagged(f))
BY TaggedFile DEF TagsWanted, CanTag

\* What a step does to another group leaves this one as far as it was.
LEMMA DoneFrame ==
  ASSUME IInv, NEW h \in Group, DoneOK(h), Untouched(h)
  PROVE  DoneOK(h)'
<1>0. RunOK(h) /\ TypeOK
  BY DEF IInv
<1>1. GoalOK(h)'
  BY DEF DoneOK, GoalOK, Untouched
<1>2. ASSUME h \notin Webm
      PROVE  TagOK(h)'
  <2>0. TagOK(h)
    BY <1>2 DEF DoneOK
  <2>1. at[h] # "none" => FileAt(h)' = FileAt(h)
    BY <1>0 DEF Untouched, RunOK, FileAt, TypeOK
  <2>2. pc[h] \in {"linked", "gone"} => lib'[jm[h].path] = lib[jm[h].path]
    BY <1>0 DEF Untouched, RunOK, IInv, RecOK
  <2>3. pc[h] \in {"tagd", "intent", "retry", "linked", "end"} /\ h \notin failed
          => at[h] # "none"
    BY DEF DoneOK, GoalOK
  <2>4. /\ mov'[h] = Absent /\ at'[h] # "mov" /\ pc'[h] \notin {"cutting", "cutdone"}
        /\ \A r \in {jm'[h], jd'[h]} :
             r.stage = "tagged" => orig'[h] # Absent /\ orig'[h].tagged
        /\ pc'[h] \in {"intent", "retry", "withdraw"} /\ saved'.stage = "tagged" =>
             orig'[h] # Absent /\ orig'[h].tagged
    BY <2>0 DEF TagOK, Untouched, Busy
  <2>5. pc'[h] = "wrote" => at'[h] # "none" /\ TagsWanted(FileAt(h)') /\ CanTag(FileAt(h)')
    BY <2>0, <2>1 DEF TagOK, Untouched
  <2>6. h \notin failed' \cup tagErr' =>
          /\ pc'[h] \in {"tagd", "intent", "retry", "linked", "end"} => TagsWanted(FileAt(h)')
          /\ pc'[h] \in {"linked", "gone"} => TagsWanted(lib'[jm'[h].path])
    BY <2>0, <2>1, <2>2, <2>3 DEF TagOK, Untouched
  <2> QED
    BY <2>4, <2>5, <2>6 DEF TagOK, TagsWanted, CanTag
<1> QED
  BY <1>1, <1>2 DEF DoneOK

\* Each step on a group takes it on towards its end, or marks it as failed.
LEMMA GoalStep ==
  ASSUME IInv, IInv', NEW g \in Group, GoalOK(g), Step(g)
  PROVE  GoalOK(g)'
<1>0. TypeOK /\ TypeOK' /\ RunOK(g) /\ RunOK(g)' /\ RecOK(g, jm[g])
  BY DEF IInv
<1>1. CASE Copying(g)
  BY <1>0, <1>1 DEF Copying, Adopt, Extract, ExtractFails, PutStaged, TypeOK, GoalOK
<1>2. CASE Converting(g)
  BY <1>0, <1>2 DEF Converting, NoConversion, BeginConvert, EndConvert, DropOriginal,
     ConvertFails, TypeOK, GoalOK
<1>3. CASE Tagging(g)
  BY <1>0, <1>3 DEF Tagging, SkipTags, WriteTags, WriteTagsFails, PutTagged, TypeOK, GoalOK
<1>4. CASE Placing(g)
  <2>1. CASE Keep(g)
    <3>1. at[g] = "lib" /\ at'[g] = "lib" /\ pc'[g] = "end" /\ out'[g] = jm[g].path
      BY <1>0, <2>1 DEF Keep, AtHome, RunOK, TypeOK
    <3>2. jm'[g] = At("placed", jm[g].path)
      BY <1>0, <2>1 DEF Keep, AtHome, PutIgnored, Put, PutFails, TypeOK, Rec, At
    <3> QED
      BY <3>1, <3>2 DEF GoalOK
  <2>2. CASE PutPlaced(g)
    BY <1>0, <2>2 DEF PutPlaced, RecordOfMove, PutIgnored, Put, PutFails, TypeOK, GoalOK
  <2>3. CASE SkipPlace(g) \/ Intend(g) \/ Withdraw(g)
    BY <1>0, <2>3 DEF SkipPlace, Intend, Withdraw, TypeOK, GoalOK
  <2>4. CASE Link(g) \/ Collide(g) \/ MoveFails(g) \/ RemoveStaged(g)
    BY <1>0, <2>4 DEF Link, Collide, MoveFails, RemoveStaged, TypeOK, GoalOK
  <2> QED
    BY <1>4, <2>1, <2>2, <2>3, <2>4 DEF Placing
<1> QED
  BY <1>1, <1>2, <1>3, <1>4 DEF Step

\* The "tagged" record of a group, and what tells a later step that the tags are there,
\* hold of the file the run goes on with.
LEMMA TagStep ==
  ASSUME IInv, IInv', NEW g \in Group, g \notin Webm, GoalOK(g), TagOK(g), Step(g)
  PROVE  TagOK(g)'
<1>0. /\ TypeOK /\ TypeOK' /\ RunOK(g) /\ RunOK(g)' /\ RecOK(g, jm[g]) /\ StagedOK(g)
      /\ at[g] # "mov"
  BY DEF IInv, RunOK, TagOK, GoalOK
<1>1. CASE Copying(g)
  <2>1. pc'[g] \in {"renamed", "got"} /\ mov'[g] = Absent /\ at'[g] # "mov"
    BY <1>0, <1>1 DEF Copying, Adopt, Extract, ExtractFails, PutStaged, TypeOK, TagOK
  <2>2. \A r \in {jm'[g], jd'[g]} :
          r.stage = "tagged" => orig'[g] # Absent /\ orig'[g].tagged
    <3>1. CASE Adopt(g)
      BY <1>0, <3>1 DEF Adopt, TypeOK, TagOK, RunOK
    <3>2. CASE Extract(g) \/ ExtractFails(g)
      BY <1>0, <3>2 DEF Extract, ExtractFails, TypeOK, TagOK
    <3>3. CASE PutStaged(g)
      BY <1>0, <3>3 DEF PutStaged, Put, PutFails, TypeOK, TagOK
    <3> QED
      BY <1>1, <3>1, <3>2, <3>3 DEF Copying
  <2> QED
    BY <2>1, <2>2 DEF TagOK
<1>2. CASE Converting(g)
  <2>1. pc'[g] = "conv" /\ UNCHANGED <<jm, jd, orig, mov, lib, at, out, saved>>
    BY <1>0, <1>2 DEF Converting, NoConversion, BeginConvert, Convertible, EndConvert,
       DropOriginal, ConvertFails, TypeOK, TagOK
  <2> QED
    BY <2>1 DEF TagOK
<1>3. CASE Tagging(g)
  <2>0. /\ pc[g] \in {"conv", "wrote"} /\ pc'[g] \in {"wrote", "tagd"}
        /\ UNCHANGED <<at, out, failed>>
    BY <1>0, <1>3 DEF Tagging, SkipTags, WriteTags, WriteTagsFails, PutTagged, TypeOK
  <2>1. CASE SkipTags(g)
    <3>1. /\ UNCHANGED <<jm, jd, orig, mov, lib, tagErr>> /\ pc'[g] = "tagd"
          /\ ~NeedsTags(g) \/ jm[g].stage = "tagged"
      BY <1>0, <2>1 DEF SkipTags, TagsRecorded, TypeOK
    <3>2. g \notin failed => TagsWanted(FileAt(g))
      <4>1. CASE jm[g].stage = "tagged"
        BY <1>0, <2>0, <4>1 DEF TagOK, RunOK, RecOK, FileAt, TagsWanted, GoalOK, TypeOK
      <4>2. CASE ~NeedsTags(g)
        BY <2>0, <4>2 DEF NeedsTags, TagsWanted, GoalOK
      <4> QED
        BY <3>1, <4>1, <4>2
    <3>3. FileAt(g)' = FileAt(g)
      BY <2>0, <3>1 DEF FileAt
    <3>4. TagsWanted(FileAt(g))' <=> TagsWanted(FileAt(g)')
      BY DEF TagsWanted, CanTag
    <3> QED
      BY <2>0, <3>1, <3>2, <3>3, <3>4 DEF TagOK
  <2>2. CASE WriteTagsIn(g) /\ NeedsTags(g) /\ UNCHANGED <<jm, jd>>
    <3>1. TagsOnly(g) /\ at[g] \in {"orig", "lib"}
      BY <1>0, <2>0, <2>2, TagsWritten DEF RunOK, NeedsTags, TypeOK
    <3>2. FileAt(g) \in File /\ FileAt(g)' = Tagged(FileAt(g))
      BY <1>0, <2>0, <2>2, <3>1 DEF WriteTagsIn, FileAt, RunOK, TypeOK
    <3>3. TagsWanted(FileAt(g)') /\ CanTag(FileAt(g)')
      BY <2>2, <3>2, WrittenWantsNone DEF NeedsTags
    <3>4. mov'[g] = Absent /\ (orig[g] # Absent /\ orig[g].tagged =>
                                orig'[g] # Absent /\ orig'[g].tagged)
      <4>1. at[g] # "mov" => mov' = mov
        BY <2>2 DEF WriteTagsIn
      <4>2. CASE at[g] = "orig"
        <5>1. orig'[g] = Tagged(orig[g]) /\ orig[g].of = g
          BY <1>0, <2>0, <2>2, <4>2 DEF WriteTagsIn, RunOK, StagedOK, TypeOK
        <5>2. orig[g] \in File
          BY <1>0 DEF TypeOK
        <5>3. Tagged(orig[g]).of = orig[g].of /\ Tagged(orig[g]).tagged
          BY <5>2, Zenon DEF Tagged, File
        <5>4. orig'[g].of = g /\ orig'[g].tagged
          BY <5>1, <5>3
        <5> QED
          BY <3>1, <4>1, <4>2, <5>4, ConstantsOK DEF TagOK
      <4>3. CASE at[g] = "lib"
        BY <2>2, <4>1, <4>3 DEF WriteTagsIn, TagOK
      <4> QED
        BY <3>1, <4>2, <4>3
    <3> QED
      BY <2>0, <2>2, <3>1, <3>3, <3>4 DEF TagOK, TagsWanted, CanTag
  <2>3. CASE WriteTagsFails(g) /\ UNCHANGED <<orig, mov, lib>>
    BY <1>0, <2>0, <2>3 DEF WriteTagsFails, TypeOK, TagOK
  <2>4. CASE PutTagged(g)
    <3>1. /\ UNCHANGED <<orig, mov, lib, tagErr>> /\ pc[g] = "wrote" /\ pc'[g] = "tagd"
      BY <1>0, <2>4 DEF PutTagged, TypeOK
    <3>2. FileAt(g)' = FileAt(g)
      BY <2>0, <3>1 DEF FileAt
    <3>3. TagsWanted(FileAt(g)')
      BY <3>1, <3>2 DEF TagOK
    <3>4. \A r \in {jm'[g], jd'[g]} :
            r.stage = "tagged" => orig'[g] # Absent /\ orig'[g].tagged
      <4>1. CASE OnItsWay(g)
        BY <2>4, <3>1, <4>1 DEF PutTagged, TagOK
      <4>2. CASE ~OnItsWay(g)
        <5>1. at[g] = "orig"
          BY <1>0, <3>1, <4>2 DEF RunOK, RecOK, OnItsWay, TagOK, TypeOK
        <5> QED
          BY <1>0, <3>1, <5>1 DEF TagOK, TagsWanted, FileAt, RunOK
      <4> QED
        BY <4>1, <4>2
    <3> QED
      BY <2>0, <3>1, <3>3, <3>4 DEF TagOK, TagsWanted, CanTag
  <2> QED
    BY <1>3, <2>1, <2>2, <2>3, <2>4 DEF Tagging, WriteTags, WriteTagsFails
<1>4. CASE Placing(g)
  <2>1. CASE SkipPlace(g) \/ Collide(g) \/ MoveFails(g)
    <3>1. /\ UNCHANGED <<jm, jd, orig, mov, lib, at, out, saved, tagErr>>
          /\ failed \subseteq failed'
          /\ \/ pc[g] = "tagd" /\ pc'[g] = "end" /\ (g \in failed \/ at[g] = "none")
             \/ pc[g] = "intent" /\ pc'[g] = "retry"
             \/ pc[g] = "intent" /\ pc'[g] = "withdraw"
      BY <1>0, <2>1 DEF SkipPlace, Collide, MoveFails, TypeOK
    <3>2. FileAt(g)' = FileAt(g)
      BY <3>1 DEF FileAt
    <3> QED
      BY <3>1, <3>2 DEF TagOK, TagsWanted, CanTag, GoalOK
  <2>2. CASE Keep(g)
    <3>1. /\ at[g] = "lib" /\ out' = out /\ pc[g] = "tagd" /\ pc'[g] = "end"
          /\ UNCHANGED <<orig, mov, lib, at, failed, tagErr, saved>>
      BY <1>0, <2>2 DEF Keep, AtHome, RunOK, TypeOK
    <3>2. FileAt(g)' = FileAt(g)
      BY <3>1 DEF FileAt
    <3>3. \A r \in {jm'[g], jd'[g]} : r \in {jm[g], jd[g]} \/ r.stage = "placed"
      BY <1>0, <2>2 DEF Keep, PutIgnored, Put, PutFails, TypeOK
    <3> QED
      BY <3>1, <3>2, <3>3 DEF TagOK, TagsWanted, CanTag
  <2>3. CASE Intend(g)
    <3>1. /\ UNCHANGED <<orig, mov, lib, at, out, tagErr>> /\ failed \subseteq failed'
          /\ pc[g] \in {"tagd", "retry"} /\ pc'[g] \in {"intent", "withdraw"}
          /\ IF pc[g] = "tagd" THEN saved' = jm[g] ELSE saved' = saved
      BY <1>0, <2>3 DEF Intend, TypeOK
    <3>2. FileAt(g)' = FileAt(g)
      BY <3>1 DEF FileAt
    <3>3. \A r \in {jm'[g], jd'[g]} : r \in {jm[g], jd[g]} \/ r.stage = "placing"
      <4>1. PICK p \in Path : PutIgnored(g, At("placing", p)) \/ PutFails(g, At("placing", p))
        BY <2>3, ConstantsOK DEF Intend, PutIgnored, StemFor
      <4> QED
        BY <1>0, <4>1, PutOutcome DEF TypeOK
    <3> QED
      BY <3>1, <3>2, <3>3 DEF TagOK, TagsWanted, CanTag
  <2>4. CASE Link(g)
    <3>1. /\ UNCHANGED <<jm, jd, orig, mov, at, out, failed, tagErr>>
          /\ pc[g] = "intent" /\ pc'[g] = "linked" /\ at[g] = "orig" /\ jm[g].path \in Path
          /\ lib' = [lib EXCEPT ![jm[g].path] = FileAt(g)]
      BY <1>0, <2>4 DEF Link, RunOK, RecOK, TypeOK
    <3>2. FileAt(g)' = FileAt(g) /\ lib'[jm[g].path] = FileAt(g)
      BY <1>0, <3>1 DEF FileAt, TypeOK
    <3> QED
      BY <3>1, <3>2 DEF TagOK, TagsWanted, CanTag
  <2>5. CASE Withdraw(g)
    <3>1. /\ UNCHANGED <<orig, mov, lib, at, out, failed, tagErr>>
          /\ pc[g] = "withdraw" /\ pc'[g] = "end" /\ g \in failed
      BY <1>0, <2>5 DEF Withdraw, GoalOK, TypeOK
    <3>2. \A r \in {jm'[g], jd'[g]} : r \in {jm[g], jd[g], saved}
      BY <1>0, <2>5 DEF Withdraw, Withdrawn, PutIgnored, Put, PutFails, TypeOK
    <3> QED
      BY <3>1, <3>2 DEF TagOK
  <2>6. CASE RemoveStaged(g)
    <3>1. /\ UNCHANGED <<jm, jd, lib, at, out, failed, tagErr>> /\ mov'[g] = Absent
          /\ pc[g] = "linked" /\ pc'[g] = "gone" /\ jm[g].stage = "placing" /\ jd[g] = jm[g]
      BY <1>0, <2>6 DEF RemoveStaged, RunOK, TypeOK, TagOK
    <3> QED
      BY <3>1 DEF TagOK, TagsWanted, CanTag
  <2>7. CASE PutPlaced(g)
    <3>1. /\ UNCHANGED <<orig, mov, lib, failed, tagErr>> /\ at'[g] = "lib"
          /\ out'[g] = jm[g].path /\ pc[g] = "gone" /\ pc'[g] = "end"
      BY <1>0, <2>7 DEF PutPlaced, TypeOK
    <3>2. FileAt(g)' = lib[jm[g].path]
      BY <3>1 DEF FileAt
    <3>3. \A r \in {jm'[g], jd'[g]} : r \in {jm[g], jd[g]} \/ r.stage = "placed"
      BY <1>0, <2>7 DEF PutPlaced, RecordOfMove, PutIgnored, Put, PutFails, RunOK, RecOK, TypeOK
    <3> QED
      BY <3>1, <3>2, <3>3 DEF TagOK, TagsWanted, CanTag
  <2> QED
    BY <1>4, <2>1, <2>2, <2>3, <2>4, <2>5, <2>6, <2>7 DEF Placing
<1> QED
  BY <1>1, <1>2, <1>3, <1>4 DEF Step

\* Once a run has ended, only another run or another program does anything.
LEMMA DoneIsQuiet ==
  ASSUME IInv, SuccessInv, phase = "done", NEW g \in Group, Step(g)
  PROVE  FALSE
<1>1. pc[g] \in {"out", "end"}
  BY DEF SuccessInv
<1>2. CASE Copying(g)
  BY <1>1, <1>2 DEF Copying, Adopt, Extract, ExtractFails, PutStaged
<1>3. CASE Converting(g)
  BY <1>1, <1>3 DEF Converting, NoConversion, BeginConvert, EndConvert, DropOriginal,
     ConvertFails
<1>4. CASE Tagging(g)
  BY <1>1, <1>4 DEF Tagging, SkipTags, WriteTags, WriteTagsFails, PutTagged
<1>5. CASE Placing(g)
  BY <1>1, <1>5 DEF Placing, SkipPlace, Keep, Intend, Link, Collide, MoveFails, Withdraw,
     RemoveStaged, PutPlaced
<1> QED
  BY <1>2, <1>3, <1>4, <1>5 DEF Step

\* Exit code 0 is given when nothing failed and the tags are there, by the run's own
\* count or by what verifyTags reads back.
LEMMA FinishSuccess ==
  ASSUME IInv, SuccessInv, Unread \cap Webm = {}, Finish
  PROVE  SuccessInv'
<1>1. /\ UNCHANGED <<jm, jd, orig, mov, lib, pc, at, out, failed, tagErr, saved>>
      /\ phase' = "done" /\ \A g \in Group : pc[g] \in {"out", "end"}
      /\ exit' = "ok" => failed = {} /\ tagErr = {} /\ ReadBackFails = {}
  BY DEF Finish, ExitCode
<1>2. ASSUME NEW g \in Group
      PROVE  DoneOK(g)'
  <2>1. DoneOK(g) /\ Untouched(g)
    BY <1>1 DEF SuccessInv, DoneOK, Untouched
  <2> QED
    BY <2>1, DoneFrame
<1>3. ASSUME exit' = "ok", NEW g \in Group, pc[g] = "end"
      PROVE  TagsWanted(lib[out[g]])
  <2>1. at[g] = "lib" /\ out[g] \in Path /\ g \notin failed \cup tagErr
    BY <1>1, <1>3 DEF SuccessInv, GoalOK, IInv, RunOK
  <2>2. CASE g \in Unread
    BY <1>3, <2>1, <2>2 DEF SuccessInv, TagOK, FileAt
  <2>3. CASE g \notin Unread
    BY <1>1, <1>3, <2>1, <2>3 DEF ReadBackFails, TagsWanted
  <2> QED
    BY <2>2, <2>3
<1>4. \A g \in Group : TagsWanted(lib[out[g]])' <=> TagsWanted(lib[out[g]])
  BY <1>1 DEF TagsWanted, CanTag
<1> QED
  BY <1>1, <1>2, <1>3, <1>4 DEF SuccessInv, DoneOK

\* Every step keeps what a reported success rests on.
LEMMA StepSuccess ==
  ASSUME Unread \cap Webm = {}
  PROVE  IInv /\ SuccessInv /\ [Next]_vars => SuccessInv'
<1> SUFFICES ASSUME IInv, SuccessInv, [Next]_vars PROVE SuccessInv'
  OBVIOUS
<1>0. IInv' /\ TypeOK /\ \A g \in Group : DoneOK(g)
  BY StepIInv DEF IInv, SuccessInv, DoneOK
<1>1. CASE (\E chosen \in SUBSET Group : Start(chosen)) \/ Stop
  <2>1. /\ jm' = jd /\ UNCHANGED <<jd, orig, mov, lib>> /\ exit' = "none"
        /\ phase' # "done" /\ failed' = {}
        /\ \A g \in Group : at'[g] = "none" /\ pc'[g] \in {"out", "todo"}
    BY <1>1 DEF Start, Stop, Forget
  <2>2. ASSUME NEW g \in Group
        PROVE  DoneOK(g)'
    BY <1>0, <2>1 DEF DoneOK, GoalOK, TagOK
  <2> QED
    BY <2>1, <2>2 DEF SuccessInv, DoneOK
<1>2. CASE \E p \in Path : Intrude(p)
  <2>1. PICK p \in Path : Intrude(p)
    BY <1>2
  <2>2. /\ UNCHANGED <<phase, exit, pc, failed, tagErr, out>>
        /\ \A g \in Group : Untouched(g)
    BY <1>0, <2>1, ConstantsOK DEF Intrude, TypeOK, Untouched
  <2>3. \A g \in Group : DoneOK(g)'
    BY <1>0, <2>2, DoneFrame
  <2>4. ASSUME exit = "ok", NEW g \in Group, pc[g] = "end"
        PROVE  TagsWanted(lib[out[g]])'
    <3>1. out[g] \in Path /\ lib[out[g]].of = g
      BY <2>4 DEF SuccessInv, GoalOK, IInv, RunOK
    <3>2. lib'[out'[g]] = lib[out[g]]
      BY <2>2, <3>1 DEF Untouched
    <3> QED
      BY <2>4, <3>2 DEF SuccessInv, TagsWanted, CanTag
  <2> QED
    BY <2>2, <2>3, <2>4 DEF SuccessInv, DoneOK
<1>3. CASE CopyDone \/ ConvertDone \/ TagsDone \/ UNCHANGED vars
  <2>1. /\ UNCHANGED <<jm, jd, orig, mov, lib, pc, at, out, failed, tagErr, saved, exit>>
        /\ phase' = phase \/ (phase # "done" /\ phase' # "done")
    BY <1>3 DEF CopyDone, ConvertDone, TagsDone, NextPhase, vars
  <2>2. \A g \in Group : DoneOK(g)'
    <3>1. \A g \in Group : Untouched(g)
      BY <2>1 DEF Untouched
    <3> QED
      BY <1>0, <3>1, DoneFrame
  <2>3. \A g \in Group : TagsWanted(lib[out[g]])' <=> TagsWanted(lib[out[g]])
    BY <2>1 DEF TagsWanted, CanTag
  <2> QED
    BY <2>1, <2>2, <2>3 DEF SuccessInv, DoneOK
<1>4. CASE Finish
  BY <1>4, FinishSuccess
<1>5. ASSUME NEW g \in Group, Step(g)
      PROVE  SuccessInv'
  <2>1. phase # "done" /\ exit # "ok"
    BY <1>5, DoneIsQuiet DEF SuccessInv
  <2>2. phase' = phase /\ exit' = exit
    BY <1>5, StepPhase
  <2>3. ASSUME NEW h \in Group
        PROVE  DoneOK(h)'
    <3>1. CASE h = g
      BY <1>0, <1>5, <3>1, GoalStep, TagStep DEF DoneOK
    <3>2. CASE h # g
      BY <1>0, <1>5, <3>2, StepFrame, DoneFrame
    <3> QED
      BY <3>1, <3>2
  <2> QED
    BY <2>1, <2>2, <2>3 DEF SuccessInv, DoneOK
<1> QED
  BY <1>1, <1>2, <1>3, <1>4, <1>5 DEF Next, Loops

\* A run that ends with exit code 0 has every photo it saw at the place its record
\* names, with its tags: no old record, no file adopted after a crash and no failed
\* write is reported as success.  Which files verifyTags reads is up to the constants;
\* a file it does not read must not be a converted one.
THEOREM SuccessIsReal ==
  ASSUME Unread \cap Webm = {}
  PROVE  Spec => []SuccessIsComplete
<1>1. Init => SuccessInv
  BY ConstantsOK DEF Init, SuccessInv, GoalOK, TagOK
<1>2. IInv /\ SuccessInv => SuccessIsComplete
  <2> SUFFICES ASSUME IInv, SuccessInv, exit = "ok", NEW g \in Group, pc[g] # "out"
               PROVE  \E p \in Homes(g) :
                        jm[g] = At("placed", p) /\ (CanTag(lib[p]) => lib[p].tagged)
    BY DEF SuccessIsComplete
  <2>1. pc[g] = "end" /\ g \notin failed /\ TagsWanted(lib[out[g]])
    BY DEF SuccessInv
  <2>2. at[g] = "lib" /\ jm[g] = At("placed", out[g])
    BY <2>1 DEF SuccessInv, GoalOK
  <2>3. out[g] \in Homes(g)
    BY <2>2 DEF IInv, RunOK, Homes
  <2> QED
    BY <2>1, <2>2, <2>3 DEF TagsWanted
<1> QED
  BY <1>1, <1>2, InitIInv, StepIInv, StepSuccess, PTL DEF Spec
=============================================================================
