----------------------------- MODULE Placement -----------------------------
(***************************************************************************)
(* How one run of the pipeline takes each photo from the archives to its   *)
(* place in the library, and how the next run goes on from whatever the    *)
(* last one left: internal/pipeline/pipeline.go (extractGroup,             *)
(* transcodeOrKeep, tagAll, place, movedBeforeCrash, verifyTags) with the  *)
(* journal of internal/state and the renames of internal/media.            *)
(*                                                                         *)
(* A group is one distinct content, so its SHA-256 names one staged file:  *)
(* orig[g] is .takeout/staging/<sha> and mov[g] is .takeout/staging/       *)
(* <sha>.mov, the converted WebM.  lib is the results folder outside       *)
(* .takeout.  jm is the journal in memory, jd what the file state.jsonl    *)
(* says when it is read again.                                             *)
(***************************************************************************)
EXTENDS Naturals

CONSTANTS
  Group,         \* distinct contents found in the archives
  Webm,          \* the groups whose content is a WebM video
  Empty,         \* the groups whose content has no bytes
  Unread,        \* the groups verifyTags does not read: GIFs, dated by themselves
  Path,          \* results-relative file names, up to names.Key
  Stem,          \* a folder and a base name
  MaxIndex,      \* bound: "base", "base (2)", ... "base (MaxIndex)"
  Named,         \* Named[s][n]: the path of stem s with index n
  StemOf,        \* StemOf[g][kind]: folder and name of g as that kind of file
  FFmpeg,        \* the answers ffmpegOK can give, one per run
  MaxFaults,     \* bound on stops, failures and foreign files
  Intruders,     \* bound: the names other programs may use
  Other,         \* owner of a file this program did not make
  Nobody,        \* owner of a file that does not exist
  NoPath,        \* an empty path
  Marked         \* outRel = "not-importable" set when a conversion failed

Kinds  == {"orig", "cut", "mov"}
Stages == {"none", "staged", "tagged", "placing", "placed"}
Index  == 1 .. MaxIndex
File   == [of : Group \cup {Other, Nobody}, kind : Kinds, tagged : BOOLEAN]
Rec    == [stage : Stages, path : Path \cup {NoPath}]

ASSUME ConstantsOK ==
  /\ Webm \subseteq Group /\ Empty \subseteq Group /\ Unread \subseteq Group
  /\ MaxIndex \in Nat /\ MaxFaults \in Nat
  /\ Named \in [Stem -> [Index -> Path]]
  /\ StemOf \in [Group -> [{"orig", "mov"} -> Stem]]
  /\ FFmpeg \subseteq BOOLEAN /\ Intruders \subseteq Path
  /\ Other \notin Group /\ Nobody \notin Group /\ Other # Nobody
  /\ NoPath \notin Path /\ Marked \notin Path /\ NoPath # Marked

\* A file that is not there, one made by another program, and g's own bytes.
Absent   == [of |-> Nobody, kind |-> "orig", tagged |-> FALSE]
Foreign  == [of |-> Other, kind |-> "orig", tagged |-> FALSE]
Fresh(g) == [of |-> g, kind |-> "orig", tagged |-> FALSE]
Video(g) == [of |-> g, kind |-> "mov", tagged |-> FALSE]
Torn(g)  == [of |-> g, kind |-> "cut", tagged |-> FALSE]

Blank == [stage |-> "none", path |-> NoPath]
At(stage, p) == [stage |-> stage, path |-> p]

VARIABLES
  jm, jd,     \* journal records: in memory, and on disk
  orig, mov,  \* the staged files of each group
  lib,        \* the file at each library path
  phase,      \* phase of the running pipeline, "off" when no process runs
  ff,         \* whether ffmpeg works in this run
  pc,         \* how far this run is with each group
  at,         \* group.staged: which file the run works on
  out,        \* group.outRel
  failed,     \* groups with failErr set
  tagErr,     \* groups with tagErr set
  next,       \* placer.next: last index used per stem
  saved,      \* place's local prev: the record to go back to
  exit,       \* how the last complete run ended
  faults      \* how much of MaxFaults is used up

disk == <<jd, orig, mov, lib>>
vars == <<jm, jd, orig, mov, lib, phase, ff, pc, at, out, failed, tagErr,
          next, saved, exit, faults>>

Places == {"none", "orig", "mov", "lib"}
PCs == {"out", "todo", "renamed", "got", "cutting", "cutdone", "conv",
        "wrote", "tagd", "intent", "retry", "withdraw", "linked", "gone", "end"}
Phases == {"off", "copy", "convert", "tags", "place", "done"}
\* The copy, convert and place loops finish one group before the next.
Busy == {"renamed", "cutting", "cutdone", "intent", "retry", "withdraw", "linked", "gone"}

TypeOK ==
  /\ jm \in [Group -> Rec] /\ jd \in [Group -> Rec]
  /\ orig \in [Group -> File] /\ mov \in [Group -> File]
  /\ lib \in [Path -> File]
  /\ phase \in Phases /\ ff \in BOOLEAN
  /\ pc \in [Group -> PCs] /\ at \in [Group -> Places]
  /\ out \in [Group -> Path \cup {NoPath, Marked}]
  /\ failed \subseteq Group /\ tagErr \subseteq Group
  /\ next \in [Stem -> 0 .. MaxIndex]
  /\ saved \in Rec
  /\ exit \in {"none", "ok", "failed", "tagerrors"}
  /\ faults \in 0 .. MaxFaults

Init ==
  /\ jm = [g \in Group |-> Blank] /\ jd = [g \in Group |-> Blank]
  /\ orig = [g \in Group |-> Absent] /\ mov = [g \in Group |-> Absent]
  /\ lib = [p \in Path |-> Absent]
  /\ phase = "off" /\ ff = FALSE
  /\ pc = [g \in Group |-> "out"] /\ at = [g \in Group |-> "none"]
  /\ out = [g \in Group |-> NoPath]
  /\ failed = {} /\ tagErr = {}
  /\ next = [s \in Stem |-> 0] /\ saved = Blank
  /\ exit = "none" /\ faults = 0

-----------------------------------------------------------------------------
\* Helpers

Fault == faults < MaxFaults /\ faults' = faults + 1

Exists(p)  == lib[p] # Absent
Alone(g)   == \A h \in Group \ {g} : pc[h] \notin Busy
Goto(g, s) == pc' = [pc EXCEPT ![g] = s]

\* Journal.Put sets the record in memory, appends a line and syncs it.
Put(g, r) == jm' = [jm EXCEPT ![g] = r] /\ jd' = [jd EXCEPT ![g] = r]

\* A Put that returns an error: memory has the record; the line may or may not
\* have reached the file before the write or the sync failed.
PutFails(g, r) ==
  /\ Fault
  /\ jm' = [jm EXCEPT ![g] = r]
  /\ jd' \in {jd, [jd EXCEPT ![g] = r]}

\* A Put whose error the caller ignores.
PutIgnored(g, r) == (Put(g, r) /\ UNCHANGED faults) \/ PutFails(g, r)

\* The file a run works on (at[g] is not "none"), and a file with its tags.
FileAt(g) == IF at[g] = "orig" THEN orig[g]
             ELSE IF at[g] = "mov" THEN mov[g]
             ELSE lib[out[g]]
Tagged(f) == [f EXCEPT !.tagged = TRUE]

\* canTag, for the kinds kindOf finds: no bytes are of no kind.
CanTag(f) == f.of \notin Webm \cup Empty \/ f.kind = "mov"

\* needsTags: a file to work on, no failure before it, a kind ExifTool writes.
NeedsTags(g) == g \notin failed /\ at[g] # "none" /\ CanTag(FileAt(g))

WriteTagsIn(g) ==
  /\ orig' = IF at[g] = "orig" THEN [orig EXCEPT ![g] = Tagged(@)] ELSE orig
  /\ mov' = IF at[g] = "mov" THEN [mov EXCEPT ![g] = Tagged(@)] ELSE mov
  /\ lib' = IF at[g] = "lib" THEN [lib EXCEPT ![out[g]] = Tagged(@)] ELSE lib

-----------------------------------------------------------------------------
\* A run starts and ends

\* What a process keeps in its memory is gone with it.
Forget ==
  /\ at' = [g \in Group |-> "none"] /\ out' = [g \in Group |-> NoPath]
  /\ failed' = {} /\ tagErr' = {} /\ exit' = "none"
  /\ next' = [s \in Stem |-> 0] /\ saved' = Blank

\* Run up to the copy phase: OpenJournal reads the last record of every id.
\* chosen are the groups this run sees; --sample and missing zips leave some out.
Start(chosen) ==
  /\ phase \in {"off", "done"}
  /\ chosen # {}
  /\ phase' = "copy" /\ jm' = jd
  /\ ff' \in FFmpeg
  /\ Forget
  /\ pc' = [g \in Group |-> IF g \in chosen THEN "todo" ELSE "out"]
  /\ UNCHANGED <<jd, orig, mov, lib, faults>>

\* The process stops: Ctrl+C, a preflight or pool error, a kill, a crash.
\* Only what is on disk remains.
Stop ==
  /\ phase \notin {"off", "done"}
  /\ Fault
  /\ phase' = "off" /\ jm' = jd
  /\ Forget
  /\ pc' = [g \in Group |-> "out"]
  /\ UNCHANGED <<jd, orig, mov, lib, ff>>

\* Another program makes a file in the results folder.
Intrude(p) ==
  /\ p \in Intruders /\ ~Exists(p)
  /\ Fault
  /\ lib' = [lib EXCEPT ![p] = Foreign]
  /\ UNCHANGED <<jm, jd, orig, mov, phase, ff, pc, at, out, failed, tagErr,
                 next, saved, exit>>

\* The loops of run are over when every group of the run has been through.
NextPhase(from, to, passed) ==
  /\ phase = from /\ phase' = to
  /\ \A g \in Group : pc[g] \in {"out", passed}
  /\ UNCHANGED <<jm, jd, orig, mov, lib, ff, pc, at, out, failed, tagErr,
                 next, saved, exit, faults>>

CopyDone    == NextPhase("copy", "convert", "got")
ConvertDone == NextPhase("convert", "tags", "conv")
TagsDone    == NextPhase("tags", "place", "tagd")

\* verifyTags: every file in the library that ExifTool can write and that is
\* not a tag error already must read back the date that was written, except
\* GIFs and files with a date of their own.
ReadBackFails ==
  {g \in Group \ Unread : out[g] \in Path /\ g \notin tagErr
                 /\ CanTag(lib[out[g]]) /\ ~lib[out[g]].tagged}

\* Variant (must fail): the exit code forgets the files that failed.
ExitForgetful == IF tagErr # {} THEN "tagerrors" ELSE "ok"

ExitCode == IF failed # {} THEN "failed"
            ELSE IF tagErr \cup ReadBackFails # {} THEN "tagerrors"
            ELSE "ok"

Finish ==
  /\ phase = "place" /\ phase' = "done"
  /\ \A g \in Group : pc[g] \in {"out", "end"}
  /\ exit' = ExitCode
  /\ UNCHANGED <<jm, jd, orig, mov, lib, ff, pc, at, out, failed, tagErr,
                 next, saved, faults>>

-----------------------------------------------------------------------------
\* The copy phase: extractGroup

\* movedBeforeCrash: the move of a "placing" record happened if a file is at
\* its path and no staged copy is left, or the first staged copy left, which it
\* then removes, has the bytes of that file.
FirstStaged(g) == IF orig[g] # Absent THEN orig[g] ELSE mov[g]
\* Variant (must fail): any file at the recorded path will do.
MovedIfThere(g) == Exists(jm[g].path)
\* Variant (must fail): a staged copy left always means the move did not happen.
MovedIfGone(g)  == Exists(jm[g].path) /\ FirstStaged(g) = Absent

MovedBeforeCrash(g) ==
  /\ Exists(jm[g].path)
  /\ FirstStaged(g) \in {Absent, lib[jm[g].path]}

\* Variant (must fail): every record with a path speaks of a finished move.
PathKnown(g) == jm[g].path # NoPath

\* The library path extractGroup takes the file to be at, if any.
InLibrary(g) ==
  /\ jm[g].path # NoPath
  /\ jm[g].stage = "placing" => MovedBeforeCrash(g)

\* Only a file that is there and has bytes is resumed from.
Resumable(g) ==
  /\ jm[g].stage \notin {"none", "staged"}
  /\ IF InLibrary(g) THEN Exists(jm[g].path) /\ lib[jm[g].path].of \notin Empty
                     ELSE orig[g] # Absent /\ g \notin Empty

\* A record of an earlier run and the file it speaks of: nothing is extracted.
Adopt(g) ==
  /\ phase = "copy" /\ pc[g] = "todo" /\ Alone(g)
  /\ Resumable(g)
  /\ IF InLibrary(g)
     THEN /\ at' = [at EXCEPT ![g] = "lib"]
          /\ out' = [out EXCEPT ![g] = jm[g].path]
          /\ IF jm[g].stage = "placing"
             THEN /\ orig' = [orig EXCEPT ![g] = Absent]
                  /\ mov' = IF orig[g] = Absent THEN [mov EXCEPT ![g] = Absent]
                            ELSE mov
             ELSE UNCHANGED <<orig, mov>>
     ELSE /\ at' = [at EXCEPT ![g] = "orig"]
          /\ UNCHANGED <<out, orig, mov>>
  /\ Goto(g, "got")
  /\ UNCHANGED <<jm, jd, lib, phase, ff, failed, tagErr, next, saved, exit,
                 faults>>

\* The entry is read to a .partial file and renamed to its hash.  A file that
\* already has that name stays, and the .partial file is dropped.
Extract(g) ==
  /\ phase = "copy" /\ pc[g] = "todo" /\ Alone(g)
  /\ ~Resumable(g)
  /\ orig' = IF orig[g] = Absent THEN [orig EXCEPT ![g] = Fresh(g)] ELSE orig
  /\ Goto(g, "renamed")
  /\ UNCHANGED <<jm, jd, mov, lib, phase, ff, at, out, failed, tagErr, next,
                 saved, exit, faults>>

\* The zip entry is damaged, or the staging folder cannot be written.
ExtractFails(g) ==
  /\ phase = "copy" /\ pc[g] = "todo" /\ Alone(g)
  /\ ~Resumable(g)
  /\ Fault
  /\ failed' = failed \cup {g}
  /\ Goto(g, "got")
  /\ UNCHANGED <<jm, jd, orig, mov, lib, phase, ff, at, out, tagErr, next,
                 saved, exit>>

\* The record that ends extractGroup.  Its error fails the group, whose staged
\* file is known to the run all the same.
PutStaged(g) ==
  /\ phase = "copy" /\ pc[g] = "renamed"
  /\ \/ Put(g, At("staged", NoPath)) /\ UNCHANGED <<failed, faults>>
     \/ PutFails(g, At("staged", NoPath)) /\ failed' = failed \cup {g}
  /\ at' = [at EXCEPT ![g] = "orig"]
  /\ Goto(g, "got")
  /\ UNCHANGED <<orig, mov, lib, phase, ff, out, tagErr, next, saved, exit>>

-----------------------------------------------------------------------------
\* WebM conversion: transcodeOrKeep

Convertible(g) == g \in Webm \ Empty /\ at[g] = "orig" /\ out[g] = NoPath /\ ff

NoConversion(g) ==
  /\ phase = "convert" /\ pc[g] = "got" /\ Alone(g)
  /\ ~Convertible(g)
  /\ Goto(g, "conv")
  /\ UNCHANGED <<jm, jd, orig, mov, lib, phase, ff, at, out, failed, tagErr,
                 next, saved, exit, faults>>

\* Variant (must fail): the original goes before the conversion is there.
ConvertInPlace(g) ==
  /\ phase = "convert" /\ pc[g] = "got" /\ Alone(g)
  /\ Convertible(g)
  /\ mov' = [mov EXCEPT ![g] = Torn(g)]
  /\ orig' = [orig EXCEPT ![g] = Absent]
  /\ Goto(g, "cutting")
  /\ UNCHANGED <<jm, jd, lib, phase, ff, at, out, failed, tagErr, next,
                 saved, exit, faults>>

\* ffmpeg -y writes over whatever <sha>.mov holds.
BeginConvert(g) ==
  /\ phase = "convert" /\ pc[g] = "got" /\ Alone(g)
  /\ Convertible(g)
  /\ mov' = [mov EXCEPT ![g] = Torn(g)]
  /\ Goto(g, "cutting")
  /\ UNCHANGED <<jm, jd, orig, lib, phase, ff, at, out, failed, tagErr, next,
                 saved, exit, faults>>

EndConvert(g) ==
  /\ pc[g] = "cutting"
  /\ mov' = [mov EXCEPT ![g] = Video(g)]
  /\ Goto(g, "cutdone")
  /\ UNCHANGED <<jm, jd, orig, lib, phase, ff, at, out, failed, tagErr, next,
                 saved, exit, faults>>

DropOriginal(g) ==
  /\ pc[g] = "cutdone"
  /\ orig' = [orig EXCEPT ![g] = Absent]
  /\ at' = [at EXCEPT ![g] = "mov"]
  /\ Goto(g, "conv")
  /\ UNCHANGED <<jm, jd, mov, lib, phase, ff, out, failed, tagErr, next,
                 saved, exit, faults>>

\* ffmpeg fails: its file is removed and the original stays unconverted.
ConvertFails(g) ==
  /\ pc[g] = "cutting"
  /\ Fault
  /\ mov' = [mov EXCEPT ![g] = Absent]
  /\ out' = [out EXCEPT ![g] = Marked]
  /\ Goto(g, "conv")
  /\ UNCHANGED <<jm, jd, orig, lib, phase, ff, at, failed, tagErr, next,
                 saved, exit>>

-----------------------------------------------------------------------------
\* Tags: tagAll, whose four workers take groups in any order

\* Variant (must fail): a file in the library is taken to have its tags.
DoneIfPlaced(g) == jm[g].stage \in {"tagged", "placed"}

TagsRecorded(g) == jm[g].stage = "tagged"

SkipTags(g) ==
  /\ phase = "tags" /\ pc[g] = "conv"
  /\ ~NeedsTags(g) \/ TagsRecorded(g)
  /\ Goto(g, "tagd")
  /\ UNCHANGED <<jm, jd, orig, mov, lib, phase, ff, at, out, failed, tagErr,
                 next, saved, exit, faults>>

\* ExifTool replaces the file with a tagged one.
WriteTags(g) ==
  /\ phase = "tags" /\ pc[g] = "conv"
  /\ NeedsTags(g) /\ ~TagsRecorded(g)
  /\ WriteTagsIn(g)
  /\ Goto(g, "wrote")
  /\ UNCHANGED <<jm, jd, phase, ff, at, out, failed, tagErr, next, saved,
                 exit, faults>>

\* The write fails, or its answer is lost after the file was replaced.
WriteTagsFails(g) ==
  /\ phase = "tags" /\ pc[g] = "conv"
  /\ NeedsTags(g) /\ ~TagsRecorded(g)
  /\ Fault
  /\ WriteTagsIn(g) \/ UNCHANGED <<orig, mov, lib>>
  /\ tagErr' = tagErr \cup {g}
  /\ Goto(g, "tagd")
  /\ UNCHANGED <<jm, jd, phase, ff, at, out, failed, next, saved, exit>>

OnItsWay(g) == jm[g].stage \notin {"none", "staged", "tagged"}

\* A file already on its way into the library keeps its record.
PutTagged(g) ==
  /\ phase = "tags" /\ pc[g] = "wrote"
  /\ IF OnItsWay(g) THEN UNCHANGED <<jm, jd, faults>>
                    ELSE PutIgnored(g, At("tagged", NoPath))
  /\ Goto(g, "tagd")
  /\ UNCHANGED <<orig, mov, lib, phase, ff, at, out, failed, tagErr, next,
                 saved, exit>>

-----------------------------------------------------------------------------
\* The place phase: place, placer.pick, placer.moveInto

\* Variant (must fail): an adopted intent is not seen.
AtPlacedHome(g) == jm[g].stage = "placed" /\ Exists(jm[g].path)

\* place goes on from a record that is done, or that extractGroup adopted.
AtHome(g) ==
  /\ jm[g].path # NoPath
  /\ jm[g].stage = "placed" \/ (jm[g].stage = "placing" /\ out[g] = jm[g].path)
  /\ Exists(jm[g].path)

\* The run loop leaves out groups with no file and groups that failed.
SkipPlace(g) ==
  /\ phase = "place" /\ pc[g] = "tagd" /\ Alone(g)
  /\ at[g] = "none" \/ g \in failed
  /\ Goto(g, "end")
  /\ UNCHANGED <<jm, jd, orig, mov, lib, phase, ff, at, out, failed, tagErr,
                 next, saved, exit, faults>>

Keep(g) ==
  /\ phase = "place" /\ pc[g] = "tagd" /\ Alone(g)
  /\ at[g] # "none" /\ g \notin failed
  /\ AtHome(g)
  /\ out' = [out EXCEPT ![g] = jm[g].path]
  /\ IF jm[g].stage = "placing" THEN PutIgnored(g, At("placed", jm[g].path))
                                ELSE UNCHANGED <<jm, jd, faults>>
  /\ Goto(g, "end")
  /\ UNCHANGED <<orig, mov, lib, phase, ff, at, failed, tagErr, next, saved,
                 exit>>

\* placer.pick: the first free index after the last one this run used.
StemFor(g) == StemOf[g][IF at[g] = "mov" THEN "mov" ELSE "orig"]

Picks(s, n) ==
  /\ n > next[s] /\ ~Exists(Named[s][n])
  /\ \A m \in Index : next[s] < m /\ m < n => Exists(Named[s][m])

\* A name is picked and the intent is journaled before anything moves.
Intend(g) ==
  /\ phase = "place" /\ Alone(g)
  /\ at[g] # "none" /\ g \notin failed
  /\ \/ pc[g] = "tagd" /\ ~AtHome(g) /\ saved' = jm[g]
     \/ pc[g] = "retry" /\ UNCHANGED saved
  /\ \E n \in Index :
       /\ Picks(StemFor(g), n)
       /\ next' = [next EXCEPT ![StemFor(g)] = n]
       /\ \/ /\ Put(g, At("placing", Named[StemFor(g)][n]))
             /\ Goto(g, "intent")
             /\ UNCHANGED <<failed, faults>>
          \/ /\ PutFails(g, At("placing", Named[StemFor(g)][n]))
             /\ Goto(g, "withdraw")
             /\ failed' = failed \cup {g}
  /\ UNCHANGED <<orig, mov, lib, phase, ff, at, out, tagErr, exit>>

MayLink(g) == ~Exists(jm[g].path)

\* media.Rename links the name to the staged file, and media.Copy, its
\* fallback, moves a finished copy there: either way the name gets the whole
\* file at once and the staged one is still there.  Looking and taking the name are
\* one step where the system has hard links or a rename that refuses an existing
\* file; without (FAT, exFAT) renameNoReplace looks first and then renames, and
\* relies on takeout being the only writer: there, read this without Intrude.
Link(g) ==
  /\ pc[g] = "intent"
  /\ MayLink(g)
  /\ lib' = [lib EXCEPT ![jm[g].path] = FileAt(g)]
  /\ Goto(g, "linked")
  /\ UNCHANGED <<jm, jd, orig, mov, phase, ff, at, out, failed, tagErr, next,
                 saved, exit, faults>>

\* Another file appeared at the chosen name: fs.ErrExist, pick again.
Collide(g) ==
  /\ pc[g] = "intent"
  /\ ~MayLink(g)
  /\ Goto(g, "retry")
  /\ UNCHANGED <<jm, jd, orig, mov, lib, phase, ff, at, out, failed, tagErr,
                 next, saved, exit, faults>>

\* Both the rename and the copy fail.
MoveFails(g) ==
  /\ pc[g] = "intent"
  /\ Fault
  /\ failed' = failed \cup {g}
  /\ Goto(g, "withdraw")
  /\ UNCHANGED <<jm, jd, orig, mov, lib, phase, ff, at, out, tagErr, next,
                 saved, exit>>

Withdrawn(g) == saved

\* place takes the intent back when the move did not happen.
Withdraw(g) ==
  /\ pc[g] = "withdraw"
  /\ PutIgnored(g, Withdrawn(g))
  /\ Goto(g, "end")
  /\ UNCHANGED <<orig, mov, lib, phase, ff, at, out, failed, tagErr, next,
                 saved, exit>>

RemoveStaged(g) ==
  /\ pc[g] = "linked"
  /\ orig' = IF at[g] = "orig" THEN [orig EXCEPT ![g] = Absent] ELSE orig
  /\ mov' = IF at[g] = "mov" THEN [mov EXCEPT ![g] = Absent] ELSE mov
  /\ Goto(g, "gone")
  /\ UNCHANGED <<jm, jd, lib, phase, ff, at, out, failed, tagErr, next, saved,
                 exit, faults>>

RecordOfMove(g) == At("placed", jm[g].path)

PutPlaced(g) ==
  /\ pc[g] = "gone"
  /\ out' = [out EXCEPT ![g] = jm[g].path]
  /\ at' = [at EXCEPT ![g] = "lib"]
  /\ PutIgnored(g, RecordOfMove(g))
  /\ Goto(g, "end")
  /\ UNCHANGED <<orig, mov, lib, phase, ff, failed, tagErr, next, saved, exit>>

-----------------------------------------------------------------------------
Copying(g)    == Adopt(g) \/ Extract(g) \/ ExtractFails(g) \/ PutStaged(g)
Converting(g) == NoConversion(g) \/ BeginConvert(g) \/ EndConvert(g)
                 \/ DropOriginal(g) \/ ConvertFails(g)
Tagging(g)    == SkipTags(g) \/ WriteTags(g) \/ WriteTagsFails(g) \/ PutTagged(g)
Placing(g)    == SkipPlace(g) \/ Keep(g) \/ Intend(g) \/ Link(g) \/ Collide(g)
                 \/ MoveFails(g) \/ Withdraw(g) \/ RemoveStaged(g) \/ PutPlaced(g)
Step(g)       == Copying(g) \/ Converting(g) \/ Tagging(g) \/ Placing(g)
Loops         == CopyDone \/ ConvertDone \/ TagsDone \/ Finish

Next ==
  \/ \E chosen \in SUBSET Group : Start(chosen)
  \/ Stop
  \/ \E p \in Path : Intrude(p)
  \/ Loops
  \/ \E g \in Group : Step(g)

Spec == Init /\ [][Next]_vars

\* A process that is not stopped goes on with its loops, and whoever started it
\* runs the same command again until it succeeds.  Nothing is assumed of faults.
FairSpec ==
  /\ Spec
  /\ WF_vars(Loops)
  /\ \A g \in Group : WF_vars(Step(g))
  /\ SF_vars(Start(Group))

-----------------------------------------------------------------------------
\* Properties

Homes(g) == {p \in Path : lib[p].of = g}

\* No two groups share a record's place: a "placed" record, in memory or on
\* disk, names a file with the bytes of its own group, so no run takes another
\* photo's file for this one (place, movedBeforeCrash, the withdrawn intent).
RecordsTrue ==
  \A g \in Group : \A r \in {jm[g], jd[g]} :
    r.stage = "placed" => r.path \in Path /\ lib[r.path].of = g

\* An intent taken for a finished move is that group's own file, although the
\* name it speaks of may have gone to another group since.
AdoptionTrue ==
  \A g \in Group : out[g] \in Path => lib[out[g]].of = g

\* However often runs stop and start again, no photo gets a second place: no
\* "(2)" copy is left by a crash between a move and its record.
OneHome == \A g \in Group : \A p, q \in Homes(g) : p = q

\* From the first record on, a photo's bytes are whole somewhere on disk: in
\* staging under its hash, as a finished conversion, or in the library.
Whole(g) == orig[g] # Absent \/ mov[g].kind = "mov" \/ Homes(g) # {}
BytesSurvive == \A g \in Group : jd[g].stage # "none" => Whole(g)

\* A run that ends with exit code 0 has every photo it saw in the library,
\* with the tags ExifTool can write in it: a write skipped because of an old
\* record, or lost with a re-extracted file, is not reported as success.
SuccessIsComplete ==
  exit = "ok" =>
    \A g \in Group : pc[g] # "out" =>
      \E p \in Homes(g) : jm[g] = At("placed", p) /\ (CanTag(lib[p]) => lib[p].tagged)

\* No step replaces or removes a file in the results folder, of this program
\* or another's; only tags are added to it.  (Beside other writers: where the file
\* system has hard links or a rename that refuses an existing file, see Link.)
NothingReplaced ==
  [][\A p \in Path : Exists(p) =>
       lib'[p].of = lib[p].of /\ lib'[p].kind = lib[p].kind
       /\ (lib[p].tagged => lib'[p].tagged)]_vars

\* The results folder implements the abstract one.
L == INSTANCE Library WITH shelf <- [p \in Path |-> lib[p].of]
LibrarySpec == L!Spec

\* Once faults stop, the runs that go on end with exit code 0: failures and
\* tag errors of earlier runs are made good.
EventuallySucceeds == <>[](exit \in {"none", "ok"}) /\ []<>(phase = "done")

-----------------------------------------------------------------------------
\* The inductive invariant behind RecordsTrue and AdoptionTrue

\* A staged copy of g is left: as long as one is, movedBeforeCrash cannot take a
\* file of another group for a finished move of g.
Kept(g) == orig[g] # Absent \/ mov[g] # Absent

\* What a record of g, on disk, in memory or set aside by place, may say.
RecOK(g, r) ==
  /\ r.stage \in {"placing", "placed"} <=> r.path \in Path
  /\ r.stage = "placed" => lib[r.path].of = g
  /\ r.stage = "placing" => lib[r.path].of = g \/ Kept(g)

StagedOK(g) ==
  /\ orig[g] # Absent => orig[g].of = g /\ orig[g].kind = "orig"
  /\ mov[g] # Absent => mov[g].of = g /\ mov[g].kind # "orig"

\* What the run knows of g at each point of its work on it.
RunOK(g) ==
  /\ pc[g] \in {"out", "todo", "renamed"} => at[g] = "none" /\ out[g] = NoPath
  /\ pc[g] = "todo" => jm[g] = jd[g]
  /\ pc[g] = "renamed" => orig[g] # Absent
  /\ at[g] = "orig" /\ pc[g] # "gone" => orig[g] # Absent
  /\ at[g] = "mov" /\ pc[g] # "gone" => mov[g] # Absent
  /\ at[g] = "lib" => out[g] \in Path
  /\ at[g] = "lib" /\ pc[g] # "end" => jm[g].path = out[g]
  /\ out[g] \in Path => at[g] = "lib" /\ lib[out[g]].of = g
  /\ pc[g] = "cutting" => at[g] = "orig" /\ out[g] = NoPath
  /\ pc[g] = "cutdone" => at[g] = "orig" /\ mov[g] = Video(g)
  /\ pc[g] \in {"intent", "retry", "withdraw", "linked", "gone"} =>
       at[g] \in {"orig", "mov"}
  /\ pc[g] \in {"intent", "retry", "linked", "gone"} =>
       jm[g].stage = "placing" /\ jd[g] = jm[g]
  /\ pc[g] \in {"linked", "gone"} => lib[jm[g].path].of = g
  /\ at[g] \in {"orig", "mov"} => jm[g].stage # "placed"
  /\ pc[g] \in {"intent", "retry", "withdraw"} =>
       RecOK(g, saved) /\ saved.stage # "placed"

IInv ==
  /\ TypeOK
  /\ \A g \in Group :
       RecOK(g, jm[g]) /\ RecOK(g, jd[g]) /\ StagedOK(g) /\ RunOK(g)
-----------------------------------------------------------------------------
\* The inductive invariant behind BytesSurvive, beside IInv

\* A record is put of a group that has a file only, and the conversion a run
\* works on is a finished one.
BytesOK(g) ==
  /\ jd[g].stage # "none" => Whole(g)
  /\ at[g] = "mov" /\ pc[g] # "gone" => mov[g].kind = "mov"
  /\ pc[g] = "wrote" => at[g] # "none"

-----------------------------------------------------------------------------
\* The inductive invariant behind OneHome, beside IInv

\* Files have bytes, and every run that converts or does not does the same: an
\* empty file is placed again, and so is a video whose next run lacks ffmpeg.
Steady(g) == g \notin Empty /\ (g \in Webm => ~(BOOLEAN \subseteq FFmpeg))

\* A place in the library is known to the records, what is left in staging does
\* not refute it, and a run that has adopted it does not work on a staged copy.
HomeOK(g) ==
  \A p \in Homes(g) :
    /\ jm[g].path = p /\ jd[g].path = p
    /\ FirstStaged(g) \in {Absent, lib[p]}
    /\ orig[g] # Absent => mov[g] = Absent
    /\ "placed" \in {jm[g].stage, jd[g].stage} => FirstStaged(g) = Absent
    /\ pc[g] \in {"out", "todo", "linked", "gone"} \/ at[g] = "lib"

\* The runs convert g, if they get that far.
ToConvert(g) == g \in Webm /\ TRUE \in FFmpeg

\* After the conversions a run has one staged copy of a group, or none.
Single(g) ==
  /\ mov[g] # Absent \/ pc[g] = "cutting" => ToConvert(g)
  /\ at[g] = "mov" => orig[g] = Absent
  /\ at[g] = "lib" \/ pc[g] = "gone" => FirstStaged(g) = Absent
  /\ at[g] = "orig" /\ pc[g] = "got" => out[g] = NoPath
  /\ at[g] = "orig" /\ pc[g] \notin {"got", "cutting", "cutdone"} => mov[g] = Absent
  /\ pc[g] = "linked" => lib[jm[g].path] = FileAt(g)

HomeInv ==
  /\ phase # "off" => ff \in FFmpeg
  /\ \A g \in Group : Steady(g) => HomeOK(g) /\ Single(g)

-----------------------------------------------------------------------------
\* The inductive invariant behind SuccessIsComplete, beside IInv

\* What a group that has not failed has behind it at each point of the run.
GoalOK(g) ==
  /\ at[g] = "none" => pc[g] \in {"out", "todo", "renamed"} \/ g \in failed
  /\ pc[g] = "withdraw" => g \in failed
  /\ pc[g] = "end" /\ g \notin failed =>
       at[g] = "lib" /\ jm[g] = At("placed", out[g])

\* The file g's tags are looked for in once they were written or skipped.
TagsWanted(f) == CanTag(f) => f.tagged

\* Of a group that is not converted, a "tagged" record, in memory, on disk or set
\* aside, speaks of the staged file that is there.
TagOK(g) ==
  /\ mov[g] = Absent /\ at[g] # "mov" /\ pc[g] \notin {"cutting", "cutdone"}
  /\ \A r \in {jm[g], jd[g]} : r.stage = "tagged" => orig[g] # Absent /\ orig[g].tagged
  /\ pc[g] \in {"intent", "retry", "withdraw"} /\ saved.stage = "tagged" =>
       orig[g] # Absent /\ orig[g].tagged
  /\ pc[g] = "wrote" => at[g] # "none" /\ TagsWanted(FileAt(g)) /\ CanTag(FileAt(g))
  /\ g \notin failed \cup tagErr =>
       /\ pc[g] \in {"tagd", "intent", "retry", "linked", "end"} => TagsWanted(FileAt(g))
       /\ pc[g] \in {"linked", "gone"} => TagsWanted(lib[jm[g].path])

SuccessInv ==
  /\ \A g \in Group : GoalOK(g) /\ (g \notin Webm => TagOK(g))
  /\ phase = "done" => \A g \in Group : pc[g] \in {"out", "end"}
  /\ exit = "ok" =>
       /\ phase = "done" /\ failed = {}
       /\ \A g \in Group : pc[g] = "end" => TagsWanted(lib[out[g]])
=============================================================================
