------------------------------- MODULE Dating -------------------------------
(***************************************************************************)
(* The dates of the files of one library over repeated runs of the same    *)
(* command, which may be stopped anywhere, and over "takeout verify": what *)
(* is read from a file, written into it, and made its year folder, and what*)
(* a later run reads back (internal/pipeline, internal/exiftool/args.go).  *)
(* Moving files and journal records are Placement.tla.                     *)
(***************************************************************************)
EXTENDS Dates, Sequences

CONSTANTS
  Library,    \* what the files may be: sequences of files
  Unknown,    \* the folder of files without a date
  Zones,      \* what --default-tz may be, or None
  Faults,     \* "stop", "read", "write"
  MaxFaults, MaxRuns

ASSUME DatingConstants ==
  /\ Faults \subseteq {"stop", "read", "write"}
  /\ MaxFaults \in Nat /\ MaxRuns \in Nat /\ Zones \subseteq Int \cup {None}
  /\ Unknown # None
  /\ \A l \in Library : Len(l) \in Nat /\ DOMAIN l = 1 .. Len(l)
  /\ \A l \in Library : \A f \in DOMAIN l :
       {l[f].clock, l[f].off, l[f].name, l[f].sc.taken, l[f].sc.creation, l[f].sc.zone}
         \subseteq Int \cup {None}

VARIABLES
  file,     \* the files, as the zips have them
  zone,     \* --default-tz, the same in each run
  tags,     \* the date tags in each file now
  stage,    \* the stage of its record: "none", "tagged", "placed"
  home,     \* its year folder, Unknown, or None
  phase, todo,  \* where the run is, and the files it has still to handle there
  emb, bad, when, live, wrong,  \* the run's groups: emb, readErr, when, live, tagErr
  report,   \* report.json: the exit code and the tag errors, or None
  runs, faults,
  settled,  \* history: a run has ended with exit code 0
  hurt      \* history: the files that some run could not read or not write

run == <<phase, todo, emb, bad, when, live, wrong>>
vars == <<file, zone, tags, stage, home, run, report, runs, faults, settled, hurt>>

Files == DOMAIN file

\* The tags of a file: a still has DateTimeOriginal and OffsetTimeOriginal, a
\* video CreationDate with its offset; GIFs take XMP:DateCreated only.
Tags(f) == [clock |-> f.clock, off |-> f.off, xmp |-> None]

Init ==
  /\ file \in Library /\ zone \in Zones
  /\ tags = [f \in Files |-> Tags(file[f])]
  /\ stage = [f \in Files |-> "none"] /\ home = [f \in Files |-> None]
  /\ phase = "off" /\ todo = {}
  /\ emb = [f \in Files |-> NoTags] /\ bad = {}
  /\ when = [f \in Files |-> Undated]
  /\ live = [f \in Files |-> 0] /\ wrong = {}
  /\ report = None /\ runs = 0 /\ faults = 0 /\ settled = FALSE /\ hurt = {}

Fault(kind) == kind \in Faults /\ faults < MaxFaults /\ faults' = faults + 1
Goto(p, files) == phase' = p /\ todo' = files

-----------------------------------------------------------------------------
\* A run

\* The report of an earlier run is removed.
Start ==
  /\ phase = "off" /\ runs < MaxRuns
  /\ runs' = runs + 1 /\ report' = None
  /\ Goto("read", {})
  /\ wrong' = {} /\ bad' = {}
  /\ when' = [f \in Files |-> Undated] /\ live' = [f \in Files |-> 0]
  /\ emb' = [f \in Files |-> NoTags]
  /\ UNCHANGED <<file, zone, tags, stage, home, faults, settled, hurt>>

\* A video's clock is read as the instant it says, its offset is not kept.
Instant(t) == IF t.off = None THEN t.clock ELSE t.clock - t.off
ReadBack(kind, t) ==
  IF t.clock = None THEN [NoTags EXCEPT !.off = IF VideoSide(kind) THEN None ELSE t.off]
  ELSE IF VideoSide(kind) THEN [dto |-> Instant(t), off |-> None, at |-> Instant(t)]
  ELSE [dto |-> t.clock, off |-> t.off, at |-> Instant(t)]

\* readEmbedded: a file that fails twice is treated as one without tags.
ReadEmbedded(failed) ==
  /\ phase = "read" /\ Goto("resolve", {})
  /\ IF failed = {} THEN UNCHANGED faults ELSE Fault("read")
  /\ bad' = failed /\ hurt' = hurt \cup failed
  /\ emb' = [f \in Files |-> IF f \in failed THEN NoTags ELSE ReadBack(file[f].kind, tags[f])]
  /\ UNCHANGED <<file, zone, tags, stage, home, when, live, wrong, report, runs, settled>>

ResolveDates ==
  /\ phase = "resolve" /\ Goto("pair", {})
  /\ when' = [f \in Files |-> Resolved(file[f], emb[f], f \notin bad)]
  /\ UNCHANGED <<file, zone, tags, stage, home, emb, bad, live, wrong, report, runs, faults, settled, hurt>>

PairLive ==
  /\ phase = "pair" /\ Goto("zones", {})
  /\ live' = Partners(file)
  /\ when' = Moments(when, Partners(file))
  /\ UNCHANGED <<file, zone, tags, stage, home, emb, bad, wrong, report, runs, faults, settled, hurt>>

ToTag == {f \in Files : stage[f] # "tagged"}

Zone ==
  /\ phase = "zones" /\ Goto("tags", ToTag)
  /\ when' = ApplyZones(file, when, zone)
  /\ UNCHANGED <<file, zone, tags, stage, home, emb, bad, live, wrong, report, runs, faults, settled, hurt>>

\* Fill, don't clobber.
ShouldWriteDates(f) == when[f].ok /\ (emb[f].at = None \/ emb[f].at # when[f].at)

\* An offset that is not known is not written, and an old one stays.
Written(f) ==
  IF file[f].kind = "gif" THEN [tags[f] EXCEPT !.xmp = Local(when[f])]
  ELSE [tags[f] EXCEPT !.clock = Local(when[f]),
                       !.off = IF when[f].off = None THEN tags[f].off ELSE when[f].off]

WriteTags(f) ==
  /\ phase = "tags" /\ f \in todo /\ f \notin bad
  /\ tags' = IF ShouldWriteDates(f) THEN [tags EXCEPT ![f] = Written(f)] ELSE tags
  /\ stage' = [stage EXCEPT ![f] = IF home[f] = None THEN "tagged" ELSE @]
  /\ todo' = todo \ {f}
  /\ UNCHANGED <<file, zone, home, phase, emb, bad, when, live, wrong, report, runs, faults, settled, hurt>>

\* The write fails, or there is none since the file could not be read.
NoTagsWritten(f) ==
  /\ phase = "tags" /\ f \in todo
  /\ IF f \in bad THEN UNCHANGED faults ELSE Fault("write")
  /\ wrong' = wrong \cup {f} /\ hurt' = hurt \cup {f} /\ todo' = todo \ {f}
  /\ UNCHANGED <<file, zone, tags, stage, home, phase, emb, bad, when, live, report, runs, settled>>

TagsDone ==
  /\ phase = "tags" /\ todo = {} /\ Goto("place", Files)
  /\ UNCHANGED <<file, zone, tags, stage, home, emb, bad, when, live, wrong, report, runs, faults, settled, hurt>>

Folder(f) == IF when[f].ok THEN Year(when[f]) ELSE Unknown

\* A file that has a place stays there.
Place(f) ==
  /\ phase = "place" /\ f \in todo /\ \A g \in todo : f <= g
  /\ home' = [home EXCEPT ![f] = IF @ = None THEN Folder(f) ELSE @]
  /\ stage' = [stage EXCEPT ![f] = "placed"]
  /\ todo' = todo \ {f}
  /\ UNCHANGED <<file, zone, tags, phase, emb, bad, when, live, wrong, report, runs, faults, settled, hurt>>

\* verifyTags reads back the day, but not of a date that came from the file.
Checked(f) ==
  /\ when[f].ok /\ f \notin wrong /\ file[f].kind # "gif" /\ when[f].source # "embedded"
Differs(f) == tags[f].clock = None \/ Day(tags[f].clock) # Day(Local(when[f]))
Unequal == {f \in Files : Checked(f) /\ Differs(f)}
\* Variant (must fail): nothing is read back.
NotReadBack == {}
ReadBackErrors == Unequal

Finish ==
  /\ phase = "place" /\ todo = {} /\ Goto("off", {})
  /\ LET errors == wrong \cup ReadBackErrors
         exit   == IF errors = {} THEN 0 ELSE 4
     IN /\ report' = [exit |-> exit, errors |-> errors]
        /\ settled' = (settled \/ exit = 0)
  /\ UNCHANGED <<file, zone, tags, stage, home, emb, bad, when, live, wrong, runs, faults, hurt>>

\* Ctrl+C, a crash, or a pool that gave up.
Stop ==
  /\ phase # "off" /\ Fault("stop") /\ Goto("off", {})
  /\ UNCHANGED <<file, zone, tags, stage, home, emb, bad, when, live, wrong, report, runs, settled, hurt>>

Handle(f) == WriteTags(f) \/ NoTagsWritten(f) \/ Place(f)

Next ==
  \/ Start \/ ResolveDates \/ PairLive \/ Zone \/ TagsDone \/ Finish \/ Stop
  \/ \E failed \in SUBSET Files : ReadEmbedded(failed)
  \/ \E f \in Files : Handle(f)

Spec == Init /\ [][Next]_vars

-----------------------------------------------------------------------------
\* takeout verify

\* The first of DateTimeOriginal, CreationDate and DateCreated that is there.
TagYear(f) == IF tags[f].clock # None THEN YearOf(tags[f].clock)
              ELSE IF tags[f].xmp # None THEN YearOf(tags[f].xmp) ELSE None

InYearFolder(f) == home[f] \notin {None, Unknown}
YearMismatches == {f \in Files : InYearFolder(f) /\ f \notin report.errors /\ TagYear(f) # home[f]}

\* What verify makes of the files of S: exit code 3 for a wrong year, 4 for
\* known tag errors, 0 otherwise.
Verify(S) == IF YearMismatches \cap S # {} THEN 3 ELSE IF report.errors # {} THEN 4 ELSE 0

-----------------------------------------------------------------------------
\* Properties

TypeOK ==
  /\ file \in Library /\ zone \in Zones
  /\ stage \in [Files -> {"none", "tagged", "placed"}]
  /\ phase \in {"off", "read", "resolve", "pair", "zones", "tags", "place"}
  /\ todo \subseteq Files /\ bad \subseteq Files /\ wrong \subseteq Files
  /\ live \in [Files -> Files \cup {0}] /\ runs \in 0 .. MaxRuns /\ faults \in 0 .. MaxFaults
  /\ settled \in BOOLEAN

\* The photos: stills that are no half of a Live Photo.
Photos == {f \in Files : file[f].kind \in {"jpeg", "heic"} /\ Partners(file)[f] = 0}

\* Pairs are one to one, of an image and a video (pairLive).
PairsMutual ==
  \A f \in Files : live[f] # 0 => live[live[f]] = f /\ Opposite(file, f, live[f])

\* "Adding an offset here would move it; it stays a wall clock" (ApplyFallback):
\* the clock in a file's name is the clock that is written and filed by.
ClockKept ==
  phase \in {"tags", "place"} =>
    \A f \in Files : when[f].source = "filename" => Local(when[f]) = file[f].name

\* "A second run is a no-op: same exit, and not one file added or changed"
\* (e2e_test.go): once a run has ended with exit code 0, no later one changes
\* the tags of a file in S, and one in which nothing fails ends with 0 again.
NoOp(S) ==
  settled =>
    /\ \A f \in S : tags'[f] = tags[f]
    /\ report' # report /\ report' # None /\ wrong = {} => report'.errors \cap S = {}

\* For photos that holds, whatever was stopped or failed before.
PhotosSettle == [][NoOp(Photos)]_vars

\* For videos, and what they are paired with, it does not.
SecondRunIsNoOp == [][NoOp(Files)]_vars

\* verify agrees with the run: its exit code is the run's, and no photo that
\* ExifTool could always read and write is in a year folder that its tags
\* contradict, however often runs were stopped and tagged it again.  (A photo
\* whose tags fail in one run keeps its folder and may get other tags in the
\* next, from neighbors dated since.)  (Verify, YearMismatches)
PhotosAgree == report # None => Verify(Photos \ hurt) = report.exit

-----------------------------------------------------------------------------
\* The inductive invariant behind PairsMutual and ClockKept (Dating_proofs)

IsWhen(w) ==
  w = [ok |-> w.ok, at |-> w.at, off |-> w.off, source |-> w.source, step |-> w.step]

\* A date from a name is its clock, without an offset until a video's is pinned.
Named(f) ==
  when[f].source = "filename" =>
    /\ file[f].name \in Int
    /\ phase \in {"pair", "zones"} => when[f] = When(file[f].name, None, "filename", "filename")
    /\ phase \in {"tags", "place"} => Local(when[f]) = file[f].name

DatingInv ==
  /\ TypeOK /\ PairsMutual
  /\ DOMAIN when = Files
  /\ \A f \in Files : IsWhen(when[f]) /\ Named(f)

-----------------------------------------------------------------------------
\* The inductive invariant behind PhotosSettle and PhotosAgree (Dating_proofs)

\* Every offset is one that a place on earth has.
RealOffsets ==
  /\ Zones \subseteq Offsets \cup {None}
  /\ \A l \in Library : \A f \in DOMAIN l : {l[f].off, l[f].sc.zone} \subseteq Offsets \cup {None}

\* Of a file x with the tags t: what a run reads, and the date it makes of it.
Reading(x, t) == ReadBack(x.kind, t)
Again(x, t) == Resolved(x, Reading(x, t), TRUE)

\* A run that reads the file adds no zone to its date and writes nothing.
Quiet(x, t) == Again(x, t).ok => ~NeedsZone(Again(x, t)) /\ Reading(x, t).at = Again(x, t).at

\* Nor has it anything to report of the date w: the day it reads back is w's.
SameDay(t, w) ==
  w.ok /\ w.source # "embedded" => t.clock # None /\ Day(t.clock) = Day(Local(w))

\* The date w that this run gave the file is the one that it would get again.
Agrees(x, t, w) ==
  /\ w.ok = Again(x, t).ok
  /\ w.ok => Local(w) = Local(Again(x, t))
  /\ w.ok /\ w.source = "embedded" => Again(x, t).source = "embedded"

\* w is the date b, with a zone if it needs one.
ZonedFrom(b, w) ==
  IF NeedsZone(b) THEN \E off \in Offsets : \E step \in {"neighbor", "default", "common", "utc"} :
                         w = WithZone(b, off, step)
                  ELSE w = b

\* What a run has made of a photo so far.
Base(f) == Resolved(file[f], emb[f], f \notin bad)
Handled(f) == phase = "place" \/ (phase = "tags" /\ f \notin todo)
RunOK(f) ==
  /\ f \in bad => emb[f] = NoTags
  /\ phase \in {"resolve", "pair", "zones", "tags"} /\ ~Handled(f) /\ f \notin bad =>
       emb[f] = Reading(file[f], tags[f])
  /\ phase \in {"pair", "zones"} => when[f] = Base(f)
  /\ phase \in {"tags", "place"} => ZonedFrom(Base(f), when[f])
  /\ Handled(f) /\ f \notin wrong =>
       Quiet(file[f], tags[f]) /\ (f \in bad \/ Agrees(file[f], tags[f], when[f]))

\* A tagged photo is quiet, and so is a placed one, which is in its year.
PhotoOK(f) ==
  /\ stage[f] = "tagged" => Quiet(file[f], tags[f])
  /\ f \notin hurt /\ home[f] # None =>
       /\ Quiet(file[f], tags[f])
       /\ LET w == Again(file[f], tags[f]) IN home[f] = IF w.ok THEN Year(w) ELSE Unknown

\* Once a run has ended with exit code 0, every file has a place, every photo
\* is quiet, and a file that cannot be read is a tag error.
SettledOK ==
  settled =>
    /\ \A f \in Files : stage[f] = "placed" /\ home[f] # None
    /\ \A f \in Photos : /\ Quiet(file[f], tags[f])
                         /\ SameDay(tags[f], Again(file[f], tags[f]))
    /\ \A f \in bad : Handled(f) => f \in wrong

ReportOK ==
  report # None =>
    /\ phase = "off" /\ YearMismatches \cap (Photos \ hurt) = {}
    /\ report.exit = IF report.errors = {} THEN 0 ELSE 4

\* The types of what a run reads and makes of it; None is no number.
Tagged(t) == /\ t = [clock |-> t.clock, off |-> t.off, xmp |-> t.xmp]
             /\ t.clock \in Int \cup {None} /\ t.off \in Offsets \cup {None}
Read(e) == e.dto \in Int \cup {None} /\ e.off \in Offsets \cup {None}
Timed(w) == w.at \in Int /\ w.off \in Offsets \cup {None} /\ w.ok \in BOOLEAN
RunTypes ==
  /\ DOMAIN tags = Files /\ DOMAIN emb = Files /\ DOMAIN home = Files
  /\ \A f \in Files : Tagged(tags[f]) /\ Read(emb[f])
  /\ phase \in {"pair", "zones", "tags", "place"} => \A f \in Files : Timed(when[f])
  /\ phase \in {"zones", "tags", "place"} => live = Partners(file)
  /\ bad \subseteq hurt /\ wrong \subseteq hurt

SettleInv ==
  /\ RunTypes /\ SettledOK /\ ReportOK
  /\ phase = "place" => \A f \in Files \ todo : stage[f] = "placed" /\ home[f] # None
  /\ \A f \in Photos : RunOK(f) /\ PhotoOK(f)
=============================================================================
