------------------------------- MODULE Review -------------------------------
(***************************************************************************)
(* The command over repeated runs on zips of which any entry may be damaged*)
(* in one run and whole in another (the user downloads a part again): from *)
(* unzipping and the ids of groups to the library, the journal and the     *)
(* numbers in report.json (Run of internal/pipeline).  What happens inside *)
(* one placement is Placement.tla, the dates are Dating.tla.               *)
(***************************************************************************)
EXTENDS Groups, Unzip

CONSTANTS
  Commands,  \* what the zips and the options may be
  Faults,    \* "stop", "preflight", "copy", "place"
  MaxFaults, MaxRuns

ASSUME ReviewConstants ==
  /\ Faults \subseteq {"stop", "preflight", "copy", "place"}
  /\ MaxFaults \in Nat /\ MaxRuns \in Nat /\ MaxAliens \in Nat
  /\ MaxIndex \in Nat \ {0} /\ Ranks \in Nat
  /\ None \notin {"year", "unknown", "placeholders", "not-importable"}
  /\ \A c \in Commands : IsFiniteSet(DOMAIN c.arch) /\ \A d, e \in DOMAIN c.arch :
       /\ d \in Nat /\ c.arch[d].hash \in 0 .. Ranks - 1
       /\ c.arch[d].hash \notin {Nothing, Alien}
       /\ c.arch[d].kind \in {"media", "screenshot", "json", "system", "symlink"}
       /\ c.arch[d].folder \in {"year", "archive", "album", "trash"}
       /\ c.arch[d].hash = c.arch[e].hash => c.arch[d].sig = c.arch[e].sig

VARIABLES
  phase, todo,  \* where the run is, and the groups it has still to handle there
  got,       \* the bytes of each group that was copied or found (sha), by id
  staging,   \* the bytes in the staging folder
  journal,   \* the last record of each id
  files,     \* the library: the folder and the bytes of each file, in order
  report,    \* report.json, or None
  runs, faults,
  confused   \* history: the sizes and CRC32s of which some run could not read a file

results == <<staging, journal, files>>
run == <<phase, todo, groups, got, failed, home>>
vars == <<arch, opt, good, run, results, report, runs, faults, confused,
          disk, partial, complete, aliens, unz>>

Init ==
  /\ \E c \in Commands : arch = c.arch /\ opt = c.opt
  /\ good = {} /\ phase = "off" /\ todo = {} /\ groups = {}
  /\ got = <<>> /\ failed = {} /\ home = <<>>
  /\ staging = {} /\ journal = <<>> /\ files = <<>>
  /\ report = None /\ runs = 0 /\ faults = 0 /\ confused = {}
  /\ UnzipInit

Fault(kind) == kind \in Faults /\ faults < MaxFaults /\ faults' = faults + 1
With(f, id, v) == [i \in DOMAIN f \cup {id} |-> IF i = id THEN v ELSE f[i]]

\* Put and Get of the journal. A record without a file has path 0.
NoRec == [stage |-> "none", hash |-> 0, path |-> 0]
Get(id) == IF id \in DOMAIN journal THEN journal[id] ELSE NoRec
Put(id, stage, hash, path) ==
  journal' = With(journal, id, [stage |-> stage, hash |-> hash, path |-> path])

NoResults == UNCHANGED <<results, report>>
NoUnzip == UNCHANGED <<unzipped, aliens, unz>>

-----------------------------------------------------------------------------
Start(readable) ==
  /\ phase = "off" /\ runs < MaxRuns /\ runs' = runs + 1
  /\ good' = readable
  /\ phase' = IF opt.keep THEN "unzip" ELSE "duplicates"
  /\ todo' = {} /\ groups' = {} /\ got' = <<>> /\ failed' = {} /\ home' = <<>>
  /\ unz' = Idle
  /\ NoResults /\ UNCHANGED <<arch, opt, faults, confused, unzipped, aliens>>

UnzipStep == phase = "unzip" /\ Unzipping /\ NoResults /\ UNCHANGED <<arch, opt, good, run, runs, faults, confused>>

\* The run ends with exit code 2, before it has looked at the results.
UnzipFails ==
  /\ phase = "unzip" /\ CopyFails
  /\ IF Current \in good THEN Fault("copy") ELSE UNCHANGED faults
  /\ phase' = "off"
  /\ NoResults /\ UNCHANGED <<arch, opt, good, todo, groups, got, failed, home, runs, confused, aliens>>

UnzipDone ==
  /\ phase = "unzip" /\ AllUnzipped /\ phase' = "duplicates"
  /\ NoResults /\ NoUnzip
  /\ UNCHANGED <<arch, opt, good, todo, groups, got, failed, home, runs, faults, confused>>

\* "A report from an earlier run must not answer verify for this one."
ConfirmDuplicates ==
  /\ phase = "duplicates" /\ phase' = "copy"
  /\ groups' = Confirm /\ todo' = Confirm /\ report' = None
  /\ confused' = confused \cup {arch[e].sig : e \in Media \ good}
  /\ NoUnzip /\ UNCHANGED <<arch, opt, good, got, failed, home, results, runs, faults>>

\* Too little space, names that the disk refuses, no ExifTool.
Preflight ==
  /\ phase = "duplicates" /\ Fault("preflight") /\ phase' = "off"
  /\ report' = None
  /\ NoUnzip /\ UNCHANGED <<arch, opt, good, todo, groups, got, failed, home, results, runs, confused>>

-----------------------------------------------------------------------------
\* The groups, in order

Turn(p, g) == phase = p /\ g \in todo /\ \A h \in todo : g.canon <= h.canon
Pass(g) == todo' = todo \ {g} /\ UNCHANGED <<arch, opt, good, phase, groups, runs, confused>> /\ NoUnzip
Fail(g) == failed' = failed \cup {g.id}

\* extractGroup: the file of an earlier run, under this id, in the library or
\* in staging.
Resumable(g) ==
  LET rec == Get(g.id)
  IN rec.path # 0 \/ (rec.stage = "tagged" /\ rec.hash \in staging)

LeaveOut(g) ==
  /\ Turn("copy", g) /\ Skipped(g) /\ Pass(g)
  /\ UNCHANGED <<got, failed, home, results, report, faults>>

Adopt(g) ==
  /\ Turn("copy", g) /\ ~Skipped(g) /\ Resumable(g) /\ Pass(g)
  /\ got' = With(got, g.id, Get(g.id).hash)
  /\ home' = IF Get(g.id).path = 0 THEN home ELSE With(home, g.id, files[Get(g.id).path].dir)
  /\ UNCHANGED <<failed, results, report, faults>>

Extract(g) ==
  /\ Turn("copy", g) /\ ~Skipped(g) /\ ~Resumable(g) /\ g.canon \in good /\ Pass(g)
  /\ LET hash == arch[g.canon].hash
     IN /\ got' = With(got, g.id, hash) /\ staging' = staging \cup {hash}
        /\ Put(g.id, "staged", hash, 0)
  /\ UNCHANGED <<failed, home, files, report, faults>>

\* A damaged entry, or a full disk.
ExtractFails(g) ==
  /\ Turn("copy", g) /\ ~Skipped(g) /\ ~Resumable(g) /\ Pass(g) /\ Fail(g)
  /\ IF g.canon \in good THEN Fault("copy") ELSE UNCHANGED faults
  /\ UNCHANGED <<got, home, results, report>>

NextPhase(p, q) ==
  /\ phase = p /\ todo = {} /\ phase' = q
  /\ todo' = {g \in groups : g.id \in DOMAIN got /\ g.id \notin failed}
  /\ NoUnzip /\ NoResults /\ UNCHANGED <<arch, opt, good, groups, got, failed, home, runs, faults, confused>>

\* tagAll: a record of a file that is in staging says so.
Tag(g) ==
  /\ Turn("tags", g) /\ Pass(g)
  /\ IF HomeOf(g) = None /\ ~g.placeholder /\ ~NotImportable(g)
     THEN Put(g.id, "tagged", got[g.id], 0) ELSE UNCHANGED journal
  /\ UNCHANGED <<got, failed, home, staging, files, report, faults>>

StaysPlaced(g) ==
  /\ Turn("place", g) /\ HomeOf(g) # None /\ Pass(g)
  /\ UNCHANGED <<got, failed, home, results, report, faults>>

Place(g) ==
  /\ Turn("place", g) /\ HomeOf(g) = None /\ got[g.id] \in staging /\ Pass(g)
  /\ files' = Append(files, [dir |-> Folder(g), hash |-> got[g.id]])
  /\ home' = With(home, g.id, Folder(g))
  /\ staging' = staging \ {got[g.id]}
  /\ Put(g.id, "placed", got[g.id], Len(files'))
  /\ UNCHANGED <<got, failed, report, faults>>

\* The move fails, and the record of before is written again; or another group
\* has taken the staged file.
PlaceFails(g) ==
  /\ Turn("place", g) /\ HomeOf(g) = None /\ Pass(g) /\ Fail(g)
  /\ IF got[g.id] \in staging THEN Fault("place") ELSE UNCHANGED faults
  /\ UNCHANGED <<got, home, results, report>>

ExitCode == IF failed # {} THEN 3 ELSE 0

Finish ==
  /\ phase = "place" /\ todo = {} /\ phase' = "off"
  /\ report' = [exit |-> ExitCode, counts |-> FillReport, fates |-> [e \in DOMAIN arch |-> Fate(e)],
                skipped |-> Cardinality({g \in groups : Skipped(g) /\ ~Fails(g)}),
                twice |-> Cardinality({g \in groups : g.placeholder /\ Fails(g)}),
                missing |-> UNION {g.members : g \in {h \in groups : Fails(h)}}]
  /\ NoUnzip /\ UNCHANGED <<arch, opt, good, todo, groups, got, failed, home, results, runs, faults, confused>>

\* Ctrl+C, a crash, or a pool that gave up.
Stop ==
  /\ phase # "off" /\ Fault("stop") /\ phase' = "off"
  /\ NoUnzip /\ NoResults
  /\ UNCHANGED <<arch, opt, good, todo, groups, got, failed, home, runs, confused>>

\* At other times it makes no difference.
AddAlien ==
  /\ phase = "unzip" /\ \E z \in Zips, name \in Names : Intrude(z, name)
  /\ NoResults /\ UNCHANGED <<arch, opt, good, run, runs, faults, confused>>

Handle(g) ==
  \/ LeaveOut(g) \/ Adopt(g) \/ Extract(g) \/ ExtractFails(g)
  \/ Tag(g) \/ StaysPlaced(g) \/ Place(g) \/ PlaceFails(g)

Next ==
  \/ \E readable \in SUBSET DOMAIN arch : Start(readable)
  \/ UnzipStep \/ UnzipFails \/ UnzipDone \/ AddAlien
  \/ ConfirmDuplicates \/ Preflight \/ NextPhase("copy", "tags") \/ NextPhase("tags", "place")
  \/ \E g \in groups : Handle(g)
  \/ Finish \/ Stop

Spec == Init /\ [][Next]_vars

-----------------------------------------------------------------------------
\* Properties

Dirs == {"year", "unknown", "placeholders", "not-importable"}
Entry == [stage : {"staged", "tagged", "placed"}, hash : Hashes, path : 0 .. Len(files)]

TypeOK ==
  /\ \E c \in Commands : arch = c.arch
  /\ phase \in {"off", "unzip", "duplicates", "copy", "tags", "place"}
  /\ good \subseteq DOMAIN arch /\ todo \subseteq groups /\ staging \subseteq Hashes
  /\ DOMAIN got \subseteq {g.id : g \in groups} /\ \A id \in DOMAIN got : got[id] \in Hashes
  /\ failed \subseteq {g.id : g \in groups}
  /\ files \in Seq([dir : Dirs, hash : Hashes])
  /\ \A id \in DOMAIN journal : journal[id] \in Entry
  /\ runs \in 0 .. MaxRuns /\ faults \in 0 .. MaxFaults

\* The bytes that belong in the library, and where they are.
Wants(h) == \E e \in Media : arch[e].hash = h /\ (arch[e].folder # "trash" \/ opt.trash)
Copies(h) == {i \in DOMAIN files : files[i].hash = h}
Admitted(h) == \E e \in report.missing : arch[e].hash = h

Ambiguous == {arch[e].sig : e \in {d \in Media : \E c \in Alike(d) : arch[c].hash # arch[d].hash}}

\* A run that ends accounts for each photo: it is in the library once, or a file
\* of it is among the failed ones (README: "failed_files lists each one").  That
\* holds whatever is damaged, repaired, stopped or full in this run and the ones
\* before, for photos that share their size and CRC32 with no other one, or of
\* which every run could read each file that does.
Accounted ==
  \A e \in Media : Wants(arch[e].hash) /\ arch[e].sig \notin Ambiguous \cap confused =>
    \/ Cardinality(Copies(arch[e].hash)) = 1
    \/ Copies(arch[e].hash) = {} /\ Admitted(arch[e].hash)
NothingLost == report # None /\ phase = "off" => Accounted

\* "Subgroup ids come from content, not zip order, so they are the same on
\* every run" (confirmDuplicates), and therefore a run that ends with exit code
\* 0 has every photo in the library.
IdsAreTheSame ==
  report # None /\ report.exit = 0 /\ phase = "off" =>
    \A e \in Media : Wants(arch[e].hash) => Copies(arch[e].hash) # {}

\* The counts of report.json add up (corpus_test.go), exit code 0 says that no
\* entry of the zips ended as an error, and as long as nothing was damaged
\* they are what is in the folders.
Within(dir) == Cardinality({i \in DOMAIN files : files[i].dir = dir})
Counted ==
  LET c == report.counts
  IN /\ c.unique + report.twice = c.failed + c.library + c.unknown + c.notImportable
                                    + c.placeholders + report.skipped
     /\ report.exit = 0 => \A e \in DOMAIN arch : report.fates[e] # "error"
     /\ report.exit = 0 /\ confused = {} =>
          /\ Within("year") = c.library /\ Within("unknown") = c.unknown
          /\ Within("not-importable") = c.notImportable /\ Within("placeholders") = c.placeholders
ReportTrue == report # None /\ phase = "off" => Counted

-----------------------------------------------------------------------------
\* The inductive invariant behind TypeOK: a run begins with nothing, and tags and
\* places only what it has (Review_proofs).  That of unzipping is in Unzip.

RunOK ==
  /\ phase \in {"unzip", "duplicates"} => got = <<>> /\ failed = {} /\ groups = {}
  /\ phase \in {"tags", "place"} => \A g \in todo : g.id \in DOMAIN got

-----------------------------------------------------------------------------
\* The inductive invariant behind NothingLost and ReportTrue (Review_proofs)

\* The content of e can be told: no other one has its size and CRC32, or every
\* run so far could read each file that has them.  Its group's id is then the
\* same in each run, and no other content has that id.
Sure(e) == arch[e].sig \notin Ambiguous \cap confused
IdOf(e) ==
  IF \A d \in Alike(e) : arch[e].hash <= arch[d].hash THEN <<arch[e].sig, 0>>
                                                    ELSE <<arch[e].sig, arch[e].hash>>
NamedFor(id, hash) ==
  \E e \in Media : arch[e].hash = hash /\ id[1] = arch[e].sig /\ (Sure(e) => id = IdOf(e))

\* A record's bytes are those of its id, and are where it says; a file of
\* content that can be told has a record.
IdsOK ==
  /\ \A id \in DOMAIN journal :
       /\ NamedFor(id, journal[id].hash)
       /\ journal[id].path # 0 => files[journal[id].path].hash = journal[id].hash
  /\ \A i \in DOMAIN files : \E e \in Media :
       arch[e].hash = files[i].hash /\ (Sure(e) => Get(IdOf(e)).path = i)

Underway == phase \in {"copy", "tags", "place"}

\* What a run has and what it has placed, by id.
HeldOK ==
  /\ \A id \in DOMAIN got :
       /\ NamedFor(id, got[id]) /\ \E g \in groups : g.id = id /\ ~Skipped(g)
       /\ id \notin DOMAIN home => Get(id).path = 0
  /\ \A id \in DOMAIN home :
       /\ id \in DOMAIN got /\ Get(id).path # 0 /\ Get(id).hash = got[id]
       /\ home[id] = files[Get(id).path].dir

\* A run works on the groups of what it can read, and remembers what it cannot.
Noted == \A e \in Media \ good : arch[e].sig \in confused
WorkOK == groups = Confirm /\ Noted /\ HeldOK

\* No group that is not left out is forgotten on the way.
DoneOK ==
  /\ \A g \in groups : (phase = "copy" => g \notin todo) =>
       Skipped(g) \/ g.id \in failed \/ g.id \in DOMAIN got
  /\ phase = "place" => \A g \in groups \ todo :
       Skipped(g) \/ g.id \in failed \/ g.id \in DOMAIN home

\* The group of e as every run makes it that can read all files, and its folder.
Full(e) ==
  LET members == {d \in Alike(e) : arch[d].hash = arch[e].hash}
      canon   == Canon(members)
  IN [id |-> IdOf(e), members |-> members, canon |-> canon, placeholder |-> Placeholder(members)]
Dest(g) ==
  IF g.placeholder THEN "placeholders" ELSE IF arch[g.canon].doc THEN "not-importable"
  ELSE IF Dated(g) THEN "year" ELSE "unknown"
LibraryOK ==
  confused = {} => \A i \in DOMAIN files : \E e \in Media :
    /\ arch[e].hash = files[i].hash
    /\ ~Skipped(Full(e)) /\ files[i].dir = Dest(Full(e))

ReviewInv ==
  /\ IdsOK /\ LibraryOK
  /\ Underway => WorkOK /\ DoneOK
  /\ phase \in {"unzip", "duplicates"} => home = <<>>
  /\ report # None => ~Underway /\ Accounted /\ Counted
=============================================================================
