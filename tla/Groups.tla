------------------------------- MODULE Groups -------------------------------
(***************************************************************************)
(* The groups of equal files that a run makes of the entries of the zips,  *)
(* and what it decides about each one (groupBy, confirmDuplicates,         *)
(* pickCanon, ledger and fillReport of internal/pipeline).                 *)
(***************************************************************************)
EXTENDS Archive, Naturals, FiniteSets

CONSTANTS
  None,  \* no sidecar time, no folder, no report
  Ranks  \* the hashes of the entries are 0 .. Ranks - 1

VARIABLES
  opt,     \* opt.shots: --exclude-screenshots, opt.trash: --include-trash,
           \* opt.keep: --keep-unzipped
  groups,  \* the groups of the run
  failed,  \* the ids of those that failed (failErr)
  home     \* the folder of each placed group, by id (outRel)

Media == {e \in DOMAIN arch : \/ arch[e].kind = "media"
                              \/ arch[e].kind = "screenshot" /\ ~opt.shots}

Alike(e) == {d \in Media : arch[d].sig = arch[e].sig}

\* hashMember; a member that cannot be read has a key of its own, after every
\* hash.  A file whose size and CRC32 no other one has is not read.
Key(e) == IF e \in good THEN arch[e].hash ELSE Ranks + e

Equal(d, e) == Key(d) = Key(e)
\* Variant (must fail): size and CRC32 are taken for the content.
AlikeOnly(d, e) == TRUE
Confirmed(d, e) == Equal(d, e)

\* The smallest key keeps the id of the group, the others add theirs.
Id(e) == IF \A d \in Alike(e) : Key(e) <= Key(d) THEN <<arch[e].sig, 0>> ELSE <<arch[e].sig, Key(e)>>

Score(folder) ==
  CASE folder = "year" -> 0 [] folder = "archive" -> 1 [] folder = "album" -> 3 [] folder = "trash" -> 4
Before(d, e) ==
  \/ Score(arch[d].folder) < Score(arch[e].folder)
  \/ Score(arch[d].folder) = Score(arch[e].folder) /\ d <= e

\* A small file that three photos or more share.
Placeholder(members) ==
  /\ Cardinality(members) >= 3
  /\ Cardinality({arch[e].taken : e \in members} \ {None}) >= 3
  /\ \A e \in members : arch[e].small

\* pickCanon
Canon(members) == CHOOSE d \in members : \A c \in members : Before(d, c)

GroupOf(e) ==
  LET members == {d \in Alike(e) : d = e \/ Confirmed(d, e)}
      canon   == Canon(members)
  IN [id |-> Id(canon), members |-> members, canon |-> canon, placeholder |-> Placeholder(members)]

Confirm == {GroupOf(e) : e \in Media}

\* A group of trash only is left out, but a placeholder is not.
Skipped(g) == ~g.placeholder /\ arch[g.canon].folder = "trash" /\ ~opt.trash

HomeOf(g) == IF g.id \in DOMAIN home THEN home[g.id] ELSE None
NotImportable(g) == arch[g.canon].doc \/ HomeOf(g) = "not-importable"

\* By the sidecar of the canonical member or of any, or by the file itself.
Dated(g) == \E e \in g.members : arch[e].dated

Folder(g) ==
  IF g.placeholder THEN "placeholders" ELSE IF NotImportable(g) THEN "not-importable"
  ELSE IF Dated(g) THEN "year" ELSE "unknown"

-----------------------------------------------------------------------------
\* The fate of each entry

GroupFate(g) ==
  IF g.id \in failed THEN "error" ELSE IF g.placeholder THEN "placeholder"
  ELSE IF Skipped(g) THEN "excluded-trash"
  ELSE IF NotImportable(g) THEN "not-importable" ELSE "library"

MemberFate(g, e) ==
  IF GroupFate(g) = "error" THEN "error"
  ELSE IF arch[e].folder = "trash" /\ ~opt.trash THEN "excluded-trash"
  ELSE IF arch[e].folder = "album" /\ ~g.placeholder /\ GroupFate(g) # "not-importable"
       THEN "album-clone" ELSE GroupFate(g)

\* What no group has and nothing leaves out is an error.
Fate(e) ==
  LET mine == {g \in groups : e \in g.members}
  IN CASE arch[e].kind = "json" -> "skipped-json"
       [] arch[e].kind = "system" -> "system-file"
       [] arch[e].kind = "symlink" -> "symlink-skipped"
       [] arch[e].kind = "screenshot" /\ opt.shots -> "excluded-screenshot"
       [] OTHER -> IF mine = {} THEN "error" ELSE MemberFate(CHOOSE g \in mine : TRUE, e)

\* fillReport
Fails(g)  == g.id \in failed
\* Variant (must fail): a failed group is counted by its kind as well.
ListedToo(g) == ~g.placeholder /\ ~Skipped(g)
LeftInLibrary(g) == ~Fails(g) /\ ~g.placeholder /\ ~Skipped(g)
Listed(g) == LeftInLibrary(g)
NoDate(g) == ~Dated(g) \/ HomeOf(g) = "unknown"

FillReport ==
  LET listed == {g \in groups : Listed(g)}
      photos == {g \in listed : ~NotImportable(g)}
  IN [unique        |-> Cardinality(groups),
      failed        |-> Cardinality({g \in groups : Fails(g)}),
      placeholders  |-> Cardinality({g \in groups : g.placeholder}),
      notImportable |-> Cardinality({g \in listed : NotImportable(g)}),
      unknown       |-> Cardinality({g \in photos : NoDate(g)}),
      library       |-> Cardinality({g \in photos : ~NoDate(g)})]
=============================================================================
