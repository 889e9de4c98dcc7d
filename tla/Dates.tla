------------------------------- MODULE Dates -------------------------------
(***************************************************************************)
(* The capture date of a file: internal/dates, and pairLive, applyZones    *)
(* and resolveDates of internal/pipeline, as functions of what the sidecar,*)
(* the file's own tags and its name say.  An instant is a number of hours  *)
(* in UTC, a clock the same number at some place: clock = instant + offset.*)
(* The slack of a minute in comparisons is less than the unit.             *)
(***************************************************************************)
EXTENDS Integers, FiniteSets

CONSTANTS
  None,           \* no date, no offset, no identifier
  DayLen,         \* the hours of a day
  YearDays,       \* the days of a year
  Modern, Datable,  \* what InBounds and TakenInBounds accept
  MaxOffset,      \* the largest offset that is one (14 hours)
  Near            \* how far a neighbor may be (36 hours)

ASSUME DateConstants ==
  /\ DayLen \in Nat \ {0} /\ YearDays \in Nat \ {0}
  /\ Modern \subseteq Datable /\ Datable \subseteq Int /\ None \notin Int
  /\ MaxOffset \in Nat /\ Near \in Nat

Day(clock) == clock \div DayLen
YearOf(clock) == Day(clock) \div YearDays
Distance(a, b) == IF a < b THEN b - a ELSE a - b

-----------------------------------------------------------------------------
\* dates.When: a date may have an offset or not; step says where it came from.
When(at, off, source, step) ==
  [ok |-> TRUE, at |-> at, off |-> off, source |-> source, step |-> step]
Undated == [ok |-> FALSE, at |-> 0, off |-> None, source |-> "none", step |-> "none"]

Local(w) == IF w.off = None THEN w.at ELSE w.at + w.off
Year(w) == YearOf(Local(w))

InBounds(t) == t # None /\ t \in Modern
TakenInBounds(t) == t # None /\ t \in Datable
Offsets == -MaxOffset .. MaxOffset
ValidOffset(d) == d # None /\ d \in Offsets

\* Embedded tags: the clock and the offset in them, and the instant they say.
NoTags == [dto |-> None, off |-> None, at |-> None]

\* sc: photoTakenTime, creationTime, and the zone at the position that the
\* sidecar or the file gives.
FromSidecar(sc, emb) ==
  LET taken == TakenInBounds(sc.taken)
      at    == IF taken THEN sc.taken ELSE sc.creation
      src   == IF taken THEN "taken" ELSE "creation"
  IN IF ~taken /\ ~InBounds(sc.creation) THEN Undated
     ELSE IF sc.zone # None THEN When(at, sc.zone, src, "gps")
     ELSE IF ValidOffset(emb.off) THEN When(at, emb.off, src, "embedded-offset")
     ELSE IF emb.dto # None /\ ValidOffset(emb.dto - at)
          THEN When(at, emb.dto - at, src, "dto-minus-utc")
     ELSE When(at, None, src, "")

\* Variant (must fail): the clock is taken for UTC.
ClockAsUTC(emb) == emb.dto
InstantOf(emb) == emb.dto - emb.off

FromEmbedded(emb) ==
  IF ~InBounds(emb.dto) THEN Undated
  ELSE IF ValidOffset(emb.off)
       THEN When(InstantOf(emb), emb.off, "embedded", "embedded-offset")
       ELSE When(emb.dto, None, "embedded", "filename")

FromFilename(name) ==
  IF InBounds(name) THEN When(name, None, "filename", "filename") ELSE Undated

First(w, otherwise) == IF w.ok THEN w ELSE otherwise

\* readEmbedded, then resolveDates, of a file that ExifTool could read or not.
Resolved(f, emb, readable) ==
  First(IF readable THEN First(FromSidecar(f.sc, emb), FromEmbedded(emb)) ELSE Undated,
        First(FromSidecar(f.sc, NoTags), FromFilename(f.name)))

-----------------------------------------------------------------------------
\* Live Photo pairs: file is a sequence of files, the result the partner of
\* each one or 0.
ImageSide(k) == k \in {"jpeg", "heic", "gif"}
VideoSide(k) == k = "video"

Opposite(file, a, b) ==
  \/ ImageSide(file[a].kind) /\ VideoSide(file[b].kind)
  \/ ImageSide(file[b].kind) /\ VideoSide(file[a].kind)

\* Two files, and no more, have one ContentIdentifier.
ById(file, a, b) ==
  /\ a # b /\ file[a].cid # None /\ Opposite(file, a, b)
  /\ {c \in DOMAIN file : file[c].cid = file[a].cid} = {a, b}

\* The last HEIC of a stem, or else its first image, and its only video.
Best(file, imgs) ==
  LET heics == {i \in imgs : file[i].kind = "heic"}
  IN IF heics = {} THEN CHOOSE i \in imgs : \A j \in imgs : i <= j
                   ELSE CHOOSE i \in heics : \A j \in heics : i >= j

SameStem(file, a) == {b \in DOMAIN file : file[b].stem = file[a].stem}
ByStem(file, a, b) ==
  LET imgs == {i \in SameStem(file, a) : ImageSide(file[i].kind)}
      vids == {i \in SameStem(file, a) : VideoSide(file[i].kind)}
  IN imgs # {} /\ Cardinality(vids) = 1 /\ {a, b} = {Best(file, imgs)} \cup vids /\ a # b

\* A file that has a partner gets no other one.
Linked(file, a) == \E b \in DOMAIN file : ById(file, a, b)
Unlinked(file, a, b) == ~Linked(file, a) /\ ~Linked(file, b)
\* Variant (must fail): only one of the two is looked at.
UnlinkedHalf(file, a, b) == ~Linked(file, a)
MayLink(file, a, b) == Unlinked(file, a, b)

Partners(file) ==
  [a \in DOMAIN file |->
     LET good == {b \in DOMAIN file : \/ ById(file, a, b)
                                      \/ ByStem(file, a, b) /\ MayLink(file, a, b)}
     IN IF good = {} THEN 0 ELSE CHOOSE b \in good : TRUE]

Weak(w) == ~w.ok \/ w.source = "filename"

\* A half dated only by its name takes the other half's date.
Shared(w, other) ==
  IF Weak(w) /\ ~Weak(other) THEN [other EXCEPT !.source = "live"] ELSE w
Moments(when, live) ==
  [f \in DOMAIN when |-> IF live[f] = 0 THEN when[f] ELSE Shared(when[f], when[live[f]])]

-----------------------------------------------------------------------------
\* Time zones for the dates that have none

Zoned(when) == {f \in DOMAIN when : when[f].ok /\ when[f].off # None /\ when[f].step # "filename"}

\* Variant (must fail): a wall clock gets the offset of its neighbors.
NoWallClock(w) == FALSE
\* A wall clock stays one.
WallClock(w) == w.step = "filename" \/ w.source = "filename"
NeedsZone(w) == w.ok /\ w.off = None /\ ~WallClock(w)

Neighbor(when, f) ==
  LET d(g) == Distance(when[f].at, when[g].at)
      near == {g \in Zoned(when) : d(g) <= Near}
  IN IF near = {} THEN 0
     ELSE CHOOSE g \in near : \A h \in near : d(g) < d(h) \/ (d(g) = d(h) /\ g <= h)

Common(when) ==
  LET n(g) == Cardinality({h \in Zoned(when) : when[h].off = when[g].off})
  IN IF Zoned(when) = {} THEN 0
     ELSE CHOOSE g \in Zoned(when) :
            \A h \in Zoned(when) : n(g) > n(h) \/ (n(g) = n(h) /\ g <= h)

WithZone(w, off, step) == When(w.at, off, w.source, step)

ApplyFallback(when, tz) ==
  [f \in DOMAIN when |->
     IF ~NeedsZone(when[f]) THEN when[f]
     ELSE IF Neighbor(when, f) # 0 THEN WithZone(when[f], when[Neighbor(when, f)].off, "neighbor")
     ELSE IF tz # None THEN WithZone(when[f], tz, "default")
     ELSE IF Common(when) # 0 THEN WithZone(when[f], when[Common(when)].off, "common")
     ELSE WithZone(when[f], 0, "utc")]

\* A video's date must have an offset: the clock stays, the instant moves.
PinWallClock(w, tz) ==
  IF ~w.ok \/ w.off # None THEN w
  ELSE LET off == IF tz = None THEN 0 ELSE tz
       IN When(w.at - off, off, w.source, IF tz = None THEN "utc" ELSE "default")

ApplyZones(file, when, tz) ==
  [f \in DOMAIN when |->
     LET w == ApplyFallback(when, tz)[f]
     IN IF VideoSide(file[f].kind) THEN PinWallClock(w, tz) ELSE w]
=============================================================================
